# Verification of ProsperApp

ProsperApp is the store application of a night-club company: casts and staff
come to work, guests sit at a table and run up a *slip*, the slip is printed,
paid and credited to the casts, and the business day is closed. The rules are
in PL/pgSQL functions (`Sql/store_rpc`), an ASP.NET Core server passes calls on,
and the pages in the browser (`wwwroot/js/features`) keep commands, drafts and
snapshots of their own. This directory holds TLA+ models of it, the TLC runs
that check them and TLAPS proofs of what matters most.

```
tlc -config MCSlipLedger.cfg MCSlipLedger.tla       one run
tlapm Ledger_proofs.tla                             one module's proofs
```

`PROJECT.json` lists the runs, the lines every definition models, the mutated
definitions each property was tried on, the hazards and the findings.

## Inventory

Paths are relative to `src/ProsperApp`.

| part | state it keeps | operations | hard because |
|---|---|---|---|
| slip ledger: `03`, `04`, `05`, `07`, `08`, `11` of `Sql/store_rpc` | slips, customers, nominations, order lines, pricing lines, adjustments, accounting snapshots, checkouts, payments, credited sales | create, nine editing operations, karaoke, issue, release, confirm, cancel, credit | a dozen tables must agree after any sequence; amounts are fixed at one moment and used at a later one |
| checkout procedures: `26` | stored answer per operation id, revision of the day | issue, release, confirm, cancel (v2) | lost answers, repeated and late requests, two terminals |
| checkout terminal: `business-checkout.js` | pending commands (sessionStorage), kept statements (localStorage), kept receipts, two dialogs | open, issue, release, pay, cancel, reprint, reload | kept data outlives what it was read from |
| business day: `01`, `13`, `20`, `22`, `23`, `27`, `28`, `30` | the day, attendance, drink delivery, drink backs, closing snapshot, stored answers | open, save attendance, save delivery, save backs, close | every form may open the day, noon changes the date, a closed day is immutable |
| attendance, drink and closing pages | pending command, shown editor | edit, send, send again, reload | a form shows the day as it was minutes ago |
| business home: `business-home.js`, `19`, `09` | outbox of operations and quantities (localStorage), batch in flight, projected snapshot, timers | type, flush, apply result, poll, reload | an all-or-nothing batch against an optimistic screen |
| slip editor: `business-slip-editor.js` | sections of one dialog, order queue, rows that only the page has | add, change, remove, queue, send | what is shown is a forecast of what the server will make of it |
| create dialog: `create-slip-modal.js` | form, its one command, the flight it waits for | fill, submit, retry, discard | it joins a flight that may belong to another batch |
| `sync-store.js` | revision and payload per store, requests in flight | hydrate, refresh, replace | answers out of order |
| order entry: `order-entry.js`, `18`, `25` | queue and draft per day, command that waits, polls | add, take out, submit, poll | as the outbox, with a poll that draws the page meanwhile |
| cast sales: `cast-sales-adjustment.js`, `29`, `07` | overview, typed amounts, one kept command for two buttons | save one, confirm all, reload | expected revisions of many slips; answers that patch what is shown |
| receipts: `receipt-work-queue.js`, `21`, `06` | queue, form, outbox (IndexedDB), stored answers | save, skip, exclude, withdraw, edit a failed one | memory, IndexedDB and two database schemas |
| sales history: `sales-history.js`, `31` | list in pages, filter, correction dialog, versions of closing snapshots | load, filter, open, save | several loads under way; writes past the guard of a closed day |
| clean-up: `32` | deletes stored answers after 30 days | nightly | a browser may keep the command for longer |
| masters: `management-master.js`, `management-editor.js`, `16`, `02` | areas with a revision each and one of the whole, one kept command | read, save, switch mode | the store joins areas of different age |
| memory cache: `ApplicationMemoryCache.cs`, `SupabaseStoreMasterBootstrapper.cs` | entries, their registrations, the gate of a department | set, clear all, evict, fetch | two maps without a common lock, callbacks on the thread pool |
| printing: `sii-print-queue.js`, `sii-receipt-printer.js`, `sii-checkout-statement-printer.js` | tail of a promise chain, receipts to print again, receipts printed (localStorage) | enqueue, print, print again, dismiss | a failed job must not stop the queue; results arrive after the slip has moved on |
| access: `00b`, `CurrentUserAccess.cs` | roles per store | check | changes between two calls |

How they interact. Every procedure that changes a store's day starts with
`pg_advisory_xact_lock('store_business_day_state:<department>')`, so two calls
on one store never interleave: one call is one step of the models. What does
interleave is everything around a call. A page makes a command from what it
shows, with an operation id and the revision (`business_ui_revision`) it shows;
it keeps the command until it has a final answer. The procedure first looks for
a stored answer of that id, then compares the revision, then acts. Answers and
polls carry a snapshot of the whole day that replaces what the page shows. The
revision is the only thing that protects a slip from an old screen; triggers on
the row tables move it.

What makes each part correct:

* ledger: rows, documents and status agree; a statement prints what is on the
  slip and stays so until it is released; payments cover it; sales are credited
  for live checkouts only; a second round starts from the entered rows;
* procedures: an operation is applied at most once, exactly when its answer says
  so, and only on what the terminal showed;
* terminal: what is on the screen, on paper and in storage is in force;
* business day: one open day, nothing of a closed day changes, a failed save
  leaves nothing behind, a repeated one is answered the same;
* outboxes (home, orders, receipts) and kept commands (masters, cast sales,
  corrections): nothing is lost or done twice, and the user is told what happened;
* lists and stores: what is shown belongs together, and catches up;
* cache: what is cached can be found and removed, and is read by one at a time;
* printing: one job has the printer, and what failed can be printed again.

## Modules

| module | models | made of |
|---|---|---|
| `SlipLifecycle` | what a slip promises: it is worked on while open, billed once, paid in full, and opened again | five states per slip, with what it charges for, what it was billed and paid |
| `SlipLedger` | the tables of the slips of one day and every function that changes them | `store_slips` ... `store_slip_cast_sales_adjustments` as functions of the slip; one action per function |
| `CheckoutRpc` | the four checkout procedures between terminals and ledger | EXTENDS `SlipLedger`; requests as a set, stored answers, terminals |
| `BusinessDay` | opening, forms and closing of days, with their pages | days, what is entered for each, stored answers, requests, pages, the clock |
| `EditList` | what the home page promises of the operations typed on it: numbered, applied at most once and in order, told as applied | a counter, a log, what was told |
| `HomeSync` | the outbox of the home page, its timers, batches and snapshots, and the procedure that takes a batch | page, storage, calls, answers, the day; implements `EditList` |
| `SlipEditor` | the dialog that edits a slip, the forecast of the page, and what the server makes of an operation | rows of the server, queued operations, the dialog |
| `CreateSlip` | the dialog that opens a slip, on top of the flights of the home page | form, its command, the page's batch, calls |
| `OrderEntry` | the order page with queue, draft, polls and submissions, and its procedure | page, drafts per day, calls, lines inserted |
| `ReceiptQueue` | the receipt page with form, outbox and IndexedDB, and its procedure | page, writes under way, database, calls, stored answers |
| `SalesHistory` | the list of days and the correction of a closed day | list, loads under way, dialog, days, saves |
| `ManagementMaster` | one management page, its SyncStore and its command | page, kept command, reads and saves under way, areas |
| `CastSalesPage` | the adjustment of cast sales before closing | overview, kept command, calls, checkouts and amounts |
| `MasterCache` | the cache of the web server and the requests that fill and empty it | entries, registrations, callbacks, the gate, threads |
| `PrintQueue` | the printing of one terminal | jobs, dialog, what localStorage keeps, the slip |
| `Lists` | what the pages do with lists, `Array.filter` and an ordered query, without recursion | ranks; used by `HomeSync`, `CreateSlip`, `PrintQueue` and `SalesHistory` |
| `Ledger_proofs`, `BusinessDay_proofs`, `HomeSync_proofs`, `CreateSlip_proofs`, `Outboxes_proofs`, `BackOffice_proofs`, `TillAndCache_proofs` | theorems | |
| `Lists_proofs` | lemmas about `Lists` | |
| `MCSlipLedger`, `MCCheckoutRpc`, `MCBusinessDay` | small constants of one module for TLC | |
| `MCHomePage` | the three dialogs and queues of the home page | `HomeSync` twice, `SlipEditor`, `CreateSlip` twice |
| `MCOutboxes` | the two pages with an outbox | `OrderEntry` three times, `ReceiptQueue` four times |
| `MCBackOffice` | the two pages of the office | `ManagementMaster` twice, `SalesHistory` four times |
| `MCTillAndCache` | the cache of the web server and what goes on at the till | `MasterCache` twice, `PrintQueue`, `CastSalesPage` |
| `MCProgress` | what must happen in the end | `HomeSync`, `ReceiptQueue`, `ManagementMaster`, `MasterCache`, `PrintQueue` |

The last five are collections. Their parts share no variables: where one needs a
neighbour it models what it sees of it (`SlipEditor` and `CreateSlip` have the
queue and the batches of the home page in their own, smaller form), so running
two parts at once would only multiply states.
`focus`, chosen in `Init` and never changed, says which part moves; the
others stand still in one initial state. A behaviour of a collection is thus a
behaviour of one part, each part may be there with several sets of constants,
and a property of a part is checked in every state that part can reach.

**SlipLedger.** A row the code voids, cancels or releases is never read again by
the functions modelled and leaves its set; `no` (line numbers, `max(line_no)+1`)
and `issued` (`max(snapshot_version)+1`) remember that a number was used. Amounts
are small numbers, with the real rule for the total: service charge rounded half
away from zero, adjustments applied down to zero. What the automatic pricing
returns is any value of `Quote`; the functions only fix it, as pricing lines and
as the order lines that stand for them. `IssueStatement`, `ReleaseStatement`,
`ConfirmCheckout` and `CancelCheckout` are the effects of the checkout
procedures; their checks on revision and leaving time are in `CheckoutRpc`.
Drink backs of a line, names, times and kinds of nomination are left out: no
property reads them. The editing operations of a batch are single actions here;
a batch is a sequence of them or, when one fails, none.

**CheckoutRpc.** `Serve` is a request that reaches the database: the stored
answer again (`Replay`), a refusal, which is stored as well, or the effect.
Losing a request is never serving it; losing an answer is `GiveUp`, and a late
request is one served after that. `Deny` is an answer of the web server that
never reached the database, which makes the terminal forget its command.
`Command.basis` is not in the request; it remembers what the terminal showed, so
that a property can compare. `OtherStaff` is every other caller.

**BusinessDay.** Day 1 is yesterday, closed; a page shows no day or still
yesterday, a state it is in whenever it was left open. A request, once sent, may
arrive any number of times and at any time: `sent` only grows. `Dated` is the
date the web server adds from `StoreClock`: always for a drink delivery, for
attendance when the form has none. `RowGuard` is the trigger on the day's row and
`Updates` the three updates a close makes. With the code as it is the third is
always rejected, so `EndDay`, the effect a close would have, is never reached
(the first finding). Days closed by earlier versions of the schema are what
`DayInit` starts from. Attendance rows carry a version (`updated_at`) and whether
a clock-out is set; `MoveSlip` stands for paying, cancelling and crediting, which
`SlipLedger` models.

**HomeSync.** Every handler of the page is a function from a page to the page it
leaves, so that a handler that calls three others is one step. Time is only the
order of timers: a timer that is set may fire. A call that the page no longer
waits for may still be served, and an answer may be lost. What an operation does
is a number in the log of the day; a slip has a status and a karaoke quantity. A
slip is closed to edits when its statement is issued (`StaffCloses`) and opened
again by a release or a cancellation (`StaffReopens`, the effects of
`release_checkout_ready` and `cancel_checkout`), until its day is over (`past`).
A page that takes back what was kept leaves out the operations of slips that are
not open just then (`business-home.js:497-503`, `536-541`) and tells nobody:
`NothingForgotten` says that there is no other way for one to disappear.
`ImplementsEditList` maps the log of the day and what the page learned to
`EditList`.

**SlipEditor.** Rows of the server have positive numbers, rows that only the
page shows negative ones, which stand for the ids `temporary:...` that `Number()`
cannot read. `Project` is the forecast of `projectOperation`, `Apply` the branch
of `apply_business_slip_editor_operation_internal`; the property that matters
compares the two.

**CreateSlip.** One form, its command, and the flights of the page, one of which
the dialog may join although the command is not in it. Rows of nominations are
kept and trimmed as the form does. The history holds the commands made, those the
dialog gave up, and whether it gave one up because a request was refused before
the procedure ran (`denied`): the promise of one slip per form holds until then.

**OrderEntry.** A line has the id the page gave it; a command keeps day, revision
and lines of the moment it was made. Two variables of the page say whether
pressing is possible: the flag in flight, which is set before a call, and the
disabled button, which every drawing sets anew. The server passes the page no day
and no slips (`OrderEntryApplicationService.cs:31`), and the page then has a
warning and no form (`Pages/Orders/Index.cshtml:50`): at this commit nothing can be
typed. `DayPassed` says whether the server passes the day, with which the page
would have slip picker, queue and button; `outboxes` runs the script with it. The
script's list of slips is empty at first either way. Slips of the open day go to
checkout and come back.

**ReceiptQueue.** A receipt is a number in the order of the queue and its token a
version. Writes to IndexedDB are done in the order they were asked for, which is
how it serves transactions on one store. A request that raises an exception is
answered 503 and sent again for ever by the page; it is left out of the model.
`Forget` is the nightly clean-up of stored answers. An answer holds the first
receipts of the queue only and can take away the one in the form when that is
further behind (below); `FormStays` is stated for the others. The history notes
when a write failed (`unwritten`) and when an answer was deleted (`forgotten`): two
of the promises hold until then.

**SalesHistory.** A day is a number; of what is corrected the model keeps who
attended, who has drink backs and one value for the rest. A day may be closed with
drink backs missing, when the requirements are ignored
(`22_current_business_day_close.sql:113`); its corrections are then refused until
all are entered, unless attendance and drink backs stay as they are (`Covered`).
The form ticks none by itself when it is filled, and locks those that are required
and ticked (`Filled`, `Synced`). The date the request carries
is part of what the procedure compares, so a correction sent again after the date
turned may be refused although it was applied; `CorrectionTold` speaks of the
same request only. `paging` is the request for a page under way, `asked` the
history of the loads: the list promises nothing when one was asked for while a
page was under way (below).

**ManagementMaster.** The revision of an area is the digest of its contents, so
here it is the contents: it has no order and may come back. Reading takes a whole
store or only what changed, by the revision the page sends.

**CastSalesPage.** The amounts of the casts of a slip are one amount and the
settings of the department constant; loading the overview is one step. `hist`
remembers what a page showed when it made a command.

**MasterCache.** Each access to one of the two maps is a step. A registration is
known by its time, which is taken to differ from every other; the code compares
records, so two registrations of one key within one tick of the clock would be
equal. Callbacks run at any time after the eviction. The gate is a queue, as
`SemaphoreSlim` serves its waiters in practice. `Remove` takes three steps, and
removes the keys that have a lifetime: the current business day, its attending
casts, a file (`SupabaseBusinessDayRepository.cs:71`, `74`, `534`, `537`,
`SupabaseStoreSettingsRepository.cs:96`, `GoogleDriveFileService.cs:120`); the
helpers that remove masters (`StoreMasterCacheKeys.cs:59`) have no caller. `crowded`,
a history, turns true when two requests meet: a part of `CacheFollowsClears` holds
until then (below), the rest always.

**PrintQueue.** A job goes through the calls of the SDK: begin, send, print, stop;
each can fail, `doPrint` before or after the paper came out. The calls that change
the slip are answered at once here; `CheckoutRpc` has them in full. Of the list of
printed receipts the code keeps 200; the model forgets none. A printed receipt is
either asked for by the page or again from the list of failed ones. `known`, a
history, says that a paper of the receipt had been reported when it was asked for;
it stays with the request in the list, as its mark does.

## What the runs check

| run | properties | shows |
|---|---|---|
| `ledger` | `TypeOK`, `DocumentsFollowStatus`, `StatementMatchesRows`, `PaidInFull`, `SalesForLiveCheckout`, `RowsAgree`, `WorkFrozen`, `ImplementsLifecycle` | every sequence of calls on a slip keeps a dozen tables in agreement, what was billed is what is paid, and the tables implement `SlipLifecycle` |
| `rpc_retry` | `RpcTypeOK`, `AnsweredAsApplied`, `OldScreensHarmless`, `ServesLedger` | with lost answers, late requests and repetitions an operation is applied at most once and as answered; an old screen changes nothing and the screen never goes back |
| `rpc_race` | `RevisionDecides` | of two terminals one command wins per revision, and equal revisions show equal contents |
| `day_race` | `OneOpenDay`, `ClosedDayFixed`, `SavesMeetTheScreen`, `RevisionTellsBook` | two pages, a slip and the turn of the date race for the day |
| `day_forms` | `DayTypeOK`, `AnsweredTruly` | every form is applied as answered, leaves no empty day behind and is answered the same when repeated |
| `home_page` | `PageTypeOK`, `TypedIsSafe`, `ScreenForward`, `ImplementsEditList`, `EditorForetells`, `SlipOpenedOnce` | time-outs, losses and reloads: operations once and in order, none forgotten but at a reload with its slip at checkout; the editor foretells the server; one form opens one slip |
| `outboxes` | `BoxTypeOK`, `OrderedOnce`, `ReceiptsOnce` | nothing is lost, ordered or processed twice, over reloads, failed writes and deleted answers |
| `back_office` | `OfficeTypeOK`, `AppliedOnce`, `ToldAsApplied`, `ListMatches`, `CorrectionsHold` | saves of masters and corrections of closed days, whole or with drink backs missing, beside other terminals |
| `till_and_cache` | `TillTypeOK`, `OneFetch`, `CacheFollowsClears`, `PrintedAsKept`, `CastSalesTold` | threads on the cache, jobs of the printer, cast sales before closing |
| `progress` | `PageSettles`, `WaitingEnds` | under fairness everything that waits is answered |
| `day_closing`, `receipt_copy` | `ClosingEndsDay`; `ReprintMarked` | the two findings |

`TypedIsSafe`, `EditorForetells`, `ReceiptsOnce` and the like are conjunctions of
the properties of the modules they bring together, whose comments say what each
means. For every one of those conjuncts its module has a faulty version of a
definition (its comment begins with `Faulty:`), and TLC finds the property
violated when the definition is replaced by it; `PROJECT.json` lists one for each
property.

Instances and bounds.

* `ledger`: one slip, two guests, two casts, four line numbers, two statements.
  One slip is enough: no function reads another slip's rows except through the
  revision. Two casts and two guests let a nomination be doubled and one guest
  leave before another is billed. `MaxIssued = 2` gives a second round after a
  release or a cancellation, where what the first round left would show. An
  adjustment of -100 drives the total to its floor.
* `rpc_retry`: one terminal beside other staff, one operation sent up to twice,
  five changes: a late first and an answered second request. `rpc_race`: two
  terminals with one operation id each, three changes; a conflict concerns two
  commands.
* `day_race`: two pages, a slip, a cast, three business days, three dates. Noon
  passes once before and once after a save, a second day can be opened beside the
  first if nothing stops it. `day_forms`: one page, a cast and a member of staff.
  `MaxRevision` bounds the changes of a day: every change needs a revision below it.
* `home_page`: `HomeSync` with one slip, two operations (for an order), a
  quantity, two of time-out, loss and reload (a lost answer after a late
  request), two days and other staff, and once with slips that go to checkout
  and come back, two operations on one slip over time-outs and reloads;
  `SlipEditor` with two operations on any
  section and one change by other staff, on a slip that is open or at checkout;
  `CreateSlip` with three operations in up
  to three batches, and with two rows of nominations.
* `outboxes`: `OrderEntry` with two slips and two pieces on one day, with one
  piece over two days, and with a slip that goes and comes back, two commands each
  and one call at a time; `ReceiptQueue`
  with two receipts, two commands and two faults, with one receipt and writes
  that fail and tokens that change, with one receipt and stored answers that
  are deleted, and with three receipts when an answer holds two.
* `back_office`: two areas of two contents, so that contents come back, and one
  area in both modes of the session, two commands and two foreign changes; five
  days in pages of two (a gap needs three pages, the last shorter), two saves of
  one day beside another terminal, two casts of whom any may attend without a
  drink back, and two openings of the form.
* `till_and_cache`: one request at a time, five of them with late callbacks, and
  two threads that meet at every step, `Remove` among them; four print jobs, three dialogs, two
  statements, a reload, and a list of failed receipts that is full with the
  second one; two slips of cast sales, two commands under way at once, a reload.
* `progress`: the smallest instance of each part in which something waits, with
  slips that go to checkout and come back, and with the administrator mode
  switched at any time.
* `receipt_copy`: one statement, four jobs, no reload.

Deadlock is not checked where the bounds are used up by design: revisions, days,
operations and calls all run out.

Fairness. Five modules state it, each for itself, and `ProgressFairness` of
`MCProgress` joins them; nothing else assumes any.

* `HomeFairness`: timers that are set fire, requests are served, answers that
  arrive are handled, and the polls of the page run. No message is lost in this
  run: after a time-out the page may stay silent for ever (below). Reloads are
  bounded by `MaxFault`: a page that is reloaded for ever promises nothing.
* `ReceiptFairness`: the retry timer, the load, the service and the writes. The
  user owes nothing. Answers may be lost, as often as `MaxFault` says.
* `MasterFairness`: the read on the `focus` event, its answer, and that the user
  presses again the button of a command whose result is unknown, which the page
  asks for and nothing else can be saved before. A command that was answered in the
  other mode of the session is refused as another request and stays, until the mode
  is switched back: `CommandsEnd` excepts it (`OtherMode`). `CatchesUp` is checked with one
  area; with two the code does not keep it (below).
* `CacheFairness`: a request that is under way goes on; the thread pool need not
  run a callback.
* `PrintFairness`: the first job goes on, that is, the printer answers every
  call. The code has no time-out for it: a printer that never answers keeps the
  queue for ever.

## Findings

Two runs state what the documents say, and TLC finds it violated by what the code
does. `PROJECT.json` quotes the lines.

1. `day_closing`: `close_business_day_v2` moves the revision of the row it has
   just closed; the guard of closed rows rejects that and undoes the close.
2. `receipt_copy`: two receipts of a checkout, the second asked for before the
   first was reported, are both unmarked; when the second fails, it waits in the
   list and is printed from there without saying that it is a copy, although the
   first one came out (`sii-receipt-printer.js:488`).

### What the documents say and the code does not do

Met while modelling, each at the line where the code decides it. They are not
runs. Where one touches a property of a module, that property is stated for the
cases the code does handle, and says so. The text that says otherwise is in
parentheses; a number alone is a line of `docs/requirements-definition.md`.

Checkout and business day

* `business-checkout.js:507`: a statement kept in localStorage is shown, and
  payment is taken for it, although another terminal released it and issued a new
  one (`:147`). The database refuses the
  confirmation when the total differs.
* `business-checkout.js:648`: the receipt kept in sessionStorage is printed
  although its checkout was cancelled from another terminal and taken again
  (`:156`).
* `business-checkout.js:83`: after an unknown answer the kept confirmation can be
  sent again only while the dialog stays open; closing it or loading the page
  empties the amounts, the inputs are locked because a command is pending, and
  the validation then refuses to send it (`:239`).
* `Pages/Closing/Index.DrinkDelivery.cs:67`: the business date of a drink delivery
  is taken from the clock on arrival and is part of what is compared, so a
  repetition after noon is answered with a conflict
  (`23_current_business_day_drink_delivery.sql:1`).
* `30_current_drink_back_adjustments.sql:452`: a cast of another store of the
  company can be at work and is then required in the drink backs, which accept
  only casts of this store (`:173`).
* `01_business_day.sql:247`: a clock-out that is cleared in the form stays in the
  row (`:98`).
* When one of the two groups of an attendance form lists people and selects none,
  the save is refused even if the other group is complete.
* FR-08 speaks of refusing a second nomination of one cast; the code allows it
  behind an explicit flag.

Home page

* `business-home.js:1829`: after a time-out on a working link no timer sends the
  batch again, although the notice promises it.
* `business-home.js:1611`: a new day whose revision equals the one shown is
  answered `unchanged` (`:110`).
* `business-home.js:502`: a reload drops, silently, the operations of a slip that
  is not open just then (`:127`); they do not come back when it is opened again.
* `business-home.js:622`: a quantity set back to the one shown while another is on
  its way is lost (`:126`).
* `business-home.js:553`: a quantity typed on an old screen replaces a newer one
  (`:240`).
* `business-slip-editor.js:845`: a customer who is still pending is offered for
  changes that the server always refuses, with the whole batch (`:124`).
* `business-slip-editor.js:496`: the question at line 1044, before a typed
  adjustment is lost, is never asked: the inputs have other names.
* `create-slip-modal.js:597`: a command the dialog gave up stays in the batch of
  the page and may open a second slip (`:288`).

Orders, receipts, history

* `order-entry.js:304`: lines of a slip that went to checkout stay in the queue, so
  that every submission is refused (`:138`).
* `Pages/Orders/Index.cshtml:50`: the order page never has its form, since the server
  passes it no day.
* `order-entry.js:705`, of the script only: any answer clears the command that waits,
  also the answer to an earlier one, and a poll enables the button meanwhile
  (`:584`); a command whose answer is then lost is ordered again under a new id
  (`:258`). `OrderedOnce` is stated for one submission at a time (`OneSubmission`).
* Two tabs of one browser share the order draft of a day; the last writer wins.
* `receipt-work-queue.js:232`: a failed command is edited by its place in the list,
  which another press may have moved (`docs/system-specification.md:227`).
* `receipt-work-queue.js:184`: the answer to an earlier command replaces the
  receipt in the form when that is not among the first six of the queue
  (`:206`).
* `receipt-work-queue.js:237`: a failed write takes back a later command as well
  (`docs/system-specification.md:227`).
* `sales-history.js:301`: dates changed while a page is loading are never read; the
  page of the old dates is appended (`:192`).
* `sales-history.js:722`: the editor of a day opened before takes the form
  (`docs/system-specification.md:386`).

Masters, cast sales, cache, printing

* `management-master.js:133`: the answer to a save puts one area under the revision
  of all areas, and what changed in the others is not read
  (`docs/system-specification.md:408`).
* `16_management_master_snapshot.sql:193`: a command sent again in the other mode of
  the session is refused until the mode is switched back, and every other save with
  it.
* `management-master.js:122`: a save after a conflict conflicts again, although the
  notice asks for it (`16_management_master_snapshot.sql:228`).
* `cast-sales-adjustment.js:350`: an old amount under a new revision, brought by the
  answer to a resend, is written over a newer one by the next confirmation
  (`:240`).
* `cast-sales-adjustment.js:400`: a save takes the place of a confirmation without
  an answer, which then cannot be sent again as line 455 asks.
* `cast-sales-adjustment.js:496`: a kept save is sent from the form of any slip,
  which then says that it was saved (line 426).
* `SupabaseStoreMasterBootstrapper.cs:73`: masters read before a save are cached
  after it, without a lifetime (`docs/system-specification.md:405`).
* `ApplicationMemoryCache.cs:57`: a `ClearAll` between the registration and the
  entry leaves an entry that no later `ClearAll` finds.
* `sii-receipt-printer.js:504`: a second receipt asked for before the first job has
  ended does not say that it is a copy (`:162`).
* `business-checkout.js:574`: a statement released while it prints, its dialog left,
  is kept again when the job ends (`:147`).
* `sii-receipt-printer.js:509`: the receipt of a cancelled checkout is put on the
  list of receipts to print again when its job fails (`:156`).

## Proofs

For every value of the constants, from the assumptions stated with them:

* `Ledger_proofs`, the tables: `TypeCorrect`; `DocumentsCorrect`, `StatementCorrect`,
  `PaymentCorrect` and `SalesCorrect`; `RowsCorrect`; `WorkStaysFrozen`; and
  `LedgerImplementsLifecycle`, that every behaviour of the ledger is one of the
  abstract life cycle. The invariants are proved together with the types: that a
  payment covers its statement needs that there is exactly one live checkout and
  that it carries the statement of the one active snapshot, which in turn needs
  the rows to stay as they were when it was made. That the rows agree with each
  other (`RowsInv`) is proved beside it, action by action.
* `Ledger_proofs`, the checkout procedures: `RpcServesLedger`, that a step of the
  whole system is a step of the ledger or leaves it alone, so the theorems of the
  ledger hold behind the network (`RpcPaymentCorrect`); `RpcAppliedOnce`, from the
  invariant that an operation id without a stored answer was never applied; and,
  from `RpcTypeCorrect`, `RpcRevisionDecides` and `RpcOldScreensHarmless`. Those two
  rest on `ViewsInv`: every snapshot that a terminal, a command or an answer holds
  is of a revision that has been, no two of one revision differ, and the one of the
  current revision is what the ledger holds. A command that passes the comparison of
  revisions was therefore made from what it finds, and moves the revision, so that
  no other made beside it can pass.
* `BusinessDay_proofs`: `DayOpensOnce` and `ClosedDayKept`. Alone, neither is
  inductive: a change of the *current* day disturbs a closed one unless at most
  one day is open, so that the current day is not closed. `DayInv` joins the two
  with the shape of the variables. `DayTyped`, `SavesMatchScreens`,
  `RevisionsTellBooks` and `AnswersTrue` follow from `CallsInv`: what a page, a
  request or a stored answer remembers of a day is a revision of it with the
  contents at that revision, no two of them disagree and none is ahead of the day
  (`KnownInv`); a request that is outdated stays so; and what is kept of an
  operation says what it did, so that the repetition is told the same.
* `HomeSync_proofs`: `HomeImplementsEditList`, the refinement of `EditList`, and
  what it carries over, `HomeOnceInOrder` and `HomeToldAsApplied` (what `EditList`
  promises of any number of operations, from `EditInv`);
  `HomeTypedIsSafe`; `HomeScreenForward`. `HomeInv` says that the page holds what
  is stored or starts over; that the queue and the batches (kept, on their way or
  answered) have no operation in common, in the order of typing, but for the kept
  batch, which is at the head of the queue; that nothing anybody knows of the day
  is newer than the day; and that there is one answer per batch, which says what
  the log of the day holds and what the page was told. A new batch is made only
  when none is kept, from all that is queued. Why the log stays in order is then
  the comparison of revisions: a batch of the current revision was made when all
  that took effect had been answered and had left the queue, so it comes after.
  Its repetition finds its answer, or operation ids that were answered. Every
  handler is shown once to do one of six things to the queue, the screen and what
  was told (`Does`), and the theorems are proved from these. `TypedIsSafe` is an
  action property: a step that takes back what was kept may leave out what concerns
  a slip that is not open, every other keeps it until it is told. For it, `SafeInv` adds that the queue holds operations as they were typed and each that
  nobody was told about, and that a page that starts over sees the slips of what
  it kept in the snapshot it waits for.
* `CreateSlip_proofs`: `FormOpensOneSlip`, all of `SlipOpenedOnce`. From `CreateInv`:
  operations are told apart by their ids; there is one answer per batch, and only
  the batch that is kept can still be carried out, however late its requests come;
  the command in the dialog is made by no other; a command that was given up is
  neither made, nor queued, nor in a batch without an answer, as long as none was
  given up on a refusal; and all commands of a form but one are given up.
* `Outboxes_proofs`: `PiecesOrderedOnce`, for every behaviour in which the page
  does not send while it waits (`OneSubmission`), without which the script can
  order twice (above). `OrderInv` follows a piece from the queue
  into a command, its calls, the stored answer and the lines of the day, and says
  that each is in one of those places. `ReceiptsProcessedOnce`, without such a
  condition: `QueueInv` says that memory and IndexedDB differ by the writes that
  are still to be done, that all copies of a command are the same, that a command
  without a stored answer has processed nothing, and that whatever was told to be
  kept is in the outbox or was answered.
* `BackOffice_proofs`, the history: `HistoryListsMatch` and `CorrectionsKept`, from
  `HistoryInvariant`. The list is a falling run of its filter without a gap, and
  the page asked for next begins where it ends, until a load meets a page under
  way (`ListInv`; `RunGrows` and `PageExtends` add a page to a run). For the form,
  `SeenInv`: whoever holds a version of a day holds the rows it was read with, so
  that a save of the current version replaces only what its form had shown. Who
  attends without a drink back on the form did so when it was filled (`FormHeld`),
  and the same is carried to the days by each correction (`OnlyGains`); no day is
  assumed to have been closed with all of them.
* `BackOffice_proofs`, the masters: `MasterTyped`, `MasterAppliedOnce` and
  `MasterToldAsApplied`, for any areas, contents, commands and faults. `MasterInv`
  adds that all requests with one id ask the same, and that a command without a
  stored answer has changed nothing: only then is a repetition harmless.
* `TillAndCache_proofs`, cast sales: `CastSalesToldAsApplied`, inductive with the
  records of requests and answers, one request and one stored answer per operation
  id, and that an answer on its way is the stored one; and `CastSalesShownAsStored`,
  all of `CastSalesTold`. `ShowInv` compares what the page, the requests and the
  answers hold with the amounts the server had at their revision; it holds until an
  answer comes that is older than the page.
* `TillAndCache_proofs`, the cache: `MastersFetchedOnce`, for any number of threads.
  That two never read at once is not inductive: `CacheInv` says that whoever reads,
  or has the payload still to cache, is first at the gate, that after the payload
  only the lists are to come, and that nothing is cached while somebody reads.
  `CacheIsCleared`: a registration without an entry has a thread or a callback that
  will take it away, in every interleaving, `Remove` included; and, as long as there is one request at
  a time, an entry is registered, read after the last save and met by `ClearAll`.
* `TillAndCache_proofs`, printing: `PrintsAsKept`. Only the first job has begun;
  a receipt asked for after a paper was reported carries its mark through the list of
  failed ones and back to the printer; and the
  statement that is kept is the one of the dialog whose job still keeps it
  (`PrintInv`), until a dialog is left while it prints.
* `Lists_proofs`: the rank of an element in a finite set of numbers is a bijection
  (`Nth` takes it back), what a filter of a list keeps, and in which order.

The assumptions on constants are no more than that there is something to choose:
an amount can be entered and is told from an empty field (`DayAssumption`), a
command can be sent once (`RpcAssumption`), there is a day (`OrderAssumption`,
`HistoryAssumption`), a page, an answer or a list holds at least one element
(`HistoryAssumption`, `ReceiptAssumption`, `PrintAssumption`), an amount is typed
within its range (`CastSalesAssumption`), an empty row is told from a cast
(`CreateAssumption`), a bound is a number. `HomeInv`, `SafeInv`,
`ListInv`, `SeenInv` and `CreateInv` were checked with TLC before they were proved:
the first two on instances with two slips, three operations and three faults, the
others on those of `back_office` and `home_page`, the last also with refusals.
`HomeSync`, `CreateSlip`, `PrintQueue` and `SalesHistory` take elements out of a
list by their rank, since the provers know nothing of `SelectSeq`.

Only model-checked:

* all liveness, which the prover does not do;
* the bounds in `HomeTypeOK`, `PageTypeOK`, `BoxTypeOK`, `OfficeTypeOK` and
  `TillTypeOK`, which are those of the instances; the proofs have types of their
  own, without bounds;
* `EditorForetells`: what the dialog of a slip shows is a fold of its operations over
  rows, so that comparing it with the server is an induction over a list.

## Not modelled

Rendering, layout and the printers themselves; Google Drive beyond its cache;
migrations and grants (deployment only); read models and the daily report
(queries without state); access control beyond its refusals. The pricing
algorithm is planned. Of the modelled parts: the contents of accounting
documents, amounts of drink backs, clock times beyond their order, the
suggestion of cast sales amounts, the rows of a master area. `PROJECT.json` says
so component by component.

## Plan

In the order of what a failure costs.

1. `Pricing`: `calculate_slip_pricing` as a function, against a per-minute
   reference definition, in a module that only TLC uses; `Quote` of the ledger
   then comes from it.
2. `SalesHistory` composed with `BusinessDay`: a correction while the next day is
   opened and closed; the clean-up of stored answers for every table.
3. Roles and stores that change between two calls (`00b`).
