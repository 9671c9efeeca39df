------------------------------ MODULE MCProgress ------------------------------
(***************************************************************************)
(* What must happen in the end, for TLC: change batches (HomeSync), the     *)
(* receipt outbox (ReceiptQueue), saves of masters (ManagementMaster), the  *)
(* requests of the web server (MasterCache) and print jobs (PrintQueue),    *)
(* each under the fairness of its module.  They share no state: `focus'     *)
(* says which one moves, the others stand still.                            *)
(***************************************************************************)
EXTENDS HomeSync

CONSTANTS s1, a1, v1, v2, t1, t2

VARIABLES
    focus,                                                                \* the part that moves
    receipts, disk, outbox, view, load, flight, timer, writes, lateCommands, sends,  \* ReceiptQueue
    content, store, pend, mut, lateSaves, read, saves,                    \* ManagementMaster
    masters, entries, registrations, evicted, gate, threads, requests,    \* MasterCache
    slip, kept, till, jobs, prints                                        \* PrintQueue

Queue == INSTANCE ReceiptQueue WITH
    MaxDoc <- 1, MaxCommand <- 2, MaxVersion <- 0, MaxFault <- 1, Window <- 1,
    BadWrites <- FALSE, Forgets <- FALSE, late <- lateCommands, hist <- sends

Masters == INSTANCE ManagementMaster WITH
    Area <- {a1}, Value <- {v1, v2}, Admin <- TRUE, MaxOp <- 1, MaxForeign <- 1, MaxFault <- 2,
    db <- content, late <- lateSaves, hist <- saves

Cache == INSTANCE MasterCache WITH
    Thread <- {t1, t2}, MaxCall <- 2, MaxMaster <- 1, hist <- requests

Printing == INSTANCE PrintQueue WITH
    MaxKept <- 1, MaxIssue <- 1, MaxOpen <- 1, MaxJob <- 3, MaxTillReload <- 1

receiptVars == <<receipts, disk, outbox, view, load, flight, timer, writes, lateCommands, sends>>
masterVars == <<content, store, pend, mut, lateSaves, read, saves>>
cacheVars == <<masters, entries, registrations, evicted, gate, threads, requests>>
printVars == <<slip, kept, till, jobs, prints>>
progressVars == <<focus, homeVars, receiptVars, masterVars, cacheVars, printVars>>

ProgressInit ==
    /\ focus \in {"home", "receipts", "masters", "cache", "printing"}
    /\ HomeInit /\ Queue!ReceiptInit /\ Masters!MasterInit /\ Cache!CacheInit /\ Printing!PrintInit
    /\ focus # "home" => \A s \in Slip : db.status[s] = "open"
    /\ focus # "masters" => content.content[a1] = v1

OnHome(Step) == focus = "home" /\ Step /\ UNCHANGED <<focus, receiptVars, masterVars, cacheVars, printVars>>
OnQueue(Step) == focus = "receipts" /\ Step /\ UNCHANGED <<focus, homeVars, masterVars, cacheVars, printVars>>
OnMasters(Step) == focus = "masters" /\ Step /\ UNCHANGED <<focus, homeVars, receiptVars, cacheVars, printVars>>
OnCache(Step) == focus = "cache" /\ Step /\ UNCHANGED <<focus, homeVars, receiptVars, masterVars, printVars>>
OnPrinting(Step) == focus = "printing" /\ Step /\ UNCHANGED <<focus, homeVars, receiptVars, masterVars, cacheVars>>

ProgressNext ==
    \/ OnHome(HomeNext)
    \/ OnQueue(Queue!ReceiptNext)
    \/ OnMasters(Masters!MasterNext)
    \/ OnCache(Cache!CacheNext)
    \/ OnPrinting(Printing!PrintNext)

(* The part that moves has the fairness of its module: HomeFairness,        *)
(* ReceiptFairness, MasterFairness, CacheFairness, PrintFairness.           *)
ProgressFairness ==
    /\ WF_progressVars(OnHome(TimerFires))
    /\ WF_progressVars(OnHome(\E b \in calls : Serve(b)))
    /\ WF_progressVars(OnHome(Receive))
    /\ WF_progressVars(OnHome(AskSnapshot))
    /\ WF_progressVars(OnHome(LoadSlips))
    /\ WF_progressVars(OnQueue(Queue!RetryFires))
    /\ WF_progressVars(OnQueue(Queue!ServeLoad))
    /\ WF_progressVars(OnQueue(Queue!Loaded(TRUE)))
    /\ WF_progressVars(OnQueue(\E ok \in BOOLEAN : Queue!ServeHead(ok)))
    /\ WF_progressVars(OnQueue(Queue!Refused \/ Queue!ReceiveAnswer))
    /\ WF_progressVars(OnQueue(Queue!Wrote))
    /\ WF_progressVars(OnMasters(Masters!Refresh))
    /\ WF_progressVars(OnMasters(Masters!ServeRead))
    /\ WF_progressVars(OnMasters(Masters!ReadArrives))
    /\ WF_progressVars(OnMasters(Masters!PressAgain))
    /\ WF_progressVars(OnMasters(\E ok \in BOOLEAN : Masters!Serve(ok)))
    /\ WF_progressVars(OnMasters(Masters!Receive))
    /\ \A t \in {t1, t2} : WF_progressVars(OnCache(Cache!Works(t)))
    /\ WF_progressVars(OnPrinting(Printing!JobWorks(1)))

ProgressSpec == ProgressInit /\ [][ProgressNext]_progressVars /\ ProgressFairness

-----------------------------------------------------------------------------
(* Every operation typed on the home page is answered, unless its slip is   *)
(* at checkout or was so when a reload left the operation out, and the page *)
(* comes to show what the server holds, however often it is reloaded        *)
(* (business-home.js), when no message is lost.                             *)
PageSettles == EverySettled /\ (focus = "home" => ScreenCatchesUp)

(* Whatever is lost, the receipt outbox is emptied, in IndexedDB too, each  *)
(* save of a master ends, unless the administrator mode was switched after  *)
(* the server answered it (OtherMode), and the page shows the masters of    *)
(* the server, every request of the web server gets past the gate, and a    *)
(* press of the receipt button does not lock the page for ever              *)
(* (receipt-work-queue.js, management-master.js, Sql/store_rpc/             *)
(* 16_management_master_snapshot.sql:205,                                   *)
(* SupabaseStoreMasterBootstrapper.cs, sii-print-queue.js).                 *)
WaitingEnds ==
    /\ Queue!Drains
    /\ Masters!CommandsEnd /\ (focus = "masters" => Masters!CatchesUp)
    /\ Cache!EveryRequestEnds
    /\ Printing!Unlocked
=============================================================================
