---------------------------- MODULE MCTillAndCache ----------------------------
(***************************************************************************)
(* The cache of the web server (MasterCache, for one request at a time and  *)
(* for two), the printing of the till (PrintQueue) and the adjustment of    *)
(* cast sales before closing (CastSalesPage), for TLC.  They share no       *)
(* state: `focus' says which one moves, the others stand still, so that     *)
(* their states add up and do not multiply.                                 *)
(***************************************************************************)
EXTENDS MasterCache, CastSalesPage, PrintQueue, TLC

CONSTANTS t1, t2, s1, s2

VARIABLE focus  \* the part that moves

Alone == INSTANCE MasterCache WITH Thread <- {t1}, MaxCall <- 5, MaxMaster <- 2

ASSUME Alone!MasterCacheAssumption

tillVars == <<focus, cacheVars, printVars, castSalesVars>>

OnAlone(Step) == focus = "alone" /\ Step /\ UNCHANGED <<focus, printVars, castSalesVars>>
OnCrowd(Step) == focus = "crowd" /\ Step /\ UNCHANGED <<focus, printVars, castSalesVars>>
OnPrinting(Step) == focus = "printing" /\ Step /\ UNCHANGED <<focus, cacheVars, castSalesVars>>
OnCastSales(Step) == focus = "cast sales" /\ Step /\ UNCHANGED <<focus, cacheVars, printVars>>

TillInit ==
    /\ focus \in {"alone", "crowd", "printing", "cast sales"}
    /\ CacheInit /\ PrintInit /\ CastSalesInit
    /\ focus # "cast sales" => \A s \in {s1, s2} : db.slips[s].checkout = 1

CrowdNext ==
    \/ \E t \in Thread, call \in Call : OnCrowd(Begin(t, call))
    \/ \E t \in Thread :
        \/ OnCrowd(Register(t)) \/ OnCrowd(Store(t)) \/ OnCrowd(TakeList(t))
        \/ OnCrowd(RemoveEntry(t)) \/ OnCrowd(RemoveListed(t)) \/ OnCrowd(Cleared(t))
        \/ OnCrowd(FindRegistration(t)) \/ OnCrowd(DropEntry(t)) \/ OnCrowd(DropRegistration(t))
        \/ OnCrowd(Ensure(t)) \/ OnCrowd(Enter(t)) \/ OnCrowd(Cancel(t))
        \/ OnCrowd(Fetch(t)) \/ OnCrowd(FetchFails(t)) \/ OnCrowd(Save(t))
    \/ OnCrowd(RunCallback) \/ OnCrowd(Expire)

PrintingNext ==
    \/ \E i \in 1..Len(jobs) :
        \/ OnPrinting(Start(i)) \/ OnPrinting(SendSections(i))
        \/ OnPrinting(DoPrint(i)) \/ OnPrinting(Stop(i)) \/ OnPrinting(StopBroken(i))
    \/ OnPrinting(Retry) \/ OnPrinting(DismissReceipt)
    \/ OnPrinting(Issue) \/ OnPrinting(Open) \/ OnPrinting(Close)
    \/ OnPrinting(PrintStatement) \/ OnPrinting(Release)
    \/ OnPrinting(Confirm) \/ OnPrinting(PrintReceipt)
    \/ OnPrinting(CancelCheckout) \/ OnPrinting(ReloadTill)

AdjustNext ==
    \/ OnCastSales(LoadOverview)
    \/ \E s \in {s1, s2} : OnCastSales(OpenEditor(s))
    \/ OnCastSales(Type(1)) \/ OnCastSales(SubmitForm)
    \/ OnCastSales(PressConfirm) \/ OnCastSales(Dismiss)
    \/ OnCastSales(Reload)
    \/ \E c \in calls :
        \/ OnCastSales(Serve(c)) \/ OnCastSales(Receive(c))
        \/ OnCastSales(Unknown(c)) \/ OnCastSales(Gone(c))
    \/ \E s \in {s1, s2}, detail \in Detail : OnCastSales(ChangeElsewhere(s, detail))

TillNext == CrowdNext \/ OnAlone(Alone!CacheNext) \/ PrintingNext \/ AdjustNext
TillSpec == TillInit /\ [][TillNext]_tillVars

(* The slips are alike. *)
Alike == Permutations({s1, s2})

-----------------------------------------------------------------------------
(* The types of the three parts. *)
TillTypeOK ==
    /\ IF focus = "alone" THEN Alone!CacheTypeOK ELSE CacheTypeOK
    /\ PrintTypeOK /\ CastSalesTypeOK
=============================================================================
