----------------------------- MODULE MasterCache -----------------------------
(***************************************************************************)
(* The cache of the web server                                              *)
(* (Infrastructure/Caching/ApplicationMemoryCache.cs) with the requests     *)
(* that fill it and empty it: the masters of a store, read once for         *)
(* everybody (Infrastructure/Supabase/SupabaseStoreMasterBootstrapper.cs),  *)
(* what is cached for a time (the current business day, files of Google     *)
(* Drive), a saved master and the button of the settings.                   *)
(*                                                                          *)
(* The memory cache and the dictionary of registrations are safe for        *)
(* threads one by one; nothing joins them.  A registration is known by its  *)
(* time, which is taken to be different for every registration.             *)
(***************************************************************************)
EXTENDS Integers, FiniteSets, Sequences

CONSTANTS
    Thread,    \* requests the web server works on at once
    MaxCall,   \* bound: requests made
    MaxMaster  \* bound: changes of the masters

ASSUME MasterCacheAssumption == MaxCall \in Nat /\ MaxMaster \in Nat

VARIABLES
    masters,        \* version of the masters in the database
    entries,        \* _memoryCache: at most one entry for a key
    registrations,  \* _registrations: at most one for a key
    evicted,        \* post-eviction callbacks that wait for the thread pool
    gate,           \* DepartmentLocks: the first thread holds it, the others wait
    threads,        \* where each request is
    hist            \* history: requests and registrations made, version that the
                    \* cache was emptied for, whether two requests have met

cacheVars == <<masters, entries, registrations, evicted, gate, threads, hist>>

(* "payload" is the answer of the bootstrap call, "list" every list that is *)
(* taken out of it and cached by itself, "timed" what is cached for a time: *)
(* a file of Google Drive, the current business day, its attending casts.   *)
Key == {"payload", "list", "timed"}
Master == {"payload", "list"}
Call == {"list", "home", "timed", "remove", "clear", "save"}
Stamp == 1..(3 * MaxCall)  \* a request puts at most three entries into the cache
Entry == [value : 0..MaxMaster, stamp : Stamp]
Listed == [key : Key, stamp : Stamp]

Idle == [at |-> "idle", value |-> 0, stamp |-> 0, todo |-> <<>>, left |-> {}, met |-> {}]

Place == {"idle", "ensure", "waiting", "fetching", "setting", "storing", "saving", "clear", "clearing", "unlisting",
          "remove", "removing", "removed"}

Quiet == \A t \in Thread : threads[t].at = "idle"
Goes(t, frame) == threads' = [threads EXCEPT ![t] = frame]
At(t, place) == threads[t].at = place
Holds(t) == gate # <<>> /\ Head(gate) = t

-----------------------------------------------------------------------------
(* ApplicationMemoryCache *)

Contents == UNION {{[key |-> k, stamp |-> e.stamp] : e \in entries[k]} : k \in Key}
Registered == UNION {{[key |-> k, stamp |-> r] : r \in registrations[k]} : k \in Key}

(* The callbacks of the entry that a key has. *)
CallbacksOf(k) == {[key |-> k, stamp |-> e.stamp] : e \in entries[k]}

(* Faulty: whatever the key has now is taken out. *)
UnregisterKey(item) == registrations' = [registrations EXCEPT ![item.key] = {}]

(* RemoveRegistration: key and registration have to agree. *)
Unregister(item) == registrations' = [registrations EXCEPT ![item.key] = @ \ {item.stamp}]

(* Faulty: the registration is added to those the key has. *)
RegisterBeside(t) ==
    /\ At(t, "setting")
    /\ registrations' = [registrations EXCEPT ![Head(threads[t].todo)] = @ \cup {hist.stamp + 1}]
    /\ hist' = [hist EXCEPT !.stamp = @ + 1]
    /\ Goes(t, [threads[t] EXCEPT !.at = "storing", !.stamp = hist.stamp + 1])
    /\ UNCHANGED <<masters, entries, evicted, gate>>

(* Set, until _registrations[key] = registration *)
Register(t) ==
    /\ At(t, "setting")
    /\ registrations' = [registrations EXCEPT ![Head(threads[t].todo)] = {hist.stamp + 1}]
    /\ hist' = [hist EXCEPT !.stamp = @ + 1]
    /\ Goes(t, [threads[t] EXCEPT !.at = "storing", !.stamp = hist.stamp + 1])
    /\ UNCHANGED <<masters, entries, evicted, gate>>

(* Set, _memoryCache.Set: the entry that was there is evicted.  After the   *)
(* last key the bootstrapper lets the next thread in, and what asked for    *)
(* the masters puts its list into the cache once more.                      *)
Store(t) ==
    LET f == threads[t]
        k == Head(f.todo)
    IN  /\ At(t, "storing")
        /\ evicted' = evicted \cup CallbacksOf(k)
        /\ entries' = [entries EXCEPT ![k] = {[value |-> f.value, stamp |-> f.stamp]}]
        /\ IF Len(f.todo) > 1
           THEN Goes(t, [f EXCEPT !.at = "setting", !.todo = Tail(@)]) /\ UNCHANGED gate
           ELSE IF Holds(t)
           THEN Goes(t, [f EXCEPT !.at = "setting", !.todo = <<"list">>]) /\ gate' = Tail(gate)
           ELSE Goes(t, Idle) /\ UNCHANGED gate
        /\ UNCHANGED <<masters, registrations, hist>>

(* The thread pool runs a callback. *)
RunCallback ==
    \E item \in evicted :
        /\ evicted' = evicted \ {item}
        /\ Unregister(item)
        /\ UNCHANGED <<masters, entries, gate, threads, hist>>

(* A file is kept for ten minutes, the business day for thirty seconds,     *)
(* masters for ever.                                                        *)
Expire ==
    /\ entries["timed"] # {}
    /\ evicted' = evicted \cup CallbacksOf("timed")
    /\ entries' = [entries EXCEPT !["timed"] = {}]
    /\ UNCHANGED <<masters, registrations, gate, threads, hist>>

(* ClearAll, _registrations.ToArray().  `met' is history: what is cached.   *)
TakeList(t) ==
    /\ At(t, "clear")
    /\ Goes(t, [threads[t] EXCEPT !.at = "clearing", !.left = Registered, !.met = Contents])
    /\ UNCHANGED <<masters, entries, registrations, evicted, gate, hist>>

(* ClearAll, _memoryCache.Remove: whatever entry the key has now. *)
RemoveEntry(t) ==
    \E item \in threads[t].left :
        /\ At(t, "clearing")
        /\ evicted' = evicted \cup CallbacksOf(item.key)
        /\ entries' = [entries EXCEPT ![item.key] = {}]
        /\ Goes(t, [threads[t] EXCEPT !.at = "unlisting", !.todo = <<item.key>>, !.stamp = item.stamp])
        /\ UNCHANGED <<masters, registrations, gate, hist>>

(* ClearAll, RemoveRegistration *)
RemoveListed(t) ==
    LET f == threads[t]
        item == [key |-> Head(f.todo), stamp |-> f.stamp]
    IN  /\ At(t, "unlisting")
        /\ Unregister(item)
        /\ Goes(t, [f EXCEPT !.at = "clearing", !.todo = <<>>, !.stamp = 0, !.left = @ \ {item}])
        /\ UNCHANGED <<masters, entries, evicted, gate, hist>>

Larger(a, b) == IF a > b THEN a ELSE b

(* ClearAll returns.  `value' is the version that was saved, if any. *)
Cleared(t) ==
    /\ At(t, "clearing") /\ threads[t].left = {}
    /\ Goes(t, Idle)
    /\ hist' = [hist EXCEPT !.cleared = Larger(@, threads[t].value)]
    /\ UNCHANGED <<masters, entries, registrations, evicted, gate>>

(* Remove, _registrations.TryGetValue.  Only keys that are cached for a     *)
(* time are removed: the business day that was closed, its attending casts, *)
(* a file.                                                                  *)
FindRegistration(t) ==
    /\ At(t, "remove")
    /\ \/ \E r \in registrations["timed"] : Goes(t, [threads[t] EXCEPT !.at = "removing", !.stamp = r])
       \/ registrations["timed"] = {} /\ Goes(t, [threads[t] EXCEPT !.at = "removing"])
    /\ UNCHANGED <<masters, entries, registrations, evicted, gate, hist>>

(* Remove, _memoryCache.Remove: also an entry that is newer than the        *)
(* registration that was found                                              *)
DropEntry(t) ==
    /\ At(t, "removing")
    /\ evicted' = evicted \cup CallbacksOf("timed")
    /\ entries' = [entries EXCEPT !["timed"] = {}]
    /\ Goes(t, [threads[t] EXCEPT !.at = "removed"])
    /\ UNCHANGED <<masters, registrations, gate, hist>>

(* Remove, RemoveRegistration of what was found, if anything was *)
DropRegistration(t) ==
    /\ At(t, "removed")
    /\ Unregister([key |-> "timed", stamp |-> threads[t].stamp])
    /\ Goes(t, Idle)
    /\ UNCHANGED <<masters, entries, evicted, gate, hist>>

-----------------------------------------------------------------------------
(* The requests *)

(* GetTablesAsync and its like, the home page, GetFileWithDiagnosticsAsync, *)
(* ApplyAttendanceRuntimeCache and the closing, OnPostClearCacheAsync,      *)
(* OnPostMasterMutationAsync.  A list that is cached ends the request; the  *)
(* business day is put in whatever is there.                                *)
Begin(t, call) ==
    /\ At(t, "idle") /\ hist.begun < MaxCall
    /\ hist' = [hist EXCEPT !.begun = @ + 1, !.crowded = IF Quiet THEN @ ELSE TRUE]
    /\ call = "list" => entries["list"] = {}
    /\ Goes(t, [Idle EXCEPT !.at = CASE call \in {"list", "home"} -> "ensure"
                                     [] call = "timed" -> "setting"
                                     [] call = "remove" -> "remove"
                                     [] call = "clear" -> "clear"
                                     [] call = "save" -> "saving",
                            !.todo = IF call = "timed" THEN <<"timed">> ELSE <<>>])
    /\ UNCHANGED <<masters, entries, registrations, evicted, gate>>

Uses(t, e) == Goes(t, [threads[t] EXCEPT !.at = "setting", !.value = e.value, !.todo = <<"list">>])

(* EnsureAsync, the first look *)
Ensure(t) ==
    /\ At(t, "ensure")
    /\ IF entries["payload"] # {}
       THEN (\E e \in entries["payload"] : Uses(t, e)) /\ UNCHANGED gate
       ELSE Goes(t, [threads[t] EXCEPT !.at = "waiting"]) /\ gate' = Append(gate, t)
    /\ UNCHANGED <<masters, entries, registrations, evicted, hist>>

(* Faulty: whoever had to wait reads the masters as well. *)
EnterBlindly(t) ==
    /\ At(t, "waiting") /\ Holds(t)
    /\ Goes(t, [threads[t] EXCEPT !.at = "fetching"])
    /\ UNCHANGED <<masters, entries, registrations, evicted, gate, hist>>

(* EnsureAsync, the second look, behind the gate *)
Enter(t) ==
    /\ At(t, "waiting") /\ Holds(t)
    /\ IF entries["payload"] # {}
       THEN (\E e \in entries["payload"] : Uses(t, e)) /\ gate' = Tail(gate)
       ELSE Goes(t, [threads[t] EXCEPT !.at = "fetching"]) /\ UNCHANGED gate
    /\ UNCHANGED <<masters, entries, registrations, evicted, hist>>

(* FetchAsync: the database reads the masters; later they are cached.       *)
Fetch(t) ==
    /\ At(t, "fetching")
    /\ Goes(t, [threads[t] EXCEPT !.at = "setting", !.value = masters, !.todo = <<"payload", "list">>])
    /\ UNCHANGED <<masters, entries, registrations, evicted, gate, hist>>

(* FetchAsync fails, or the browser has gone: finally gate.Release() *)
FetchFails(t) ==
    /\ At(t, "fetching")
    /\ Goes(t, Idle)
    /\ gate' = Tail(gate)
    /\ UNCHANGED <<masters, entries, registrations, evicted, hist>>

(* WaitAsync is cancelled. *)
Cancel(t) ==
    \E n \in 2..Len(gate) :
        /\ At(t, "waiting") /\ gate[n] = t
        /\ Goes(t, Idle)
        /\ gate' = SubSeq(gate, 1, n - 1) \o SubSeq(gate, n + 1, Len(gate))
        /\ UNCHANGED <<masters, entries, registrations, evicted, hist>>

Stays(t) == Goes(t, Idle) /\ UNCHANGED hist

(* A save that is confirmed empties the cache. *)
Confirmed(t, version) ==
    /\ Goes(t, [threads[t] EXCEPT !.at = "clear", !.value = version])
    /\ UNCHANGED hist

(* save_management_master_v2: it saves, or gives its answer again, or it    *)
(* refuses; the answer of a save can be lost.                               *)
Save(t) ==
    /\ At(t, "saving")
    /\ \/ /\ masters < MaxMaster
          /\ masters' = masters + 1
          /\ Confirmed(t, masters + 1) \/ Stays(t)
       \/ /\ UNCHANGED masters
          /\ Confirmed(t, masters) \/ Stays(t)
    /\ UNCHANGED <<entries, registrations, evicted, gate>>

-----------------------------------------------------------------------------
CacheInit ==
    /\ masters = 0
    /\ entries = [k \in Key |-> {}]
    /\ registrations = [k \in Key |-> {}]
    /\ evicted = {}
    /\ gate = <<>>
    /\ threads = [t \in Thread |-> Idle]
    /\ hist = [begun |-> 0, stamp |-> 0, cleared |-> 0, crowded |-> FALSE]

Works(t) ==
    \/ Register(t) \/ Store(t)
    \/ TakeList(t) \/ RemoveEntry(t) \/ RemoveListed(t) \/ Cleared(t)
    \/ FindRegistration(t) \/ DropEntry(t) \/ DropRegistration(t)
    \/ Ensure(t) \/ Enter(t) \/ Fetch(t) \/ FetchFails(t) \/ Save(t)

CacheNext ==
    \/ \E t \in Thread : Works(t) \/ Cancel(t) \/ \E call \in Call : Begin(t, call)
    \/ RunCallback \/ Expire

CacheSpec == CacheInit /\ [][CacheNext]_cacheVars

(* A thread goes on, and the gate is given in the order of the waiting.     *)
CacheFairness == \A t \in Thread : WF_cacheVars(Works(t))
FairCacheSpec == CacheSpec /\ CacheFairness

-----------------------------------------------------------------------------
CacheTypeOK ==
    /\ masters \in 0..MaxMaster
    /\ \A k \in Key : entries[k] \subseteq Entry /\ Cardinality(entries[k]) <= 1
    /\ \A k \in Key : registrations[k] \subseteq Stamp /\ Cardinality(registrations[k]) <= 1
    /\ evicted \subseteq Listed
    /\ gate \in Seq(Thread)
    /\ \A t \in Thread : /\ threads[t].at \in Place
                         /\ threads[t].left \subseteq Listed /\ threads[t].met \subseteq Listed
    /\ hist.begun \in 0..MaxCall /\ hist.stamp \in 0..(3 * MaxCall) /\ hist.cleared \in 0..MaxMaster
    /\ hist.crowded \in BOOLEAN

(* Whatever is cached can be found by ClearAll: it has its registration as  *)
(* soon as no request is under way, however late the callbacks of earlier   *)
(* entries of the key run.  (It holds until two requests meet.)             *)
EntryListed == Quiet => Contents \subseteq Registered

(* The list of the settings page names nothing that is not cached, once the *)
(* requests and the callbacks are through, however they met.                *)
ListedIsCached == Quiet /\ evicted = {} => Registered \subseteq Contents

(* No one reads the masters of a store while somebody else does, nor when   *)
(* they have been cached: whoever waited at the gate takes what is there.   *)
OneFetch ==
    \A t \in Thread : At(t, "fetching") =>
        /\ entries["payload"] = {}
        /\ \A u \in Thread \ {t} : ~ At(u, "fetching")

(* After a master was saved and the cache emptied, no page is served the    *)
(* masters as they were before: an entry is kept until an update.           *)
FreshAfterSave == Quiet => \A k \in Master : \A e \in entries[k] : e.value >= hist.cleared

(* When ClearAll returns, nothing that was cached when it began is cached.  *)
ClearAllClears == \A t \in Thread : At(t, "clearing") /\ threads[t].left = {} => threads[t].met \cap Contents = {}

(* Until two requests meet, whatever is cached can be cleared, is cleared   *)
(* when ClearAll returns, and no page shows masters older than the last     *)
(* save.  When requests have met, nothing is registered that is not cached  *)
(* (ApplicationMemoryCache.cs, Set and ClearAll).                           *)
CacheFollowsClears ==
    /\ ListedIsCached
    /\ ~ hist.crowded => EntryListed /\ FreshAfterSave /\ ClearAllClears

(* Every request ends: no failure keeps the gate closed, no thread waits    *)
(* for one that is gone.                                                    *)
EveryRequestEnds == \A t \in Thread : ~ At(t, "idle") ~> At(t, "idle")
=============================================================================
