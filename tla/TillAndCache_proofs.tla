------------------------- MODULE TillAndCache_proofs -------------------------
(***************************************************************************)
(* What MCTillAndCache checks on small instances, for every value of the    *)
(* constants: the cache of the web server (MasterCache), the adjustment of  *)
(* cast sales (CastSalesPage) and the printing of the till (PrintQueue).    *)
(* Each part has an invariant of its own.                                   *)
(***************************************************************************)
EXTENDS MasterCache, CastSalesPage, PrintQueue, Lists_proofs
-----------------------------------------------------------------------------
(***************************************************************************)
(* The cache. For any number of requests at once: one at a time reads the   *)
(* masters, and only while they are not cached; nothing stays registered    *)
(* that is not cached; and until two requests meet, what is cached follows  *)
(* the saves and the clears.                                                *)
(***************************************************************************)

Item == [key : Key, stamp : Nat]

Frame == [at : Place, value : Nat, stamp : Nat, todo : Seq(Key), left : SUBSET Item, met : SUBSET Item]

(* The shape of the variables, as far as the steps rely on it. *)
CacheShape ==
    /\ masters \in Nat
    /\ entries \in [Key -> SUBSET [value : Nat, stamp : Nat]]
    /\ registrations \in [Key -> SUBSET Nat]
    /\ gate \in Seq(Thread)
    /\ threads \in [Thread -> Frame]
    /\ hist \in [begun : Nat, stamp : Nat, cleared : Nat, crowded : BOOLEAN]

(* Whoever puts entries into the cache knows which one is next. *)
HasNext == \A t \in Thread : At(t, "setting") \/ At(t, "storing") => threads[t].todo # <<>>

(* The history keeps its fields. *)
LEMMA HistBegun ==
    ASSUME NEW A, NEW B, NEW C, NEW D, NEW h \in [begun : A, stamp : B, cleared : C, crowded : D],
           NEW n \in A, NEW d \in D
    PROVE  [h EXCEPT !.begun = n, !.crowded = d] \in [begun : A, stamp : B, cleared : C, crowded : D]
OBVIOUS

LEMMA HistCleared ==
    ASSUME NEW A, NEW B, NEW C, NEW D, NEW h \in [begun : A, stamp : B, cleared : C, crowded : D], NEW n \in C
    PROVE  [h EXCEPT !.cleared = n] \in [begun : A, stamp : B, cleared : C, crowded : D]
OBVIOUS

(* A thread that reads the masters, or has them still to cache, holds the   *)
(* gate.                                                                    *)
Fetches(t) ==
    \/ At(t, "fetching")
    \/ (At(t, "setting") \/ At(t, "storing")) /\ Head(threads[t].todo) = "payload"

FetchesInside == \A t \in Thread : Fetches(t) => Holds(t)

(* After the payload no second one is to come. *)
Short(todo) == Len(todo) <= 2 /\ (Len(todo) = 2 => todo[2] = "list")

PayloadFirst ==
    \A t \in Thread : Short(threads[t].todo)

(* While a thread reads, nothing is cached: nobody else caches the payload. *)
NothingCachedYet == \A t \in Thread : At(t, "fetching") => entries["payload"] = {}

CacheInv == CacheShape /\ HasNext /\ FetchesInside /\ PayloadFirst /\ NothingCachedYet

(* Two threads cannot both hold the gate, so both reading is impossible.    *)
LEMMA InvGivesOneFetch == CacheInv => OneFetch
BY DEF CacheInv, FetchesInside, NothingCachedYet, OneFetch, Fetches, Holds

LEMMA CacheStarts == CacheInit => CacheInv
BY DEF CacheInit, CacheInv, CacheShape, HasNext, FetchesInside, PayloadFirst, NothingCachedYet,
       Short, Fetches, At, Idle, Frame, Place, Key, Item

(* What a thread does to its own frame says nothing about the frames of the *)
(* others.                                                                  *)
LEMMA OtherFrames ==
    ASSUME CacheShape, NEW t \in Thread, NEW f \in Frame, Goes(t, f)
    PROVE  /\ threads' \in [Thread -> Frame]
           /\ threads'[t] = f
           /\ \A u \in Thread \ {t} : threads'[u] = threads[u]
BY DEF CacheShape, Goes

(* A frame that a thread may have. *)
Sound(f) ==
    /\ f.at \in {"setting", "storing"} => f.todo # <<>>
    /\ Short(f.todo)

Reads(f) == f.at = "fetching" \/ (f.at \in {"setting", "storing"} /\ Head(f.todo) = "payload")

(* A step of a thread keeps the invariant when its new frame is sound, the  *)
(* others who fetch still hold the gate, and whoever reads finds nothing    *)
(* cached.                                                                  *)
LEMMA OwnStep ==
    ASSUME CacheInv, CacheShape', NEW t \in Thread, NEW f \in Frame, Goes(t, f), Sound(f),
           Reads(f) => Holds(t)',
           \A u \in Thread \ {t} : Fetches(u) => Holds(u)',
           f.at = "fetching" => entries'["payload"] = {},
           \/ entries'["payload"] \subseteq entries["payload"]
           \/ \A u \in Thread \ {t} : ~ At(u, "fetching")
    PROVE  CacheInv'
<1>1. /\ threads'[t] = f
      /\ \A u \in Thread \ {t} : threads'[u] = threads[u]
  BY OtherFrames DEF CacheInv
<1>2. HasNext'
  BY <1>1 DEF CacheInv, HasNext, At, Sound
<1>3. PayloadFirst'
  BY <1>1 DEF CacheInv, PayloadFirst, Sound
<1>4. FetchesInside'
  <2>1. SUFFICES ASSUME NEW u \in Thread, Fetches(u)' PROVE Holds(u)'
    BY DEF FetchesInside
  <2>2. CASE u = t
    BY <1>1, <2>1, <2>2 DEF Fetches, Reads, At
  <2>3. CASE u # t
    BY <1>1, <2>1, <2>3 DEF Fetches, At
  <2>q. QED BY <2>2, <2>3
<1>5. NothingCachedYet'
  <2>1. SUFFICES ASSUME NEW u \in Thread, At(u, "fetching")' PROVE entries'["payload"] = {}
    BY DEF NothingCachedYet
  <2>2. CASE u = t
    BY <1>1, <2>1, <2>2 DEF At
  <2>3. CASE u # t
    BY <1>1, <2>1, <2>3 DEF At, CacheInv, NothingCachedYet
  <2>q. QED BY <2>2, <2>3
<1>q. QED BY <1>2, <1>3, <1>4, <1>5 DEF CacheInv

(* A step that changes no frame, and neither opens the gate nor caches the  *)
(* payload.                                                                 *)
LEMMA OtherStep ==
    ASSUME CacheInv, CacheShape', UNCHANGED <<threads, gate>>, entries'["payload"] \subseteq entries["payload"]
    PROVE  CacheInv'
BY DEF CacheInv, HasNext, FetchesInside, PayloadFirst, NothingCachedYet, Fetches, Holds, At

LEMMA StateItems ==
    ASSUME CacheShape
    PROVE  Contents \in SUBSET Item /\ Registered \in SUBSET Item
BY DEF CacheShape, Contents, Registered, Item

LEMMA IdleFrame == Idle \in Frame /\ Sound(Idle) /\ ~ Reads(Idle) /\ Idle.at # "fetching"
BY DEF Idle, Frame, Sound, Short, Reads, Place, Key, Item

LEMMA TailOfMore ==
    ASSUME NEW S, NEW s \in Seq(S), Len(s) > 1
    PROVE  Tail(s) \in Seq(S) /\ Len(Tail(s)) = Len(s) - 1 /\ Head(Tail(s)) = s[2] /\ Tail(s) # <<>>
<1>0. s # <<>> /\ Len(s) \in Nat
  OBVIOUS
<1>1. Tail(s) \in Seq(S)
  BY <1>0
<1>2. Len(Tail(s)) = Len(s) - 1
  BY <1>0
<1>3. Tail(s)[1] = s[2]
  BY <1>0
<1>4. Tail(s) # <<>>
  <2>1. Len(Tail(s)) # 0
    BY <1>0, <1>2
  <2>2. Len(<<>>) = 0
    OBVIOUS
  <2>q. QED BY <2>1, <2>2
<1>5. Head(Tail(s)) = Tail(s)[1]
  BY <1>1, <1>4
<1>q. QED BY <1>1, <1>2, <1>3, <1>4, <1>5

(* One that waits further back leaves the queue. *)
LEMMA FirstStays ==
    ASSUME NEW S, NEW s \in Seq(S), NEW n \in 2..Len(s)
    PROVE  LET r == SubSeq(s, 1, n - 1) \o SubSeq(s, n + 1, Len(s))
           IN  r \in Seq(S) /\ Head(r) = Head(s) /\ r # <<>>
<1>1. SubSeq(s, 1, n - 1) \in Seq(S) /\ Len(SubSeq(s, 1, n - 1)) = n - 1 /\ SubSeq(s, 1, n - 1)[1] = s[1]
  OBVIOUS
<1>2. SubSeq(s, n + 1, Len(s)) \in Seq(S)
  OBVIOUS
<1>q. QED BY <1>1, <1>2

(* The invariant gives every thread a frame that is sound. *)
LEMMA FrameOf ==
    ASSUME CacheInv, NEW t \in Thread
    PROVE  threads[t] \in Frame /\ Sound(threads[t]) /\ (Reads(threads[t]) => Holds(t))
BY DEF CacheInv, CacheShape, HasNext, PayloadFirst, FetchesInside, Sound, Reads, Fetches, At

LEMMA RegisterKeeps == ASSUME CacheInv, NEW t \in Thread, Register(t) PROVE CacheInv'
<1>1. PICK f \in Frame : Goes(t, f) /\ f.at = "storing" /\ f.todo = threads[t].todo
  <2>1. hist.stamp + 1 \in Nat /\ "storing" \in Place /\ threads[t] \in Frame
    BY FrameOf DEF CacheInv, CacheShape, Place
  <2>2. Goes(t, [threads[t] EXCEPT !.at = "storing", !.stamp = hist.stamp + 1])
    BY DEF Register
  <2>3. /\ [threads[t] EXCEPT !.at = "storing", !.stamp = hist.stamp + 1] \in Frame
       /\ [threads[t] EXCEPT !.at = "storing", !.stamp = hist.stamp + 1].at = "storing"
       /\ [threads[t] EXCEPT !.at = "storing", !.stamp = hist.stamp + 1].todo = threads[t].todo
    BY <2>1 DEF Frame
  <2>q. QED BY <2>2, <2>3
<1>2. threads[t].todo # <<>> /\ Head(threads[t].todo) \in Key
  BY FrameOf DEF Sound, Register, At, Frame
<1>3. CacheShape'
  <2>1. CacheShape
    BY DEF CacheInv
  <2>2. threads' \in [Thread -> Frame]
    BY <1>1, <2>1, OtherFrames
  <2>3. hist.stamp + 1 \in Nat /\ hist' \in [begun : Nat, stamp : Nat, cleared : Nat, crowded : BOOLEAN]
    BY <2>1 DEF Register, CacheShape
  <2>4. registrations' \in [Key -> SUBSET Nat]
    BY <1>2, <2>1, <2>3 DEF Register, CacheShape
  <2>q. QED BY <2>1, <2>2, <2>3, <2>4 DEF Register, CacheShape
<1>4. Sound(f) /\ (Reads(f) => Holds(t)')
  BY <1>1, FrameOf DEF Sound, Reads, Register, At, Holds
<1>5. \A u \in Thread \ {t} : Fetches(u) => Holds(u)'
  BY DEF CacheInv, FetchesInside, Holds, Register
<1>q. QED BY <1>1, <1>3, <1>4, <1>5, OwnStep DEF Register

LEMMA StoreKeeps == ASSUME CacheInv, NEW t \in Thread, Store(t) PROVE CacheInv'
<1>1. /\ threads[t] \in Frame /\ threads[t].todo # <<>> /\ At(t, "storing")
      /\ Head(threads[t].todo) \in Key /\ threads[t].todo \in Seq(Key) /\ Short(threads[t].todo)
  BY FrameOf DEF Sound, Store, At, Frame
<1>2. entries' \in [Key -> SUBSET [value : Nat, stamp : Nat]]
  BY <1>1 DEF Store, CacheInv, CacheShape, Frame
<1>3. "setting" \in Place /\ <<"list">> \in Seq(Key)
  BY DEF Place, Key
<1>4. entries'["payload"] \subseteq entries["payload"] \/ \A u \in Thread \ {t} : ~ At(u, "fetching")
  <2>1. CASE Head(threads[t].todo) = "payload"
    BY <1>1, <2>1 DEF CacheInv, FetchesInside, Fetches, Holds
  <2>2. CASE Head(threads[t].todo) # "payload"
    BY <1>1, <2>2 DEF Store, CacheInv, CacheShape, Key
  <2>q. QED BY <2>1, <2>2
<1>5. CASE Len(threads[t].todo) > 1
  <2>1. /\ Tail(threads[t].todo) \in Seq(Key) /\ Tail(threads[t].todo) # <<>>
        /\ Len(Tail(threads[t].todo)) = 1 /\ Head(Tail(threads[t].todo)) = "list"
    <3>1. threads[t].todo[2] = "list" /\ Len(threads[t].todo) = 2
      <4>1. PICK n \in Nat : n = Len(threads[t].todo)
        BY <1>1
      <4>2. Len(threads[t].todo) <= 2 /\ (Len(threads[t].todo) = 2 => threads[t].todo[2] = "list")
        BY <1>1 DEF Short
      <4>3. n = 2
        <5>1. n > 1 /\ n <= 2
          BY <1>5, <4>1, <4>2
        <5>q. QED BY <5>1
      <4>q. QED BY <4>1, <4>2, <4>3
    <3>q. QED BY <1>1, <1>5, <3>1, TailOfMore
  <2>2. PICK f \in Frame : Goes(t, f) /\ f.at = "setting" /\ f.todo = Tail(threads[t].todo)
    <3>1. "setting" \in Place /\ Tail(threads[t].todo) \in Seq(Key) /\ threads[t] \in Frame
      BY <1>1, <1>3, <2>1
    <3>2. Goes(t, [threads[t] EXCEPT !.at = "setting", !.todo = Tail(threads[t].todo)])
      BY <1>5 DEF Store
    <3>3. /\ [threads[t] EXCEPT !.at = "setting", !.todo = Tail(threads[t].todo)] \in Frame
         /\ [threads[t] EXCEPT !.at = "setting", !.todo = Tail(threads[t].todo)].at = "setting"
         /\ [threads[t] EXCEPT !.at = "setting", !.todo = Tail(threads[t].todo)].todo = Tail(threads[t].todo)
      BY <3>1 DEF Frame
    <3>q. QED BY <3>2, <3>3
  <2>3. UNCHANGED gate
    BY <1>5 DEF Store
  <2>4. CacheShape'
    BY <1>2, <2>2, <2>3, OtherFrames DEF Store, CacheInv, CacheShape
  <2>5. Sound(f) /\ ~ Reads(f)
    <3>1. Len(f.todo) = 1 /\ f.todo # <<>> /\ Head(f.todo) = "list" /\ f.at = "setting"
      BY <2>1, <2>2
    <3>2. Short(f.todo)
      BY <3>1 DEF Short
    <3>q. QED BY <3>1, <3>2 DEF Sound, Reads
  <2>q. QED BY <1>4, <2>2, <2>3, <2>4, <2>5, OwnStep DEF CacheInv, FetchesInside, Holds
<1>6. CASE ~ (Len(threads[t].todo) > 1) /\ Holds(t)
  <2>1. PICK f \in Frame : Goes(t, f) /\ f.at = "setting" /\ f.todo = <<"list">>
    <3>1. "setting" \in Place /\ <<"list">> \in Seq(Key) /\ threads[t] \in Frame
      BY <1>1, <1>3
    <3>2. Goes(t, [threads[t] EXCEPT !.at = "setting", !.todo = <<"list">>])
      BY <1>6 DEF Store
    <3>3. /\ [threads[t] EXCEPT !.at = "setting", !.todo = <<"list">>] \in Frame
         /\ [threads[t] EXCEPT !.at = "setting", !.todo = <<"list">>].at = "setting"
         /\ [threads[t] EXCEPT !.at = "setting", !.todo = <<"list">>].todo = <<"list">>
      BY <3>1 DEF Frame
    <3>q. QED BY <3>2, <3>3
  <2>2. gate' = Tail(gate)
    BY <1>6 DEF Store
  <2>3. CacheShape'
    BY <1>2, <1>6, <2>1, <2>2, OtherFrames DEF Store, CacheInv, CacheShape, Holds
  <2>4. \A u \in Thread \ {t} : ~ Fetches(u)
    BY <1>6 DEF CacheInv, FetchesInside, Holds
  <2>5. Sound(f) /\ ~ Reads(f) /\ f.at # "fetching"
    BY <2>1 DEF Sound, Short, Reads
  <2>q. QED BY <1>4, <2>1, <2>3, <2>4, <2>5, OwnStep
<1>7. CASE ~ (Len(threads[t].todo) > 1) /\ ~ Holds(t)
  <2>1. Goes(t, Idle) /\ UNCHANGED gate
    BY <1>7 DEF Store
  <2>2. CacheShape'
    BY <1>2, <2>1, IdleFrame, OtherFrames DEF Store, CacheInv, CacheShape
  <2>q. QED BY <1>4, <2>1, <2>2, IdleFrame, OwnStep DEF CacheInv, FetchesInside, Holds
<1>q. QED BY <1>5, <1>6, <1>7

(* A step of ClearAll and of a save: the payload can only go, the gate and  *)
(* whoever holds it stay as they are.                                       *)
LEMMA AsideStep ==
    ASSUME CacheInv, CacheShape', NEW t \in Thread, NEW f \in Frame, Goes(t, f), Short(f.todo), UNCHANGED gate,
           f.at \notin {"setting", "storing", "fetching"},
           entries'["payload"] \subseteq entries["payload"]
    PROVE  CacheInv'
<1>1. Sound(f) /\ ~ Reads(f) /\ f.at # "fetching"
  BY DEF Sound, Reads
<1>2. \A u \in Thread \ {t} : Fetches(u) => Holds(u)'
  BY DEF CacheInv, FetchesInside, Holds
<1>q. QED BY <1>1, <1>2, OwnStep

LEMMA ClearKeeps ==
    ASSUME CacheInv, NEW t \in Thread, TakeList(t) \/ RemoveEntry(t) \/ RemoveListed(t) \/ Cleared(t)
    PROVE  CacheInv'
<1>1. CASE TakeList(t)
  <2>1. PICK f \in Frame : Goes(t, f) /\ f.at = "clearing" /\ f.todo = threads[t].todo
    <3>1. "clearing" \in Place /\ Registered \in SUBSET Item /\ Contents \in SUBSET Item /\ threads[t] \in Frame
      BY StateItems, FrameOf DEF CacheInv, Place
    <3>2. Goes(t, [threads[t] EXCEPT !.at = "clearing", !.left = Registered, !.met = Contents])
      BY <1>1 DEF TakeList
    <3>3. /\ [threads[t] EXCEPT !.at = "clearing", !.left = Registered, !.met = Contents] \in Frame
         /\ [threads[t] EXCEPT !.at = "clearing", !.left = Registered, !.met = Contents].at = "clearing"
         /\ [threads[t] EXCEPT !.at = "clearing", !.left = Registered, !.met = Contents].todo = threads[t].todo
      BY <3>1 DEF Frame
    <3>q. QED BY <3>2, <3>3
  <2>2. CacheShape'
    BY <1>1, <2>1, OtherFrames DEF TakeList, CacheInv, CacheShape
  <2>q. QED BY <1>1, <2>1, <2>2, FrameOf, AsideStep DEF TakeList, Sound
<1>2. CASE RemoveEntry(t)
  <2>1. PICK item \in threads[t].left :
            /\ entries' = [entries EXCEPT ![item.key] = {}]
            /\ Goes(t, [threads[t] EXCEPT !.at = "unlisting", !.todo = <<item.key>>, !.stamp = item.stamp])
    BY <1>2 DEF RemoveEntry
  <2>2. item.key \in Key /\ item.stamp \in Nat /\ <<item.key>> \in Seq(Key) /\ "unlisting" \in Place
    BY <2>1, FrameOf DEF Frame, Item, Place
  <2>3. PICK f \in Frame : Goes(t, f) /\ f.at = "unlisting" /\ f.todo = <<item.key>>
    <3>1. threads[t] \in Frame /\ item.stamp \in Nat /\ <<item.key>> \in Seq(Key) /\ "unlisting" \in Place
      BY <2>2, FrameOf
    <3>2. Goes(t, [threads[t] EXCEPT !.at = "unlisting", !.todo = <<item.key>>, !.stamp = item.stamp])
      BY <2>1
    <3>3. /\ [threads[t] EXCEPT !.at = "unlisting", !.todo = <<item.key>>, !.stamp = item.stamp] \in Frame
         /\ [threads[t] EXCEPT !.at = "unlisting", !.todo = <<item.key>>, !.stamp = item.stamp].at = "unlisting"
         /\ [threads[t] EXCEPT !.at = "unlisting", !.todo = <<item.key>>, !.stamp = item.stamp].todo = <<item.key>>
      BY <3>1 DEF Frame
    <3>q. QED BY <3>2, <3>3
  <2>4. entries' \in [Key -> SUBSET [value : Nat, stamp : Nat]] /\ entries'["payload"] \subseteq entries["payload"]
    BY <2>1, <2>2 DEF CacheInv, CacheShape, Key
  <2>5. CacheShape'
    BY <1>2, <2>3, <2>4, OtherFrames DEF RemoveEntry, CacheInv, CacheShape
  <2>6. Short(f.todo)
    BY <2>3 DEF Short
  <2>q. QED BY <1>2, <2>3, <2>4, <2>5, <2>6, AsideStep DEF RemoveEntry
<1>3. CASE RemoveListed(t)
  <2>1. "clearing" \in Place /\ <<>> \in Seq(Key)
    BY DEF Place
  <2>2. PICK f \in Frame : Goes(t, f) /\ f.at = "clearing" /\ f.todo = <<>>
    <3>1. threads[t] \in Frame
      BY FrameOf
    <3>2. PICK left : left = threads[t].left \ {[key |-> Head(threads[t].todo), stamp |-> threads[t].stamp]}
      OBVIOUS
    <3>3. Goes(t, [threads[t] EXCEPT !.at = "clearing", !.todo = <<>>, !.stamp = 0, !.left = left])
      BY <1>3, <3>2 DEF RemoveListed
    <3>4. left \in SUBSET Item
      BY <3>1, <3>2 DEF Frame
    <3>5. /\ [threads[t] EXCEPT !.at = "clearing", !.todo = <<>>, !.stamp = 0, !.left = left] \in Frame
          /\ [threads[t] EXCEPT !.at = "clearing", !.todo = <<>>, !.stamp = 0, !.left = left].at = "clearing"
          /\ [threads[t] EXCEPT !.at = "clearing", !.todo = <<>>, !.stamp = 0, !.left = left].todo = <<>>
      BY <2>1, <3>1, <3>4 DEF Frame
    <3>q. QED BY <3>3, <3>5
  <2>3. registrations' \in [Key -> SUBSET Nat]
    BY <1>3 DEF RemoveListed, Unregister, CacheInv, CacheShape
  <2>4. CacheShape'
    BY <1>3, <2>2, <2>3, OtherFrames DEF RemoveListed, CacheInv, CacheShape
  <2>5. Short(f.todo)
    BY <2>2 DEF Short
  <2>q. QED BY <1>3, <2>2, <2>4, <2>5, AsideStep DEF RemoveListed
<1>4. CASE Cleared(t)
  <2>1. Larger(hist.cleared, threads[t].value) \in Nat
    BY FrameOf DEF Larger, Frame, CacheInv, CacheShape
  <2>2. hist' \in [begun : Nat, stamp : Nat, cleared : Nat, crowded : BOOLEAN]
    <3>1. PICK cleared \in Nat : cleared = Larger(hist.cleared, threads[t].value)
      BY <2>1
    <3>2. hist' = [hist EXCEPT !.cleared = cleared]
      BY <1>4, <3>1 DEF Cleared
    <3>3. hist \in [begun : Nat, stamp : Nat, cleared : Nat, crowded : BOOLEAN]
      BY DEF CacheInv, CacheShape
    <3>q. QED BY ONLY <3>1, <3>2, <3>3, HistCleared
  <2>3. CacheShape'
    BY <1>4, <2>2, IdleFrame, OtherFrames DEF Cleared, CacheInv, CacheShape
  <2>q. QED BY <1>4, <2>3, IdleFrame, AsideStep DEF Cleared, Sound, Idle
<1>q. QED BY <1>1, <1>2, <1>3, <1>4

LEMMA RemoveKeeps ==
    ASSUME CacheInv, NEW t \in Thread, FindRegistration(t) \/ DropEntry(t) \/ DropRegistration(t)
    PROVE  CacheInv'
<1>0. threads[t] \in Frame /\ Short(threads[t].todo) /\ {"removing", "removed"} \subseteq Place
  BY FrameOf DEF Sound, Place
<1>1. CASE FindRegistration(t)
  <2>1. PICK f \in Frame : Goes(t, f) /\ f.at = "removing" /\ f.todo = threads[t].todo
    <3>1. ASSUME NEW r \in Nat, Goes(t, [threads[t] EXCEPT !.at = "removing", !.stamp = r])
          PROVE  \E f \in Frame : Goes(t, f) /\ f.at = "removing" /\ f.todo = threads[t].todo
      <4>1. /\ [threads[t] EXCEPT !.at = "removing", !.stamp = r] \in Frame
            /\ [threads[t] EXCEPT !.at = "removing", !.stamp = r].at = "removing"
            /\ [threads[t] EXCEPT !.at = "removing", !.stamp = r].todo = threads[t].todo
        BY <1>0 DEF Frame
      <4>q. QED BY <3>1, <4>1
    <3>2. ASSUME Goes(t, [threads[t] EXCEPT !.at = "removing"])
          PROVE  \E f \in Frame : Goes(t, f) /\ f.at = "removing" /\ f.todo = threads[t].todo
      <4>1. /\ [threads[t] EXCEPT !.at = "removing"] \in Frame
            /\ [threads[t] EXCEPT !.at = "removing"].at = "removing"
            /\ [threads[t] EXCEPT !.at = "removing"].todo = threads[t].todo
        BY <1>0 DEF Frame
      <4>q. QED BY <3>2, <4>1
    <3>3. registrations["timed"] \subseteq Nat
      BY DEF CacheInv, CacheShape, Key
    <3>q. QED BY <1>1, <3>1, <3>2, <3>3 DEF FindRegistration
  <2>2. CacheShape'
    BY <1>1, <2>1, OtherFrames DEF FindRegistration, CacheInv, CacheShape
  <2>q. QED BY <1>0, <1>1, <2>1, <2>2, AsideStep DEF FindRegistration
<1>2. CASE DropEntry(t)
  <2>1. PICK f \in Frame : Goes(t, f) /\ f.at = "removed" /\ f.todo = threads[t].todo
    <3>1. /\ [threads[t] EXCEPT !.at = "removed"] \in Frame
          /\ [threads[t] EXCEPT !.at = "removed"].at = "removed"
          /\ [threads[t] EXCEPT !.at = "removed"].todo = threads[t].todo
      BY <1>0 DEF Frame
    <3>q. QED BY <1>2, <3>1 DEF DropEntry
  <2>2. entries' \in [Key -> SUBSET [value : Nat, stamp : Nat]] /\ entries'["payload"] = entries["payload"]
    BY <1>2 DEF DropEntry, CacheInv, CacheShape, Key
  <2>3. CacheShape'
    BY <1>2, <2>1, <2>2, OtherFrames DEF DropEntry, CacheInv, CacheShape
  <2>q. QED BY <1>0, <1>2, <2>1, <2>2, <2>3, AsideStep DEF DropEntry
<1>3. CASE DropRegistration(t)
  <2>1. registrations' \in [Key -> SUBSET Nat]
    BY <1>3 DEF DropRegistration, Unregister, CacheInv, CacheShape
  <2>2. CacheShape'
    BY <1>3, <2>1, IdleFrame, OtherFrames DEF DropRegistration, CacheInv, CacheShape
  <2>q. QED BY <1>3, <2>2, IdleFrame, AsideStep DEF DropRegistration, Sound, Idle
<1>q. QED BY <1>1, <1>2, <1>3

LEMMA BeginKeeps == ASSUME CacheInv, NEW t \in Thread, NEW call \in Call, Begin(t, call) PROVE CacheInv'
<1>1. PICK place \in {"ensure", "setting", "remove", "clear", "saving"}, keys \in {<<"timed">>, <<>>} :
          Goes(t, [Idle EXCEPT !.at = place, !.todo = keys]) /\ (place = "setting" => keys = <<"timed">>)
  <2>1. CASE call \in {"list", "home"}
    BY <2>1 DEF Begin
  <2>2. CASE call = "timed"
    BY <2>2 DEF Begin
  <2>3. CASE call = "clear"
    BY <2>3 DEF Begin
  <2>4. CASE call = "save"
    BY <2>4 DEF Begin
  <2>5. CASE call = "remove"
    BY <2>5 DEF Begin
  <2>q. QED BY <2>1, <2>2, <2>3, <2>4, <2>5 DEF Call
<1>2. PICK f \in Frame :
          /\ Goes(t, f) /\ f.at \in {"ensure", "setting", "remove", "clear", "saving"}
          /\ f.at = "setting" => f.todo = <<"timed">>
          /\ f.todo \in {<<"timed">>, <<>>}
  <2>1. place \in Place /\ keys \in Seq(Key) /\ Idle \in Frame
    <3>1. <<"timed">> \in Seq(Key) /\ <<>> \in Seq(Key)
      BY DEF Key
    <3>2. place \in Place
      BY DEF Place
    <3>q. QED BY <3>1, <3>2, IdleFrame
  <2>2. /\ [Idle EXCEPT !.at = place, !.todo = keys] \in Frame
        /\ [Idle EXCEPT !.at = place, !.todo = keys].at = place
        /\ [Idle EXCEPT !.at = place, !.todo = keys].todo = keys
    BY <2>1 DEF Frame
  <2>q. QED BY <1>1, <2>2
<1>3. CacheShape'
  <2>1. hist \in [begun : Nat, stamp : Nat, cleared : Nat, crowded : BOOLEAN]
    BY DEF CacheInv, CacheShape
  <2>2. hist' \in [begun : Nat, stamp : Nat, cleared : Nat, crowded : BOOLEAN]
    <3>1. PICK crowded : crowded = (IF Quiet THEN hist.crowded ELSE TRUE)
      OBVIOUS
    <3>2. crowded \in BOOLEAN
      BY <2>1, <3>1
    <3>3. hist' = [hist EXCEPT !.begun = hist.begun + 1, !.crowded = crowded]
      BY <3>1 DEF Begin
    <3>4. hist.begun + 1 \in Nat
      BY <2>1
    <3>q. QED BY ONLY <2>1, <3>2, <3>3, <3>4, HistBegun
  <2>q. QED BY <1>2, <2>2, OtherFrames DEF Begin, CacheInv, CacheShape
<1>4. Sound(f) /\ ~ Reads(f) /\ f.at # "fetching"
  <2>1. Short(<<"timed">>) /\ Short(<<>>) /\ <<"timed">> # <<>> /\ Head(<<"timed">>) = "timed"
    BY DEF Short
  <2>2. Short(f.todo) /\ f.at # "storing" /\ f.at # "fetching"
    BY <1>2, <2>1
  <2>3. f.at = "setting" => f.todo # <<>> /\ Head(f.todo) = "timed"
    BY <1>2, <2>1
  <2>q. QED BY <2>2, <2>3 DEF Sound, Reads
<1>5. \A u \in Thread \ {t} : Fetches(u) => Holds(u)'
  BY DEF CacheInv, FetchesInside, Holds, Begin
<1>q. QED BY <1>2, <1>3, <1>4, <1>5, OwnStep DEF Begin

(* What is cached is used: the list is put into the cache once more. *)
LEMMA UsesStep ==
    ASSUME CacheInv, NEW t \in Thread, \E e \in entries["payload"] : Uses(t, e)
    PROVE  \E f \in Frame : Goes(t, f) /\ Sound(f) /\ ~ Reads(f) /\ f.at # "fetching"
<1>1. PICK e \in entries["payload"] : Uses(t, e)
  OBVIOUS
<1>2. e.value \in Nat /\ "setting" \in Place /\ <<"list">> \in Seq(Key)
  BY DEF CacheInv, CacheShape, Key, Place
<1>3. PICK f \in Frame : Goes(t, f) /\ f.at = "setting" /\ f.todo = <<"list">>
  <2>1. "setting" \in Place /\ <<"list">> \in Seq(Key) /\ e.value \in Nat /\ threads[t] \in Frame
    BY <1>2, FrameOf
  <2>2. Goes(t, [threads[t] EXCEPT !.at = "setting", !.value = e.value, !.todo = <<"list">>])
    BY <1>1 DEF Uses
  <2>3. /\ [threads[t] EXCEPT !.at = "setting", !.value = e.value, !.todo = <<"list">>] \in Frame
       /\ [threads[t] EXCEPT !.at = "setting", !.value = e.value, !.todo = <<"list">>].at = "setting"
       /\ [threads[t] EXCEPT !.at = "setting", !.value = e.value, !.todo = <<"list">>].todo = <<"list">>
    BY <2>1 DEF Frame
  <2>q. QED BY <2>2, <2>3
<1>4. Short(<<"list">>) /\ <<"list">> # <<>> /\ Head(<<"list">>) = "list"
  BY DEF Short
<1>q. QED BY <1>3, <1>4 DEF Sound, Reads

LEMMA EnsureKeeps == ASSUME CacheInv, NEW t \in Thread, Ensure(t) PROVE CacheInv'
<1>1. PICK f \in Frame : Goes(t, f) /\ Sound(f) /\ ~ Reads(f) /\ f.at # "fetching"
  <2>1. CASE entries["payload"] # {}
    BY <2>1, UsesStep DEF Ensure
  <2>2. CASE entries["payload"] = {}
    <3>1. PICK f \in Frame : Goes(t, f) /\ f.at = "waiting" /\ f.todo = threads[t].todo
      <4>1. "waiting" \in Place /\ threads[t] \in Frame
        BY FrameOf DEF Place
      <4>2. Goes(t, [threads[t] EXCEPT !.at = "waiting"])
        BY <2>2 DEF Ensure
      <4>3. /\ [threads[t] EXCEPT !.at = "waiting"] \in Frame
           /\ [threads[t] EXCEPT !.at = "waiting"].at = "waiting"
           /\ [threads[t] EXCEPT !.at = "waiting"].todo = threads[t].todo
        BY <4>1 DEF Frame
      <4>q. QED BY <4>2, <4>3
    <3>q. QED BY <3>1, FrameOf DEF Sound, Reads
  <2>q. QED BY <2>1, <2>2
<1>2. gate' = gate \/ gate' = Append(gate, t)
  BY DEF Ensure
<1>3. CacheShape'
  <2>1. gate \in Seq(Thread)
    BY DEF CacheInv, CacheShape
  <2>2. gate' \in Seq(Thread)
    BY <1>2, <2>1
  <2>3. UNCHANGED <<masters, entries, registrations, hist>>
    BY DEF Ensure
  <2>q. QED BY <1>1, <2>2, <2>3, OtherFrames DEF CacheInv, CacheShape
<1>4. \A u \in Thread \ {t} : Fetches(u) => Holds(u)'
  BY <1>2 DEF CacheInv, CacheShape, FetchesInside, Holds
<1>q. QED BY <1>1, <1>3, <1>4, OwnStep DEF Ensure

LEMMA EnterKeeps == ASSUME CacheInv, NEW t \in Thread, Enter(t) PROVE CacheInv'
<1>0. Holds(t) /\ gate \in Seq(Thread) /\ gate # <<>>
  BY DEF Enter, Holds, CacheInv, CacheShape
<1>1. \A u \in Thread \ {t} : ~ Fetches(u) /\ ~ At(u, "fetching")
  BY <1>0 DEF CacheInv, FetchesInside, Holds, Fetches
<1>2. CASE entries["payload"] # {}
  <2>1. PICK f \in Frame : Goes(t, f) /\ Sound(f) /\ ~ Reads(f) /\ f.at # "fetching"
    BY <1>2, UsesStep DEF Enter
  <2>2. gate' \in Seq(Thread)
    BY <1>0, <1>2 DEF Enter
  <2>3. CacheShape'
    BY <2>1, <2>2, OtherFrames DEF Enter, CacheInv, CacheShape
  <2>q. QED BY <1>1, <2>1, <2>3, OwnStep DEF Enter
<1>3. CASE entries["payload"] = {}
  <2>1. PICK f \in Frame : Goes(t, f) /\ f.at = "fetching" /\ f.todo = threads[t].todo
    <3>1. "fetching" \in Place /\ threads[t] \in Frame
      BY FrameOf DEF Place
    <3>2. Goes(t, [threads[t] EXCEPT !.at = "fetching"])
      BY <1>3 DEF Enter
    <3>3. /\ [threads[t] EXCEPT !.at = "fetching"] \in Frame
         /\ [threads[t] EXCEPT !.at = "fetching"].at = "fetching"
         /\ [threads[t] EXCEPT !.at = "fetching"].todo = threads[t].todo
      BY <3>1 DEF Frame
    <3>q. QED BY <3>2, <3>3
  <2>2. UNCHANGED gate /\ UNCHANGED entries
    BY <1>3 DEF Enter
  <2>3. CacheShape'
    BY <2>1, <2>2, OtherFrames DEF Enter, CacheInv, CacheShape
  <2>4. Sound(f) /\ Holds(t)'
    BY <1>0, <2>1, <2>2, FrameOf DEF Sound, Holds
  <2>q. QED BY <1>1, <1>3, <2>1, <2>2, <2>3, <2>4, OwnStep
<1>q. QED BY <1>2, <1>3

LEMMA FetchKeeps == ASSUME CacheInv, NEW t \in Thread, Fetch(t) \/ FetchFails(t) PROVE CacheInv'
<1>0. Holds(t) /\ gate \in Seq(Thread) /\ gate # <<>>
  BY DEF Fetch, FetchFails, CacheInv, CacheShape, FetchesInside, Fetches, Holds
<1>1. \A u \in Thread \ {t} : ~ Fetches(u)
  BY <1>0 DEF CacheInv, FetchesInside, Holds
<1>2. CASE Fetch(t)
  <2>1. PICK f \in Frame : Goes(t, f) /\ f.at = "setting" /\ f.todo = <<"payload", "list">>
    <3>1. masters \in Nat /\ "setting" \in Place /\ <<"payload", "list">> \in Seq(Key) /\ threads[t] \in Frame
      BY FrameOf DEF CacheInv, CacheShape, Place, Key
    <3>2. Goes(t, [threads[t] EXCEPT !.at = "setting", !.value = masters, !.todo = <<"payload", "list">>])
      BY <1>2 DEF Fetch
    <3>3. /\ [threads[t] EXCEPT !.at = "setting", !.value = masters, !.todo = <<"payload", "list">>] \in Frame
         /\ [threads[t] EXCEPT !.at = "setting", !.value = masters, !.todo = <<"payload", "list">>].at = "setting"
         /\ [threads[t] EXCEPT !.at = "setting", !.value = masters, !.todo = <<"payload", "list">>].todo = <<"payload", "list">>
      BY <3>1 DEF Frame
    <3>q. QED BY <3>2, <3>3
  <2>2. CacheShape'
    BY <1>2, <2>1, OtherFrames DEF Fetch, CacheInv, CacheShape
  <2>3. Sound(f) /\ f.at # "fetching" /\ Holds(t)'
    BY <1>0, <1>2, <2>1 DEF Sound, Short, Fetch, Holds
  <2>q. QED BY <1>1, <1>2, <2>1, <2>2, <2>3, OwnStep DEF Fetch
<1>3. CASE FetchFails(t)
  <2>1. CacheShape'
    BY <1>0, <1>3, IdleFrame, OtherFrames DEF FetchFails, CacheInv, CacheShape
  <2>q. QED BY <1>1, <1>3, <2>1, IdleFrame, OwnStep DEF FetchFails
<1>q. QED BY <1>2, <1>3

LEMMA CancelKeeps == ASSUME CacheInv, NEW t \in Thread, Cancel(t) PROVE CacheInv'
<1>1. Goes(t, Idle) /\ UNCHANGED <<masters, entries, registrations, hist>>
  BY DEF Cancel
<1>2. gate \in Seq(Thread) /\ gate' \in Seq(Thread) /\ gate' # <<>> /\ Head(gate') = Head(gate)
  <2>1. gate \in Seq(Thread)
    BY DEF CacheInv, CacheShape
  <2>2. PICK n \in 2..Len(gate) : gate' = SubSeq(gate, 1, n - 1) \o SubSeq(gate, n + 1, Len(gate))
    BY DEF Cancel
  <2>q. QED BY <2>1, <2>2, FirstStays
<1>3. CacheShape'
  BY <1>1, <1>2, IdleFrame, OtherFrames DEF CacheInv, CacheShape
<1>4. \A u \in Thread \ {t} : Fetches(u) => Holds(u)'
  BY <1>2 DEF CacheInv, FetchesInside, Holds
<1>q. QED BY <1>1, <1>3, <1>4, IdleFrame, OwnStep

LEMMA SaveKeeps == ASSUME CacheInv, NEW t \in Thread, Save(t) PROVE CacheInv'
<1>1. masters \in Nat /\ masters' \in Nat /\ UNCHANGED <<entries, registrations, gate, hist>>
  BY DEF Save, Confirmed, Stays, CacheInv, CacheShape
<1>2. PICK f \in Frame : Goes(t, f) /\ f.at \in {"clear", "idle"} /\ Short(f.todo)
  <2>1. CASE Stays(t)
    BY <2>1, IdleFrame DEF Stays, Sound, Idle
  <2>2. ASSUME NEW version \in Nat, Confirmed(t, version)
        PROVE  \E f \in Frame : Goes(t, f) /\ f.at \in {"clear", "idle"} /\ Short(f.todo)
    <3>1. PICK f \in Frame : Goes(t, f) /\ f.at = "clear" /\ f.todo = threads[t].todo
      <4>1. "clear" \in Place /\ threads[t] \in Frame
        BY FrameOf DEF Place
      <4>2. Goes(t, [threads[t] EXCEPT !.at = "clear", !.value = version])
        BY <2>2 DEF Confirmed
      <4>3. /\ [threads[t] EXCEPT !.at = "clear", !.value = version] \in Frame
           /\ [threads[t] EXCEPT !.at = "clear", !.value = version].at = "clear"
           /\ [threads[t] EXCEPT !.at = "clear", !.value = version].todo = threads[t].todo
        BY <4>1 DEF Frame
      <4>q. QED BY <4>2, <4>3
    <3>q. QED BY <3>1, FrameOf DEF Sound
  <2>3. masters + 1 \in Nat
    BY <1>1
  <2>q. QED BY <1>1, <2>1, <2>2, <2>3 DEF Save
<1>3. CacheShape'
  BY <1>1, <1>2, OtherFrames DEF CacheInv, CacheShape
<1>q. QED BY <1>1, <1>2, <1>3, AsideStep

LEMMA SelfKeeps == ASSUME CacheInv, RunCallback \/ Expire PROVE CacheInv'
<1>1. CASE RunCallback
  <2>1. CacheShape'
    BY <1>1 DEF RunCallback, Unregister, CacheInv, CacheShape
  <2>q. QED BY <1>1, <2>1, OtherStep DEF RunCallback
<1>2. CASE Expire
  <2>1. CacheShape' /\ entries'["payload"] = entries["payload"]
    BY <1>2 DEF Expire, CacheInv, CacheShape, Key
  <2>q. QED BY <1>2, <2>1, OtherStep DEF Expire
<1>q. QED BY <1>1, <1>2

LEMMA CacheSteps == CacheInv /\ [CacheNext]_cacheVars => CacheInv'
<1> SUFFICES ASSUME CacheInv, [CacheNext]_cacheVars PROVE CacheInv'
  OBVIOUS
<1>1. CASE UNCHANGED cacheVars
  <2>1. CacheShape'
    BY <1>1 DEF cacheVars, CacheInv, CacheShape
  <2>q. QED BY <1>1, <2>1, OtherStep DEF cacheVars
<1>2. ASSUME NEW t \in Thread, Works(t) PROVE CacheInv'
  BY <1>2, RegisterKeeps, StoreKeeps, ClearKeeps, RemoveKeeps, EnsureKeeps, EnterKeeps, FetchKeeps, SaveKeeps DEF Works
<1>q. QED BY <1>1, <1>2, CancelKeeps, BeginKeeps, SelfKeeps DEF CacheNext

(* The masters of a store are read by one request at a time, and only while *)
(* they are not cached, however many requests ask for them at once          *)
(* (EnsureAsync looks again behind the gate).                               *)
THEOREM MastersFetchedOnce == CacheSpec => []OneFetch
<1>1. CacheInit => CacheInv
  BY CacheStarts
<1>2. CacheInv /\ [CacheNext]_cacheVars => CacheInv'
  BY CacheSteps
<1>3. CacheInv => OneFetch
  BY InvGivesOneFetch
<1>q. QED BY <1>1, <1>2, <1>3, PTL DEF CacheSpec

-----------------------------------------------------------------------------
(* What each step does to the frame of its thread. *)

Moved(t) == \A u \in Thread \ {t} : threads'[u] = threads[u]

LEMMA Going ==
    ASSUME CacheInv, NEW t \in Thread, NEW f, Goes(t, f)
    PROVE  threads'[t] = f /\ Moved(t)
BY DEF Goes, Moved, CacheInv, CacheShape

LEMMA RegisterFrame ==
    ASSUME CacheInv, NEW t \in Thread, Register(t)
    PROVE  /\ Moved(t) /\ threads[t].at = "setting" /\ threads'[t].at = "storing"
           /\ threads'[t].todo = threads[t].todo /\ threads'[t].value = threads[t].value
           /\ threads'[t].stamp = hist.stamp + 1
<1>1. Goes(t, [threads[t] EXCEPT !.at = "storing", !.stamp = hist.stamp + 1])
  BY DEF Register
<1>2. threads'[t] = [threads[t] EXCEPT !.at = "storing", !.stamp = hist.stamp + 1] /\ Moved(t)
  BY <1>1, Going
<1>3. /\ threads'[t].at = "storing" /\ threads'[t].stamp = hist.stamp + 1
      /\ threads'[t].todo = threads[t].todo /\ threads'[t].value = threads[t].value
  BY <1>2, FrameOf DEF Frame
<1>q. QED BY <1>2, <1>3 DEF Register, At

LEMMA StoreFrame ==
    ASSUME CacheInv, NEW t \in Thread, Store(t)
    PROVE  /\ Moved(t) /\ threads[t].at = "storing"
           /\ \/ /\ Len(threads[t].todo) > 1 /\ UNCHANGED gate
                 /\ threads'[t].at = "setting" /\ threads'[t].todo = Tail(threads[t].todo)
                 /\ threads'[t].value = threads[t].value
              \/ /\ ~ (Len(threads[t].todo) > 1) /\ Holds(t) /\ gate' = Tail(gate)
                 /\ threads'[t].at = "setting" /\ threads'[t].todo = <<"list">>
                 /\ threads'[t].value = threads[t].value
              \/ /\ ~ (Len(threads[t].todo) > 1) /\ ~ Holds(t) /\ UNCHANGED gate
                 /\ threads'[t] = Idle
<1>0. threads[t].at = "storing"
  BY DEF Store, At
<1>1. CASE Len(threads[t].todo) > 1
  <2>1. Goes(t, [threads[t] EXCEPT !.at = "setting", !.todo = Tail(threads[t].todo)]) /\ UNCHANGED gate
    BY <1>1 DEF Store
  <2>2. threads'[t] = [threads[t] EXCEPT !.at = "setting", !.todo = Tail(threads[t].todo)] /\ Moved(t)
    BY <2>1, Going
  <2>3. /\ threads'[t].at = "setting" /\ threads'[t].todo = Tail(threads[t].todo)
        /\ threads'[t].value = threads[t].value
    BY <2>2, FrameOf DEF Frame
  <2>q. QED BY <1>0, <1>1, <2>1, <2>2, <2>3
<1>2. CASE ~ (Len(threads[t].todo) > 1) /\ Holds(t)
  <2>1. Goes(t, [threads[t] EXCEPT !.at = "setting", !.todo = <<"list">>]) /\ gate' = Tail(gate)
    BY <1>2 DEF Store
  <2>2. threads'[t] = [threads[t] EXCEPT !.at = "setting", !.todo = <<"list">>] /\ Moved(t)
    BY <2>1, Going
  <2>3. /\ threads'[t].at = "setting" /\ threads'[t].todo = <<"list">>
        /\ threads'[t].value = threads[t].value
    BY <2>2, FrameOf DEF Frame
  <2>q. QED BY <1>0, <1>2, <2>1, <2>2, <2>3
<1>3. CASE ~ (Len(threads[t].todo) > 1) /\ ~ Holds(t)
  <2>1. Goes(t, Idle) /\ UNCHANGED gate
    BY <1>3 DEF Store
  <2>q. QED BY <1>0, <1>3, <2>1, Going
<1>q. QED BY <1>1, <1>2, <1>3

LEMMA TakeFrame ==
    ASSUME CacheInv, NEW t \in Thread, TakeList(t)
    PROVE  /\ Moved(t) /\ threads[t].at = "clear" /\ threads'[t].at = "clearing"
           /\ threads'[t].left = Registered /\ threads'[t].met = Contents
           /\ threads'[t].value = threads[t].value
<1>1. Goes(t, [threads[t] EXCEPT !.at = "clearing", !.left = Registered, !.met = Contents])
  BY DEF TakeList
<1>2. threads'[t] = [threads[t] EXCEPT !.at = "clearing", !.left = Registered, !.met = Contents] /\ Moved(t)
  BY <1>1, Going
<1>3. /\ threads'[t].at = "clearing" /\ threads'[t].value = threads[t].value
      /\ threads'[t].left = Registered /\ threads'[t].met = Contents
  BY <1>2, FrameOf DEF Frame
<1>q. QED BY <1>2, <1>3 DEF TakeList, At

LEMMA RemoveFrame ==
    ASSUME CacheInv, NEW t \in Thread, RemoveEntry(t)
    PROVE  /\ Moved(t) /\ threads[t].at = "clearing" /\ threads'[t].at = "unlisting"
           /\ threads'[t].value = threads[t].value
           /\ threads'[t].left = threads[t].left /\ threads'[t].met = threads[t].met
           /\ Head(threads'[t].todo) \in Key
           /\ entries' = [entries EXCEPT ![Head(threads'[t].todo)] = {}]
           /\ evicted' = evicted \cup CallbacksOf(Head(threads'[t].todo))
<1>1. PICK item \in threads[t].left :
          /\ evicted' = evicted \cup CallbacksOf(item.key)
          /\ entries' = [entries EXCEPT ![item.key] = {}]
          /\ Goes(t, [threads[t] EXCEPT !.at = "unlisting", !.todo = <<item.key>>, !.stamp = item.stamp])
  BY DEF RemoveEntry
<1>2. item.key \in Key
  BY FrameOf DEF Frame, Item
<1>3. /\ threads'[t] = [threads[t] EXCEPT !.at = "unlisting", !.todo = <<item.key>>, !.stamp = item.stamp]
      /\ Moved(t)
  BY <1>1, Going
<1>4. threads'[t].todo = <<item.key>>
  BY <1>3, FrameOf DEF Frame
<1>5. Head(threads'[t].todo) = item.key
  BY <1>4
<1>6. /\ threads'[t].at = "unlisting" /\ threads'[t].value = threads[t].value
      /\ threads'[t].left = threads[t].left /\ threads'[t].met = threads[t].met
  BY <1>3, FrameOf DEF Frame
<1>q. QED BY <1>1, <1>2, <1>3, <1>5, <1>6 DEF RemoveEntry, At

LEMMA UnlistFrame ==
    ASSUME CacheInv, NEW t \in Thread, RemoveListed(t)
    PROVE  /\ Moved(t) /\ threads[t].at = "unlisting" /\ threads'[t].at = "clearing"
           /\ threads'[t].value = threads[t].value /\ threads'[t].met = threads[t].met
           /\ threads'[t].left =
                threads[t].left \ {[key |-> Head(threads[t].todo), stamp |-> threads[t].stamp]}
<1>1. PICK left : left = threads[t].left \ {[key |-> Head(threads[t].todo), stamp |-> threads[t].stamp]}
  OBVIOUS
<1>2. Goes(t, [threads[t] EXCEPT !.at = "clearing", !.todo = <<>>, !.stamp = 0, !.left = left])
  BY <1>1 DEF RemoveListed
<1>3. threads'[t] = [threads[t] EXCEPT !.at = "clearing", !.todo = <<>>, !.stamp = 0, !.left = left] /\ Moved(t)
  BY <1>2, Going
<1>4. /\ threads'[t].at = "clearing" /\ threads'[t].value = threads[t].value
      /\ threads'[t].met = threads[t].met /\ threads'[t].left = left
  BY <1>3, FrameOf DEF Frame
<1>q. QED BY <1>1, <1>3, <1>4 DEF RemoveListed, At

LEMMA ClearedFrame ==
    ASSUME CacheInv, NEW t \in Thread, Cleared(t)
    PROVE  Moved(t) /\ threads[t].at = "clearing" /\ threads[t].left = {} /\ threads'[t] = Idle
BY Going DEF Cleared, At

LEMMA PlaceFrame ==
    ASSUME CacheInv, NEW t \in Thread, NEW place, Goes(t, [threads[t] EXCEPT !.at = place])
    PROVE  Moved(t) /\ threads'[t].at = place
BY Going, FrameOf DEF Frame

LEMMA FindFrame ==
    ASSUME CacheInv, NEW t \in Thread, FindRegistration(t)
    PROVE  Moved(t) /\ threads[t].at = "remove" /\ threads'[t].at = "removing"
<1>1. ASSUME NEW r, Goes(t, [threads[t] EXCEPT !.at = "removing", !.stamp = r])
      PROVE  Moved(t) /\ threads'[t].at = "removing"
  <2>1. threads'[t] = [threads[t] EXCEPT !.at = "removing", !.stamp = r] /\ Moved(t)
    BY <1>1, Going
  <2>q. QED BY <2>1, FrameOf DEF Frame
<1>2. ASSUME Goes(t, [threads[t] EXCEPT !.at = "removing"])
      PROVE  Moved(t) /\ threads'[t].at = "removing"
  BY <1>2, PlaceFrame
<1>q. QED BY <1>1, <1>2 DEF FindRegistration, At

LEMMA DropEntryFrame ==
    ASSUME CacheInv, NEW t \in Thread, DropEntry(t)
    PROVE  Moved(t) /\ threads[t].at = "removing" /\ threads'[t].at = "removed"
<1>1. Goes(t, [threads[t] EXCEPT !.at = "removed"])
  BY DEF DropEntry
<1>q. QED BY <1>1, PlaceFrame DEF DropEntry, At

LEMMA DropRegistrationFrame ==
    ASSUME CacheInv, NEW t \in Thread, DropRegistration(t)
    PROVE  Moved(t) /\ threads[t].at = "removed" /\ threads'[t] = Idle
BY Going DEF DropRegistration, At

LEMMA BeginFrame ==
    ASSUME CacheInv, NEW t \in Thread, NEW call \in Call, Begin(t, call)
    PROVE  /\ Moved(t) /\ threads[t].at = "idle" /\ threads'[t].value = 0
           /\ \/ threads'[t].at \in {"ensure", "remove", "clear", "saving"}
              \/ threads'[t].at = "setting" /\ threads'[t].todo = <<"timed">>
<1>1. PICK place \in {"ensure", "setting", "remove", "clear", "saving"}, keys \in {<<"timed">>, <<>>} :
          Goes(t, [Idle EXCEPT !.at = place, !.todo = keys]) /\ (place = "setting" => keys = <<"timed">>)
  <2>1. CASE call \in {"list", "home"}
    BY <2>1 DEF Begin
  <2>2. CASE call = "timed"
    BY <2>2 DEF Begin
  <2>3. CASE call = "clear"
    BY <2>3 DEF Begin
  <2>4. CASE call = "save"
    BY <2>4 DEF Begin
  <2>5. CASE call = "remove"
    BY <2>5 DEF Begin
  <2>q. QED BY <2>1, <2>2, <2>3, <2>4, <2>5 DEF Call
<1>2. threads'[t] = [Idle EXCEPT !.at = place, !.todo = keys] /\ Moved(t)
  BY <1>1, Going
<1>3. threads'[t].at = place /\ threads'[t].todo = keys /\ threads'[t].value = 0
  BY <1>2 DEF Idle
<1>q. QED BY <1>1, <1>2, <1>3 DEF Begin, At

LEMMA UsesFrame ==
    ASSUME CacheInv, NEW t \in Thread, NEW e \in entries["payload"], Uses(t, e)
    PROVE  /\ Moved(t) /\ threads'[t].at = "setting"
           /\ threads'[t].value = e.value /\ threads'[t].todo = <<"list">>
<1>1. Goes(t, [threads[t] EXCEPT !.at = "setting", !.value = e.value, !.todo = <<"list">>])
  BY DEF Uses
<1>2. threads'[t] = [threads[t] EXCEPT !.at = "setting", !.value = e.value, !.todo = <<"list">>] /\ Moved(t)
  BY <1>1, Going
<1>q. QED BY <1>2, FrameOf DEF Frame

LEMMA FetchFrame ==
    ASSUME CacheInv, NEW t \in Thread, Fetch(t)
    PROVE  /\ Moved(t) /\ threads[t].at = "fetching" /\ threads'[t].at = "setting"
           /\ threads'[t].value = masters /\ threads'[t].todo = <<"payload", "list">>
<1>1. Goes(t, [threads[t] EXCEPT !.at = "setting", !.value = masters, !.todo = <<"payload", "list">>])
  BY DEF Fetch
<1>2. threads'[t] = [threads[t] EXCEPT !.at = "setting", !.value = masters, !.todo = <<"payload", "list">>] /\ Moved(t)
  BY <1>1, Going
<1>3. threads'[t].at = "setting" /\ threads'[t].value = masters /\ threads'[t].todo = <<"payload", "list">>
  BY <1>2, FrameOf DEF Frame
<1>q. QED BY <1>2, <1>3 DEF Fetch, At

LEMMA SaveFrame ==
    ASSUME CacheInv, NEW t \in Thread, Save(t)
    PROVE  /\ Moved(t) /\ threads[t].at = "saving"
           /\ masters \in Nat /\ masters' \in Nat /\ masters <= masters'
           /\ threads'[t].at \in {"idle", "clear"}
           /\ threads'[t].at = "clear" => threads'[t].value = masters'
<1>1. masters \in Nat /\ threads[t].at = "saving"
  BY DEF CacheInv, CacheShape, Save, At
<1>2. CASE Stays(t)
  <2>1. threads'[t] = Idle /\ Moved(t)
    BY <1>2, Going DEF Stays
  <2>q. QED BY <1>1, <2>1 DEF Save, Idle
<1>3. ASSUME NEW version, Confirmed(t, version)
      PROVE  threads'[t].at = "clear" /\ threads'[t].value = version /\ Moved(t)
  <2>1. Goes(t, [threads[t] EXCEPT !.at = "clear", !.value = version])
    BY <1>3 DEF Confirmed
  <2>2. threads'[t] = [threads[t] EXCEPT !.at = "clear", !.value = version] /\ Moved(t)
    BY <2>1, Going
  <2>q. QED BY <2>2, FrameOf DEF Frame
<1>q. QED BY <1>1, <1>2, <1>3 DEF Save

-----------------------------------------------------------------------------
(* Nothing is registered that is not cached, unless its callback waits or   *)
(* the entry is just about to be stored.                                    *)

Storing(t, k) == threads[t].at = "storing" /\ Head(threads[t].todo) = k

Backed(k, r) ==
    \/ \E e \in entries[k] : e.stamp = r
    \/ [key |-> k, stamp |-> r] \in evicted
    \/ \E t \in Thread : Storing(t, k) /\ threads[t].stamp = r

AllBacked == \A k \in Key : \A r \in registrations[k] : Backed(k, r)

LEMMA BackedListed == AllBacked => ListedIsCached
<1> SUFFICES ASSUME AllBacked, Quiet, evicted = {}, NEW item \in Registered PROVE item \in Contents
  BY DEF ListedIsCached
<1>1. PICK k \in Key : \E r \in registrations[k] : item = [key |-> k, stamp |-> r]
  BY DEF Registered
<1>2. PICK r \in registrations[k] : item = [key |-> k, stamp |-> r]
  BY <1>1
<1>3. PICK e \in entries[k] : e.stamp = r
  BY DEF AllBacked, Backed, Storing, Quiet
<1>q. QED BY <1>2, <1>3 DEF Contents

(* A step that registers nothing keeps what backs a registration: an entry  *)
(* that goes leaves its callback, a callback that goes takes its            *)
(* registration along, and a thread that stores leaves its entry.           *)
LEMMA BackedStays ==
    ASSUME AllBacked,
           \A k \in Key : registrations'[k] \subseteq registrations[k],
           \A k \in Key : entries'[k] = entries[k] \/ CallbacksOf(k) \subseteq evicted',
           \A k \in Key : \A r \in registrations'[k] :
               [key |-> k, stamp |-> r] \in evicted => [key |-> k, stamp |-> r] \in evicted',
           \A t \in Thread : \A k \in Key :
               Storing(t, k) => \/ Storing(t, k)' /\ threads'[t].stamp = threads[t].stamp
                                \/ \E e \in entries'[k] : e.stamp = threads[t].stamp
    PROVE  AllBacked'
<1> SUFFICES ASSUME NEW k \in Key, NEW r \in registrations'[k] PROVE Backed(k, r)'
  BY DEF AllBacked
<1>1. Backed(k, r)
  BY DEF AllBacked
<1>2. ASSUME NEW e \in entries[k], e.stamp = r PROVE Backed(k, r)'
  <2>1. CASE entries'[k] = entries[k]
    BY <1>2, <2>1 DEF Backed
  <2>2. CASE CallbacksOf(k) \subseteq evicted'
    BY <1>2, <2>2 DEF Backed, CallbacksOf
  <2>q. QED BY <2>1, <2>2
<1>3. ASSUME NEW t \in Thread, Storing(t, k), threads[t].stamp = r PROVE Backed(k, r)'
  BY <1>3 DEF Backed
<1>q. QED BY <1>1, <1>2, <1>3 DEF Backed

(* A thread that goes on without storing keeps what the others are about to *)
(* store.                                                                   *)
LEMMA BackedAside ==
    ASSUME AllBacked, NEW t \in Thread, Moved(t), threads[t].at # "storing",
           \A k \in Key : registrations'[k] \subseteq registrations[k],
           \A k \in Key : entries'[k] = entries[k] \/ CallbacksOf(k) \subseteq evicted',
           evicted \subseteq evicted'
    PROVE  AllBacked'
<1>1. ASSUME NEW u \in Thread, NEW k \in Key, Storing(u, k)
      PROVE  Storing(u, k)' /\ threads'[u].stamp = threads[u].stamp
  BY <1>1 DEF Moved, Storing
<1>2. \A u \in Thread : \A k \in Key : Storing(u, k) => Storing(u, k)' /\ threads'[u].stamp = threads[u].stamp
  BY <1>1
<1>q. QED BY <1>2, BackedStays

LEMMA BackedRegister == ASSUME CacheInv, AllBacked, NEW t \in Thread, Register(t) PROVE AllBacked'
<1> DEFINE key == Head(threads[t].todo)
<1>1. /\ Moved(t) /\ threads[t].at = "setting" /\ threads'[t].at = "storing"
      /\ threads'[t].todo = threads[t].todo /\ threads'[t].stamp = hist.stamp + 1
  BY RegisterFrame
<1>2. registrations \in [Key -> SUBSET Nat] /\ registrations' = [registrations EXCEPT ![key] = {hist.stamp + 1}]
  BY DEF Register, CacheInv, CacheShape
<1>3. UNCHANGED <<entries, evicted>>
  BY DEF Register
<1> SUFFICES ASSUME NEW k \in Key, NEW r \in registrations'[k] PROVE Backed(k, r)'
  BY DEF AllBacked
<1>4. CASE k = key
  <2>1. r = hist.stamp + 1
    BY <1>2, <1>4
  <2>2. Storing(t, k)' /\ threads'[t].stamp = r
    BY <1>1, <1>4, <2>1 DEF Storing
  <2>q. QED BY <2>2 DEF Backed
<1>5. CASE k # key
  <2>1. r \in registrations[k]
    BY <1>2, <1>5
  <2>2. Backed(k, r)
    BY <2>1 DEF AllBacked
  <2>3. ASSUME NEW u \in Thread, Storing(u, k) PROVE Storing(u, k)' /\ threads'[u].stamp = threads[u].stamp
    BY <1>1, <2>3 DEF Storing, Moved
  <2>q. QED BY <1>3, <2>2, <2>3 DEF Backed
<1>q. QED BY <1>4, <1>5

LEMMA BackedStore == ASSUME CacheInv, AllBacked, NEW t \in Thread, Store(t) PROVE AllBacked'
<1> DEFINE key == Head(threads[t].todo)
<1>1. Moved(t) /\ threads[t].at = "storing"
  BY StoreFrame
<1>2. /\ entries \in [Key -> SUBSET [value : Nat, stamp : Nat]]
      /\ entries' = [entries EXCEPT ![key] = {[value |-> threads[t].value, stamp |-> threads[t].stamp]}]
      /\ evicted' = evicted \cup CallbacksOf(key)
      /\ UNCHANGED registrations
  BY DEF Store, CacheInv, CacheShape
<1>3. \A k \in Key : entries'[k] = entries[k] \/ CallbacksOf(k) \subseteq evicted'
  BY <1>2
<1>4. ASSUME NEW u \in Thread, NEW k \in Key, Storing(u, k)
      PROVE  \/ Storing(u, k)' /\ threads'[u].stamp = threads[u].stamp
             \/ \E e \in entries'[k] : e.stamp = threads[u].stamp
  <2>1. CASE u = t
    <3>1. k = key
      BY <1>4, <2>1 DEF Storing
    <3>2. entries'[k] = {[value |-> threads[t].value, stamp |-> threads[t].stamp]}
      BY <1>2, <3>1
    <3>q. QED BY <2>1, <3>2
  <2>2. CASE u # t
    BY <1>1, <1>4, <2>2 DEF Storing, Moved
  <2>q. QED BY <2>1, <2>2
<1>q. QED BY <1>2, <1>3, <1>4, BackedStays

LEMMA BackedCallback == ASSUME CacheInv, AllBacked, RunCallback PROVE AllBacked'
<1>1. PICK item \in evicted : evicted' = evicted \ {item} /\ Unregister(item)
  BY DEF RunCallback
<1>2. registrations \in [Key -> SUBSET Nat] /\ UNCHANGED <<entries, threads>>
  BY DEF RunCallback, CacheInv, CacheShape
<1>3. \A k \in Key : registrations'[k] \subseteq registrations[k]
  BY <1>1, <1>2 DEF Unregister
<1>4. ASSUME NEW k \in Key, NEW r \in registrations'[k], [key |-> k, stamp |-> r] \in evicted
      PROVE  [key |-> k, stamp |-> r] \in evicted'
  <2>1. ASSUME [key |-> k, stamp |-> r] = item PROVE FALSE
    <3>1. item.key = k /\ item.stamp = r
      BY <2>1
    <3>2. registrations'[k] = registrations[k] \ {r}
      BY <1>1, <1>2, <3>1 DEF Unregister
    <3>q. QED BY <3>2
  <2>q. QED BY <1>1, <1>4, <2>1
<1>5. \A t \in Thread : \A k \in Key : Storing(t, k) => Storing(t, k)' /\ threads'[t].stamp = threads[t].stamp
  BY <1>2 DEF Storing
<1>q. QED BY <1>2, <1>3, <1>4, <1>5, BackedStays

LEMMA BackedExpire == ASSUME CacheInv, AllBacked, Expire PROVE AllBacked'
<1>1. entries \in [Key -> SUBSET [value : Nat, stamp : Nat]]
  BY DEF CacheInv, CacheShape
<1>2. \A k \in Key : entries'[k] = entries[k] \/ CallbacksOf(k) \subseteq evicted'
  BY <1>1 DEF Expire
<1>3. \A t \in Thread : \A k \in Key : Storing(t, k) => Storing(t, k)' /\ threads'[t].stamp = threads[t].stamp
  BY DEF Expire, Storing
<1>4. UNCHANGED registrations /\ evicted \subseteq evicted'
  BY DEF Expire
<1>q. QED BY <1>2, <1>3, <1>4, BackedStays

LEMMA BackedUnlist == ASSUME CacheInv, AllBacked, NEW t \in Thread, RemoveListed(t) PROVE AllBacked'
<1>1. Moved(t) /\ threads[t].at = "unlisting"
  BY UnlistFrame
<1>2. \A k \in Key : registrations'[k] \subseteq registrations[k]
  <2>1. registrations \in [Key -> SUBSET Nat]
    BY DEF CacheInv, CacheShape
  <2>2. PICK item : Unregister(item)
    BY DEF RemoveListed
  <2>q. QED BY <2>1, <2>2 DEF Unregister
<1>3. UNCHANGED <<entries, evicted>>
  BY DEF RemoveListed
<1>q. QED BY <1>1, <1>2, <1>3, BackedAside

LEMMA BackedRemove == ASSUME CacheInv, AllBacked, NEW t \in Thread, RemoveEntry(t) PROVE AllBacked'
<1> DEFINE key == Head(threads'[t].todo)
<1>1. /\ Moved(t) /\ threads[t].at = "clearing"
      /\ key \in Key /\ entries' = [entries EXCEPT ![key] = {}] /\ evicted' = evicted \cup CallbacksOf(key)
  BY RemoveFrame
<1>2. \A k \in Key : entries'[k] = entries[k] \/ CallbacksOf(k) \subseteq evicted'
  BY <1>1 DEF CacheInv, CacheShape
<1>3. UNCHANGED registrations
  BY DEF RemoveEntry
<1>q. QED BY <1>1, <1>2, <1>3, BackedAside

LEMMA BackedDropEntry == ASSUME CacheInv, AllBacked, NEW t \in Thread, DropEntry(t) PROVE AllBacked'
<1>1. Moved(t) /\ threads[t].at # "storing"
  BY DropEntryFrame
<1>2. \A k \in Key : entries'[k] = entries[k] \/ CallbacksOf(k) \subseteq evicted'
  BY DEF DropEntry, CacheInv, CacheShape
<1>3. UNCHANGED registrations /\ evicted \subseteq evicted'
  BY DEF DropEntry
<1>q. QED BY <1>1, <1>2, <1>3, BackedAside

LEMMA BackedDropRegistration == ASSUME CacheInv, AllBacked, NEW t \in Thread, DropRegistration(t) PROVE AllBacked'
<1>1. Moved(t) /\ threads[t].at # "storing"
  BY DropRegistrationFrame
<1>2. \A k \in Key : registrations'[k] \subseteq registrations[k]
  BY DEF DropRegistration, Unregister, CacheInv, CacheShape
<1>3. UNCHANGED <<entries, evicted>>
  BY DEF DropRegistration
<1>q. QED BY <1>1, <1>2, <1>3, BackedAside

(* The other steps touch neither entries nor registrations. *)
LEMMA MovesOn ==
    ASSUME CacheInv, NEW t \in Thread,
           \/ TakeList(t) \/ Cleared(t) \/ FindRegistration(t) \/ Ensure(t) \/ Enter(t) \/ Fetch(t) \/ FetchFails(t)
           \/ Save(t) \/ Cancel(t) \/ \E call \in Call : Begin(t, call)
    PROVE  Moved(t) /\ threads[t].at # "storing" /\ UNCHANGED <<entries, registrations, evicted>>
<1>1. CASE TakeList(t) \/ Cleared(t)
  BY <1>1, TakeFrame, ClearedFrame DEF TakeList, Cleared
<1>2. CASE Ensure(t) \/ Enter(t)
  BY <1>2, UsesFrame, PlaceFrame DEF Ensure, Enter, At
<1>3. CASE Fetch(t) \/ FetchFails(t) \/ Cancel(t)
  BY <1>3, FetchFrame, Going DEF Fetch, FetchFails, Cancel, At
<1>4. CASE Save(t)
  BY <1>4, SaveFrame DEF Save
<1>5. ASSUME NEW call \in Call, Begin(t, call) PROVE Moved(t) /\ threads[t].at # "storing" /\ UNCHANGED <<entries, registrations, evicted>>
  BY <1>5, BeginFrame DEF Begin
<1>6. CASE FindRegistration(t)
  BY <1>6, FindFrame DEF FindRegistration
<1>q. QED BY <1>1, <1>2, <1>3, <1>4, <1>5, <1>6

LEMMA BackedSteps == CacheInv /\ AllBacked /\ [CacheNext]_cacheVars => AllBacked'
<1> SUFFICES ASSUME CacheInv, AllBacked, [CacheNext]_cacheVars PROVE AllBacked'
  OBVIOUS
<1>1. CASE UNCHANGED cacheVars
  BY <1>1 DEF cacheVars, AllBacked, Backed, Storing
<1>2. ASSUME NEW t \in Thread,
             \/ TakeList(t) \/ Cleared(t) \/ FindRegistration(t) \/ Ensure(t) \/ Enter(t) \/ Fetch(t) \/ FetchFails(t)
             \/ Save(t) \/ Cancel(t) \/ \E call \in Call : Begin(t, call)
      PROVE  AllBacked'
  BY <1>2, MovesOn, BackedAside
<1>3. CASE CacheNext
  BY <1>2, <1>3, BackedRegister, BackedStore, BackedCallback, BackedExpire, BackedUnlist, BackedRemove,
     BackedDropEntry, BackedDropRegistration
     DEF CacheNext, Works
<1>q. QED BY <1>1, <1>3

-----------------------------------------------------------------------------
(* Until two requests meet. *)

OneBusy == \A t, u \in Thread : threads[t].at # "idle" /\ threads[u].at # "idle" => t = u

Serves(t) == threads[t].at \in {"setting", "storing"}

Todo == {<<"timed">>, <<"list">>, <<"payload", "list">>}

(* What is about to be cached is new and registered, and not older than the *)
(* last save; ClearAll has all that is cached on its list, and Remove takes *)
(* a registration when its entry is gone.                                   *)
AloneFrame(t) ==
    /\ Serves(t) =>
         /\ threads[t].todo \in Todo
         /\ threads[t].todo # <<"timed">> => threads[t].value >= hist.cleared
    /\ threads[t].at = "storing" =>
         LET k == Head(threads[t].todo)
             r == threads[t].stamp
         IN  /\ r \in registrations[k] /\ [key |-> k, stamp |-> r] \notin evicted
             /\ r <= hist.stamp /\ \A e \in entries[k] : e.stamp # r
    /\ threads[t].at \in {"clear", "clearing", "unlisting"} => threads[t].value <= masters
    /\ threads[t].at \in {"clearing", "unlisting"} =>
         Contents \subseteq threads[t].left /\ Contents \subseteq threads[t].met
    /\ threads[t].at = "unlisting" => Head(threads[t].todo) \in Key /\ entries[Head(threads[t].todo)] = {}
    /\ threads[t].at = "removed" => entries["timed"] = {}
    /\ Holds(t) => threads[t].at \in {"waiting", "fetching"} \/ (Serves(t) /\ threads[t].todo # <<"timed">>)

(* What is cached is registered, no callback waits for it, and it is not    *)
(* older than the last save.                                                *)
AloneState ==
    /\ hist.cleared <= masters /\ Len(gate) <= 1
    /\ evicted \subseteq Item /\ \A item \in evicted : item.stamp <= hist.stamp
    /\ \A k \in Key : \A e \in entries[k] :
         /\ e.stamp <= hist.stamp /\ [key |-> k, stamp |-> e.stamp] \notin evicted
         /\ e.stamp \in registrations[k] \/ \E t \in Thread : Storing(t, k)
    /\ \A k \in Master : \A e \in entries[k] : e.value >= hist.cleared

AloneInv == OneBusy /\ AloneState /\ \A t \in Thread : AloneFrame(t)

LEMMA AloneGives == AloneInv => EntryListed /\ FreshAfterSave /\ ClearAllClears
<1> SUFFICES ASSUME AloneInv PROVE EntryListed /\ FreshAfterSave /\ ClearAllClears
  OBVIOUS
<1>1. EntryListed
  <2> SUFFICES ASSUME Quiet, NEW item \in Contents PROVE item \in Registered
    BY DEF EntryListed
  <2>1. PICK k \in Key : \E e \in entries[k] : item = [key |-> k, stamp |-> e.stamp]
    BY DEF Contents
  <2>2. PICK e \in entries[k] : item = [key |-> k, stamp |-> e.stamp]
    BY <2>1
  <2>3. e.stamp \in registrations[k]
    BY DEF AloneInv, AloneState, Storing, Quiet
  <2>q. QED BY <2>2, <2>3 DEF Registered
<1>2. FreshAfterSave
  BY DEF AloneInv, AloneState, FreshAfterSave
<1>3. ClearAllClears
  BY DEF AloneInv, AloneFrame, ClearAllClears, At
<1>q. QED BY <1>1, <1>2, <1>3

LEMMA Single ==
    ASSUME NEW S, NEW s \in Seq(S), Len(s) <= 1, s # <<>>
    PROVE  Len(s) = 1 /\ s[1] \in S /\ Head(s) = s[1] /\ s = <<s[1]>> /\ Tail(s) = <<>>
<1>1. Len(s) = 1
  <2>1. PICK n \in Nat : n = Len(s)
    OBVIOUS
  <2>2. n # 0
    BY <2>1
  <2>q. QED BY <2>1, <2>2
<1>2. s[1] \in S /\ Head(s) = s[1]
  BY <1>1
<1>3. s = <<s[1]>>
  BY <1>1
<1>4. Tail(s) = <<>>
  BY <1>3
<1>q. QED BY <1>1, <1>2, <1>3, <1>4

(* Only the thread that is busy can hold the gate, and nobody is behind it. *)
LEMMA GateAlone ==
    ASSUME CacheInv, AloneInv
    PROVE  /\ gate = <<>> \/ \E t \in Thread : Holds(t) /\ gate = <<t>> /\ threads[t].at # "idle"
           /\ Tail(gate) = <<>> \/ gate = <<>>
<1>1. gate \in Seq(Thread) /\ Len(gate) <= 1
  BY DEF CacheInv, CacheShape, AloneInv, AloneState
<1>2. CASE gate # <<>>
  <2>1. Len(gate) = 1 /\ gate[1] \in Thread /\ Head(gate) = gate[1]
    BY <1>1, <1>2, Single
  <2>2. gate = <<gate[1]>> /\ Tail(gate) = <<>>
    BY <1>1, <1>2, Single
  <2>3. Holds(gate[1])
    BY <1>2, <2>1 DEF Holds
  <2>4. threads[gate[1]].at # "idle"
    BY <2>1, <2>3 DEF AloneInv, AloneFrame, Serves
  <2>q. QED BY <2>1, <2>2, <2>3, <2>4
<1>q. QED BY <1>2

(* While one is busy, the others are idle and stay so. *)
LEMMA AloneStep ==
    ASSUME CacheInv, AloneInv, NEW t \in Thread, Moved(t), threads[t].at # "idle",
           AloneFrame(t)', AloneState', gate' = gate \/ gate' \in {<<>>, <<t>>}
    PROVE  AloneInv'
<1>1. \A u \in Thread \ {t} : threads[u].at = "idle" /\ threads'[u].at = "idle"
  BY DEF AloneInv, OneBusy, Moved
<1>2. \A u \in Thread \ {t} : ~ Holds(u)'
  <2> SUFFICES ASSUME NEW u \in Thread \ {t}, Holds(u)' PROVE FALSE
    OBVIOUS
  <2>1. CASE gate' = gate
    BY <1>1, <2>1 DEF Holds, AloneInv, AloneFrame, Serves
  <2>2. CASE gate' = <<t>>
    BY <2>2 DEF Holds
  <2>3. CASE gate' = <<>>
    BY <2>3 DEF Holds
  <2>q. QED BY <2>1, <2>2, <2>3
<1>3. OneBusy'
  BY <1>1 DEF OneBusy
<1>4. \A u \in Thread \ {t} : AloneFrame(u)'
  BY <1>1, <1>2 DEF AloneFrame, Serves
<1>q. QED BY <1>3, <1>4 DEF AloneInv

(* A thread that neither caches nor empties anything. *)
LEMMA AloneAside ==
    ASSUME CacheInv, AloneInv, NEW t \in Thread, Moved(t), threads[t].at \notin {"idle", "storing"},
           UNCHANGED <<entries, registrations, evicted>>,
           hist'.stamp = hist.stamp, hist'.cleared = hist.cleared, masters \in Nat, masters' \in Nat, masters <= masters',
           AloneFrame(t)', gate' = gate \/ gate' \in {<<>>, <<t>>}
    PROVE  AloneInv'
<1>1. \A u \in Thread : threads[u].at # "storing"
  BY DEF AloneInv, OneBusy
<1>2. Len(gate') <= 1
  <2>1. Len(<<>>) <= 1 /\ Len(<<t>>) <= 1
    OBVIOUS
  <2>q. QED BY <2>1 DEF AloneInv, AloneState
<1>3. hist.cleared <= masters'
  BY DEF AloneInv, AloneState, CacheInv, CacheShape
<1>4. AloneState'
  BY <1>1, <1>2, <1>3 DEF AloneInv, AloneState, Storing
<1>q. QED BY <1>4, AloneStep

LEMMA IdleAlone ==
    ASSUME NEW t \in Thread, threads'[t] = Idle, ~ Holds(t)'
    PROVE  AloneFrame(t)'
BY DEF AloneFrame, Serves, Idle

LEMMA AloneRegister == ASSUME CacheInv, AloneInv, NEW t \in Thread, Register(t) PROVE AloneInv'
<1> DEFINE key == Head(threads[t].todo)
           r == hist.stamp + 1
<1>1. /\ Moved(t) /\ threads[t].at = "setting" /\ threads'[t].at = "storing"
      /\ threads'[t].todo = threads[t].todo /\ threads'[t].value = threads[t].value
      /\ threads'[t].stamp = r
  BY RegisterFrame
<1>2. /\ registrations \in [Key -> SUBSET Nat] /\ entries \in [Key -> SUBSET [value : Nat, stamp : Nat]]
      /\ registrations' = [registrations EXCEPT ![key] = {r}]
      /\ hist.stamp \in Nat /\ hist'.stamp = r /\ hist'.cleared = hist.cleared
      /\ UNCHANGED <<masters, entries, evicted, gate>>
  BY DEF Register, CacheInv, CacheShape
<1>3. threads[t].todo \in Todo /\ key \in Key /\ (threads[t].todo # <<"timed">> => threads[t].value >= hist.cleared)
  <2>1. threads[t].todo \in Todo /\ (threads[t].todo # <<"timed">> => threads[t].value >= hist.cleared)
    BY <1>1 DEF AloneInv, AloneFrame, Serves
  <2>2. \A todo \in Todo : Head(todo) \in Key
    BY DEF Todo, Key
  <2>q. QED BY <2>1, <2>2
<1>4. \A item \in evicted : item.stamp \in Nat /\ item.stamp <= hist.stamp
  BY DEF AloneInv, AloneState, Item
<1>5. \A k \in Key : \A e \in entries[k] : e.stamp \in Nat /\ e.stamp <= hist.stamp
  <2>1. \A k \in Key : \A e \in entries[k] : e.stamp \in Nat
    BY <1>2
  <2>2. \A k \in Key : \A e \in entries[k] : e.stamp <= hist.stamp
    BY DEF AloneInv, AloneState
  <2>q. QED BY <2>1, <2>2
<1>6. AloneFrame(t)'
  <2>1. [key |-> key, stamp |-> r] \notin evicted
    <3>1. [key |-> key, stamp |-> r].stamp = r
      OBVIOUS
    <3>q. QED BY <1>2, <1>4, <3>1
  <2>2. r \in registrations'[key] /\ \A e \in entries[key] : e.stamp # r
    BY <1>2, <1>3, <1>5
  <2>3. r <= hist'.stamp
    BY <1>2
  <2>4. Holds(t)' => threads[t].todo # <<"timed">>
    BY <1>1, <1>2 DEF AloneInv, AloneFrame, Holds
  <2>q. QED BY <1>1, <1>2, <1>3, <2>1, <2>2, <2>3, <2>4 DEF AloneFrame, Serves
<1>7. AloneState'
  <2>1. ASSUME NEW k \in Key, NEW e \in entries[k]
        PROVE  e.stamp \in registrations'[k] \/ \E u \in Thread : Storing(u, k)'
    <3>1. CASE k = key
      BY <1>1, <3>1 DEF Storing
    <3>2. CASE k # key
      <4>1. \A u \in Thread : ~ Storing(u, k)
        BY <1>1 DEF AloneInv, OneBusy, Storing
      <4>q. QED BY <1>2, <3>2, <4>1 DEF AloneInv, AloneState
    <3>q. QED BY <3>1, <3>2
  <2>2. \A item \in evicted : item.stamp <= hist'.stamp
    BY <1>2, <1>4
  <2>3. \A k \in Key : \A e \in entries[k] : e.stamp <= hist'.stamp
    BY <1>2, <1>5
  <2>q. QED BY <1>2, <2>1, <2>2, <2>3 DEF AloneInv, AloneState
<1>q. QED BY <1>1, <1>2, <1>6, <1>7, AloneStep

LEMMA TodoCases ==
    /\ \A todo \in Todo : Head(todo) \in Key /\ (Head(todo) \in Master => todo # <<"timed">>)
    /\ Len(<<"payload", "list">>) > 1 /\ Tail(<<"payload", "list">>) = <<"list">>
    /\ ~ (Len(<<"timed">>) > 1) /\ ~ (Len(<<"list">>) > 1)
BY DEF Todo, Key, Master

LEMMA AloneStore == ASSUME CacheInv, AloneInv, NEW t \in Thread, Store(t) PROVE AloneInv'
<1> DEFINE key == Head(threads[t].todo)
           r == threads[t].stamp
<1>1. Moved(t) /\ threads[t].at = "storing"
  BY StoreFrame
<1>2. /\ registrations \in [Key -> SUBSET Nat] /\ entries \in [Key -> SUBSET [value : Nat, stamp : Nat]]
      /\ entries' = [entries EXCEPT ![key] = {[value |-> threads[t].value, stamp |-> r]}]
      /\ evicted' = evicted \cup CallbacksOf(key)
      /\ UNCHANGED <<masters, registrations, hist>>
  BY DEF Store, CacheInv, CacheShape
<1>3. /\ threads[t].todo \in Todo
      /\ threads[t].todo # <<"timed">> => threads[t].value >= hist.cleared
      /\ r \in registrations[key] /\ [key |-> key, stamp |-> r] \notin evicted
      /\ r <= hist.stamp /\ \A e \in entries[key] : e.stamp # r
      /\ Holds(t) => threads[t].todo # <<"timed">>
  BY <1>1 DEF AloneInv, AloneFrame, Serves
<1>4. key \in Key /\ (key \in Master => threads[t].todo # <<"timed">>)
  BY <1>3, TodoCases
<1>5. Tail(gate) = <<>> \/ gate = <<>>
  BY GateAlone
<1>6. /\ gate' = gate \/ gate' \in {<<>>, <<t>>}
      /\ AloneFrame(t)'
  <2>1. CASE threads[t].todo = <<"payload", "list">>
    <3>1. /\ UNCHANGED gate
          /\ threads'[t].at = "setting" /\ threads'[t].todo = <<"list">>
          /\ threads'[t].value = threads[t].value
      BY <2>1, StoreFrame, TodoCases
    <3>2. <<"list">> # <<"timed">> /\ <<"list">> \in Todo /\ <<"payload", "list">> # <<"timed">>
      BY TodoCases DEF Todo
    <3>q. QED BY <1>2, <1>3, <2>1, <3>1, <3>2 DEF AloneFrame, Serves
  <2>2. CASE threads[t].todo # <<"payload", "list">> /\ Holds(t)
    <3>1. ~ (Len(threads[t].todo) > 1)
      BY <1>3, <2>2, TodoCases DEF Todo
    <3>2. /\ gate' = Tail(gate) /\ threads'[t].at = "setting" /\ threads'[t].todo = <<"list">>
          /\ threads'[t].value = threads[t].value
      BY <2>2, <3>1, StoreFrame
    <3>3. gate' = <<>> /\ ~ Holds(t)'
      BY <1>5, <2>2, <3>2 DEF Holds
    <3>4. <<"list">> \in Todo
      BY DEF Todo
    <3>q. QED BY <1>2, <1>3, <2>2, <3>2, <3>3, <3>4 DEF AloneFrame, Serves
  <2>3. CASE threads[t].todo # <<"payload", "list">> /\ ~ Holds(t)
    <3>1. ~ (Len(threads[t].todo) > 1)
      BY <1>3, <2>3, TodoCases DEF Todo
    <3>2. threads'[t] = Idle /\ UNCHANGED gate
      BY <2>3, <3>1, StoreFrame
    <3>q. QED BY <2>3, <3>2, IdleAlone DEF Holds
  <2>q. QED BY <2>1, <2>2, <2>3
<1>7. AloneState'
  <2>1. evicted' \subseteq Item /\ \A item \in evicted' : item.stamp <= hist.stamp
    BY <1>2, <1>4 DEF CallbacksOf, Item, AloneInv, AloneState
  <2>2. ASSUME NEW k \in Key, NEW e \in entries'[k]
        PROVE  /\ e.stamp <= hist.stamp /\ [key |-> k, stamp |-> e.stamp] \notin evicted'
               /\ e.stamp \in registrations[k]
               /\ k \in Master => e.value >= hist.cleared
    <3>1. CASE k = key
      <4>1. e.stamp = r /\ e.value = threads[t].value
        BY <1>2, <3>1
      <4>2. [key |-> k, stamp |-> r] \notin CallbacksOf(key)
        <5>1. ASSUME NEW d \in entries[key], [key |-> k, stamp |-> r] = [key |-> key, stamp |-> d.stamp] PROVE FALSE
          <6>1. r = d.stamp
            BY <5>1
          <6>q. QED BY <1>3, <6>1
        <5>q. QED BY <5>1 DEF CallbacksOf
      <4>q. QED BY <1>2, <1>3, <1>4, <3>1, <4>1, <4>2
    <3>2. CASE k # key
      <4>1. e \in entries[k]
        BY <1>2, <3>2
      <4>2. \A u \in Thread : ~ Storing(u, k)
        BY <1>1, <3>2 DEF AloneInv, OneBusy, Storing
      <4>3. [key |-> k, stamp |-> e.stamp] \notin CallbacksOf(key)
        BY <3>2 DEF CallbacksOf
      <4>q. QED BY <1>2, <4>1, <4>2, <4>3 DEF AloneInv, AloneState
    <3>q. QED BY <3>1, <3>2
  <2>3. Len(gate') <= 1
    <3>1. Len(<<>>) <= 1 /\ Len(<<t>>) <= 1
      OBVIOUS
    <3>q. QED BY <1>6, <3>1 DEF AloneInv, AloneState
  <2>4. Master \subseteq Key
    BY DEF Master, Key
  <2>q. QED BY <1>2, <2>1, <2>2, <2>3, <2>4 DEF AloneInv, AloneState
<1>q. QED BY <1>1, <1>6, <1>7, AloneStep

(* A callback finds its registration gone: what is cached now has another   *)
(* one.                                                                     *)
LEMMA AloneCallback == ASSUME CacheInv, AloneInv, RunCallback PROVE AloneInv'
<1>1. PICK item \in evicted : evicted' = evicted \ {item} /\ Unregister(item)
  BY DEF RunCallback
<1>2. UNCHANGED <<masters, entries, gate, threads, hist>> /\ registrations \in [Key -> SUBSET Nat]
  BY DEF RunCallback, CacheInv, CacheShape
<1>3. ASSUME NEW k \in Key, NEW r \in registrations[k], [key |-> k, stamp |-> r] \notin evicted
      PROVE  r \in registrations'[k]
  <2>1. item.key # k \/ item.stamp # r
    <3>1. item \in [key : Key, stamp : Nat]
      BY DEF AloneInv, AloneState, Item
    <3>2. item = [key |-> item.key, stamp |-> item.stamp]
      BY <3>1
    <3>q. QED BY <1>3, <3>2
  <2>q. QED BY <1>1, <1>2, <2>1 DEF Unregister
<1>4. OneBusy'
  BY <1>2 DEF AloneInv, OneBusy
<1>5. AloneState'
  BY <1>1, <1>2, <1>3 DEF AloneInv, AloneState, Storing
<1>6. ASSUME NEW t \in Thread PROVE AloneFrame(t)'
  <2>0. AloneFrame(t)
    BY DEF AloneInv
  <2>1. threads[t].at = "storing" => Head(threads[t].todo) \in Key
    BY <2>0, TodoCases DEF AloneFrame, Serves
  <2>2. Contents' = Contents
    BY <1>2 DEF Contents
  <2>3. threads[t].at = "storing" => threads[t].stamp \in registrations'[Head(threads[t].todo)]
    BY <1>3, <2>0, <2>1 DEF AloneFrame
  <2>q. QED BY <1>1, <1>2, <2>0, <2>2, <2>3 DEF AloneFrame, Serves, Holds
<1>q. QED BY <1>4, <1>5, <1>6 DEF AloneInv

(* Entries that go leave nothing that has to be registered. *)
LEMMA AloneEmptied ==
    ASSUME CacheInv, AloneInv, NEW key \in Key, UNCHANGED <<masters, registrations, gate, hist>>,
           entries' = [entries EXCEPT ![key] = {}], evicted' = evicted \cup CallbacksOf(key),
           \A t \in Thread : \A k \in Key : Storing(t, k) => Storing(t, k)'
    PROVE  AloneState' /\ Contents' \subseteq Contents
<1>0. entries \in [Key -> SUBSET [value : Nat, stamp : Nat]]
  BY DEF CacheInv, CacheShape
<1>1. evicted' \subseteq Item /\ \A item \in evicted' : item.stamp <= hist.stamp
  BY <1>0 DEF CallbacksOf, Item, AloneInv, AloneState
<1>2. ASSUME NEW k \in Key, NEW e \in entries'[k]
      PROVE  k # key /\ e \in entries[k] /\ [key |-> k, stamp |-> e.stamp] \notin evicted'
  <2>1. k # key /\ e \in entries[k]
    BY <1>0
  <2>2. [key |-> k, stamp |-> e.stamp] \notin CallbacksOf(key)
    BY <2>1 DEF CallbacksOf
  <2>q. QED BY <2>1, <2>2 DEF AloneInv, AloneState
<1>3. Master \subseteq Key
  BY DEF Master, Key
<1>4. Contents' \subseteq Contents
  BY <1>2 DEF Contents
<1>q. QED BY <1>1, <1>2, <1>3, <1>4 DEF AloneInv, AloneState

LEMMA AloneExpire == ASSUME CacheInv, AloneInv, Expire PROVE AloneInv'
<1>1. /\ UNCHANGED <<masters, registrations, gate, threads, hist>> /\ "timed" \in Key
      /\ entries' = [entries EXCEPT !["timed"] = {}] /\ evicted' = evicted \cup CallbacksOf("timed")
      /\ entries \in [Key -> SUBSET [value : Nat, stamp : Nat]]
  BY DEF Expire, Key, CacheInv, CacheShape
<1>2. \A t \in Thread : \A k \in Key : Storing(t, k) => Storing(t, k)'
  BY <1>1 DEF Storing
<1>3. AloneState' /\ Contents' \subseteq Contents
  BY <1>1, <1>2, AloneEmptied
<1>4. OneBusy'
  BY <1>1 DEF AloneInv, OneBusy
<1>5. ASSUME NEW t \in Thread PROVE AloneFrame(t)'
  <2>0. AloneFrame(t)
    BY DEF AloneInv
  <2>1. \A k \in Key : entries'[k] \subseteq entries[k]
    BY <1>1
  <2>2. ASSUME threads[t].at = "storing"
        PROVE  /\ [key |-> Head(threads[t].todo), stamp |-> threads[t].stamp] \notin evicted'
               /\ \A e \in entries'[Head(threads[t].todo)] : e.stamp # threads[t].stamp
    <3>1. Head(threads[t].todo) \in Key
      BY <2>0, <2>2, TodoCases DEF AloneFrame, Serves
    <3>2. \A e \in entries[Head(threads[t].todo)] : e.stamp # threads[t].stamp
      BY <2>0, <2>2 DEF AloneFrame
    <3>3. [key |-> Head(threads[t].todo), stamp |-> threads[t].stamp] \notin CallbacksOf("timed")
      <4>1. ASSUME NEW d \in entries["timed"],
                   [key |-> Head(threads[t].todo), stamp |-> threads[t].stamp] = [key |-> "timed", stamp |-> d.stamp]
            PROVE  FALSE
        <5>1. Head(threads[t].todo) = "timed" /\ threads[t].stamp = d.stamp
          BY <4>1
        <5>q. QED BY <3>2, <5>1
      <4>q. QED BY <4>1 DEF CallbacksOf
    <3>q. QED BY <1>1, <2>0, <2>1, <2>2, <3>1, <3>2, <3>3 DEF AloneFrame
  <2>3. threads[t].at = "unlisting" => entries'[Head(threads[t].todo)] = {} /\ Head(threads[t].todo) \in Key
    BY <2>0, <2>1 DEF AloneFrame
  <2>4. entries'["timed"] = {}
    BY <1>1
  <2>q. QED BY <1>1, <1>3, <2>0, <2>2, <2>3, <2>4 DEF AloneFrame, Serves, Holds
<1>q. QED BY <1>3, <1>4, <1>5 DEF AloneInv

LEMMA AloneRemove == ASSUME CacheInv, AloneInv, NEW t \in Thread, RemoveEntry(t) PROVE AloneInv'
<1> DEFINE key == Head(threads'[t].todo)
<1>1. /\ Moved(t) /\ threads[t].at = "clearing" /\ threads'[t].at = "unlisting"
      /\ threads'[t].value = threads[t].value
      /\ threads'[t].left = threads[t].left /\ threads'[t].met = threads[t].met
      /\ key \in Key /\ entries' = [entries EXCEPT ![key] = {}] /\ evicted' = evicted \cup CallbacksOf(key)
  BY RemoveFrame
<1>2. UNCHANGED <<masters, registrations, gate, hist>> /\ entries \in [Key -> SUBSET [value : Nat, stamp : Nat]]
  BY DEF RemoveEntry, CacheInv, CacheShape
<1>3. \A u \in Thread : \A k \in Key : Storing(u, k) => Storing(u, k)'
  BY <1>1 DEF Storing, Moved
<1>4. AloneState' /\ Contents' \subseteq Contents
  BY <1>1, <1>2, <1>3, AloneEmptied
<1>5. AloneFrame(t) /\ entries'[key] = {}
  BY <1>1, <1>2 DEF AloneInv
<1>6. AloneFrame(t)'
  BY <1>1, <1>2, <1>4, <1>5 DEF AloneFrame, Serves, Holds
<1>q. QED BY <1>1, <1>2, <1>4, <1>6, AloneStep

LEMMA AloneUnlist == ASSUME CacheInv, AloneInv, NEW t \in Thread, RemoveListed(t) PROVE AloneInv'
<1> DEFINE key == Head(threads[t].todo)
           item == [key |-> key, stamp |-> threads[t].stamp]
<1>1. /\ Moved(t) /\ threads[t].at = "unlisting" /\ threads'[t].at = "clearing"
      /\ threads'[t].value = threads[t].value /\ threads'[t].met = threads[t].met
      /\ threads'[t].left = threads[t].left \ {item}
  BY UnlistFrame
<1>2. UNCHANGED <<masters, entries, evicted, gate, hist>> /\ registrations \in [Key -> SUBSET Nat]
  BY DEF RemoveListed, CacheInv, CacheShape
<1>3. key \in Key /\ entries[key] = {} /\ AloneFrame(t)
  BY <1>1 DEF AloneInv, AloneFrame
<1>4. registrations' = [registrations EXCEPT ![key] = @ \ {threads[t].stamp}]
  BY DEF RemoveListed, Unregister
<1>5. item \notin Contents /\ Contents' = Contents
  <2>1. ASSUME NEW k \in Key, NEW e \in entries[k], item = [key |-> k, stamp |-> e.stamp] PROVE FALSE
    <3>1. k = key
      BY <2>1
    <3>q. QED BY <1>3, <3>1
  <2>2. ASSUME item \in Contents PROVE FALSE
    <3>1. PICK k \in Key : item \in {[key |-> k, stamp |-> e.stamp] : e \in entries[k]}
      BY <2>2 DEF Contents
    <3>2. PICK e \in entries[k] : item = [key |-> k, stamp |-> e.stamp]
      BY <3>1
    <3>q. QED BY <2>1, <3>2
  <2>3. Contents' = Contents
    BY <1>2 DEF Contents
  <2>q. QED BY <2>2, <2>3
<1>6. AloneFrame(t)'
  BY <1>1, <1>2, <1>3, <1>5 DEF AloneFrame, Serves, Holds
<1>7. AloneState'
  <2>1. \A u \in Thread, k \in Key : ~ Storing(u, k)
    BY <1>1 DEF AloneInv, OneBusy, Storing
  <2>2. ASSUME NEW k \in Key, NEW e \in entries[k] PROVE e.stamp \in registrations'[k]
    <3>1. k # key
      BY <1>3
    <3>q. QED BY <1>2, <1>4, <2>1, <3>1 DEF AloneInv, AloneState
  <2>q. QED BY <1>2, <2>2 DEF AloneInv, AloneState
<1>q. QED BY <1>1, <1>2, <1>6, <1>7, AloneStep

LEMMA AloneFind == ASSUME CacheInv, AloneInv, NEW t \in Thread, FindRegistration(t) PROVE AloneInv'
<1>1. Moved(t) /\ threads[t].at = "remove" /\ threads'[t].at = "removing"
  BY FindFrame
<1>2. UNCHANGED <<masters, entries, registrations, evicted, gate, hist>> /\ masters \in Nat /\ AloneFrame(t)
  BY DEF FindRegistration, CacheInv, CacheShape, AloneInv
<1>3. AloneFrame(t)'
  BY <1>1, <1>2 DEF AloneFrame, Serves, Holds
<1>q. QED BY <1>1, <1>2, <1>3, AloneAside

LEMMA AloneDropEntry == ASSUME CacheInv, AloneInv, NEW t \in Thread, DropEntry(t) PROVE AloneInv'
<1>1. Moved(t) /\ threads[t].at = "removing" /\ threads'[t].at = "removed"
  BY DropEntryFrame
<1>2. /\ UNCHANGED <<masters, registrations, gate, hist>> /\ "timed" \in Key
      /\ entries' = [entries EXCEPT !["timed"] = {}] /\ evicted' = evicted \cup CallbacksOf("timed")
      /\ entries \in [Key -> SUBSET [value : Nat, stamp : Nat]]
  BY DEF DropEntry, Key, CacheInv, CacheShape
<1>3. \A u \in Thread : \A k \in Key : Storing(u, k) => Storing(u, k)'
  BY <1>1 DEF Storing, Moved
<1>4. AloneState'
  BY <1>2, <1>3, AloneEmptied
<1>5. AloneFrame(t) /\ entries'["timed"] = {}
  BY <1>2 DEF AloneInv
<1>6. AloneFrame(t)'
  BY <1>1, <1>2, <1>5 DEF AloneFrame, Serves, Holds
<1>q. QED BY <1>1, <1>2, <1>4, <1>6, AloneStep

LEMMA AloneDropRegistration == ASSUME CacheInv, AloneInv, NEW t \in Thread, DropRegistration(t) PROVE AloneInv'
<1>1. Moved(t) /\ threads[t].at = "removed" /\ threads'[t] = Idle
  BY DropRegistrationFrame
<1>2. UNCHANGED <<masters, entries, evicted, gate, hist>> /\ registrations \in [Key -> SUBSET Nat]
  BY DEF DropRegistration, CacheInv, CacheShape
<1>3. registrations' = [registrations EXCEPT !["timed"] = @ \ {threads[t].stamp}]
  BY DEF DropRegistration, Unregister
<1>4. entries["timed"] = {} /\ ~ Holds(t)
  BY <1>1 DEF AloneInv, AloneFrame, Serves
<1>5. ~ Holds(t)'
  BY <1>2, <1>4 DEF Holds
<1>6. AloneState'
  <2>1. \A u \in Thread, k \in Key : ~ Storing(u, k)
    BY <1>1 DEF AloneInv, OneBusy, Storing
  <2>2. ASSUME NEW k \in Key, NEW e \in entries[k] PROVE e.stamp \in registrations'[k]
    <3>1. k # "timed"
      BY <1>4
    <3>q. QED BY <1>2, <1>3, <2>1, <3>1 DEF AloneInv, AloneState
  <2>q. QED BY <1>2, <2>2 DEF AloneInv, AloneState
<1>q. QED BY <1>1, <1>2, <1>5, <1>6, IdleAlone, AloneStep

LEMMA AloneTake == ASSUME CacheInv, AloneInv, NEW t \in Thread, TakeList(t) PROVE AloneInv'
<1>1. /\ Moved(t) /\ threads[t].at = "clear" /\ threads'[t].at = "clearing"
      /\ threads'[t].left = Registered /\ threads'[t].met = Contents
      /\ threads'[t].value = threads[t].value
  BY TakeFrame
<1>2. UNCHANGED <<masters, entries, registrations, evicted, gate, hist>> /\ masters \in Nat /\ AloneFrame(t)
  BY DEF TakeList, CacheInv, CacheShape, AloneInv
<1>3. Contents \subseteq Registered /\ Contents' = Contents
  <2>1. \A u \in Thread, k \in Key : ~ Storing(u, k)
    BY <1>1 DEF AloneInv, OneBusy, Storing
  <2>q. QED BY <1>2, <2>1 DEF Contents, Registered, AloneInv, AloneState
<1>4. AloneFrame(t)'
  BY <1>1, <1>2, <1>3 DEF AloneFrame, Serves, Holds
<1>q. QED BY <1>1, <1>2, <1>4, AloneAside

(* When ClearAll returns, nothing is cached at all. *)
LEMMA AloneCleared == ASSUME CacheInv, AloneInv, NEW t \in Thread, Cleared(t) PROVE AloneInv'
<1>1. Moved(t) /\ threads[t].at = "clearing" /\ threads[t].left = {} /\ threads'[t] = Idle
  BY ClearedFrame
<1>2. /\ UNCHANGED <<masters, entries, registrations, evicted, gate>>
      /\ hist'.cleared = Larger(hist.cleared, threads[t].value) /\ hist'.stamp = hist.stamp
      /\ hist.cleared \in Nat /\ masters \in Nat /\ threads[t].value \in Nat
  BY FrameOf DEF Cleared, CacheInv, CacheShape, Frame
<1>3. AloneFrame(t) /\ hist.cleared <= masters
  BY DEF AloneInv, AloneState
<1>4. ~ Holds(t)'
  BY <1>1, <1>2, <1>3 DEF AloneFrame, Serves, Holds
<1>5. \A k \in Key : entries[k] = {}
  <2>1. Contents = {}
    BY <1>1, <1>3 DEF AloneFrame
  <2>2. ASSUME NEW k \in Key, NEW e \in entries[k] PROVE FALSE
    <3>1. [key |-> k, stamp |-> e.stamp] \in Contents
      BY DEF Contents
    <3>q. QED BY <2>1, <3>1
  <2>q. QED BY <2>2
<1>6. hist'.cleared <= masters
  BY <1>1, <1>2, <1>3 DEF Larger, AloneFrame
<1>7. AloneState'
  BY <1>2, <1>5, <1>6 DEF AloneInv, AloneState, Master, Key
<1>q. QED BY <1>1, <1>2, <1>4, <1>7, IdleAlone, AloneStep

(* One that takes the masters from the cache, alone. *)
LEMMA AloneUses ==
    ASSUME CacheInv, AloneInv, NEW t \in Thread, NEW e \in entries["payload"], Uses(t, e),
           UNCHANGED <<entries, registrations, evicted, hist>>, hist'.cleared = hist.cleared
    PROVE  threads'[t].at = "setting" /\ AloneFrame(t)'
<1>1. /\ threads'[t].at = "setting"
      /\ threads'[t].value = e.value /\ threads'[t].todo = <<"list">>
  BY UsesFrame
<1>2. <<"list">> \in Todo /\ <<"list">> # <<"timed">> /\ "payload" \in Master
  BY DEF Todo, Master
<1>3. e.value >= hist.cleared
  BY <1>2 DEF AloneInv, AloneState
<1>q. QED BY <1>1, <1>2, <1>3 DEF AloneFrame, Serves

LEMMA AloneEnsure == ASSUME CacheInv, AloneInv, NEW t \in Thread, Ensure(t) PROVE AloneInv'
<1>1. /\ UNCHANGED <<masters, entries, registrations, evicted, hist>> /\ masters \in Nat
      /\ threads[t].at = "ensure"
  BY DEF Ensure, At, CacheInv, CacheShape
<1>2. CASE entries["payload"] # {}
  <2>1. PICK e \in entries["payload"] : Uses(t, e)
    BY <1>2 DEF Ensure
  <2>2. UNCHANGED gate
    BY <1>2 DEF Ensure
  <2>q. QED BY <1>1, <2>1, <2>2, UsesFrame, AloneUses, AloneAside
<1>3. CASE entries["payload"] = {}
  <2>1. Moved(t) /\ threads'[t].at = "waiting"
    BY <1>3, PlaceFrame DEF Ensure
  <2>2. gate' = Append(gate, t)
    BY <1>3 DEF Ensure
  <2>3. gate = <<>>
    <3>1. ASSUME NEW u \in Thread, Holds(u), threads[u].at # "idle" PROVE FALSE
      <4>1. u = t
        BY <1>1, <3>1 DEF AloneInv, OneBusy
      <4>q. QED BY <1>1, <3>1, <4>1 DEF AloneInv, AloneFrame, Serves
    <3>q. QED BY <3>1, GateAlone
  <2>4. gate' = <<t>>
    BY <2>2, <2>3
  <2>5. AloneFrame(t)'
    BY <2>1 DEF AloneFrame, Serves
  <2>q. QED BY <1>1, <2>1, <2>4, <2>5, AloneAside
<1>q. QED BY <1>2, <1>3

LEMMA AloneEnter == ASSUME CacheInv, AloneInv, NEW t \in Thread, Enter(t) PROVE AloneInv'
<1>1. /\ UNCHANGED <<masters, entries, registrations, evicted, hist>> /\ masters \in Nat
      /\ threads[t].at = "waiting" /\ Holds(t)
  BY DEF Enter, At, CacheInv, CacheShape
<1>2. CASE entries["payload"] # {}
  <2>1. PICK e \in entries["payload"] : Uses(t, e)
    BY <1>2 DEF Enter
  <2>2. gate' = <<>>
    BY <1>1, <1>2, GateAlone DEF Enter, Holds
  <2>q. QED BY <1>1, <2>1, <2>2, UsesFrame, AloneUses, AloneAside
<1>3. CASE entries["payload"] = {}
  <2>1. Moved(t) /\ threads'[t].at = "fetching" /\ UNCHANGED gate
    BY <1>3, PlaceFrame DEF Enter
  <2>2. AloneFrame(t)'
    BY <2>1 DEF AloneFrame, Serves
  <2>q. QED BY <1>1, <2>1, <2>2, AloneAside
<1>q. QED BY <1>2, <1>3

LEMMA AloneFetch == ASSUME CacheInv, AloneInv, NEW t \in Thread, Fetch(t) \/ FetchFails(t) PROVE AloneInv'
<1>1. UNCHANGED <<masters, entries, registrations, evicted, hist>> /\ masters \in Nat
  BY DEF Fetch, FetchFails, CacheInv, CacheShape
<1>2. CASE Fetch(t)
  <2>1. /\ Moved(t) /\ threads[t].at = "fetching" /\ threads'[t].at = "setting"
        /\ threads'[t].value = masters /\ threads'[t].todo = <<"payload", "list">>
    BY <1>2, FetchFrame
  <2>2. UNCHANGED gate
    BY <1>2 DEF Fetch
  <2>3. <<"payload", "list">> \in Todo /\ <<"payload", "list">> # <<"timed">>
    <3>1. Len(<<"payload", "list">>) = 2 /\ Len(<<"timed">>) = 1
      OBVIOUS
    <3>q. QED BY <3>1 DEF Todo
  <2>4. masters >= hist'.cleared
    BY <1>1 DEF AloneInv, AloneState, CacheInv, CacheShape
  <2>5. AloneFrame(t)'
    BY <2>1, <2>3, <2>4 DEF AloneFrame, Serves
  <2>q. QED BY <1>1, <2>1, <2>2, <2>5, AloneAside
<1>3. CASE FetchFails(t)
  <2>1. Moved(t) /\ threads[t].at = "fetching" /\ threads'[t] = Idle
    BY <1>3, Going DEF FetchFails, At
  <2>2. Holds(t)
    BY <2>1 DEF CacheInv, FetchesInside, Fetches, At
  <2>3. gate' = <<>>
    BY <1>3, <2>2, GateAlone DEF FetchFails, Holds
  <2>4. ~ Holds(t)'
    BY <2>3 DEF Holds
  <2>q. QED BY <1>1, <2>1, <2>3, <2>4, IdleAlone, AloneAside
<1>q. QED BY <1>2, <1>3

LEMMA AloneSave == ASSUME CacheInv, AloneInv, NEW t \in Thread, Save(t) PROVE AloneInv'
<1>1. /\ Moved(t) /\ threads[t].at = "saving"
      /\ masters \in Nat /\ masters' \in Nat /\ masters <= masters'
      /\ threads'[t].at \in {"idle", "clear"}
      /\ threads'[t].at = "clear" => threads'[t].value = masters'
  BY SaveFrame
<1>2. UNCHANGED <<entries, registrations, evicted, gate, hist>>
  BY DEF Save, Confirmed, Stays
<1>3. ~ Holds(t)'
  <2>1. ~ Holds(t)
    BY <1>1 DEF AloneInv, AloneFrame, Serves
  <2>q. QED BY <1>2, <2>1 DEF Holds
<1>4. AloneFrame(t)'
  BY <1>1, <1>3 DEF AloneFrame, Serves
<1>q. QED BY <1>1, <1>2, <1>4, AloneAside

LEMMA AloneCancel == ASSUME CacheInv, AloneInv, NEW t \in Thread, Cancel(t) PROVE FALSE
<1>1. PICK n \in 2..Len(gate) : TRUE
  BY DEF Cancel
<1>2. Len(gate) \in Nat /\ Len(gate) <= 1
  BY DEF CacheInv, CacheShape, AloneInv, AloneState
<1>q. QED BY <1>1, <1>2

LEMMA AloneBegin ==
    ASSUME CacheInv, AloneInv, NEW t \in Thread, NEW call \in Call, Begin(t, call), Quiet
    PROVE  AloneInv'
<1>1. /\ Moved(t) /\ threads[t].at = "idle" /\ threads'[t].value = 0
      /\ \/ threads'[t].at \in {"ensure", "remove", "clear", "saving"}
         \/ threads'[t].at = "setting" /\ threads'[t].todo = <<"timed">>
  BY BeginFrame
<1>2. /\ UNCHANGED <<masters, entries, registrations, evicted, gate>> /\ masters \in Nat
      /\ hist'.stamp = hist.stamp /\ hist'.cleared = hist.cleared
  BY DEF Begin, CacheInv, CacheShape
<1>3. gate = <<>>
  BY GateAlone DEF Quiet
<1>4. \A u \in Thread \ {t} : threads'[u].at = "idle"
  BY <1>1 DEF Quiet, Moved
<1>5. \A u \in Thread : ~ Holds(u)'
  BY <1>2, <1>3 DEF Holds
<1>6. OneBusy'
  BY <1>4 DEF OneBusy
<1>7. AloneState'
  BY <1>2, <1>3 DEF AloneInv, AloneState, Storing, Quiet
<1>8. AloneFrame(t)'
  <2>1. <<"timed">> \in Todo
    BY DEF Todo
  <2>q. QED BY <1>1, <1>2, <1>5, <2>1 DEF AloneFrame, Serves
<1>9. \A u \in Thread \ {t} : AloneFrame(u)'
  BY <1>4, <1>5 DEF AloneFrame, Serves
<1>q. QED BY <1>6, <1>7, <1>8, <1>9 DEF AloneInv

LEMMA CrowdedStays ==
    ASSUME CacheInv, [CacheNext]_cacheVars, ~ hist'.crowded
    PROVE  ~ hist.crowded /\ \A t \in Thread, call \in Call : Begin(t, call) => Quiet
<1>0. hist \in [begun : Nat, stamp : Nat, cleared : Nat, crowded : BOOLEAN]
  BY DEF CacheInv, CacheShape
<1>1. ASSUME NEW t \in Thread, NEW call \in Call, Begin(t, call) PROVE Quiet /\ ~ hist.crowded
  <2>1. hist' = [hist EXCEPT !.begun = @ + 1, !.crowded = IF Quiet THEN @ ELSE TRUE]
    BY <1>1 DEF Begin
  <2>2. hist'.crowded = IF Quiet THEN hist.crowded ELSE TRUE
    BY <1>0, <2>1
  <2>q. QED BY <2>2
<1>2. ASSUME UNCHANGED hist PROVE ~ hist.crowded
  BY <1>2
<1>3. ASSUME NEW t \in Thread, Register(t) \/ Cleared(t) PROVE ~ hist.crowded
  <2>1. hist'.crowded = hist.crowded
    BY <1>0, <1>3 DEF Register, Cleared
  <2>q. QED BY <2>1
<1>4. ~ hist.crowded
  BY <1>1, <1>2, <1>3 DEF CacheNext, Works, cacheVars, Store, TakeList, RemoveEntry, RemoveListed, Ensure, Enter,
     FindRegistration, DropEntry, DropRegistration, Fetch, FetchFails, Save, Confirmed, Stays, Cancel, RunCallback, Expire
<1>q. QED BY <1>1, <1>4

FollowInv == AllBacked /\ (~ hist.crowded => AloneInv)

LEMMA FollowStarts == CacheInit => FollowInv
<1> SUFFICES ASSUME CacheInit PROVE FollowInv
  OBVIOUS
<1>1. AllBacked
  BY DEF CacheInit, AllBacked
<1>2. \A t \in Thread : threads[t].at = "idle"
  BY DEF CacheInit, Idle
<1>3. gate = <<>> /\ hist.cleared = 0 /\ masters = 0 /\ evicted = {} /\ \A k \in Key : entries[k] = {}
  BY DEF CacheInit
<1>4. AloneInv
  <2>1. Len(<<>>) <= 1 /\ Master \subseteq Key
    BY DEF Master, Key
  <2>2. AloneState
    BY <1>3, <2>1 DEF AloneState
  <2>q. QED BY <1>2, <1>3, <2>2 DEF AloneInv, OneBusy, AloneFrame, Serves, Holds
<1>q. QED BY <1>1, <1>4 DEF FollowInv

LEMMA FollowSteps == CacheInv /\ FollowInv /\ [CacheNext]_cacheVars => FollowInv'
<1> SUFFICES ASSUME CacheInv, FollowInv, [CacheNext]_cacheVars PROVE FollowInv'
  OBVIOUS
<1>1. AllBacked'
  BY BackedSteps DEF FollowInv
<1>2. ASSUME ~ hist'.crowded PROVE AloneInv'
  <2>1. AloneInv /\ \A t \in Thread, call \in Call : Begin(t, call) => Quiet
    BY <1>2, CrowdedStays DEF FollowInv
  <2>2. CASE UNCHANGED cacheVars
    BY <2>1, <2>2 DEF cacheVars, AloneInv, OneBusy, AloneState, AloneFrame, Serves, Holds, Storing, Contents
  <2>3. CASE CacheNext
    BY <2>1, <2>3, AloneRegister, AloneStore, AloneCallback, AloneExpire, AloneRemove, AloneUnlist, AloneTake,
       AloneCleared, AloneFind, AloneDropEntry, AloneDropRegistration, AloneEnsure, AloneEnter, AloneFetch, AloneSave, AloneCancel, AloneBegin
       DEF CacheNext, Works
  <2>q. QED BY <2>2, <2>3
<1>q. QED BY <1>1, <1>2 DEF FollowInv

(* The cache is what ClearAll takes it for: until two requests meet,        *)
(* whatever is cached can be cleared, ClearAll leaves nothing of what it    *)
(* met, and no page shows masters older than the last save.  However the    *)
(* requests and the callbacks of evicted entries meet, nothing stays        *)
(* registered that is not cached (ApplicationMemoryCache.cs, Set and        *)
(* ClearAll).                                                               *)
THEOREM CacheIsCleared == CacheSpec => []CacheFollowsClears
<1>1. CacheInit => CacheInv /\ FollowInv
  BY CacheStarts, FollowStarts
<1>2. CacheInv /\ FollowInv /\ [CacheNext]_cacheVars => CacheInv' /\ FollowInv'
  BY CacheSteps, FollowSteps
<1>3. FollowInv => CacheFollowsClears
  BY BackedListed, AloneGives DEF FollowInv, CacheFollowsClears
<1>q. QED BY <1>1, <1>2, <1>3, PTL DEF CacheSpec

-----------------------------------------------------------------------------
(***************************************************************************)
(* Cast sales, for any number of slips, amounts, commands, calls and        *)
(* reloads: what the page tells of a command is what became of it           *)
(* (CastSalesToldAsApplied), and it saves and confirms what it showed       *)
(* (CastSalesShownAsStored).                                                *)
(***************************************************************************)

Records ==
    /\ DOMAIN db = {"rev", "slips", "answers"}
    /\ DOMAIN saves = {"made", "reloads", "applied", "told", "unseen", "older", "checkouts"}
    /\ \A c \in calls : DOMAIN c = {"n", "cmd", "ans", "here"}

(* The stored answers say what was carried out, and only what was answered  *)
(* was carried out.                                                         *)
AnswersTrue ==
    /\ \A a \in db.answers : a.ok \in BOOLEAN /\ (a.ok <=> a.op \in saves.applied)
    /\ \A op \in saves.applied : \E a \in db.answers : a.op = op

(* What is on its way to the page, and what it was told, was stored.        *)
AnswersStored ==
    /\ \A c \in calls : c.ans \subseteq db.answers
    /\ \A t \in saves.told : t.ok \in BOOLEAN /\ \E a \in db.answers : a.op = t.op /\ (a.ok <=> t.ok)

TellInv == Records /\ AnswersTrue /\ AnswersStored

-----------------------------------------------------------------------------
LEMMA TellInit == CastSalesInit => TellInv
  <1> SUFFICES ASSUME CastSalesInit PROVE TellInv
    OBVIOUS
  <1>1. db.answers = {} /\ calls = {} /\ saves.applied = {} /\ saves.told = {}
    BY DEF CastSalesInit
  <1>2. Records
    BY DEF CastSalesInit, Records
  <1> QED
    BY <1>1, <1>2 DEF TellInv, AnswersTrue, AnswersStored

(* A step that answers nothing: of the calls, some go, and new ones have no *)
(* answer yet.                                                              *)
LEMMA NothingAnswered ==
    ASSUME TellInv, db'.answers = db.answers, DOMAIN db' = DOMAIN db, DOMAIN saves' = DOMAIN saves,
           saves'.applied = saves.applied, saves'.told = saves.told,
           \A c \in calls' : DOMAIN c = {"n", "cmd", "ans", "here"} /\ (c.ans = {} \/ \E e \in calls : c.ans = e.ans)
    PROVE  TellInv'
  BY DEF TellInv, Records, AnswersTrue, AnswersStored

LEMMA ExecuteKeeps ==
    ASSUME TellInv, NEW p, NEW cmd, Execute(p, cmd)
    PROVE  TellInv'
  <1>1. db' = db /\ \E call : call = [n |-> Slot, cmd |-> cmd, ans |-> {}, here |-> TRUE] /\ calls' = calls \cup {call}
    BY DEF Execute
  <1>2. DOMAIN saves' = DOMAIN saves /\ saves'.applied = saves.applied /\ saves'.told = saves.told
    BY DEF Execute, TellInv, Records
  <1>3. \A c \in calls' : DOMAIN c = {"n", "cmd", "ans", "here"} /\ (c.ans = {} \/ \E e \in calls : c.ans = e.ans)
    BY <1>1 DEF TellInv, Records
  <1> QED
    BY <1>1, <1>2, <1>3, NothingAnswered

LEMMA ServeKeeps ==
    ASSUME TellInv, NEW c, Serve(c)
    PROVE  TellInv'
  <1>1. CASE Stored(c.cmd) # {}
    <2>1. db' = db /\ saves' = saves /\ Stored(c.cmd) \subseteq db.answers /\ c \in calls
      BY <1>1 DEF Serve, Stored
    <2>2. \A e \in calls' : e \in calls \/ e = [c EXCEPT !.ans = Stored(c.cmd)]
      BY <1>1 DEF Serve
    <2>3. DOMAIN [c EXCEPT !.ans = Stored(c.cmd)] = DOMAIN c /\ [c EXCEPT !.ans = Stored(c.cmd)].ans = Stored(c.cmd)
      BY <2>1 DEF TellInv, Records
    <2> QED
      BY <2>1, <2>2, <2>3 DEF TellInv, Records, AnswersTrue, AnswersStored
  <1>2. CASE Stored(c.cmd) = {}
    <2> DEFINE op == c.cmd.op
               d == IF Fits(c.cmd) THEN Applied(c.cmd) ELSE db
               a == [op |-> op, ok |-> Fits(c.cmd), ov |-> Overview(d)]
    <2>1. /\ c \in calls
          /\ db' = [d EXCEPT !.answers = @ \cup {a}]
          /\ calls' = (calls \ {c}) \cup {[c EXCEPT !.ans = {a}]}
          /\ ~Fits(c.cmd) => saves' = saves
          /\ Fits(c.cmd) => saves' = [saves EXCEPT !.applied = @ \cup {op},
                                                 !.unseen = @ \cup {l \in c.cmd.lines : InitialValue(db.slips[l.slip]) # l.seen}]
      BY <1>2 DEF Serve
    <2>2. DOMAIN d = DOMAIN db /\ d.answers = db.answers
      BY DEF Applied, TellInv, Records
    <2>3. DOMAIN db' = DOMAIN db /\ db'.answers = db.answers \cup {a}
      <3> HIDE DEF d, a
      <3> QED
        BY <2>1, <2>2 DEF TellInv, Records
    <2>4. /\ DOMAIN saves' = DOMAIN saves /\ saves'.told = saves.told
          /\ saves'.applied = IF Fits(c.cmd) THEN saves.applied \cup {op} ELSE saves.applied
      <3>1. CASE Fits(c.cmd)
        BY <2>1, <3>1 DEF TellInv, Records
      <3>2. CASE ~Fits(c.cmd)
        BY <2>1, <3>2
      <3> QED
        BY <3>1, <3>2
    <2>5. op \notin saves.applied /\ \A b \in db.answers : b.op # op
      BY <1>2 DEF Stored, TellInv, AnswersTrue
    <2>6. a.op = op /\ a.ok \in BOOLEAN /\ (a.ok <=> Fits(c.cmd))
      <3>1. Fits(c.cmd) \in BOOLEAN
        BY DEF Fits
      <3> QED
        BY <3>1
    <2>7. \A e \in calls' : DOMAIN e = {"n", "cmd", "ans", "here"} /\ (e \in calls \/ e.ans = {a})
      <3> HIDE DEF a
      <3> QED
        BY <2>1 DEF TellInv, Records
    <2> HIDE DEF a, d, op
    <2>8. AnswersTrue'
      BY <2>3, <2>4, <2>5, <2>6 DEF TellInv, AnswersTrue
    <2>9. AnswersStored'
      BY <2>3, <2>4, <2>7 DEF TellInv, AnswersStored
    <2> QED
      BY <2>3, <2>4, <2>7, <2>8, <2>9 DEF TellInv, Records
  <1> QED
    BY <1>1, <1>2

LEMMA ReceiveKeeps ==
    ASSUME TellInv, NEW c, Receive(c)
    PROVE  TellInv'
  <1>1. PICK a \in c.ans : Told(c, a)
    BY DEF Receive
  <1>2. db' = db /\ calls' \subseteq calls /\ c \in calls
    BY DEF Receive
  <1>3. a \in db.answers /\ a.ok \in BOOLEAN
    BY <1>2 DEF TellInv, AnswersTrue, AnswersStored
  <1>4. /\ DOMAIN saves' = DOMAIN saves /\ saves'.applied = saves.applied
        /\ \A t \in saves'.told : t \in saves.told \/ (t.op = a.op /\ t.ok = a.ok)
    BY <1>1 DEF Told, TellInv, Records
  <1> QED
    BY <1>2, <1>3, <1>4 DEF TellInv, Records, AnswersTrue, AnswersStored

LEMMA UnknownKeeps ==
    ASSUME TellInv, NEW c, Unknown(c)
    PROVE  TellInv'
  <1>1. db' = db /\ c \in calls
    BY DEF Unknown
  <1>2. DOMAIN saves' = DOMAIN saves /\ saves'.applied = saves.applied /\ saves'.told = saves.told
    BY DEF Unknown, TellInv, Records
  <1>3. \A e \in calls' : e \in calls \/ e = [c EXCEPT !.here = FALSE]
    BY DEF Unknown
  <1>4. DOMAIN [c EXCEPT !.here = FALSE] = DOMAIN c /\ [c EXCEPT !.here = FALSE].ans = c.ans
    BY <1>1 DEF TellInv, Records
  <1> QED
    BY <1>1, <1>2, <1>3, <1>4, NothingAnswered DEF TellInv, Records

LEMMA ReloadKeeps == TellInv /\ Reload => TellInv'
  <1> SUFFICES ASSUME TellInv, Reload PROVE TellInv'
    OBVIOUS
  <1>1. db' = db /\ DOMAIN saves' = DOMAIN saves /\ saves'.applied = saves.applied /\ saves'.told = saves.told
    BY DEF Reload, TellInv, Records
  <1>2. \A c \in calls' : \E e \in calls : c = [e EXCEPT !.here = FALSE]
    BY DEF Reload
  <1>3. \A e \in calls : DOMAIN [e EXCEPT !.here = FALSE] = DOMAIN e /\ [e EXCEPT !.here = FALSE].ans = e.ans
    BY DEF TellInv, Records
  <1>4. \A c \in calls' : DOMAIN c = {"n", "cmd", "ans", "here"} /\ (c.ans = {} \/ \E e \in calls : c.ans = e.ans)
    BY <1>2, <1>3 DEF TellInv, Records
  <1> QED
    BY <1>1, <1>4, NothingAnswered

LEMMA ElsewhereKeeps ==
    ASSUME TellInv, NEW s, NEW detail, ChangeElsewhere(s, detail)
    PROVE  TellInv'
  <1>1. calls' = calls /\ DOMAIN db' = DOMAIN db /\ db'.answers = db.answers
    BY DEF ChangeElsewhere, TellInv, Records
  <1>2. DOMAIN saves' = DOMAIN saves /\ saves'.applied = saves.applied /\ saves'.told = saves.told
    BY DEF ChangeElsewhere, TellInv, Records
  <1> QED
    BY <1>1, <1>2, NothingAnswered DEF TellInv, Records

LEMMA PageKeeps == TellInv /\ db' = db /\ calls' = calls /\ saves' = saves => TellInv'
  BY DEF TellInv, Records, AnswersTrue, AnswersStored

LEMMA UserKeeps == TellInv /\ UserNext => TellInv'
  <1> SUFFICES ASSUME TellInv, UserNext PROVE TellInv'
    OBVIOUS
  <1>1. CASE LoadOverview
    BY <1>1, PageKeeps, ExecuteKeeps DEF LoadOverview
  <1>2. CASE \E s \in Slip : OpenEditor(s)
    BY <1>2, PageKeeps DEF OpenEditor
  <1>3. CASE \E a \in Typed : Type(a)
    BY <1>3, PageKeeps DEF Type
  <1>4. CASE SubmitForm
    BY <1>4, ExecuteKeeps DEF SubmitForm
  <1>5. CASE PressConfirm
    BY <1>5, ExecuteKeeps DEF PressConfirm
  <1>6. CASE Dismiss
    BY <1>6, PageKeeps DEF Dismiss
  <1>7. CASE Reload
    BY <1>7, ReloadKeeps
  <1> QED
    BY <1>1, <1>2, <1>3, <1>4, <1>5, <1>6, <1>7 DEF UserNext

LEMMA TellSteps == TellInv /\ [CastSalesNext]_castSalesVars => TellInv'
  <1> SUFFICES ASSUME TellInv, [CastSalesNext]_castSalesVars PROVE TellInv'
    OBVIOUS
  <1>1. CASE UserNext
    BY <1>1, UserKeeps
  <1>2. ASSUME NEW c \in calls, Serve(c) \/ Receive(c) \/ Unknown(c) \/ Gone(c)
        PROVE  TellInv'
    <2>1. CASE Serve(c)
      BY <2>1, ServeKeeps
    <2>2. CASE Receive(c)
      BY <2>2, ReceiveKeeps
    <2>3. CASE Unknown(c)
      BY <2>3, UnknownKeeps
    <2>4. CASE Gone(c)
      BY <2>4, NothingAnswered DEF Gone, TellInv, Records
    <2> QED
      BY <1>2, <2>1, <2>2, <2>3, <2>4
  <1>3. ASSUME NEW s \in Slip, NEW detail \in Detail, ChangeElsewhere(s, detail)
        PROVE  TellInv'
    BY <1>3, ElsewhereKeeps
  <1>4. CASE UNCHANGED castSalesVars
    BY <1>4, PageKeeps DEF castSalesVars
  <1> QED
    BY <1>1, <1>2, <1>3, <1>4 DEF CastSalesNext

(* A command is told as saved exactly when it was carried out, however      *)
(* often, late or in whatever order it was sent.                            *)
THEOREM CastSalesToldAsApplied == CastSalesSpec => []ToldAsApplied
  <1>1. TellInv => ToldAsApplied
    BY DEF TellInv, AnswersTrue, AnswersStored, ToldAsApplied
  <1> QED
    BY <1>1, TellInit, TellSteps, PTL DEF CastSalesSpec

-----------------------------------------------------------------------------
(* What the page shows.  Revisions are never reused, so an overview of the  *)
(* page or of an answer is known by its revision, as long as the page does  *)
(* not fall behind; and when it fell behind, it stays behind until an       *)
(* answer brings the whole overview.                                        *)

Plain == [checkout : Nat, saved : Nat]
Shown == [rev : Nat, slips : [Slip -> Plain]]

Cmds == {c.cmd : c \in calls} \cup page.pend
Live(cmd) == cmd \in page.pend \/ \E c \in calls : c.here /\ c.cmd = cmd

CommandShape(cmd) ==
    /\ cmd.op \in Nat /\ cmd.rev \in Nat
    /\ \A l \in cmd.lines : l.slip \in Slip /\ l.checkout \in Nat \ {0} /\ l.amount \in Nat \ {0} /\ l.seen \in Nat

DialogShape(d) ==
    /\ DOMAIN d = {"slip", "detail", "typed", "saveOn", "inputsOn"}
    /\ d.slip \in Slip /\ d.detail \in [checkout : Nat \ {0}, saved : Nat] /\ d.typed \in Nat \ {0}

PageShape ==
    /\ DOMAIN page = {"ov", "dialog", "pend", "confirmOn"}
    /\ \/ page.ov = NoOverview /\ page.dialog = {} /\ ~ page.confirmOn /\ \A c \in calls : ~ c.here
       \/ page.ov \in Shown /\ page.ov.rev <= db.rev
    /\ \A d \in page.dialog : DialogShape(d)

ServerShape ==
    /\ db.rev \in Nat /\ db.slips \in [Slip -> Plain] /\ saves.made \in Nat
    /\ \A a \in db.answers : a.ov \in Shown /\ a.op \in Nat

(* A command has its number for itself, an answer of its own, and was made  *)
(* before.                                                                  *)
CommandsFit ==
    /\ \A cmd \in Cmds : CommandShape(cmd) /\ cmd.op <= saves.made /\ cmd.rev <= db.rev
    /\ \A x, y \in Cmds : x.op = y.op => x = y
    /\ \A c \in calls : \A a \in c.ans : a.op = c.cmd.op
    /\ \A a \in db.answers, cmd \in Cmds : a.ok /\ cmd.op = a.op => a.ov.rev = cmd.rev + 1

(* An overview with a revision that another one has is the same.            *)
Agrees(ov) ==
    /\ ov.rev = db.rev => ov.slips = db.slips
    /\ \A a \in db.answers : a.ov.rev = ov.rev => a.ov = ov

AnswersFit == \A a \in db.answers : a.ov.rev <= db.rev /\ a.op <= saves.made /\ Agrees(a.ov)

BookInv == PageShape /\ ServerShape /\ CommandsFit /\ AnswersFit

(* What the page makes of an overview when the answer of a command comes is *)
(* the overview of the answer; a confirmation leaves the amounts that the   *)
(* page offers.                                                             *)
Overlaid(ov, cmd, a) ==
    /\ \A s \in Slip : ov.slips[s] = a.ov.slips[s] \/ (s \in Targets(ov.slips) /\ \E l \in cmd.lines : l.slip = s)
    /\ cmd.kind = "confirm" => \A s \in Slip : InitialValue(ov.slips[s]) = InitialValue(a.ov.slips[s])

Foretells(ov) ==
    \A a \in db.answers, cmd \in Cmds : a.ok /\ cmd.op = a.op /\ cmd.rev = ov.rev => Overlaid(ov, cmd, a)

(* A command of the present revision names the amounts that are there.      *)
LinesSeen ==
    \A cmd \in Cmds :
        /\ cmd.rev = db.rev => \A l \in cmd.lines : l.seen = InitialValue(db.slips[l.slip])
        /\ cmd.kind = "confirm" => \A l \in cmd.lines : l.amount = l.seen

(* The page shows the overview of its revision, and so does the dialog; or  *)
(* it is behind, and nothing under way can bring it level.                  *)
Level ==
    /\ Agrees(page.ov) /\ Foretells(page.ov)
    /\ \A d \in page.dialog : InitialValue(d.detail) = InitialValue(page.ov.slips[d.slip])

Behind ==
    /\ page.ov.rev < db.rev
    /\ \A cmd \in Cmds : Live(cmd) /\ cmd.rev = page.ov.rev => cmd.op \notin saves.applied

PageFits ==
    /\ \A cmd \in Cmds : Live(cmd) /\ page.ov \in Shown => cmd.rev <= page.ov.rev
    /\ Level \/ Behind

FitInv ==
    ~ saves.older =>
        saves.unseen = {} /\ LinesSeen /\ PageFits /\ \A a \in db.answers : Foretells(a.ov)

ShowInv == TellInv /\ BookInv /\ FitInv

LEMMA ShowGives == ShowInv => NothingUnseenReplaced /\ RevisionOfOverview
<1> SUFFICES ASSUME ShowInv, ~ saves.older PROVE saves.unseen = {} /\ (page.ov.rev = db.rev => page.ov = Overview(db))
  BY DEF NothingUnseenReplaced, RevisionOfOverview
<1>1. saves.unseen = {} /\ PageFits
  BY DEF ShowInv, FitInv
<1>2. ASSUME page.ov.rev = db.rev PROVE page.ov = Overview(db)
  <2>1. db.rev \in Nat
    BY DEF ShowInv, BookInv, ServerShape
  <2>2. page.ov.slips = db.slips
    BY <1>1, <1>2, <2>1 DEF PageFits, Level, Behind, Agrees
  <2>3. page.ov \in Shown
    BY <1>2, <2>1 DEF ShowInv, BookInv, PageShape, NoOverview
  <2>q. QED BY <1>2, <2>2, <2>3 DEF Shown, Overview
<1>q. QED BY <1>1, <1>2

LEMMA ShowInit == CastSalesInit => ShowInv
<1> SUFFICES ASSUME CastSalesInit PROVE ShowInv
  OBVIOUS
<1>1. db.answers = {} /\ calls = {} /\ page = NewPage({}) /\ saves.applied = {} /\ saves.unseen = {} /\ saves.made = 0
  BY DEF CastSalesInit
<1>2. db.rev = 0 /\ db.slips \in [Slip -> Plain]
  BY DEF CastSalesInit, Plain, NotSaved
<1>3. Cmds = {} /\ page.ov = NoOverview /\ page.dialog = {} /\ ~ page.confirmOn
  BY <1>1 DEF Cmds, NewPage
<1>4. PageShape
  BY <1>1, <1>3 DEF PageShape, NewPage
<1>5. BookInv
  BY <1>1, <1>2, <1>3, <1>4 DEF BookInv, ServerShape, CommandsFit, AnswersFit
<1>6. FitInv
  <2>1. page.ov.rev = -1
    BY <1>3 DEF NoOverview
  <2>2. Behind
    BY <1>2, <1>3, <2>1 DEF Behind
  <2>q. QED BY <1>1, <1>2, <1>3, <2>1, <2>2 DEF FitInv, LinesSeen, PageFits
<1>q. QED BY <1>5, <1>6, TellInit DEF ShowInv

(* A step of the page keeps what is known of the server's overviews, as     *)
(* long as new commands have a new number.                                  *)
LEMMA AgreesStays == ASSUME NEW ov, Agrees(ov), UNCHANGED db PROVE Agrees(ov)'
BY DEF Agrees

LEMMA ForetellsStays ==
    ASSUME NEW ov, Foretells(ov), UNCHANGED db,
           \A cmd \in Cmds' : cmd \in Cmds \/ \A a \in db.answers : a.op # cmd.op
    PROVE  Foretells(ov)'
<1> SUFFICES ASSUME NEW a \in db.answers, NEW cmd \in Cmds', a.ok, cmd.op = a.op, cmd.rev = ov.rev
             PROVE  Overlaid(ov, cmd, a)
  BY DEF Foretells
<1>1. cmd \in Cmds
  OBVIOUS
<1>q. QED BY <1>1 DEF Foretells

LEMMA PageStep ==
    ASSUME ShowInv, TellInv', UNCHANGED db, PageShape', CommandsFit',
           saves'.made \in Nat, saves.made <= saves'.made, saves'.unseen = saves.unseen, ~ saves'.older => ~ saves.older,
           \A cmd \in Cmds' : cmd \in Cmds \/ \A a \in db.answers : a.op # cmd.op,
           ~ saves'.older => LinesSeen' /\ PageFits'
    PROVE  ShowInv'
<1>1. ServerShape'
  BY DEF ShowInv, BookInv, ServerShape
<1>2. AnswersFit'
  <2> SUFFICES ASSUME NEW a \in db.answers PROVE a.ov.rev <= db.rev /\ a.op <= saves'.made /\ Agrees(a.ov)'
    BY DEF AnswersFit
  <2>1. a.ov.rev <= db.rev /\ a.op <= saves.made /\ Agrees(a.ov) /\ a.op \in Nat /\ saves.made \in Nat
    BY DEF ShowInv, BookInv, AnswersFit, ServerShape
  <2>q. QED BY <2>1, AgreesStays
<1>3. ASSUME ~ saves'.older PROVE \A a \in db.answers : Foretells(a.ov)'
  BY <1>3, ForetellsStays DEF ShowInv, FitInv
<1>q. QED BY <1>1, <1>2, <1>3 DEF ShowInv, BookInv, FitInv

(* The page forgets, or goes on with what it shows. *)
LEMMA PageRests ==
    ASSUME ShowInv, ~ saves.older, UNCHANGED db, saves'.applied = saves.applied,
           Cmds' \subseteq Cmds, \A cmd \in Cmds' : Live(cmd)' => Live(cmd),
           page'.ov = page.ov,
           \A d \in page'.dialog : \/ \E e \in page.dialog : d.slip = e.slip /\ d.detail = e.detail
                                   \/ d.detail = page.ov.slips[d.slip]
    PROVE  LinesSeen' /\ PageFits'
<1>1. LinesSeen /\ PageFits
  BY DEF ShowInv, FitInv
<1>2. LinesSeen'
  BY <1>1 DEF LinesSeen
<1>3. CASE Level
  <2>1. Agrees(page.ov)' /\ Foretells(page.ov)'
    BY <1>3, AgreesStays, ForetellsStays DEF Level
  <2>2. Level'
    BY <1>3, <2>1 DEF Level
  <2>q. QED BY <1>1, <1>2, <2>2 DEF PageFits
<1>4. CASE Behind
  BY <1>1, <1>2, <1>4 DEF PageFits, Behind
<1>q. QED BY <1>1, <1>3, <1>4 DEF PageFits

LEMMA InitialPositive ==
    ASSUME NEW detail, detail.checkout \in Nat, detail.saved \in Nat
    PROVE  InitialValue(detail) \in Nat \ {0}
BY DEF InitialValue, Suggested, NotSaved

LEMMA CommandsFewer ==
    ASSUME ShowInv, UNCHANGED db, saves'.made = saves.made, Cmds' \subseteq Cmds,
           \A c \in calls' : \A a \in c.ans : a.op = c.cmd.op
    PROVE  CommandsFit'
BY DEF ShowInv, BookInv, CommandsFit, CommandShape

(* The dialog opens, closes or takes an amount. *)
SameButDialog ==
    /\ DOMAIN page' = DOMAIN page /\ page'.ov = page.ov
    /\ page'.pend = page.pend /\ page'.confirmOn = page.confirmOn

LEMMA DialogChange ==
    ASSUME ShowInv, NEW dialog, page' = [page EXCEPT !.dialog = dialog]
    PROVE  SameButDialog /\ page'.dialog = dialog
BY DEF SameButDialog, ShowInv, BookInv, PageShape

LEMMA DialogKeeps ==
    ASSUME ShowInv, TellInv', UNCHANGED <<db, calls, saves>>, SameButDialog,
           page.ov \in Shown \/ page'.dialog = {},
           \A d \in page'.dialog : /\ DialogShape(d)
                                   /\ \/ \E e \in page.dialog : d.slip = e.slip /\ d.detail = e.detail
                                      \/ d.detail = page.ov.slips[d.slip]
    PROVE  ShowInv'
<1>1. /\ DOMAIN page = {"ov", "dialog", "pend", "confirmOn"}
      /\ DOMAIN page' = DOMAIN page /\ page'.ov = page.ov
      /\ page'.pend = page.pend /\ page'.confirmOn = page.confirmOn
  BY DEF SameButDialog, ShowInv, BookInv, PageShape
<1>2. PageShape'
  <2>1. CASE page.ov \in Shown
    BY <1>1, <2>1 DEF ShowInv, BookInv, PageShape, Shown, NoOverview
  <2>2. CASE page'.dialog = {}
    BY <1>1, <2>2 DEF ShowInv, BookInv, PageShape, NoOverview
  <2>q. QED BY <2>1, <2>2
<1>3. Cmds' = Cmds /\ \A cmd : Live(cmd)' = Live(cmd)
  BY <1>1 DEF Cmds, Live
<1>4. CommandsFit' /\ saves.made \in Nat
  BY <1>3, CommandsFewer DEF ShowInv, BookInv, CommandsFit, ServerShape
<1>5. ~ saves'.older => LinesSeen' /\ PageFits'
  BY <1>1, <1>3, PageRests
<1>q. QED BY <1>2, <1>3, <1>4, <1>5, PageStep

LEMMA OpenKeeps == ASSUME ShowInv, TellInv', NEW s \in Slip, OpenEditor(s) PROVE ShowInv'
<1> DEFINE detail == page.ov.slips[s]
           d == [slip |-> s, detail |-> detail, typed |-> InitialValue(detail), saveOn |-> TRUE, inputsOn |-> TRUE]
<1>1. page' = [page EXCEPT !.dialog = {d}] /\ UNCHANGED <<db, calls, saves>> /\ s \in Targets(page.ov.slips)
  BY DEF OpenEditor
<1>2. page.ov \in Shown
  <2>1. page.ov # NoOverview
    BY <1>1 DEF Targets, NoOverview
  <2>q. QED BY <2>1 DEF ShowInv, BookInv, PageShape
<1>3. detail \in Plain /\ detail.checkout > 0
  BY <1>1, <1>2 DEF Shown, Targets
<1>4. InitialValue(detail) \in Nat \ {0}
  BY <1>3, InitialPositive DEF Plain
<1>5. detail \in [checkout : Nat \ {0}, saved : Nat]
  BY <1>3 DEF Plain
<1>6. d.slip = s /\ d.detail = detail /\ d.typed = InitialValue(detail) /\ DOMAIN d = {"slip", "detail", "typed", "saveOn", "inputsOn"}
  OBVIOUS
<1> HIDE DEF d, detail
<1>7. DialogShape(d)
  BY <1>4, <1>5, <1>6 DEF DialogShape
<1>8. \A e \in {d} : DialogShape(e) /\ e.detail = page.ov.slips[e.slip]
  BY <1>6, <1>7 DEF detail
<1>9. SameButDialog /\ page'.dialog = {d}
  BY <1>1, DialogChange
<1>q. QED BY <1>1, <1>2, <1>8, <1>9, DialogKeeps

LEMMA TypeKeeps == ASSUME ShowInv, TellInv', NEW amount \in Typed, Type(amount) PROVE ShowInv'
<1>1. PICK d \in page.dialog : page' = [page EXCEPT !.dialog = {[d EXCEPT !.typed = amount]}]
  BY DEF Type
<1>2. DialogShape(d) /\ amount \in Nat \ {0} /\ page.ov \in Shown
  BY CastSalesAssumption DEF ShowInv, BookInv, PageShape
<1>3. PICK e : e = [d EXCEPT !.typed = amount]
  OBVIOUS
<1>4. DOMAIN e = DOMAIN d /\ e.slip = d.slip /\ e.detail = d.detail /\ e.typed = amount
  BY <1>2, <1>3 DEF DialogShape
<1>5. DialogShape(e)
  BY <1>2, <1>4 DEF DialogShape
<1>6. page' = [page EXCEPT !.dialog = {e}] /\ UNCHANGED <<db, calls, saves>>
  BY <1>1, <1>3 DEF Type
<1>7. SameButDialog /\ page'.dialog = {e}
  BY <1>6, DialogChange
<1>q. QED BY <1>2, <1>4, <1>5, <1>6, <1>7, DialogKeeps

LEMMA DismissKeeps == ASSUME ShowInv, TellInv', Dismiss PROVE ShowInv'
<1>1. page' = [page EXCEPT !.dialog = {}] /\ UNCHANGED <<db, calls, saves>>
  BY DEF Dismiss
<1>2. SameButDialog /\ page'.dialog = {}
  BY <1>1, DialogChange
<1>q. QED BY <1>1, <1>2, DialogKeeps

LEMMA GoneKeeps == ASSUME ShowInv, TellInv', NEW c, Gone(c) PROVE ShowInv'
<1>1. calls' \subseteq calls /\ UNCHANGED <<db, page, saves>>
  BY DEF Gone
<1>2. Cmds' \subseteq Cmds /\ \A cmd : Live(cmd)' => Live(cmd)
  BY <1>1 DEF Cmds, Live
<1>3. PageShape'
  BY <1>1 DEF ShowInv, BookInv, PageShape, DialogShape
<1>4. CommandsFit' /\ saves.made \in Nat
  BY <1>1, <1>2, CommandsFewer DEF ShowInv, BookInv, CommandsFit, ServerShape
<1>5. ~ saves'.older => LinesSeen' /\ PageFits'
  BY <1>1, <1>2, PageRests
<1>q. QED BY <1>1, <1>2, <1>3, <1>4, <1>5, PageStep

LEMMA UnknownRests == ASSUME ShowInv, TellInv', NEW c, Unknown(c) PROVE ShowInv'
<1>0. /\ c \in calls /\ c.here /\ DOMAIN c = {"n", "cmd", "ans", "here"} /\ UNCHANGED <<db, saves>>
      /\ DOMAIN page = {"ov", "dialog", "pend", "confirmOn"} /\ page.ov \in Shown /\ page.ov.rev <= db.rev
      /\ \A d \in page.dialog : DialogShape(d)
  BY DEF Unknown, ShowInv, TellInv, Records, BookInv, PageShape
<1>1. PICK gone : gone = [c EXCEPT !.here = FALSE]
  OBVIOUS
<1>2. gone.cmd = c.cmd /\ gone.ans = c.ans /\ ~ gone.here /\ \A e \in calls' : e \in calls \/ e = gone
  BY <1>0, <1>1 DEF Unknown
<1>3. /\ DOMAIN page' = DOMAIN page /\ page'.ov = page.ov /\ page'.pend = page.pend
      /\ \A d \in page'.dialog :
           DialogShape(d) /\ \E e \in page.dialog : d.slip = e.slip /\ d.detail = e.detail
  <2>1. CASE c.cmd.kind = "confirm"
    BY <1>0, <2>1 DEF Unknown
  <2>2. CASE c.cmd.kind # "confirm"
    <3>1. page' = [page EXCEPT !.dialog = {[d EXCEPT !.saveOn = TRUE] : d \in page.dialog}]
      BY <2>2 DEF Unknown
    <3>2. \A d \in page.dialog : \A e : e = [d EXCEPT !.saveOn = TRUE] =>
            DialogShape(e) /\ d.slip = e.slip /\ d.detail = e.detail
      BY <1>0 DEF DialogShape
    <3>q. QED BY <1>0, <3>1, <3>2
  <2>q. QED BY <2>1, <2>2
<1>4. Cmds' \subseteq Cmds /\ \A cmd : Live(cmd)' => Live(cmd)
  BY <1>0, <1>2, <1>3 DEF Cmds, Live
<1>5. PageShape'
  BY <1>0, <1>3 DEF ShowInv, BookInv, PageShape
<1>6. CommandsFit' /\ saves.made \in Nat
  <2>1. \A e \in calls' : \A a \in e.ans : a.op = e.cmd.op
    BY <1>0, <1>2 DEF ShowInv, BookInv, CommandsFit
  <2>q. QED BY <1>0, <1>4, <2>1, CommandsFewer DEF ShowInv, BookInv, ServerShape
<1>7. ~ saves'.older => LinesSeen' /\ PageFits'
  BY <1>0, <1>3, <1>4, PageRests
<1>q. QED BY <1>0, <1>4, <1>5, <1>6, <1>7, PageStep

(* A page that shows nothing yet shows nothing wrong. *)
LEMMA BlankFits ==
    ASSUME page'.ov = NoOverview, db'.rev \in Nat, \A cmd \in Cmds' : CommandShape(cmd)
    PROVE  PageFits'
<1>1. page'.ov.rev = -1
  BY DEF NoOverview
<1>2. page'.ov \notin Shown
  BY <1>1 DEF Shown
<1>3. \A cmd \in Cmds' : cmd.rev # page'.ov.rev
  BY <1>1 DEF CommandShape
<1>q. QED BY <1>1, <1>2, <1>3 DEF PageFits, Behind

LEMMA ReloadRests == ASSUME ShowInv, TellInv', Reload PROVE ShowInv'
<1>1. /\ page' = NewPage(page.pend) /\ UNCHANGED db
      /\ DOMAIN saves = {"made", "reloads", "applied", "told", "unseen", "older", "checkouts"}
      /\ calls' = {[c EXCEPT !.here = FALSE] : c \in {e \in calls : e.ans = {}}}
      /\ saves' = [saves EXCEPT !.reloads = @ + 1]
  BY DEF Reload, ShowInv, TellInv, Records
<1>2. /\ page'.ov = NoOverview /\ page'.dialog = {} /\ ~ page'.confirmOn /\ page'.pend = page.pend
      /\ DOMAIN page' = {"ov", "dialog", "pend", "confirmOn"}
  BY <1>1 DEF NewPage
<1>3. ASSUME NEW c \in calls' PROVE ~ c.here /\ c.ans = {} /\ \E e \in calls : c.cmd = e.cmd
  <2>1. PICK e \in calls : c = [e EXCEPT !.here = FALSE] /\ e.ans = {}
    BY <1>1
  <2>2. DOMAIN e = {"n", "cmd", "ans", "here"}
    BY DEF ShowInv, TellInv, Records
  <2>q. QED BY <2>1, <2>2
<1>4. Cmds' \subseteq Cmds
  BY <1>2, <1>3 DEF Cmds
<1>5. PageShape'
  BY <1>2, <1>3 DEF PageShape
<1>6. /\ saves'.made = saves.made /\ saves'.unseen = saves.unseen /\ saves'.older = saves.older
      /\ saves.made \in Nat /\ db.rev \in Nat
  BY <1>1 DEF ShowInv, BookInv, ServerShape
<1>7. CommandsFit'
  BY <1>1, <1>3, <1>4, <1>6, CommandsFewer
<1>8. PageFits'
  BY <1>1, <1>2, <1>6, <1>7, BlankFits DEF CommandsFit
<1>9. ~ saves'.older => LinesSeen'
  BY <1>1, <1>4, <1>6 DEF ShowInv, FitInv, LinesSeen
<1>q. QED BY <1>1, <1>4, <1>5, <1>6, <1>7, <1>8, <1>9, PageStep

(* Another terminal makes every overview that was seen an old one. *)
LEMMA ElsewhereShows ==
    ASSUME ShowInv, TellInv', NEW s \in Slip, NEW detail \in Detail, ChangeElsewhere(s, detail)
    PROVE  ShowInv'
<1>1. /\ UNCHANGED <<page, calls>> /\ db.rev \in Nat /\ db.slips \in [Slip -> Plain]
      /\ DOMAIN db = {"rev", "slips", "answers"}
      /\ DOMAIN saves = {"made", "reloads", "applied", "told", "unseen", "older", "checkouts"}
  BY DEF ChangeElsewhere, ShowInv, TellInv, Records, BookInv, ServerShape
<1>2. db'.rev = db.rev + 1 /\ db'.answers = db.answers /\ db'.slips = [db.slips EXCEPT ![s] = detail]
  BY <1>1 DEF ChangeElsewhere
<1>3. saves'.made = saves.made /\ saves'.unseen = saves.unseen /\ saves'.older = saves.older /\ saves'.applied = saves.applied
  BY <1>1 DEF ChangeElsewhere
<1>4. detail \in Plain
  <2>1. MaxCheckout \in Nat /\ \A t \in Typed : t \in Nat
    BY CastSalesAssumption
  <2>2. \A a \in Amount : a \in Nat
    BY <2>1 DEF Amount, Suggested
  <2>3. detail \in [checkout : 0..MaxCheckout, saved : Amount \cup {0}]
    BY DEF Detail, NotSaved
  <2>4. detail.checkout \in Nat /\ detail.saved \in Nat /\ detail = [checkout |-> detail.checkout, saved |-> detail.saved]
    BY <2>1, <2>2, <2>3
  <2>q. QED BY <2>4 DEF Plain
<1>5. ServerShape'
  BY <1>1, <1>2, <1>3, <1>4 DEF ShowInv, BookInv, ServerShape
<1>6. PageShape'
  BY <1>1, <1>2 DEF ShowInv, BookInv, PageShape, Shown, DialogShape
<1>7. Cmds' = Cmds /\ \A cmd : Live(cmd)' = Live(cmd)
  BY <1>1 DEF Cmds, Live
<1>8. CommandsFit'
  <2>1. \A cmd \in Cmds : cmd.rev <= db'.rev
    BY <1>1, <1>2 DEF ShowInv, BookInv, CommandsFit, CommandShape
  <2>q. QED BY <1>1, <1>2, <1>3, <1>7, <2>1 DEF ShowInv, BookInv, CommandsFit, CommandShape
<1>9. ASSUME NEW ov \in Shown, ov.rev <= db.rev, Agrees(ov) PROVE Agrees(ov)'
  BY <1>1, <1>2, <1>9 DEF Agrees, Shown
<1>10. ASSUME NEW ov, Foretells(ov) PROVE Foretells(ov)'
  BY <1>2, <1>7, <1>10 DEF Foretells, Overlaid
<1>11. AnswersFit'
  <2> SUFFICES ASSUME NEW a \in db.answers PROVE a.ov.rev <= db'.rev /\ a.op <= saves'.made /\ Agrees(a.ov)'
    BY <1>2 DEF AnswersFit
  <2>1. a.ov.rev <= db.rev /\ a.op <= saves.made /\ Agrees(a.ov) /\ a.ov \in Shown
    BY DEF ShowInv, BookInv, AnswersFit, ServerShape
  <2>q. QED BY <1>1, <1>2, <1>3, <1>9, <2>1 DEF Shown
<1>12. ASSUME ~ saves'.older PROVE saves'.unseen = {} /\ LinesSeen' /\ PageFits' /\ \A a \in db'.answers : Foretells(a.ov)'
  <2>1. saves.unseen = {} /\ LinesSeen /\ PageFits /\ \A a \in db.answers : Foretells(a.ov)
    BY <1>3, <1>12 DEF ShowInv, FitInv
  <2>2. LinesSeen'
    <3>1. \A cmd \in Cmds : cmd.rev # db'.rev
      BY <1>1, <1>2 DEF ShowInv, BookInv, CommandsFit, CommandShape
    <3>q. QED BY <1>7, <2>1, <3>1 DEF LinesSeen
  <2>3. PageFits'
    <3>0. page.ov.rev < db'.rev /\ (page.ov \in Shown => page.ov.rev <= db.rev)
      BY <1>1, <1>2 DEF ShowInv, BookInv, PageShape, NoOverview, Shown
    <3>1. CASE Level
      <4>1. Agrees(page.ov)'
        BY <1>1, <1>2, <3>0, <3>1 DEF Level, Agrees
      <4>2. Foretells(page.ov)'
        BY <1>1, <1>10, <3>1 DEF Level
      <4>3. Level'
        BY <1>1, <3>1, <4>1, <4>2 DEF Level, InitialValue
      <4>q. QED BY <1>1, <1>7, <2>1, <4>3 DEF PageFits
    <3>2. CASE Behind
      BY <1>1, <1>3, <1>7, <2>1, <3>0, <3>2 DEF PageFits, Behind
    <3>q. QED BY <2>1, <3>1, <3>2 DEF PageFits
  <2>q. QED BY <1>2, <1>3, <1>10, <2>1, <2>2, <2>3
<1>q. QED BY <1>5, <1>6, <1>8, <1>11, <1>12 DEF ShowInv, BookInv, FitInv

-----------------------------------------------------------------------------
(* Requests. *)

(* A command that is made now: it has the next number, and says what the    *)
(* page shows.                                                              *)
NewCommand(cmd) ==
    /\ CommandShape(cmd) /\ cmd.op = saves.made + 1 /\ cmd.rev = page.ov.rev
    /\ cmd.kind = "confirm" => \A l \in cmd.lines : l.amount = l.seen
    /\ Level => \A l \in cmd.lines : l.seen = InitialValue(page.ov.slips[l.slip])

(* The page that sends: the one shown, or one that has just been loaded.    *)
SendsFrom(p) ==
    /\ DOMAIN p = {"ov", "dialog", "pend", "confirmOn"} /\ p.ov \in Shown /\ p.dialog = page.dialog
    /\ p = page \/ (p.ov = Overview(db) /\ page.dialog = {} /\ \A c \in calls : ~ c.here)

LEMMA ExecuteFrame ==
    ASSUME ShowInv, NEW p, NEW cmd, Execute(p, cmd), SendsFrom(p)
    PROVE  /\ UNCHANGED db
           /\ saves'.made = (IF cmd.op > saves.made THEN cmd.op ELSE saves.made)
           /\ saves'.unseen = saves.unseen /\ saves'.older = saves.older /\ saves'.applied = saves.applied
           /\ DOMAIN page' = {"ov", "dialog", "pend", "confirmOn"}
           /\ page'.ov = p.ov /\ page'.pend = {cmd} /\ ~ page'.confirmOn
           /\ \A d \in page'.dialog :
                DialogShape(d) /\ \E e \in page.dialog : d.slip = e.slip /\ d.detail = e.detail
           /\ \A c \in calls' : c \in calls \/ (c.cmd = cmd /\ c.ans = {})
           /\ \E c \in calls' : c.here /\ c.cmd = cmd
           /\ Cmds' \subseteq Cmds \cup {cmd} /\ cmd \in Cmds'
<1>1. /\ UNCHANGED db
      /\ saves' = [saves EXCEPT !.made = IF cmd.op > @ THEN cmd.op ELSE @]
      /\ page' = [p EXCEPT !.pend = {cmd}, !.confirmOn = FALSE, !.dialog = IF cmd.kind = "save" THEN Locked(p) ELSE @]
  BY DEF Execute
<1>2. DOMAIN saves = {"made", "reloads", "applied", "told", "unseen", "older", "checkouts"}
  BY DEF ShowInv, TellInv, Records
<1>3. PICK call : call = [n |-> Slot, cmd |-> cmd, ans |-> {}, here |-> TRUE] /\ calls' = calls \cup {call}
  BY DEF Execute
<1>4. call.cmd = cmd /\ call.ans = {} /\ call.here /\ call \in calls'
  BY <1>3
<1>5. /\ DOMAIN page' = {"ov", "dialog", "pend", "confirmOn"}
      /\ page'.ov = p.ov /\ page'.pend = {cmd} /\ ~ page'.confirmOn
      /\ page'.dialog = IF cmd.kind = "save" THEN Locked(p) ELSE p.dialog
  BY <1>1 DEF SendsFrom
<1>6. \A d \in page.dialog : DialogShape(d)
  BY DEF ShowInv, BookInv, PageShape
<1>7. ASSUME NEW d \in page'.dialog
      PROVE  DialogShape(d) /\ \E e \in page.dialog : d.slip = e.slip /\ d.detail = e.detail
  <2>1. CASE cmd.kind = "save"
    <3>0. page'.dialog = Locked(p) /\ p.dialog = page.dialog
      BY <1>5, <2>1 DEF SendsFrom
    <3>1. PICK e \in page.dialog : d = [e EXCEPT !.saveOn = FALSE, !.inputsOn = FALSE]
      BY <3>0 DEF Locked
    <3>2. DOMAIN d = DOMAIN e /\ d.slip = e.slip /\ d.detail = e.detail /\ d.typed = e.typed
      BY <1>6, <3>1 DEF DialogShape
    <3>q. QED BY <1>6, <3>2 DEF DialogShape
  <2>2. CASE cmd.kind # "save"
    BY <1>5, <1>6, <2>2 DEF SendsFrom
  <2>q. QED BY <2>1, <2>2
<1>8. Cmds' \subseteq Cmds \cup {cmd} /\ cmd \in Cmds'
  BY <1>3, <1>4, <1>5 DEF Cmds
<1>9. /\ saves'.made = (IF cmd.op > saves.made THEN cmd.op ELSE saves.made)
      /\ saves'.unseen = saves.unseen /\ saves'.older = saves.older /\ saves'.applied = saves.applied
  BY <1>1, <1>2
<1>q. QED BY <1>1, <1>3, <1>4, <1>5, <1>7, <1>8, <1>9

(* An overview that is loaded is the server's. *)
LEMMA LoadedLevel ==
    ASSUME ShowInv
    PROVE  Agrees(Overview(db)) /\ Foretells(Overview(db)) /\ Overview(db) \in Shown
<1>1. /\ db.rev \in Nat /\ db.slips \in [Slip -> Plain]
      /\ \A a \in db.answers : a.ov \in Shown /\ a.ov.rev <= db.rev /\ Agrees(a.ov)
      /\ \A a \in db.answers, cmd \in Cmds : a.ok /\ cmd.op = a.op => a.ov.rev = cmd.rev + 1
      /\ \A cmd \in Cmds : cmd.rev \in Nat
  BY DEF ShowInv, BookInv, ServerShape, AnswersFit, CommandsFit, CommandShape
<1>2. Overview(db).rev = db.rev /\ Overview(db).slips = db.slips
  BY DEF Overview
<1>3. Overview(db) \in Shown
  BY <1>1 DEF Overview, Shown
<1>4. Agrees(Overview(db))
  <2> SUFFICES ASSUME NEW a \in db.answers, a.ov.rev = db.rev PROVE a.ov = Overview(db)
    BY <1>2 DEF Agrees
  <2>1. a.ov.slips = db.slips
    BY <1>1 DEF Agrees
  <2>q. QED BY <1>1, <2>1 DEF Overview, Shown
<1>5. Foretells(Overview(db))
  <2> SUFFICES ASSUME NEW a \in db.answers, NEW cmd \in Cmds, a.ok, cmd.op = a.op, cmd.rev = db.rev PROVE FALSE
    BY <1>2 DEF Foretells
  <2>1. a.ov.rev = db.rev + 1
    BY <1>1
  <2>q. QED BY <1>1, <2>1
<1>q. QED BY <1>3, <1>4, <1>5

LEMMA ExecuteShows ==
    ASSUME ShowInv, TellInv', NEW p, NEW cmd, Execute(p, cmd), SendsFrom(p),
           cmd \in page.pend \/ (p = page /\ NewCommand(cmd))
    PROVE  ShowInv'
<1>1. /\ UNCHANGED db
      /\ saves'.made = (IF cmd.op > saves.made THEN cmd.op ELSE saves.made)
      /\ saves'.unseen = saves.unseen /\ saves'.older = saves.older /\ saves'.applied = saves.applied
      /\ DOMAIN page' = {"ov", "dialog", "pend", "confirmOn"}
      /\ page'.ov = p.ov /\ page'.pend = {cmd} /\ ~ page'.confirmOn
      /\ \A d \in page'.dialog :
           DialogShape(d) /\ \E e \in page.dialog : d.slip = e.slip /\ d.detail = e.detail
      /\ \A c \in calls' : c \in calls \/ (c.cmd = cmd /\ c.ans = {})
      /\ Cmds' \subseteq Cmds \cup {cmd} /\ cmd \in Cmds'
  BY ExecuteFrame
<1>2. /\ db.rev \in Nat /\ saves.made \in Nat /\ p.ov \in Shown
      /\ \A x \in Cmds : CommandShape(x) /\ x.op \in Nat /\ x.op <= saves.made /\ x.rev \in Nat /\ x.rev <= db.rev
      /\ \A a \in db.answers : a.op \in Nat /\ a.op <= saves.made
  BY DEF ShowInv, BookInv, ServerShape, CommandsFit, CommandShape, AnswersFit, SendsFrom
<1>3. p.ov.rev <= db.rev /\ p.ov.rev \in Nat
  <2>1. CASE p = page
    BY <1>2, <2>1 DEF ShowInv, BookInv, PageShape, NoOverview, Shown
  <2>2. CASE p.ov = Overview(db)
    BY <1>2, <2>2 DEF Overview
  <2>q. QED BY <2>1, <2>2 DEF SendsFrom
<1>4. cmd \in Cmds \/ (cmd.op = saves.made + 1 /\ CommandShape(cmd) /\ cmd.rev <= db.rev /\ cmd.rev = p.ov.rev)
  BY <1>3 DEF NewCommand, Cmds
<1>5. saves'.made \in Nat /\ saves.made <= saves'.made /\ cmd.op <= saves'.made
  BY <1>1, <1>2, <1>4
<1>6. \A x \in Cmds' : x \in Cmds \/ (x = cmd /\ cmd.op = saves.made + 1)
  BY <1>1, <1>4
<1>7. \A x \in Cmds' : x \in Cmds \/ \A a \in db.answers : a.op # x.op
  BY <1>2, <1>6
<1>8. PageShape'
  BY <1>1, <1>2, <1>3 DEF PageShape
<1>9. CommandsFit'
  <2>1. \A x \in Cmds' : CommandShape(x) /\ x.op <= saves'.made /\ x.rev <= db.rev
    BY <1>1, <1>2, <1>4, <1>5
  <2>2. ASSUME NEW x \in Cmds', NEW y \in Cmds', x.op = y.op PROVE x = y
    <3>1. CASE x \in Cmds /\ y \in Cmds
      BY <2>2, <3>1 DEF ShowInv, BookInv, CommandsFit
    <3>2. CASE ~ (x \in Cmds /\ y \in Cmds)
      BY <1>2, <1>6, <2>2, <3>2
    <3>q. QED BY <3>1, <3>2
  <2>3. \A c \in calls' : \A a \in c.ans : a.op = c.cmd.op
    BY <1>1 DEF ShowInv, BookInv, CommandsFit
  <2>4. \A a \in db.answers, x \in Cmds' : a.ok /\ x.op = a.op => a.ov.rev = x.rev + 1
    BY <1>7 DEF ShowInv, BookInv, CommandsFit
  <2>q. QED BY <1>1, <2>1, <2>2, <2>3, <2>4 DEF CommandsFit
<1>10. ASSUME ~ saves'.older PROVE LinesSeen' /\ PageFits'
  <2>1. ~ saves.older /\ LinesSeen /\ PageFits
    BY <1>1, <1>10 DEF ShowInv, FitInv
  <2>2. LinesSeen'
    <3>1. CASE cmd \in Cmds
      BY <1>1, <2>1, <3>1 DEF LinesSeen
    <3>2. CASE p = page /\ NewCommand(cmd)
      <4>1. ASSUME cmd.rev = db.rev PROVE \A l \in cmd.lines : l.seen = InitialValue(db.slips[l.slip])
        <5>1. ~ Behind
          BY <1>2, <1>3, <3>2, <4>1 DEF Behind, NewCommand
        <5>2. Level /\ page.ov.slips = db.slips
          BY <2>1, <3>2, <4>1, <5>1 DEF PageFits, Level, Agrees, NewCommand
        <5>q. QED BY <3>2, <5>2 DEF NewCommand
      <4>q. QED BY <1>1, <2>1, <3>2, <4>1 DEF LinesSeen, NewCommand
    <3>q. QED BY <3>1, <3>2 DEF Cmds
  <2>3. \A x \in Cmds' : Live(x)' => x = cmd \/ (x \in Cmds /\ \E c \in calls : c.here /\ c.cmd = x)
    BY <1>1 DEF Live, Cmds
  <2>4. ASSUME p.ov = Overview(db), page.dialog = {}, \A c \in calls : ~ c.here PROVE PageFits'
    <3>1. PICK ov : ov = Overview(db)
      OBVIOUS
    <3>2. Agrees(ov) /\ Foretells(ov) /\ page'.ov = ov
      BY <1>1, <2>1, <2>4, <3>1, LoadedLevel
    <3>3. Agrees(ov)' /\ Foretells(ov)' /\ page'.dialog = {}
      BY <1>1, <1>7, <2>4, <3>2, AgreesStays, ForetellsStays
    <3>5. Level'
      BY <3>2, <3>3 DEF Level
    <3>4. cmd.rev <= p.ov.rev
      BY <1>2, <1>4, <2>4 DEF Overview
    <3>q. QED BY <1>1, <2>3, <2>4, <3>5, <3>4 DEF PageFits
  <2>5. ASSUME p = page PROVE PageFits'
    <3>0. page'.ov = page.ov
      BY <1>1, <2>5
    <3>1. \A x \in Cmds' : Live(x)' => x.rev <= page.ov.rev
      <4>1. \A x \in Cmds : Live(x) => x.rev <= page.ov.rev
        BY <1>2, <2>1, <2>5 DEF PageFits
      <4>2. cmd.rev <= page.ov.rev
        BY <1>3, <2>5, <4>1 DEF NewCommand, Live, Cmds
      <4>q. QED BY <2>3, <4>1, <4>2 DEF Live
    <3>2. ASSUME Level PROVE Level'
      <4>1. Agrees(page.ov)' /\ Foretells(page.ov)'
        BY <1>1, <1>7, <3>0, <3>2, AgreesStays, ForetellsStays DEF Level
      <4>q. QED BY <1>1, <3>0, <3>2, <4>1 DEF Level
    <3>3. ASSUME Behind PROVE Behind'
      <4>1. cmd.rev = page.ov.rev => cmd.op \notin saves.applied
        <5>1. CASE cmd \in page.pend
          BY <3>3, <5>1 DEF Behind, Live, Cmds
        <5>2. CASE NewCommand(cmd)
          <6>1. \A a \in db.answers : a.op # cmd.op
            BY <1>2, <5>2 DEF NewCommand
          <6>q. QED BY <6>1 DEF ShowInv, TellInv, AnswersTrue
        <5>q. QED BY <5>1, <5>2
      <4>q. QED BY <1>1, <2>3, <3>0, <3>3, <4>1 DEF Behind, Live
    <3>q. QED BY <2>1, <3>0, <3>1, <3>2, <3>3 DEF PageFits
  <2>q. QED BY <2>2, <2>4, <2>5 DEF SendsFrom
<1>q. QED BY <1>1, <1>5, <1>7, <1>8, <1>9, <1>10, PageStep

(* A command that was kept is not new. *)
LEMMA KeptOrNew ==
    ASSUME ShowInv, TellInv', NEW cmd, Execute(page, cmd), page.ov \in Shown, cmd \in page.pend \/ NewCommand(cmd)
    PROVE  ShowInv'
<1>1. SendsFrom(page)
  BY DEF SendsFrom, ShowInv, BookInv, PageShape
<1>q. QED BY <1>1, ExecuteShows

(* The fields of a command that is made, and of its lines. *)
LEMMA NewOpFields ==
    ASSUME NEW kind, NEW lines
    PROVE  /\ NewOp(kind, lines).kind = kind /\ NewOp(kind, lines).op = saves.made + 1
           /\ NewOp(kind, lines).rev = page.ov.rev /\ NewOp(kind, lines).lines = lines
BY DEF NewOp

LEMMA LineFields ==
    ASSUME NEW s, NEW detail, NEW amount
    PROVE  /\ LineOf(s, detail, amount).slip = s /\ LineOf(s, detail, amount).checkout = detail.checkout
           /\ LineOf(s, detail, amount).amount = amount /\ LineOf(s, detail, amount).seen = InitialValue(detail)
BY DEF LineOf

LEMMA SubmitShows == ASSUME ShowInv, TellInv', SubmitForm PROVE ShowInv'
<1>1. PICK d \in page.dialog : IF Pending("save") # {} THEN \E cmd \in Pending("save") : Execute(page, cmd)
                               ELSE Execute(page, CommandForDetail(d))
  BY DEF SubmitForm
<1>2. DialogShape(d) /\ page.ov \in Shown /\ saves.made \in Nat
  BY DEF ShowInv, BookInv, PageShape, ServerShape
<1>3. ASSUME NEW cmd \in page.pend, Execute(page, cmd) PROVE ShowInv'
  BY <1>2, <1>3, KeptOrNew
<1>4. CASE Execute(page, CommandForDetail(d))
  <2>1. PICK line : line = LineOf(d.slip, d.detail, d.typed)
    OBVIOUS
  <2>2. PICK cmd : cmd = CommandForDetail(d)
    OBVIOUS
  <2>3. line.slip = d.slip /\ line.checkout = d.detail.checkout /\ line.amount = d.typed /\ line.seen = InitialValue(d.detail)
    BY <2>1, LineFields
  <2>4. cmd.kind = "save" /\ cmd.op = saves.made + 1 /\ cmd.rev = page.ov.rev /\ cmd.lines = {line}
    BY <2>1, <2>2, NewOpFields DEF CommandForDetail
  <2>5. page.ov.rev \in Nat /\ InitialValue(d.detail) \in Nat /\ saves.made + 1 \in Nat
    BY <1>2, InitialPositive DEF DialogShape, Shown
  <2>6. CommandShape(cmd)
    BY <1>2, <2>3, <2>4, <2>5 DEF CommandShape, DialogShape
  <2>7. NewCommand(cmd)
    BY <2>3, <2>4, <2>6 DEF NewCommand, Level
  <2>q. QED BY <1>2, <1>4, <2>2, <2>7, KeptOrNew
<1>q. QED BY <1>1, <1>3, <1>4 DEF Pending

LEMMA PressShows == ASSUME ShowInv, TellInv', PressConfirm PROVE ShowInv'
<1>1. page.ov \in Shown /\ saves.made \in Nat
  BY DEF PressConfirm, ShowInv, BookInv, PageShape, ServerShape
<1>2. ASSUME NEW cmd \in page.pend, Execute(page, cmd) PROVE ShowInv'
  BY <1>1, <1>2, KeptOrNew
<1>3. CASE Execute(page, CommandForAll)
  <2>1. PICK cmd : cmd = CommandForAll
    OBVIOUS
  <2>2. /\ cmd.kind = "confirm" /\ cmd.op = saves.made + 1 /\ cmd.rev = page.ov.rev
        /\ cmd.lines = {LineOf(s, page.ov.slips[s], InitialValue(page.ov.slips[s])) : s \in Targets(page.ov.slips)}
    BY <2>1, NewOpFields DEF CommandForAll
  <2>3. ASSUME NEW l \in cmd.lines
        PROVE  /\ l.slip \in Slip /\ l.checkout \in Nat \ {0} /\ l.amount \in Nat \ {0} /\ l.seen = l.amount
               /\ l.seen = InitialValue(page.ov.slips[l.slip])
    <3>1. PICK s \in Targets(page.ov.slips) : l = LineOf(s, page.ov.slips[s], InitialValue(page.ov.slips[s]))
      BY <2>2
    <3>2. /\ l.slip = s /\ l.checkout = page.ov.slips[s].checkout
          /\ l.amount = InitialValue(page.ov.slips[s]) /\ l.seen = InitialValue(page.ov.slips[s])
      BY <3>1, LineFields
    <3>3. s \in Slip /\ page.ov.slips[s].checkout \in Nat \ {0} /\ page.ov.slips[s].saved \in Nat
      BY <1>1, <3>1 DEF Targets, Shown, Plain
    <3>4. InitialValue(page.ov.slips[s]) \in Nat \ {0}
      BY <3>3, InitialPositive
    <3>q. QED BY <3>2, <3>3, <3>4
  <2>4. page.ov.rev \in Nat /\ saves.made + 1 \in Nat
    BY <1>1 DEF Shown
  <2>5. CommandShape(cmd)
    BY <2>2, <2>3, <2>4 DEF CommandShape
  <2>6. NewCommand(cmd)
    BY <2>2, <2>3, <2>5 DEF NewCommand
  <2>q. QED BY <1>1, <1>3, <2>1, <2>6, KeptOrNew
<1>q. QED BY <1>2, <1>3 DEF PressConfirm, Pending

LEMMA LoadShows == ASSUME ShowInv, TellInv', LoadOverview PROVE ShowInv'
<1>1. PICK p : p = Render([page EXCEPT !.ov = Overview(db)])
  OBVIOUS
<1>2. page.ov = NoOverview /\ (\/ p.pend = {} /\ page' = p /\ UNCHANGED <<db, calls, saves>>
                               \/ \E cmd \in p.pend : Execute(p, cmd))
  BY <1>1 DEF LoadOverview
<1>3. /\ DOMAIN page = {"ov", "dialog", "pend", "confirmOn"} /\ page.dialog = {} /\ \A c \in calls : ~ c.here
      /\ db.rev \in Nat /\ saves.made \in Nat
  <2>1. page.ov.rev = -1
    BY <1>2 DEF NoOverview
  <2>2. page.ov \notin Shown
    BY <2>1 DEF Shown
  <2>q. QED BY <2>2 DEF ShowInv, BookInv, PageShape, ServerShape
<1>4. DOMAIN p = {"ov", "dialog", "pend", "confirmOn"} /\ p.ov = Overview(db) /\ p.dialog = {} /\ p.pend = page.pend
  BY <1>1, <1>3 DEF Render
<1>5. Overview(db) \in Shown
  BY DEF ShowInv, BookInv, ServerShape, Overview, Shown
<1>6. ASSUME NEW cmd \in page.pend, Execute(p, cmd) PROVE ShowInv'
  <2>1. SendsFrom(p)
    BY <1>3, <1>4, <1>5 DEF SendsFrom
  <2>q. QED BY <1>6, <2>1, ExecuteShows
<1>7. CASE page' = p /\ UNCHANGED <<db, calls, saves>>
  <2>1. DOMAIN page' = {"ov", "dialog", "pend", "confirmOn"} /\ page'.ov = Overview(db) /\ page'.dialog = {} /\ page'.pend = page.pend
    BY <1>4, <1>7
  <2>2. Overview(db).rev = db.rev
    BY DEF Overview
  <2>3. PageShape'
    BY <1>3, <1>5, <1>7, <2>1, <2>2 DEF PageShape
  <2>4. Cmds' = Cmds
    BY <1>7, <2>1 DEF Cmds
  <2>5. CommandsFit'
    BY <1>7, <2>4, CommandsFewer DEF ShowInv, BookInv, CommandsFit
  <2>6. ASSUME ~ saves'.older PROVE LinesSeen' /\ PageFits'
    <3>1. ~ saves.older /\ LinesSeen
      BY <1>7, <2>6 DEF ShowInv, FitInv
    <3>2. PICK ov : ov = Overview(db)
      OBVIOUS
    <3>3. Agrees(ov) /\ Foretells(ov) /\ page'.ov = ov
      BY <2>1, <3>1, <3>2, LoadedLevel
    <3>4. Agrees(ov)' /\ Foretells(ov)'
      BY <1>7, <2>4, <3>3, AgreesStays, ForetellsStays
    <3>5. Level'
      BY <2>1, <3>3, <3>4 DEF Level
    <3>6. \A cmd \in Cmds' : cmd.rev <= page'.ov.rev
      BY <2>1, <2>2, <2>4 DEF ShowInv, BookInv, CommandsFit
    <3>q. QED BY <1>7, <2>4, <3>1, <3>5, <3>6 DEF LinesSeen, PageFits
  <2>q. QED BY <1>3, <1>7, <2>3, <2>4, <2>5, <2>6, PageStep
<1>q. QED BY <1>2, <1>4, <1>6, <1>7

-----------------------------------------------------------------------------
(* Answers. *)

(* A stored answer is sent again. *)
LEMMA RepeatShows ==
    ASSUME ShowInv, TellInv', NEW c, Serve(c), Stored(c.cmd) # {}
    PROVE  ShowInv'
<1>0. c \in calls /\ DOMAIN c = {"n", "cmd", "ans", "here"} /\ UNCHANGED <<db, page, saves>>
  BY DEF Serve, ShowInv, TellInv, Records
<1>1. PICK e : e = [c EXCEPT !.ans = Stored(c.cmd)]
  OBVIOUS
<1>2. calls' = (calls \ {c}) \cup {e}
  BY <1>1 DEF Serve
<1>3. e.cmd = c.cmd /\ e.here = c.here /\ e.ans = Stored(c.cmd)
  BY <1>0, <1>1
<1>4. Cmds' \subseteq Cmds /\ \A cmd : Live(cmd)' => Live(cmd)
  BY <1>0, <1>2, <1>3 DEF Cmds, Live
<1>5. PageShape'
  BY <1>0, <1>2, <1>3 DEF ShowInv, BookInv, PageShape, DialogShape
<1>6. CommandsFit' /\ saves.made \in Nat
  <2>1. \A x \in calls' : \A a \in x.ans : a.op = x.cmd.op
    BY <1>2, <1>3 DEF ShowInv, BookInv, CommandsFit, Stored
  <2>q. QED BY <1>0, <1>4, <2>1, CommandsFewer DEF ShowInv, BookInv, ServerShape
<1>7. ~ saves'.older => LinesSeen' /\ PageFits'
  BY <1>0, <1>4, PageRests
<1>q. QED BY <1>0, <1>4, <1>5, <1>6, <1>7, PageStep

(* A new answer: the step in terms of its fields. *)
Answers(c, d, a) ==
    /\ c \in calls /\ a.op = c.cmd.op /\ a.ov = Overview(d) /\ \A b \in db.answers : b.op # a.op
    /\ db'.rev = d.rev /\ db'.slips = d.slips /\ db'.answers = db.answers \cup {a}
    /\ Cmds' = Cmds /\ (\A cmd : Live(cmd)' = Live(cmd)) /\ page' = page
    /\ \A x \in calls' : \/ x \in calls
                         \/ x.cmd = c.cmd /\ x.here = c.here /\ x.ans = {a}
    /\ saves'.made = saves.made /\ saves'.older = saves.older

LEMMA AnswerFrame ==
    ASSUME ShowInv, NEW c, Serve(c), Stored(c.cmd) = {}
    PROVE  \E a : /\ a.ok = Fits(c.cmd)
                  /\ ~ Fits(c.cmd) => Answers(c, db, a) /\ saves' = saves
                  /\ Fits(c.cmd) => /\ Answers(c, Applied(c.cmd), a)
                                    /\ saves'.applied = saves.applied \cup {c.cmd.op}
                                    /\ saves'.unseen = saves.unseen \cup {l \in c.cmd.lines : InitialValue(db.slips[l.slip]) # l.seen}
<1>1. PICK d : d = IF Fits(c.cmd) THEN Applied(c.cmd) ELSE db
  OBVIOUS
<1>2. PICK a : a = [op |-> c.cmd.op, ok |-> Fits(c.cmd), ov |-> Overview(d)]
  OBVIOUS
<1>3. PICK e : e = [c EXCEPT !.ans = {a}]
  OBVIOUS
<1>4. /\ DOMAIN db = {"rev", "slips", "answers"} /\ DOMAIN c = {"n", "cmd", "ans", "here"} /\ c \in calls
      /\ DOMAIN saves = {"made", "reloads", "applied", "told", "unseen", "older", "checkouts"}
  BY DEF Serve, ShowInv, TellInv, Records
<1>5. /\ db' = [d EXCEPT !.answers = @ \cup {a}] /\ calls' = (calls \ {c}) \cup {e} /\ page' = page
      /\ ~ Fits(c.cmd) => saves' = saves
      /\ Fits(c.cmd) => saves' = [saves EXCEPT !.applied = @ \cup {c.cmd.op},
                                             !.unseen = @ \cup {l \in c.cmd.lines : InitialValue(db.slips[l.slip]) # l.seen}]
  BY <1>1, <1>2, <1>3 DEF Serve
<1>6. DOMAIN d = {"rev", "slips", "answers"} /\ d.answers = db.answers
  BY <1>1, <1>4 DEF Applied
<1>7. db'.rev = d.rev /\ db'.slips = d.slips /\ db'.answers = db.answers \cup {a}
  BY <1>5, <1>6
<1>8. e.cmd = c.cmd /\ e.here = c.here /\ e.ans = {a}
  BY <1>3, <1>4
<1>9. Cmds' = Cmds /\ \A cmd : Live(cmd)' = Live(cmd)
  BY <1>4, <1>5, <1>8 DEF Cmds, Live
<1>10. a.op = c.cmd.op /\ a.ok = Fits(c.cmd) /\ a.ov = Overview(d)
  BY <1>2
<1>11. \A b \in db.answers : b.op # a.op
  BY <1>10 DEF Stored
<1>12. saves'.made = saves.made /\ saves'.older = saves.older
  BY <1>4, <1>5
<1>13. Answers(c, d, a)
  BY <1>4, <1>5, <1>7, <1>8, <1>9, <1>10, <1>11, <1>12 DEF Answers
<1>14. Fits(c.cmd) => /\ saves'.applied = saves.applied \cup {c.cmd.op}
                      /\ saves'.unseen = saves.unseen \cup {l \in c.cmd.lines : InitialValue(db.slips[l.slip]) # l.seen}
  BY <1>4, <1>5
<1>q. QED BY <1>1, <1>5, <1>10, <1>13, <1>14

(* A refusal carries the overview of the server. *)
LEMMA RefuseShows ==
    ASSUME ShowInv, TellInv', NEW c, NEW a, Answers(c, db, a), a.ok = FALSE, saves' = saves
    PROVE  ShowInv'
<1>1. /\ c \in calls /\ a.op = c.cmd.op /\ a.ov = Overview(db)
      /\ db'.rev = db.rev /\ db'.slips = db.slips /\ db'.answers = db.answers \cup {a}
      /\ Cmds' = Cmds /\ (\A cmd : Live(cmd)' = Live(cmd)) /\ page' = page
      /\ \A x \in calls' : x \in calls \/ (x.cmd = c.cmd /\ x.here = c.here /\ x.ans = {a})
  BY DEF Answers
<1>2. /\ db.rev \in Nat /\ db.slips \in [Slip -> Plain] /\ saves.made \in Nat
      /\ c.cmd \in Cmds /\ c.cmd.op \in Nat /\ c.cmd.op <= saves.made
      /\ \A b \in db.answers : b.ov \in Shown /\ b.op \in Nat /\ b.ov.rev <= db.rev /\ b.op <= saves.made /\ Agrees(b.ov)
  BY <1>1 DEF ShowInv, BookInv, ServerShape, CommandsFit, CommandShape, AnswersFit, Cmds
<1>3. Agrees(a.ov) /\ Foretells(a.ov) /\ a.ov \in Shown /\ a.ov.rev = db.rev /\ a.ov.slips = db.slips
  BY <1>1, LoadedLevel DEF Overview
<1>4. ServerShape'
  BY <1>1, <1>2, <1>3 DEF ServerShape
<1>5. PageShape'
  BY <1>1, <1>2 DEF ShowInv, BookInv, PageShape, DialogShape
<1>6. CommandsFit'
  BY <1>1 DEF ShowInv, BookInv, CommandsFit, CommandShape
<1>7. ASSUME NEW ov, Agrees(ov), ov \in Shown \/ ov = NoOverview PROVE Agrees(ov)'
  <2>1. ov.rev = db.rev => ov = a.ov
    <3> SUFFICES ASSUME ov.rev = db.rev PROVE ov = a.ov
      OBVIOUS
    <3>1. ov \in Shown /\ ov.slips = db.slips
      BY <1>2, <1>7 DEF Agrees, NoOverview
    <3>q. QED BY <1>3, <3>1 DEF Shown
  <2>q. QED BY <1>1, <1>3, <1>7, <2>1 DEF Agrees
<1>8. ASSUME NEW ov, Foretells(ov) PROVE Foretells(ov)'
  BY <1>1, <1>8 DEF Foretells, Overlaid
<1>9. AnswersFit'
  <2> SUFFICES ASSUME NEW b \in db.answers \cup {a} PROVE b.ov.rev <= db.rev /\ b.op <= saves.made /\ Agrees(b.ov)'
    BY <1>1 DEF AnswersFit
  <2>1. Agrees(b.ov) /\ b.ov \in Shown /\ b.ov.rev <= db.rev /\ b.op <= saves.made
    BY <1>1, <1>2, <1>3
  <2>q. QED BY <1>7, <2>1
<1>10. ASSUME ~ saves'.older PROVE saves'.unseen = {} /\ LinesSeen' /\ PageFits' /\ \A b \in db'.answers : Foretells(b.ov)'
  <2>1. saves.unseen = {} /\ LinesSeen /\ PageFits /\ \A b \in db.answers : Foretells(b.ov)
    BY <1>10 DEF ShowInv, FitInv
  <2>2. \A b \in db'.answers : Foretells(b.ov)'
    BY <1>1, <1>3, <1>8, <2>1
  <2>3. LinesSeen'
    BY <1>1, <2>1 DEF LinesSeen
  <2>4. ASSUME Level PROVE Level'
    <3>1. Agrees(page.ov)' /\ Foretells(page.ov)'
      BY <1>1, <1>7, <1>8, <2>4 DEF Level, ShowInv, BookInv, PageShape
    <3>q. QED BY <1>1, <2>4, <3>1 DEF Level
  <2>5. Behind => Behind'
    BY <1>1 DEF Behind
  <2>6. PageFits'
    BY <1>1, <2>1, <2>4, <2>5 DEF PageFits
  <2>q. QED BY <2>1, <2>2, <2>3, <2>6
<1>q. QED BY <1>4, <1>5, <1>6, <1>9, <1>10 DEF ShowInv, BookInv, FitInv

(* What a command that fits writes. *)
LEMMA AppliedFields ==
    ASSUME ShowInv, NEW cmd \in Cmds, Fits(cmd)
    PROVE  /\ Applied(cmd).rev = db.rev + 1 /\ cmd.rev = db.rev
           /\ Applied(cmd).slips \in [Slip -> Plain]
           /\ \A s \in Slip :
                \/ Applied(cmd).slips[s] = db.slips[s] /\ ~ \E l \in cmd.lines : l.slip = s
                \/ /\ s \in Targets(db.slips)
                   /\ \E l \in cmd.lines : l.slip = s /\ Applied(cmd).slips[s] = [db.slips[s] EXCEPT !.saved = l.amount]
<1>1. /\ DOMAIN db = {"rev", "slips", "answers"} /\ db.rev \in Nat /\ db.slips \in [Slip -> Plain]
      /\ CommandShape(cmd) /\ cmd.rev = db.rev /\ \A l \in cmd.lines : db.slips[l.slip].checkout = l.checkout
  BY DEF ShowInv, TellInv, Records, BookInv, ServerShape, CommandsFit, Fits
<1> DEFINE Line1(s) == CHOOSE l \in cmd.lines : l.slip = s
           New(s) == IF \E l \in cmd.lines : l.slip = s THEN [db.slips[s] EXCEPT !.saved = Line1(s).amount] ELSE db.slips[s]
<1>2. Applied(cmd).rev = db.rev + 1 /\ Applied(cmd).slips = [s \in Slip |-> New(s)]
  BY <1>1 DEF Applied
<1>3. ASSUME NEW s \in Slip, \E l \in cmd.lines : l.slip = s
      PROVE  Line1(s) \in cmd.lines /\ Line1(s).slip = s
  BY <1>3
<1> HIDE DEF Line1
<1>4. ASSUME NEW s \in Slip, NEW l \in cmd.lines, l.slip = s
      PROVE  s \in Targets(db.slips) /\ [db.slips[s] EXCEPT !.saved = l.amount] \in Plain
  <2>1. db.slips[s] \in Plain /\ db.slips[s].checkout \in Nat \ {0} /\ l.amount \in Nat
    BY <1>1, <1>4 DEF CommandShape
  <2>q. QED BY <2>1 DEF Targets, Plain
<1>5. ASSUME NEW s \in Slip
      PROVE  /\ New(s) \in Plain
             /\ \/ New(s) = db.slips[s] /\ ~ \E l \in cmd.lines : l.slip = s
                \/ /\ s \in Targets(db.slips)
                   /\ \E l \in cmd.lines : l.slip = s /\ New(s) = [db.slips[s] EXCEPT !.saved = l.amount]
  <2>1. CASE \E l \in cmd.lines : l.slip = s
    <3>1. PICK l \in cmd.lines : l = Line1(s) /\ l.slip = s
      BY <1>3, <2>1
    <3>2. New(s) = [db.slips[s] EXCEPT !.saved = l.amount]
      BY <2>1, <3>1
    <3>q. QED BY <1>4, <3>1, <3>2
  <2>2. CASE ~ \E l \in cmd.lines : l.slip = s
    BY <1>1, <2>2
  <2>q. QED BY <2>1, <2>2
<1> HIDE DEF New
<1>q. QED BY <1>1, <1>2, <1>5

(* The page that shows the present overview makes of it what the answer     *)
(* says.                                                                    *)
LEMMA OverlaidNow ==
    ASSUME ShowInv, LinesSeen, NEW cmd \in Cmds, Fits(cmd), NEW ov, ov.slips = db.slips, NEW a, a.ov.slips = Applied(cmd).slips
    PROVE  Overlaid(ov, cmd, a)
<1>1. /\ cmd.rev = db.rev /\ db.slips \in [Slip -> Plain] /\ CommandShape(cmd)
      /\ \A s \in Slip :
           \/ Applied(cmd).slips[s] = db.slips[s] /\ ~ \E l \in cmd.lines : l.slip = s
           \/ /\ s \in Targets(db.slips)
              /\ \E l \in cmd.lines : l.slip = s /\ Applied(cmd).slips[s] = [db.slips[s] EXCEPT !.saved = l.amount]
  BY AppliedFields DEF ShowInv, BookInv, ServerShape, CommandsFit
<1>2. ASSUME NEW s \in Slip, cmd.kind = "confirm" PROVE InitialValue(ov.slips[s]) = InitialValue(a.ov.slips[s])
  <2>1. ASSUME NEW l \in cmd.lines, l.slip = s, a.ov.slips[s] = [db.slips[s] EXCEPT !.saved = l.amount]
        PROVE  InitialValue(a.ov.slips[s]) = InitialValue(db.slips[s])
    <3>1. l.amount = InitialValue(db.slips[s])
      BY <1>1, <1>2, <2>1 DEF LinesSeen
    <3>2. a.ov.slips[s].saved = l.amount /\ l.amount # 0
      BY <1>1, <2>1 DEF CommandShape, Plain
    <3>q. QED BY <3>1, <3>2 DEF InitialValue, NotSaved
  <2>2. CASE Applied(cmd).slips[s] = db.slips[s]
    BY <2>2
  <2>3. ASSUME NEW l \in cmd.lines, l.slip = s, Applied(cmd).slips[s] = [db.slips[s] EXCEPT !.saved = l.amount]
        PROVE  InitialValue(a.ov.slips[s]) = InitialValue(db.slips[s])
    BY <2>1, <2>3
  <2>4. InitialValue(a.ov.slips[s]) = InitialValue(db.slips[s])
    BY <1>1, <2>2, <2>3
  <2>q. QED BY <2>4
<1>3. ASSUME NEW s \in Slip
      PROVE  ov.slips[s] = a.ov.slips[s] \/ (s \in Targets(ov.slips) /\ \E l \in cmd.lines : l.slip = s)
  BY <1>1
<1>q. QED BY <1>2, <1>3 DEF Overlaid

(* A command that is carried out makes every overview an old one but its    *)
(* own.                                                                     *)
LEMMA ApplyShows ==
    ASSUME ShowInv, TellInv', NEW c, NEW a, Fits(c.cmd), Answers(c, Applied(c.cmd), a),
           saves'.applied = saves.applied \cup {c.cmd.op},
           saves'.unseen = saves.unseen \cup {l \in c.cmd.lines : InitialValue(db.slips[l.slip]) # l.seen}
    PROVE  ShowInv'
<1>1. /\ c \in calls /\ a.op = c.cmd.op /\ a.ov = Overview(Applied(c.cmd)) /\ \A b \in db.answers : b.op # a.op
      /\ db'.rev = Applied(c.cmd).rev /\ db'.slips = Applied(c.cmd).slips /\ db'.answers = db.answers \cup {a}
      /\ Cmds' = Cmds /\ (\A cmd : Live(cmd)' = Live(cmd)) /\ page' = page
      /\ \A x \in calls' : x \in calls \/ (x.cmd = c.cmd /\ x.here = c.here /\ x.ans = {a})
      /\ saves'.made = saves.made /\ saves'.older = saves.older
  BY DEF Answers
<1>2. /\ db.rev \in Nat /\ db.slips \in [Slip -> Plain] /\ saves.made \in Nat
      /\ c.cmd \in Cmds /\ c.cmd.op \in Nat /\ c.cmd.op <= saves.made
      /\ \A b \in db.answers : b.ov \in Shown /\ b.op \in Nat /\ b.ov.rev <= db.rev /\ b.op <= saves.made /\ Agrees(b.ov)
      /\ \A cmd \in Cmds : cmd.rev \in Nat /\ cmd.rev <= db.rev
  BY <1>1 DEF ShowInv, BookInv, ServerShape, CommandsFit, CommandShape, AnswersFit, Cmds
<1>3. db'.rev = db.rev + 1 /\ c.cmd.rev = db.rev /\ db'.slips \in [Slip -> Plain]
  BY <1>1, <1>2, AppliedFields
<1>4. a.ov.rev = db'.rev /\ a.ov.slips = db'.slips /\ a.ov.slips = Applied(c.cmd).slips /\ a.ov \in Shown
  BY <1>1, <1>2, <1>3 DEF Overview, Shown
<1>5. ServerShape'
  BY <1>1, <1>2, <1>3, <1>4 DEF ServerShape
<1>6. PageShape'
  <2>1. page.ov.rev <= db.rev => page.ov.rev <= db'.rev \/ page.ov \notin Shown
    BY <1>2, <1>3 DEF Shown
  <2>q. QED BY <1>1, <2>1 DEF ShowInv, BookInv, PageShape, DialogShape
<1>7. CommandsFit'
  <2>1. \A cmd \in Cmds : CommandShape(cmd) /\ cmd.op <= saves.made /\ cmd.rev <= db'.rev
    BY <1>2, <1>3 DEF ShowInv, BookInv, CommandsFit
  <2>2. \A b \in db.answers \cup {a}, cmd \in Cmds : b.ok /\ cmd.op = b.op => b.ov.rev = cmd.rev + 1
    BY <1>1, <1>2, <1>3, <1>4 DEF ShowInv, BookInv, CommandsFit
  <2>q. QED BY <1>1, <2>1, <2>2 DEF ShowInv, BookInv, CommandsFit, CommandShape
<1>8. ASSUME NEW ov, Agrees(ov), ov \in Shown \/ ov = NoOverview, ov.rev <= db.rev PROVE Agrees(ov)'
  <2>1. ov.rev # db'.rev
    BY <1>2, <1>3, <1>8 DEF Shown, NoOverview
  <2>q. QED BY <1>1, <1>4, <1>8, <2>1 DEF Agrees
<1>9. AnswersFit'
  <2>1. \A b \in db.answers : b.ov.rev <= db'.rev /\ b.op <= saves.made /\ Agrees(b.ov)'
    BY <1>2, <1>3, <1>8 DEF Shown
  <2>2. Agrees(a.ov)'
    <3>1. \A b \in db.answers : b.ov.rev # db'.rev
      BY <1>2, <1>3 DEF Shown
    <3>2. PICK ov : ov = a.ov
      OBVIOUS
    <3>q. QED BY <1>1, <1>4, <3>1, <3>2 DEF Agrees
  <2>q. QED BY <1>1, <1>2, <1>3, <1>4, <2>1, <2>2 DEF AnswersFit
<1>10. ASSUME ~ saves'.older PROVE saves'.unseen = {} /\ LinesSeen' /\ PageFits' /\ \A b \in db'.answers : Foretells(b.ov)'
  <2>1. saves.unseen = {} /\ LinesSeen /\ PageFits /\ \A b \in db.answers : Foretells(b.ov)
    BY <1>1, <1>10 DEF ShowInv, FitInv
  <2>2. saves'.unseen = {}
    <3>1. \A l \in c.cmd.lines : l.seen = InitialValue(db.slips[l.slip])
      BY <1>2, <1>3, <2>1 DEF LinesSeen
    <3>q. QED BY <2>1, <3>1
  <2>3. LinesSeen'
    <3>1. \A cmd \in Cmds : cmd.rev # db'.rev
      BY <1>2, <1>3
    <3>q. QED BY <1>1, <2>1, <3>1 DEF LinesSeen
  <2>4. ASSUME NEW ov, Agrees(ov), Foretells(ov) PROVE Foretells(ov)'
    <3> SUFFICES ASSUME NEW b \in db.answers \cup {a}, NEW cmd \in Cmds, b.ok, cmd.op = b.op, cmd.rev = ov.rev
                 PROVE  Overlaid(ov, cmd, b)
      BY <1>1 DEF Foretells, Overlaid
    <3>1. CASE b \in db.answers
      BY <2>4, <3>1 DEF Foretells
    <3>2. CASE b = a
      <4>1. cmd = c.cmd
        BY <1>1, <1>2, <3>2 DEF ShowInv, BookInv, CommandsFit
      <4>2. ov.slips = db.slips
        BY <1>3, <2>4, <4>1 DEF Agrees
      <4>q. QED BY <1>4, <2>1, <3>2, <4>1, <4>2, OverlaidNow
    <3>q. QED BY <3>1, <3>2
  <2>5. Foretells(a.ov)'
    <3>1. \A cmd \in Cmds : cmd.rev # a.ov.rev
      BY <1>2, <1>3, <1>4
    <3>2. PICK ov : ov = a.ov
      OBVIOUS
    <3>q. QED BY <1>1, <3>1, <3>2 DEF Foretells
  <2>6. \A b \in db'.answers : Foretells(b.ov)'
    BY <1>1, <1>2, <2>1, <2>4, <2>5
  <2>7. page.ov \in Shown \/ page.ov = NoOverview
    BY DEF ShowInv, BookInv, PageShape
  <2>8. page.ov.rev <= db.rev
    BY <1>2 DEF ShowInv, BookInv, PageShape, NoOverview
  <2>9. ASSUME Level PROVE Level'
    <3>1. Agrees(page.ov)' /\ Foretells(page.ov)'
      BY <1>1, <1>8, <2>4, <2>7, <2>8, <2>9 DEF Level
    <3>q. QED BY <1>1, <2>9, <3>1 DEF Level
  <2>10. ASSUME Behind PROVE Behind'
    <3>1. page.ov.rev < db'.rev
      BY <1>2, <1>3, <2>7, <2>8 DEF Shown, NoOverview
    <3>2. \A cmd \in Cmds : cmd.op = c.cmd.op => cmd.rev # page.ov.rev
      BY <1>2, <1>3, <2>7, <2>10 DEF Behind, ShowInv, BookInv, CommandsFit, Shown, NoOverview
    <3>q. QED BY <1>1, <2>10, <3>1, <3>2 DEF Behind
  <2>11. PageFits'
    BY <1>1, <2>1, <2>9, <2>10 DEF PageFits
  <2>q. QED BY <2>2, <2>3, <2>6, <2>11
<1>q. QED BY <1>5, <1>6, <1>7, <1>9, <1>10 DEF ShowInv, BookInv, FitInv

LEMMA ServeShows == ASSUME ShowInv, TellInv', NEW c, Serve(c) PROVE ShowInv'
<1>1. CASE Stored(c.cmd) # {}
  BY <1>1, RepeatShows
<1>2. CASE Stored(c.cmd) = {}
  <2>1. PICK a : /\ a.ok = Fits(c.cmd)
                 /\ ~ Fits(c.cmd) => Answers(c, db, a) /\ saves' = saves
                 /\ Fits(c.cmd) => /\ Answers(c, Applied(c.cmd), a)
                                   /\ saves'.applied = saves.applied \cup {c.cmd.op}
                                   /\ saves'.unseen = saves.unseen \cup {l \in c.cmd.lines : InitialValue(db.slips[l.slip]) # l.seen}
    BY <1>2, AnswerFrame
  <2>2. Fits(c.cmd) \in BOOLEAN
    BY DEF Fits
  <2>3. CASE Fits(c.cmd)
    BY <2>1, <2>3, ApplyShows
  <2>4. CASE Fits(c.cmd) = FALSE
    <3>1. a.ok = FALSE /\ Answers(c, db, a) /\ saves' = saves
      BY <2>1, <2>4
    <3>q. QED BY <3>1, RefuseShows
  <2>q. QED BY <2>2, <2>3, <2>4
<1>q. QED BY <1>1, <1>2

(* applyConfirmed gives the overview of the answer where the page and the   *)
(* lines of the command cover the difference.                               *)
LEMMA OverlaidGives ==
    ASSUME NEW ov \in Shown, NEW cmd, NEW a, a.ov \in Shown, Overlaid(ov, cmd, a)
    PROVE  ApplyConfirmed(ov, cmd, a) = a.ov
<1>1. \A s \in Slip : (IF s \in Targets(ov.slips) /\ \E l \in cmd.lines : l.slip = s THEN a.ov.slips[s] ELSE ov.slips[s]) = a.ov.slips[s]
  BY DEF Overlaid
<1>q. QED BY <1>1 DEF ApplyConfirmed, Shown

LEMMA ApplyConfirmedShown ==
    ASSUME NEW ov \in Shown, NEW cmd, NEW a, a.ov \in Shown
    PROVE  /\ ApplyConfirmed(ov, cmd, a) \in Shown /\ ApplyConfirmed(ov, cmd, a).rev = a.ov.rev
           /\ ov = a.ov => ApplyConfirmed(ov, cmd, a) = ov
BY DEF ApplyConfirmed, Shown

LEMMA ReceiveShows == ASSUME ShowInv, TellInv', NEW c, Receive(c) PROVE ShowInv'
<1>1. PICK a \in c.ans :
        /\ page' = Render([page EXCEPT !.ov = IF a.ok THEN ApplyConfirmed(@, c.cmd, a) ELSE a.ov,
                                       !.pend = {},
                                       !.dialog = IF a.ok /\ c.cmd.kind = "confirm" THEN @ ELSE {}])
        /\ Told(c, a)
  BY DEF Receive
<1>2. /\ c \in calls /\ c.here /\ calls' = calls \ {c} /\ UNCHANGED db
      /\ DOMAIN page = {"ov", "dialog", "pend", "confirmOn"} /\ page.ov \in Shown /\ page.ov.rev <= db.rev
      /\ DOMAIN saves = {"made", "reloads", "applied", "told", "unseen", "older", "checkouts"}
      /\ \A d \in page.dialog : DialogShape(d)
  BY DEF Receive, ShowInv, TellInv, Records, BookInv, PageShape
<1>3. /\ a \in db.answers /\ a.op = c.cmd.op /\ a.ov \in Shown /\ a.ov.rev <= db.rev /\ Agrees(a.ov) /\ a.ok \in BOOLEAN
      /\ a.ok => a.ov.rev = c.cmd.rev + 1 /\ c.cmd.op \in saves.applied
      /\ c.cmd \in Cmds /\ Live(c.cmd) /\ c.cmd.rev \in Nat /\ db.rev \in Nat
  BY <1>2 DEF ShowInv, TellInv, AnswersStored, AnswersTrue, BookInv, ServerShape, CommandsFit, CommandShape, AnswersFit, Cmds, Live
<1>4. /\ DOMAIN page' = {"ov", "dialog", "pend", "confirmOn"} /\ page'.pend = {}
      /\ page'.ov = IF a.ok THEN ApplyConfirmed(page.ov, c.cmd, a) ELSE a.ov
      /\ page'.dialog = IF a.ok /\ c.cmd.kind = "confirm" THEN page.dialog ELSE {}
  BY <1>1, <1>2 DEF Render
<1>5. page'.ov \in Shown /\ page'.ov.rev = a.ov.rev
  BY <1>2, <1>3, <1>4, ApplyConfirmedShown
<1>6. Cmds' \subseteq Cmds /\ \A cmd : Live(cmd)' => Live(cmd)
  BY <1>2, <1>4 DEF Cmds, Live
<1>7. PageShape'
  BY <1>2, <1>3, <1>4, <1>5 DEF PageShape
<1>8. /\ saves'.made = saves.made /\ saves'.unseen = saves.unseen /\ saves'.applied = saves.applied
      /\ ~ saves'.older => ~ saves.older /\ ~ (a.ov.rev < page.ov.rev /\ \E e \in calls : e.here /\ e # c)
  BY <1>1, <1>2 DEF Told
<1>9. CommandsFit' /\ saves.made \in Nat
  BY <1>2, <1>6, <1>8, CommandsFewer DEF ShowInv, BookInv, CommandsFit, ServerShape
<1>10. ASSUME ~ saves'.older PROVE LinesSeen' /\ PageFits'
  <2>1. ~ saves.older /\ LinesSeen /\ PageFits /\ \A b \in db.answers : Foretells(b.ov)
    BY <1>8, <1>10 DEF ShowInv, FitInv
  <2>2. LinesSeen'
    BY <1>2, <1>6, <2>1 DEF LinesSeen
  <2>3. a.ov.rev < page.ov.rev => \A cmd : ~ Live(cmd)'
    BY <1>2, <1>4, <1>8, <1>10 DEF Live
  <2>4. \A cmd \in Cmds' : Live(cmd)' => cmd.rev <= page'.ov.rev
    <3>1. ASSUME NEW cmd \in Cmds', Live(cmd)', ~ a.ov.rev < page.ov.rev PROVE cmd.rev <= a.ov.rev
      <4>1. cmd.rev <= page.ov.rev /\ cmd.rev \in Nat
        BY <1>2, <1>6, <2>1, <3>1 DEF PageFits, ShowInv, BookInv, CommandsFit, CommandShape
      <4>q. QED BY <1>2, <1>3, <3>1, <4>1 DEF Shown
    <3>q. QED BY <1>5, <2>3, <3>1
  <2>5. ASSUME NEW ov, ov = page'.ov, Agrees(ov), Foretells(ov),
               \A d \in page'.dialog : InitialValue(d.detail) = InitialValue(ov.slips[d.slip])
        PROVE  Level'
    <3>1. Agrees(ov)' /\ Foretells(ov)'
      BY <1>2, <1>6, <2>5, AgreesStays, ForetellsStays
    <3>q. QED BY <2>5, <3>1 DEF Level
  <2>6. PICK ov : ov = a.ov
    OBVIOUS
  <2>7. Agrees(ov) /\ Foretells(ov)
    BY <1>3, <2>1, <2>6
  <2>8. CASE a.ok = FALSE
    <3>1. page'.ov = ov /\ page'.dialog = {}
      BY <1>4, <2>6, <2>8
    <3>2. Level'
      BY <2>5, <2>7, <3>1
    <3>q. QED BY <2>2, <2>4, <3>2 DEF PageFits
  <2>9. CASE a.ok = TRUE
    <3>0. /\ page'.ov = ApplyConfirmed(page.ov, c.cmd, a) /\ (c.cmd.kind # "confirm" => page'.dialog = {})
          /\ \A d \in page'.dialog : d \in page.dialog
      BY <1>4, <2>9
    <3>1. ASSUME page.ov.rev = c.cmd.rev PROVE Level'
      <4>1. Level
        BY <1>3, <2>1, <2>9, <3>1 DEF PageFits, Behind
      <4>2. Overlaid(page.ov, c.cmd, a)
        BY <1>3, <2>9, <3>1, <4>1 DEF Level, Foretells
      <4>3. page'.ov = ov
        BY <1>2, <1>3, <2>6, <3>0, <4>2, OverlaidGives
      <4>4. ASSUME NEW d \in page'.dialog PROVE InitialValue(d.detail) = InitialValue(ov.slips[d.slip])
        <5>1. d \in page.dialog /\ c.cmd.kind = "confirm" /\ d.slip \in Slip
          BY <1>2, <3>0 DEF DialogShape
        <5>q. QED BY <2>6, <4>1, <4>2, <5>1 DEF Level, Overlaid
      <4>q. QED BY <2>5, <2>7, <4>3, <4>4
    <3>2. ASSUME page.ov.rev = a.ov.rev, Level PROVE Level'
      <4>1. page.ov = a.ov
        BY <1>3, <3>2 DEF Level, Agrees
      <4>2. page'.ov = ov
        BY <1>2, <1>3, <2>6, <3>0, <4>1, ApplyConfirmedShown
      <4>3. \A d \in page'.dialog : InitialValue(d.detail) = InitialValue(ov.slips[d.slip])
        BY <2>6, <3>0, <3>2, <4>1 DEF Level
      <4>q. QED BY <2>5, <2>7, <4>2, <4>3
    <3>3. ASSUME page.ov.rev = a.ov.rev, Behind PROVE Behind'
      BY <1>2, <1>5, <1>6, <1>8, <3>3 DEF Behind
    <3>4. ASSUME a.ov.rev < page.ov.rev PROVE Behind'
      BY <1>2, <1>3, <1>5, <2>3, <3>4 DEF Behind, Shown
    <3>5. page.ov.rev = c.cmd.rev \/ page.ov.rev = a.ov.rev \/ a.ov.rev < page.ov.rev
      <4>1. c.cmd.rev <= page.ov.rev
        BY <1>2, <1>3, <2>1 DEF PageFits
      <4>q. QED BY <1>2, <1>3, <2>9, <4>1 DEF Shown
    <3>q. QED BY <2>1, <2>2, <2>4, <3>1, <3>2, <3>3, <3>4, <3>5 DEF PageFits
  <2>q. QED BY <1>3, <2>8, <2>9
<1>q. QED BY <1>2, <1>6, <1>7, <1>8, <1>9, <1>10, PageStep

-----------------------------------------------------------------------------
LEMMA PauseShows == ASSUME ShowInv, TellInv', UNCHANGED castSalesVars PROVE ShowInv'
<1>1. UNCHANGED <<db, page, calls, saves>>
  BY DEF castSalesVars
<1>2. SameButDialog /\ page'.dialog = page.dialog
  BY <1>1 DEF SameButDialog
<1>3. page.ov \in Shown \/ page.dialog = {}
  BY DEF ShowInv, BookInv, PageShape
<1>4. \A d \in page.dialog : DialogShape(d)
  BY DEF ShowInv, BookInv, PageShape
<1>q. QED BY <1>1, <1>2, <1>3, <1>4, DialogKeeps

LEMMA ShowSteps ==
    ASSUME ShowInv, [CastSalesNext]_castSalesVars
    PROVE  ShowInv'
<1>0. TellInv'
  BY TellSteps DEF ShowInv
<1>1. CASE LoadOverview
  BY <1>0, <1>1, LoadShows
<1>2. CASE \E s \in Slip : OpenEditor(s)
  BY <1>0, <1>2, OpenKeeps
<1>3. CASE \E a \in Typed : Type(a)
  BY <1>0, <1>3, TypeKeeps
<1>4. CASE SubmitForm
  BY <1>0, <1>4, SubmitShows
<1>5. CASE PressConfirm
  BY <1>0, <1>5, PressShows
<1>6. CASE Dismiss
  BY <1>0, <1>6, DismissKeeps
<1>7. CASE Reload
  BY <1>0, <1>7, ReloadRests
<1>8. CASE \E c \in calls : Serve(c) \/ Receive(c) \/ Unknown(c) \/ Gone(c)
  BY <1>0, <1>8, ServeShows, ReceiveShows, UnknownRests, GoneKeeps
<1>9. CASE \E s \in Slip, detail \in Detail : ChangeElsewhere(s, detail)
  BY <1>0, <1>9, ElsewhereShows
<1>10. CASE UNCHANGED castSalesVars
  BY <1>0, <1>10, PauseShows
<1>q. QED BY <1>1, <1>2, <1>3, <1>4, <1>5, <1>6, <1>7, <1>8, <1>9, <1>10 DEF CastSalesNext, UserNext

(* What the user is told is what became of the command; as long as no       *)
(* answer came that was older than the page while another was under way,    *)
(* no amount is replaced that the page did not show, and a page with the    *)
(* revision of the server shows what the server has.                        *)
THEOREM CastSalesShownAsStored == CastSalesSpec => []CastSalesTold
<1>1. ShowInv => CastSalesTold
  BY ShowGives DEF ShowInv, TellInv, AnswersTrue, AnswersStored, ToldAsApplied, CastSalesTold
<1>2. ShowInv /\ [CastSalesNext]_castSalesVars => ShowInv'
  BY ShowSteps
<1>q. QED BY <1>1, <1>2, ShowInit, PTL DEF CastSalesSpec

-----------------------------------------------------------------------------
(***************************************************************************)
(* Printing. The invariant says of the queue that only its first job has    *)
(* begun; of a paper that it is a copy if one was reported before its job   *)
(* was made; and of the statement that is kept that it is the one of the    *)
(* slip, and that at most one job will write it, that of the dialog that    *)
(* waits for it. The last part holds until a dialog is left while it        *)
(* prints.                                                                  *)
(***************************************************************************)

Fate == {"nothing", "failed", "printed", "dismissed", "cancelled", "dropped"}

Sheet == [ok : BOOLEAN, no : 1..MaxJob, kind : {"statement", "receipt", "retry"}, key : Number, mark : BOOLEAN,
          known : BOOLEAN]

(* A receipt that was asked for after a report is kept with its mark. *)
Request == {w \in Waiting : w.known => w.mark}

(* The shape of the variables. *)
SlipShape == slip \in [status : Status, statement : 0..MaxIssue] /\ (slip.status # "open" => slip.statement \in Number)
KeptShape ==
    /\ kept \in [queue : SUBSET [statement : Number, state : State], pending : Seq(Request), printed : SUBSET Number]
    /\ Len(kept.pending) <= MaxKept
TillShape == till \in [current : SUBSET Dialog, busy : 0..MaxJob, off : SUBSET Number]
JobsShape == jobs \in Seq(Job)
PrintsShape ==
    prints \in [jobs : 0..MaxJob, dialogs : 0..MaxOpen, reloads : 0..MaxTillReload, left : BOOLEAN,
                papers : Seq(Sheet), reported : SUBSET Number, told : [Number -> Fate]]

PrintShape == SlipShape /\ KeptShape /\ TillShape /\ JobsShape /\ PrintsShape

(* Only the first job has begun. *)
FirstOnly == \A i \in 1..Len(jobs) : i # 1 => jobs[i].phase = "waiting"

(* What was reported is on record, so that a job asked for after a report   *)
(* says that it is a copy, and its paper does.                              *)
MarkInv ==
    /\ prints.reported \subseteq kept.printed
    /\ \A i \in 1..Len(jobs) : jobs[i].known => jobs[i].mark
    /\ LaterCopyMarked

(* A job that will write the statement that is kept belongs to the dialog   *)
(* that is open and waits for it.                                           *)
Keeps(i) == jobs[i].kind = "statement" /\ jobs[i].keeps

DialogInv ==
    /\ \A d, e \in till.current : d = e
    /\ \A d \in till.current : d.id <= prints.dialogs /\ slip.status = "checkout_ready"
    /\ \A i \in 1..Len(jobs) : jobs[i].dialog <= prints.dialogs
    /\ \A i \in 1..Len(jobs) : jobs[i].kind = "statement" /\ ~ jobs[i].keeps =>
         \A d \in till.current : d.id # jobs[i].dialog

KeepInv ==
    /\ KeptStatementIsIssued
    /\ \A d \in till.current : d.statement = slip.statement
    /\ \A i, j \in 1..Len(jobs) : Keeps(i) /\ Keeps(j) => i = j
    /\ \A i \in 1..Len(jobs) : Keeps(i) =>
         \E d \in till.current : d.id = jobs[i].dialog /\ d.task /\ d.statement = jobs[i].key

PrintInv == PrintShape /\ FirstOnly /\ FailedIsKept /\ MarkInv /\ DialogInv /\ (~ prints.left => KeepInv)

-----------------------------------------------------------------------------
(* The lists of jobs. *)

LEMMA JobFields ==
    ASSUME JobsShape, NEW i \in 1..Len(jobs)
    PROVE  /\ jobs[i] \in Job
           /\ jobs[i].no \in 1..MaxJob /\ jobs[i].kind \in {"statement", "receipt", "retry"} /\ jobs[i].key \in Number
           /\ jobs[i].mark \in BOOLEAN /\ jobs[i].dialog \in 0..MaxOpen /\ jobs[i].keeps \in BOOLEAN
           /\ jobs[i].phase \in Phase /\ jobs[i].known \in BOOLEAN
<1>1. jobs[i] \in Job
  BY DEF JobsShape
<1> QED BY <1>1 DEF Job

(* InPhase changes one phase. *)
LEMMA PhaseChanges ==
    ASSUME JobsShape, NEW i \in 1..Len(jobs), NEW phase \in Phase, InPhase(i, phase)
    PROVE  /\ JobsShape' /\ Len(jobs') = Len(jobs)
           /\ \A k \in 1..Len(jobs) :
                /\ jobs'[k].no = jobs[k].no /\ jobs'[k].kind = jobs[k].kind /\ jobs'[k].key = jobs[k].key
                /\ jobs'[k].mark = jobs[k].mark /\ jobs'[k].dialog = jobs[k].dialog /\ jobs'[k].keeps = jobs[k].keeps
                /\ jobs'[k].known = jobs[k].known
                /\ jobs'[k].phase = IF k = i THEN phase ELSE jobs[k].phase
<1>1. jobs' = [jobs EXCEPT ![i] = [jobs[i] EXCEPT !.phase = phase]]
  BY DEF InPhase
<1>2. [jobs[i] EXCEPT !.phase = phase] \in Job
  BY JobFields DEF Job
<1>3. jobs' \in Seq(Job) /\ Len(jobs') = Len(jobs)
  BY <1>1, <1>2 DEF JobsShape
<1>4. \A k \in 1..Len(jobs) : jobs'[k] = IF k = i THEN [jobs[i] EXCEPT !.phase = phase] ELSE jobs[k]
  BY <1>1 DEF JobsShape
<1> QED BY <1>3, <1>4, JobFields DEF JobsShape, Job

LEMMA PartOfSeq ==
    ASSUME NEW V, NEW s \in Seq(V), NEW a \in 1..Len(s) + 1, NEW b \in a - 1..Len(s)
    PROVE  /\ SubSeq(s, a, b) \in Seq(V) /\ Len(SubSeq(s, a, b)) = b - a + 1
           /\ \A k \in 1..b - a + 1 : SubSeq(s, a, b)[k] = s[a + k - 1]
<1>1. Len(s) \in Nat /\ a \in Nat /\ b \in Int
  OBVIOUS
<1>2. SubSeq(s, a, b) = [k \in 1..b - a + 1 |-> s[a + k - 1]]
  BY <1>1
<1>3. \A k \in 1..b - a + 1 : a + k - 1 \in 1..Len(s)
  BY <1>1
<1>4. SubSeq(s, a, b) \in [1..b - a + 1 -> V] /\ b - a + 1 \in Nat
  BY <1>1, <1>2, <1>3
<1>5. \A n \in Nat : \A t \in [1..n -> V] : t \in Seq(V) /\ Len(t) = n
  OBVIOUS
<1>6. SubSeq(s, a, b) \in Seq(V) /\ Len(SubSeq(s, a, b)) = b - a + 1
  BY <1>4, <1>5
<1> QED BY <1>2, <1>6

(* The first job leaves, the others move up. *)
LEMMA FirstLeaves ==
    ASSUME JobsShape, 1 \in 1..Len(jobs)
    PROVE  /\ Without(1) \in Seq(Job) /\ Len(Without(1)) = Len(jobs) - 1
           /\ \A k \in 1..Len(jobs) - 1 : Without(1)[k] = jobs[k + 1]
<1>1. SubSeq(jobs, 1, 0) \in Seq(Job) /\ Len(SubSeq(jobs, 1, 0)) = 0
  BY DEF JobsShape
<1>2. SubSeq(jobs, 2, Len(jobs)) \in Seq(Job) /\ Len(SubSeq(jobs, 2, Len(jobs))) = Len(jobs) - 1
      /\ \A k \in 1..Len(jobs) - 1 : SubSeq(jobs, 2, Len(jobs))[k] = jobs[k + 1]
  <2>1. jobs \in Seq(Job) /\ Len(jobs) \in Nat /\ 2 \in 1..Len(jobs) + 1 /\ Len(jobs) \in 2 - 1..Len(jobs)
    BY DEF JobsShape
  <2>2. /\ SubSeq(jobs, 2, Len(jobs)) \in Seq(Job) /\ Len(SubSeq(jobs, 2, Len(jobs))) = Len(jobs) - 2 + 1
        /\ \A k \in 1..Len(jobs) - 2 + 1 : SubSeq(jobs, 2, Len(jobs))[k] = jobs[2 + k - 1]
    BY <2>1, PartOfSeq
  <2>3. \A k \in Int : 2 + k - 1 = k + 1
    OBVIOUS
  <2>4. Len(jobs) - 2 + 1 = Len(jobs) - 1
    BY <2>1
  <2> QED BY <2>2, <2>3, <2>4
<1> QED BY <1>1, <1>2 DEF Without

LEMMA JobJoins ==
    ASSUME JobsShape, NEW job \in Job
    PROVE  /\ Append(jobs, job) \in Seq(Job) /\ Len(Append(jobs, job)) = Len(jobs) + 1
           /\ \A k \in 1..Len(jobs) : Append(jobs, job)[k] = jobs[k]
           /\ Append(jobs, job)[Len(jobs) + 1] = job
BY DEF JobsShape

(* Discarding a dialog only takes away what its jobs keep.                  *)
LEMMA DiscardKeepsRest ==
    ASSUME JobsShape, NEW dialog
    PROVE  /\ Discard(jobs, dialog) \in Seq(Job) /\ Len(Discard(jobs, dialog)) = Len(jobs)
           /\ \A k \in 1..Len(jobs) :
                Discard(jobs, dialog)[k] = IF jobs[k].dialog = dialog THEN [jobs[k] EXCEPT !.keeps = FALSE] ELSE jobs[k]
<1>1. \A k \in 1..Len(jobs) : [jobs[k] EXCEPT !.keeps = FALSE] \in Job /\ jobs[k] \in Job
  BY JobFields DEF Job
<1>2. Discard(jobs, dialog) \in [1..Len(jobs) -> Job]
  BY <1>1 DEF Discard
<1>3. Len(jobs) \in Nat
  BY DEF JobsShape
<1>4. Discard(jobs, dialog) \in Seq(Job) /\ Len(Discard(jobs, dialog)) = Len(jobs)
  BY <1>2, <1>3
<1> QED BY <1>4 DEF Discard

LEMMA NewJobs ==
    ASSUME PrintsShape, prints.jobs < MaxJob, NEW kind \in {"statement", "receipt", "retry"}, NEW key \in Number,
           NEW mark \in BOOLEAN, NEW dialog \in 0..MaxOpen, NEW known \in BOOLEAN
    PROVE  NewJob(kind, key, mark, dialog, known) \in Job
BY PrintAssumption DEF NewJob, Job, Phase, PrintsShape

-----------------------------------------------------------------------------
(* The list of receipts to print again. *)

KeysOf(list) == {list[n].key : n \in 1..Len(list)}

(* removePendingReceipt takes all entries of a receipt from the list.       *)
LEMMA OthersStay ==
    ASSUME NEW list \in Seq(Request), NEW key
    PROVE  /\ Others(list, key) \in Seq(Request) /\ Len(Others(list, key)) <= Len(list)
           /\ KeysOf(Others(list, key)) = KeysOf(list) \ {key}
<1> DEFINE places == {n \in 1..Len(list) : list[n].key # key}
<1>1. places \in SUBSET (1..Len(list))
  OBVIOUS
<1>2. Others(list, key) = AtPlaces(list, places)
  BY DEF Others
<1>3. /\ Others(list, key) \in Seq(Request)
      /\ Len(Others(list, key)) = Cardinality(places)
      /\ Cardinality(places) \in Nat /\ Cardinality(places) <= Len(list)
      /\ \A n \in 1..Cardinality(places) : Nth(places, n) \in places /\ Others(list, key)[n] = list[Nth(places, n)]
      /\ \A i \in places : \E n \in 1..Cardinality(places) : i = Nth(places, n)
  <2> HIDE DEF places
  <2> QED BY <1>1, <1>2, FilterKeeps
<1>4. KeysOf(Others(list, key)) \subseteq KeysOf(list) \ {key}
  BY <1>3 DEF KeysOf
<1>5. ASSUME NEW i \in 1..Len(list), list[i].key # key PROVE list[i].key \in KeysOf(Others(list, key))
  <2>1. i \in places
    BY <1>5
  <2> QED BY <1>3, <2>1 DEF KeysOf
<1>6. KeysOf(list) \ {key} \subseteq KeysOf(Others(list, key))
  BY <1>5 DEF KeysOf
<1> QED BY <1>3, <1>4, <1>6

(* upsertPendingReceipt puts the receipt first and keeps no stranger.       *)
LEMMA UpsertedIsFirst ==
    ASSUME KeptShape, NEW job, job.key \in Number, job.mark \in BOOLEAN, job.known \in BOOLEAN, job.known => job.mark
    PROVE  LET list == UpsertPending(kept, job)
           IN  /\ list \in Seq(Request) /\ Len(list) <= MaxKept
               /\ job.key \in KeysOf(list) /\ KeysOf(list) \subseteq KeysOf(kept.pending) \cup {job.key}
<1> DEFINE key == job.key
           item == [key |-> job.key, mark |-> job.mark, known |-> job.known]
           rest == Others(kept.pending, key)
           whole == <<item>> \o rest
           size == IF Len(whole) > MaxKept THEN MaxKept ELSE Len(whole)
<1>1. item \in Request /\ <<item>> \in Seq(Request) /\ Len(<<item>>) = 1 /\ <<item>>[1] = item
  BY DEF Request, Waiting
<1>2. rest \in Seq(Request) /\ KeysOf(rest) = KeysOf(kept.pending) \ {key}
  BY OthersStay DEF KeptShape
<1>3. /\ whole \in Seq(Request) /\ Len(whole) = 1 + Len(rest) /\ whole[1] = item
      /\ \A n \in 2..Len(whole) : whole[n] = rest[n - 1]
  <2> HIDE DEF item, rest
  <2> QED BY <1>1, <1>2
<1>4. size \in Nat /\ size > 0 /\ size <= MaxKept /\ size <= Len(whole)
  <2> HIDE DEF whole
  <2> QED BY <1>3, PrintAssumption
<1>5. /\ UpsertPending(kept, job) = SubSeq(whole, 1, size)
      /\ SubSeq(whole, 1, size) \in Seq(Request) /\ Len(SubSeq(whole, 1, size)) = size
      /\ \A n \in 1..size : SubSeq(whole, 1, size)[n] = whole[n]
  <2>1. UpsertPending(kept, job) = SubSeq(whole, 1, size)
    BY DEF UpsertPending
  <2> HIDE DEF whole, size
  <2> QED BY <2>1, <1>3, <1>4
<1>6. \A n \in 1..size : whole[n].key \in KeysOf(kept.pending) \cup {key}
  <2> SUFFICES ASSUME NEW n \in 1..size PROVE whole[n].key \in KeysOf(kept.pending) \cup {key}
    OBVIOUS
  <2>1. CASE n = 1
    BY <2>1, <1>3
  <2>2. CASE n # 1
    <3>1. n \in 2..Len(whole) /\ n - 1 \in 1..Len(rest)
      <4> HIDE DEF whole, size, rest
      <4> QED BY <2>2, <1>2, <1>3, <1>4
    <3> QED BY <3>1, <1>2, <1>3 DEF KeysOf
  <2> QED BY <2>1, <2>2
<1>7. key \in KeysOf(UpsertPending(kept, job))
  <2>1. 1 \in 1..size
    BY <1>4
  <2>2. UpsertPending(kept, job)[1].key = key /\ 1 \in 1..Len(UpsertPending(kept, job))
    BY <2>1, <1>3, <1>5
  <2> QED BY <2>2 DEF KeysOf
<1> HIDE DEF whole, size
<1> QED BY <1>4, <1>5, <1>6, <1>7 DEF KeysOf

-----------------------------------------------------------------------------
(* Steps that leave the dialog and the statement alone. *)

(* Every job of the next list is one of this list, at place f[k], or is no  *)
(* statement.                                                               *)
Carries(f) ==
    /\ f \in [1..Len(jobs') -> 0..Len(jobs)]
    /\ \A k \in 1..Len(jobs') :
         IF f[k] = 0 THEN jobs'[k].kind # "statement" /\ jobs'[k].dialog = 0
         ELSE /\ jobs'[k].kind = jobs[f[k]].kind /\ jobs'[k].key = jobs[f[k]].key
              /\ jobs'[k].keeps = jobs[f[k]].keeps /\ jobs'[k].dialog = jobs[f[k]].dialog
    /\ \A k, l \in 1..Len(jobs') : f[k] = f[l] /\ f[k] # 0 => k = l

Undisturbed ==
    /\ slip' = slip /\ till'.current = till.current /\ kept'.queue = kept.queue
    /\ prints'.left = prints.left /\ prints'.dialogs = prints.dialogs

LEMMA DialogUndisturbed ==
    ASSUME PrintShape, DialogInv, ~ prints.left => KeepInv, Undisturbed, NEW f, Carries(f)
    PROVE  DialogInv' /\ (~ prints.left => KeepInv)'
<1>1. DialogInv'
  <2>1. prints.dialogs \in Nat
    BY PrintAssumption DEF PrintShape, PrintsShape
  <2>2. ASSUME NEW k \in 1..Len(jobs') PROVE jobs'[k].dialog <= prints.dialogs
    <3>1. CASE f[k] = 0
      BY <2>1, <3>1 DEF Carries
    <3>2. CASE f[k] # 0
      BY <3>2 DEF Carries, DialogInv
    <3> QED BY <3>1, <3>2
  <2>3. ASSUME NEW k \in 1..Len(jobs'), jobs'[k].kind = "statement", ~ jobs'[k].keeps,
               NEW d \in till.current
        PROVE  d.id # jobs'[k].dialog
    <3>1. f[k] \in 1..Len(jobs) /\ f[k] # 0
      BY <2>3 DEF Carries
    <3> QED BY <2>3, <3>1 DEF Carries, DialogInv
  <2> QED BY <2>2, <2>3 DEF DialogInv, Undisturbed
<1>2. ASSUME ~ prints'.left PROVE KeepInv'
  <2>1. KeepInv
    BY <1>2 DEF Undisturbed
  <2>2. ASSUME NEW k \in 1..Len(jobs'), NEW l \in 1..Len(jobs'), Keeps(k)', Keeps(l)' PROVE k = l
    <3>1. f[k] \in 1..Len(jobs) /\ f[k] # 0 /\ f[l] \in 1..Len(jobs) /\ f[l] # 0
      BY <2>2 DEF Carries, Keeps
    <3>2. Keeps(f[k]) /\ Keeps(f[l])
      BY <2>2, <3>1 DEF Carries, Keeps
    <3> QED BY <2>1, <3>1, <3>2 DEF KeepInv, Carries
  <2>3. ASSUME NEW k \in 1..Len(jobs'), Keeps(k)'
        PROVE  \E d \in till.current : d.id = jobs'[k].dialog /\ d.task /\ d.statement = jobs'[k].key
    <3>1. f[k] \in 1..Len(jobs) /\ f[k] # 0
      BY <2>3 DEF Carries, Keeps
    <3>2. Keeps(f[k]) /\ jobs'[k].dialog = jobs[f[k]].dialog /\ jobs'[k].key = jobs[f[k]].key
      BY <2>3, <3>1 DEF Carries, Keeps
    <3> QED BY <2>1, <3>1, <3>2 DEF KeepInv
  <2> QED BY <2>1, <2>2, <2>3 DEF KeepInv, KeptStatementIsIssued, Undisturbed
<1> QED BY <1>1, <1>2

(* The three ways: a phase changes, the first job leaves, a receipt joins.  *)
LEMMA PhaseCarries ==
    ASSUME JobsShape, NEW i \in 1..Len(jobs), NEW phase \in Phase, InPhase(i, phase)
    PROVE  \E f : Carries(f)
<1> DEFINE f == [k \in 1..Len(jobs) |-> k]
<1>1. Carries(f)
  BY PhaseChanges DEF Carries
<1> QED BY <1>1

LEMMA LeaveCarries ==
    ASSUME JobsShape, 1 \in 1..Len(jobs), jobs' = Without(1)
    PROVE  \E f : Carries(f)
<1> DEFINE f == [k \in 1..Len(jobs') |-> k + 1]
<1>1. Len(jobs) \in Nat
  BY DEF JobsShape
<1>2. Len(jobs') = Len(jobs) - 1 /\ \A k \in 1..Len(jobs') : jobs'[k] = jobs[k + 1]
  BY FirstLeaves
<1>3. Carries(f)
  BY <1>1, <1>2 DEF Carries
<1> QED BY <1>3

LEMMA JoinCarries ==
    ASSUME JobsShape, NEW job \in Job, job.kind # "statement", job.dialog = 0, jobs' = Append(jobs, job)
    PROVE  \E f : Carries(f)
<1> DEFINE f == [k \in 1..Len(jobs') |-> IF k = Len(jobs) + 1 THEN 0 ELSE k]
<1>1. Len(jobs) \in Nat
  BY DEF JobsShape
<1>2. Len(jobs') = Len(jobs) + 1 /\ jobs'[Len(jobs) + 1] = job /\ \A k \in 1..Len(jobs) : jobs'[k] = jobs[k]
  BY JobJoins
<1>3. Carries(f)
  BY <1>1, <1>2 DEF Carries
<1> QED BY <1>3

LEMMA SameCarries ==
    ASSUME JobsShape, jobs' = jobs
    PROVE  \E f : Carries(f)
<1> DEFINE f == [k \in 1..Len(jobs) |-> k]
<1>1. Len(jobs) \in Nat
  BY DEF JobsShape
<1>2. Carries(f)
  BY <1>1 DEF Carries
<1> QED BY <1>2

(* Nobody but the first job begins, and every job that copies says so.      *)
Marked == \A i \in 1..Len(jobs) : jobs[i].known => jobs[i].mark

LEMMA PhaseKeepsOrder ==
    ASSUME JobsShape, FirstOnly, Marked, 1 \in 1..Len(jobs), NEW phase \in Phase, InPhase(1, phase)
    PROVE  FirstOnly' /\ Marked'
BY PhaseChanges DEF FirstOnly, Marked

LEMMA LeaveKeepsOrder ==
    ASSUME JobsShape, FirstOnly, Marked, 1 \in 1..Len(jobs), jobs' = Without(1)
    PROVE  JobsShape' /\ FirstOnly' /\ Marked'
<1>1. Len(jobs) \in Nat
  BY DEF JobsShape
<1>2. jobs' \in Seq(Job) /\ Len(jobs') = Len(jobs) - 1 /\ \A k \in 1..Len(jobs') : jobs'[k] = jobs[k + 1]
  BY FirstLeaves
<1> QED BY <1>1, <1>2 DEF FirstOnly, Marked, JobsShape

LEMMA JoinKeepsOrder ==
    ASSUME JobsShape, FirstOnly, Marked, NEW job \in Job, job.phase = "waiting", job.known => job.mark,
           jobs' = Append(jobs, job)
    PROVE  JobsShape' /\ FirstOnly' /\ Marked'
<1>1. Len(jobs) \in Nat
  BY DEF JobsShape
<1>2. /\ jobs' \in Seq(Job) /\ Len(jobs') = Len(jobs) + 1 /\ jobs'[Len(jobs) + 1] = job
      /\ \A k \in 1..Len(jobs) : jobs'[k] = jobs[k]
  BY JobJoins
<1>3. \A k \in 1..Len(jobs') : k \in 1..Len(jobs) \/ k = Len(jobs) + 1
  BY <1>1, <1>2
<1> QED BY <1>1, <1>2, <1>3 DEF FirstOnly, Marked, JobsShape

(* The first job is the one that works. *)
LEMMA FirstWorks ==
    ASSUME PrintInv, NEW i \in 1..Len(jobs), JobWorks(i)
    PROVE  i = 1
BY DEF PrintInv, FirstOnly, JobWorks, Start, MayBegin, SendSections, DoPrint, Stop, StopBroken

-----------------------------------------------------------------------------
(* The jobs. *)

(* What a job that fails does to the receipts. *)
LEMMA ReceiptFailsTold ==
    ASSUME PrintShape, FailedIsKept, NEW job, job.key \in Number, job.mark \in BOOLEAN, job.known \in BOOLEAN,
           job.known => job.mark,
           kept'.pending = UpsertPending(kept, job),
           prints'.told = Dropped(Report(job.key, "failed"), UpsertPending(kept, job))
    PROVE  FailedIsKept' /\ prints'.told \in [Number -> Fate]
<1> DEFINE key == job.key
           list == UpsertPending(kept, job)
<1>1. /\ list \in Seq(Request)
      /\ key \in KeysOf(list) /\ KeysOf(list) \subseteq KeysOf(kept.pending) \cup {key}
  BY UpsertedIsFirst DEF PrintShape
<1>2. KeysOf(list) \subseteq Number
  <2>1. \A n \in 1..Len(list) : list[n] \in Request
    <3> HIDE DEF list
    <3> QED BY <1>1
  <2> QED BY <2>1 DEF KeysOf, Request, Waiting
<1>3. prints.told \in [Number -> Fate]
  BY DEF PrintShape, PrintsShape
<1>4. Report(key, "failed") \in [Number -> Fate] /\ Report(key, "failed")[key] = "failed"
      /\ \A k \in Number : k # key => Report(key, "failed")[k] = prints.told[k]
  BY <1>3 DEF Report, Fate
<1>5. \A k \in Number : (\A m \in 1..Len(list) : list[m].key # k) <=> k \notin KeysOf(list)
  BY DEF KeysOf
<1>6. \A k \in Number : (\E n \in 1..Len(kept.pending) : kept.pending[n].key = k) <=> k \in KeysOf(kept.pending)
  BY DEF KeysOf
<1>7. prints'.told = [k \in Number |-> IF k \in KeysOf(kept.pending) /\ k \notin KeysOf(list)
                                      THEN "dropped" ELSE Report(key, "failed")[k]]
  <2> HIDE DEF list
  <2>1. prints'.told = Dropped(Report(key, "failed"), list)
    BY DEF list
  <2> QED BY <2>1, <1>5, <1>6 DEF Dropped
<1>8. KeysOf(kept.pending) = FailedKeys
  BY DEF FailedIsKept, PendingKeys, KeysOf
<1>9. \A k \in Number : prints'.told[k] = "failed" <=> k \in KeysOf(list)
  <2> HIDE DEF list
  <2> SUFFICES ASSUME NEW k \in Number PROVE prints'.told[k] = "failed" <=> k \in KeysOf(list)
    OBVIOUS
  <2>1. CASE k = key
    BY <2>1, <1>1, <1>4, <1>7
  <2>2. CASE k # key
    <3>1. prints.told[k] = "failed" <=> k \in KeysOf(kept.pending)
      BY <1>8 DEF FailedKeys
    <3>2. k \in KeysOf(list) => k \in KeysOf(kept.pending)
      BY <1>1, <2>2
    <3> QED BY <2>2, <3>1, <3>2, <1>4, <1>7
  <2> QED BY <2>1, <2>2
<1>10. FailedKeys' = KeysOf(list)
  BY <1>2, <1>9 DEF FailedKeys
<1>11. PendingKeys' = KeysOf(list)
  BY DEF PendingKeys, KeysOf
<1>12. prints'.told \in [Number -> Fate]
  BY <1>4, <1>7 DEF Fate
<1> QED BY <1>10, <1>11, <1>12 DEF FailedIsKept

(* A receipt is taken from the list, and told another end. *)
LEMMA ReceiptLeavesTold ==
    ASSUME PrintShape, FailedIsKept, NEW key \in Number, NEW what \in Fate \ {"failed"},
           kept'.pending = RemovePending(kept, key), prints'.told = Report(key, what)
    PROVE  /\ FailedIsKept' /\ prints'.told \in [Number -> Fate]
           /\ RemovePending(kept, key) \in Seq(Request) /\ Len(RemovePending(kept, key)) <= MaxKept
<1>1. kept.pending \in Seq(Request) /\ Len(kept.pending) <= MaxKept /\ Len(kept.pending) \in Nat
  BY DEF PrintShape, KeptShape
<1>2. /\ RemovePending(kept, key) \in Seq(Request) /\ Len(RemovePending(kept, key)) <= Len(kept.pending)
      /\ KeysOf(RemovePending(kept, key)) = KeysOf(kept.pending) \ {key}
  BY <1>1, OthersStay DEF RemovePending
<1>3. prints.told \in [Number -> Fate]
  BY DEF PrintShape, PrintsShape
<1>4. prints'.told \in [Number -> Fate] /\ prints'.told[key] = what
      /\ \A k \in Number : k # key => prints'.told[k] = prints.told[k]
  BY <1>3 DEF Report
<1>5. KeysOf(kept.pending) = FailedKeys /\ PendingKeys' = KeysOf(RemovePending(kept, key))
  BY DEF FailedIsKept, PendingKeys, KeysOf
<1>6. FailedKeys' = FailedKeys \ {key}
  BY <1>4 DEF FailedKeys, Fate
<1>7. Len(RemovePending(kept, key)) <= MaxKept
  BY <1>1, <1>2, PrintAssumption
<1> QED BY <1>2, <1>4, <1>5, <1>6, <1>7 DEF FailedIsKept

(* The end of a statement that is kept, or no longer. *)
LEMMA StatementLeaves ==
    ASSUME PrintInv, 1 \in 1..Len(jobs), jobs[1].kind = "statement", NEW state \in State,
           jobs' = Without(1), StatementEnds(1, state), UNCHANGED slip
    PROVE  PrintInv'
<1> DEFINE job == jobs[1]
           Ended(d) == IF d.id = job.dialog THEN [d EXCEPT !.state = state, !.task = FALSE] ELSE d
<1>1. PrintShape /\ FirstOnly /\ FailedIsKept /\ MarkInv /\ DialogInv /\ (~ prints.left => KeepInv)
  BY DEF PrintInv
<1>2. /\ prints' = prints /\ slip' = slip
      /\ kept' = IF job.keeps THEN [kept EXCEPT !.queue = {[statement |-> job.key, state |-> state]}] ELSE kept
      /\ till' = [till EXCEPT !.current = {Ended(d) : d \in till.current}]
  BY DEF StatementEnds
<1>3. kept'.pending = kept.pending /\ kept'.printed = kept.printed
      /\ kept'.queue = (IF job.keeps THEN {[statement |-> job.key, state |-> state]} ELSE kept.queue)
      /\ till'.current = {Ended(d) : d \in till.current}
  BY <1>1, <1>2 DEF PrintShape, KeptShape, TillShape
<1>4. slip' = slip /\ prints' = prints
  BY <1>2
<1>5. Len(jobs) \in Nat /\ JobsShape' /\ FirstOnly' /\ Marked' /\ jobs[1] \in Job
      /\ Len(jobs') = Len(jobs) - 1 /\ \A k \in 1..Len(jobs') : jobs'[k] = jobs[k + 1]
  BY <1>1, LeaveKeepsOrder, FirstLeaves, JobFields DEF PrintShape, MarkInv, Marked, JobsShape
<1>6. \A d \in till.current : d \in Dialog /\ Ended(d) \in Dialog /\ Ended(d).id = d.id /\ Ended(d).statement = d.statement
                              /\ (d.id # job.dialog => Ended(d) = d)
  <2>1. \A d \in till.current : d \in Dialog
    BY <1>1 DEF PrintShape, TillShape
  <2> QED BY <2>1 DEF Dialog
<1>7. PrintShape'
  <2>1. TillShape'
    BY <1>1, <1>2, <1>6 DEF PrintShape, TillShape
  <2>2. job.key \in Number
    BY <1>1, JobFields DEF PrintShape
  <2>3. KeptShape'
    <3>1. {[statement |-> job.key, state |-> state]} \in SUBSET [statement : Number, state : State]
      BY <2>2
    <3>2. KeptShape
      BY <1>1 DEF PrintShape
    <3> HIDE DEF job
    <3>3. [kept EXCEPT !.queue = {[statement |-> job.key, state |-> state]}] \in
            [queue : SUBSET [statement : Number, state : State], pending : Seq(Request), printed : SUBSET Number]
      BY <3>1, <3>2 DEF KeptShape
    <3>4. kept' \in [queue : SUBSET [statement : Number, state : State], pending : Seq(Request), printed : SUBSET Number]
      BY <3>2, <3>3, <1>2 DEF KeptShape
    <3> QED BY <3>2, <3>4, <1>3 DEF KeptShape
  <2>4. SlipShape' /\ PrintsShape'
    BY <1>1, <1>2 DEF PrintShape, SlipShape, PrintsShape
  <2> QED BY <1>5, <2>1, <2>3, <2>4 DEF PrintShape
<1>8. FailedIsKept'
  <2>1. kept'.pending = kept.pending
    BY <1>3
  <2> QED BY <2>1, <1>1, <1>4 DEF FailedIsKept, PendingKeys, FailedKeys
<1>9. MarkInv'
  BY <1>1, <1>2, <1>3, <1>5 DEF MarkInv, Marked, LaterCopyMarked
<1>10. DialogInv'
  <2>1. \A d, e \in till'.current : d = e
    BY <1>1, <1>3 DEF DialogInv
  <2>2. \A d \in till'.current : \E e \in till.current : d.id = e.id
    BY <1>3, <1>6
  <2>3. \A d \in till'.current : d.id <= prints'.dialogs /\ slip'.status = "checkout_ready"
    BY <2>2, <1>1, <1>4 DEF DialogInv
  <2>4. \A i \in 1..Len(jobs') : i + 1 \in 1..Len(jobs) /\ jobs'[i] = jobs[i + 1]
    BY <1>5
  <2>5. \A i \in 1..Len(jobs') : jobs'[i].dialog <= prints'.dialogs
    BY <2>4, <1>1, <1>2 DEF DialogInv
  <2>6. \A i \in 1..Len(jobs') : jobs'[i].kind = "statement" /\ ~ jobs'[i].keeps =>
          \A d \in till'.current : d.id # jobs'[i].dialog
    BY <2>2, <2>4, <1>1 DEF DialogInv
  <2> QED BY <2>1, <2>3, <2>5, <2>6 DEF DialogInv
<1>11. ASSUME ~ prints'.left PROVE KeepInv'
  <2>1. KeepInv
    BY <1>1, <1>2, <1>11
  <2>2. \A i \in 1..Len(jobs') : i + 1 \in 1..Len(jobs) /\ jobs'[i] = jobs[i + 1] /\ i + 1 # 1
    BY <1>5
  <2>3. \A d \in till'.current : \E e \in till.current : d.statement = e.statement
    BY <1>3, <1>6
  <2>4. \A d \in till'.current : d.statement = slip'.statement
    BY <2>1, <2>3, <1>4 DEF KeepInv
  <2>5. KeptStatementIsIssued'
    <3>1. CASE job.keeps
      <4>1. Keeps(1)
        BY <3>1 DEF Keeps
      <4>2. slip.status = "checkout_ready" /\ job.key = slip.statement
        BY <2>1, <4>1, <1>1 DEF KeepInv, DialogInv
      <4>3. kept'.queue = {[statement |-> job.key, state |-> state]}
        BY <3>1, <1>3
      <4> QED BY <4>2, <4>3, <1>4 DEF KeptStatementIsIssued
    <3>2. CASE ~ job.keeps
      BY <3>2, <1>4, <1>3, <2>1 DEF KeepInv, KeptStatementIsIssued
    <3> QED BY <3>1, <3>2
  <2>6. ASSUME NEW i \in 1..Len(jobs'), NEW j \in 1..Len(jobs'), Keeps(i)', Keeps(j)' PROVE i = j
    <3>1. Keeps(i + 1) /\ Keeps(j + 1)
      BY <2>2, <2>6 DEF Keeps
    <3>2. i + 1 = j + 1
      BY <2>1, <2>2, <3>1 DEF KeepInv
    <3> QED BY <3>2, <1>5
  <2>7. ASSUME NEW i \in 1..Len(jobs'), Keeps(i)'
        PROVE  \E d \in till'.current : d.id = jobs'[i].dialog /\ d.task /\ d.statement = jobs'[i].key
    <3>1. Keeps(i + 1)
      BY <2>2, <2>7 DEF Keeps
    <3>2. PICK d \in till.current : d.id = jobs[i + 1].dialog /\ d.task /\ d.statement = jobs[i + 1].key
      BY <2>1, <2>2, <3>1 DEF KeepInv
    <3>3. d.id # job.dialog
      <4>1. CASE job.keeps
        <5>1. Keeps(1)
          BY <4>1 DEF Keeps
        <5> QED BY <5>1, <3>1, <2>1, <2>2 DEF KeepInv
      <4>2. CASE ~ job.keeps
        BY <4>2, <1>1 DEF DialogInv
      <4> QED BY <4>1, <4>2
    <3>4. d \in till'.current
      BY <3>3, <1>3, <1>6
    <3> QED BY <3>2, <3>4, <2>2
  <2> QED BY <2>4, <2>5, <2>6, <2>7 DEF KeepInv
<1> QED BY <1>5, <1>7, <1>8, <1>9, <1>10, <1>11 DEF PrintInv

(* What the parts of the shape come to when one field changes.              *)
LEMMA KeptFields ==
    ASSUME KeptShape, NEW q \in SUBSET [statement : Number, state : State], NEW l \in Seq(Request), NEW r \in SUBSET Number
    PROVE  /\ [kept EXCEPT !.queue = q].queue = q /\ [kept EXCEPT !.queue = q].pending = kept.pending
           /\ [kept EXCEPT !.queue = q].printed = kept.printed
           /\ [kept EXCEPT !.pending = l].queue = kept.queue /\ [kept EXCEPT !.pending = l].pending = l
           /\ [kept EXCEPT !.pending = l].printed = kept.printed
           /\ [kept EXCEPT !.printed = r, !.pending = l].queue = kept.queue
           /\ [kept EXCEPT !.printed = r, !.pending = l].pending = l
           /\ [kept EXCEPT !.printed = r, !.pending = l].printed = r
           /\ kept' \in {kept, [kept EXCEPT !.queue = q]} => KeptShape'
           /\ Len(l) <= MaxKept /\ kept' \in {[kept EXCEPT !.pending = l], [kept EXCEPT !.printed = r, !.pending = l]} => KeptShape'
BY DEF KeptShape

LEMMA TillFields ==
    ASSUME TillShape, NEW c \in SUBSET Dialog, NEW b \in 0..MaxJob, NEW o \in SUBSET Number
    PROVE  /\ [till EXCEPT !.current = c].current = c
           /\ [till EXCEPT !.busy = b].current = till.current
           /\ [till EXCEPT !.off = o].current = till.current
           /\ till' \in {till, [till EXCEPT !.current = c], [till EXCEPT !.busy = b], [till EXCEPT !.off = o]} => TillShape'
BY DEF TillShape

LEMMA PageGoesOn ==
    ASSUME TillShape, PrintAssumption, NEW job, till' \in {Drawn(till), Ends(till, job), Drawn(Ends(till, job))}
    PROVE  TillShape' /\ till'.current = till.current
BY DEF TillShape, Drawn, Ends, PrintAssumption

(* The receipt of the first job fails. *)
LEMMA ReceiptFails ==
    ASSUME PrintInv, 1 \in 1..Len(jobs), jobs[1].kind # "statement", Fails(1)
    PROVE  PrintInv'
<1> DEFINE job == jobs[1]
           list == UpsertPending(kept, job)
<1>1. PrintShape /\ FirstOnly /\ FailedIsKept /\ MarkInv /\ DialogInv /\ (~ prints.left => KeepInv) /\ Marked
  BY DEF PrintInv, MarkInv, Marked
<1>2. SlipShape /\ KeptShape /\ TillShape /\ JobsShape /\ PrintsShape
  BY <1>1 DEF PrintShape
<1>3. /\ jobs' = Without(1) /\ slip' = slip
      /\ kept' = [kept EXCEPT !.pending = list] /\ till' = Drawn(Ends(till, job))
      /\ prints' = [prints EXCEPT !.told = Dropped(Report(job.key, "failed"), list)]
  BY DEF Fails
<1>4. job.key \in Number /\ job.mark \in BOOLEAN /\ job.known \in BOOLEAN /\ (job.known => job.mark)
  BY <1>1, <1>2, JobFields DEF Marked
<1>5. list \in Seq(Request) /\ Len(list) <= MaxKept
  BY <1>2, <1>4, UpsertedIsFirst
<1> HIDE DEF list
<1>6. KeptShape' /\ kept'.queue = kept.queue /\ kept'.pending = list /\ kept'.printed = kept.printed
  BY <1>2, <1>3, <1>5, KeptFields
<1>7. TillShape' /\ till'.current = till.current
  BY <1>2, <1>3, PageGoesOn, PrintAssumption
<1>8. /\ prints'.told = Dropped(Report(job.key, "failed"), list) /\ prints'.left = prints.left
      /\ prints'.dialogs = prints.dialogs /\ prints'.reported = prints.reported /\ prints'.papers = prints.papers
  BY <1>2, <1>3 DEF PrintsShape
<1>9. FailedIsKept' /\ prints'.told \in [Number -> Fate]
  <2>1. kept'.pending = UpsertPending(kept, job)
        /\ prints'.told = Dropped(Report(job.key, "failed"), UpsertPending(kept, job))
    BY <1>6, <1>8 DEF list
  <2> QED BY <2>1, <1>1, <1>4, ReceiptFailsTold
<1>10. PrintsShape'
  BY <1>2, <1>3, <1>8, <1>9 DEF PrintsShape
<1>11. JobsShape' /\ FirstOnly' /\ Marked'
  BY <1>1, <1>2, <1>3, LeaveKeepsOrder
<1>12. SlipShape'
  BY <1>2, <1>3 DEF SlipShape
<1>13. MarkInv'
  BY <1>1, <1>6, <1>8, <1>11 DEF MarkInv, Marked, LaterCopyMarked
<1>14. Undisturbed
  BY <1>3, <1>6, <1>7, <1>8 DEF Undisturbed
<1>15. \E f : Carries(f)
  BY <1>2, <1>3, LeaveCarries
<1>16. DialogInv' /\ (~ prints.left => KeepInv)'
  BY <1>1, <1>14, <1>15, DialogUndisturbed
<1> QED BY <1>6, <1>7, <1>9, <1>10, <1>11, <1>12, <1>13, <1>16 DEF PrintInv, PrintShape

LEMMA FailsKeepsInv ==
    ASSUME PrintInv, 1 \in 1..Len(jobs), Fails(1)
    PROVE  PrintInv'
<1>1. CASE jobs[1].kind = "statement"
  BY <1>1, StatementLeaves DEF Fails, State
<1>2. CASE jobs[1].kind # "statement"
  BY <1>2, ReceiptFails
<1> QED BY <1>1, <1>2

(* A phase changes, and perhaps a paper comes out. *)
LEMMA PhaseKeepsInv ==
    ASSUME PrintInv, 1 \in 1..Len(jobs), NEW phase \in Phase, InPhase(1, phase), slip' = slip,
           TillShape', KeptShape', PrintsShape', FailedIsKept',
           till'.current = till.current, kept'.queue = kept.queue,
           prints'.left = prints.left, prints'.dialogs = prints.dialogs,
           prints'.reported \subseteq kept'.printed,
           LaterCopyMarked'
    PROVE  PrintInv'
<1>1. PrintShape /\ FirstOnly /\ FailedIsKept /\ MarkInv /\ DialogInv /\ (~ prints.left => KeepInv) /\ Marked
  BY DEF PrintInv, MarkInv, Marked
<1>2. JobsShape /\ SlipShape
  BY <1>1 DEF PrintShape
<1>3. JobsShape' /\ FirstOnly' /\ Marked'
  BY <1>1, <1>2, PhaseChanges, PhaseKeepsOrder
<1>4. SlipShape'
  BY <1>2 DEF SlipShape
<1>5. \E f : Carries(f)
  BY <1>2, PhaseCarries
<1>6. Undisturbed
  BY DEF Undisturbed
<1>7. DialogInv' /\ (~ prints.left => KeepInv)'
  BY <1>1, <1>5, <1>6, DialogUndisturbed
<1>8. MarkInv'
  BY <1>3 DEF MarkInv, Marked
<1> QED BY <1>3, <1>4, <1>7, <1>8 DEF PrintInv, PrintShape

LEMMA QuietPhase ==
    ASSUME PrintInv, 1 \in 1..Len(jobs), NEW phase \in Phase, InPhase(1, phase), UNCHANGED <<slip, kept, till, prints>>
    PROVE  PrintInv'
<1>1. TillShape' /\ KeptShape' /\ PrintsShape' /\ FailedIsKept' /\ LaterCopyMarked' /\ prints'.reported \subseteq kept'.printed
  BY DEF PrintInv, PrintShape, TillShape, KeptShape, PrintsShape, FailedIsKept, PendingKeys, FailedKeys, MarkInv, LaterCopyMarked
<1> QED BY <1>1, PhaseKeepsInv

LEMMA StartKeepsInv ==
    ASSUME PrintInv, 1 \in 1..Len(jobs), Start(1)
    PROVE  PrintInv'
<1>1. CASE InPhase(1, "open") /\ UNCHANGED <<slip, kept, till, prints>>
  BY <1>1, QuietPhase DEF Phase
<1>2. CASE Fails(1)
  BY <1>2, FailsKeepsInv
<1> QED BY <1>1, <1>2 DEF Start

LEMMA SendKeepsInv ==
    ASSUME PrintInv, 1 \in 1..Len(jobs), SendSections(1)
    PROVE  PrintInv'
BY QuietPhase DEF SendSections, Phase

(* A paper is added to those that came out. *)
LEMMA PaperComesOut ==
    ASSUME PrintInv, 1 \in 1..Len(jobs), NEW ok \in BOOLEAN
    PROVE  LET papers == Append(prints.papers, Paper(jobs[1], ok))
           IN  /\ papers \in Seq(Sheet)
               /\ \A n \in 1..Len(papers) : papers[n].known => papers[n].mark
<1>1. jobs[1] \in Job /\ (jobs[1].known => jobs[1].mark) /\ prints.papers \in Seq(Sheet)
      /\ \A n \in 1..Len(prints.papers) : prints.papers[n].known => prints.papers[n].mark
  BY JobFields DEF PrintInv, PrintShape, PrintsShape, MarkInv, LaterCopyMarked
<1>2. Paper(jobs[1], ok) \in Sheet /\ (Paper(jobs[1], ok).known => Paper(jobs[1], ok).mark)
  BY <1>1 DEF Paper, Sheet, Job
<1>3. \A papers \in Seq(Sheet), p \in Sheet :
        /\ Append(papers, p) \in Seq(Sheet) /\ Len(Append(papers, p)) = Len(papers) + 1
        /\ \A n \in 1..Len(papers) + 1 : Append(papers, p)[n] = IF n = Len(papers) + 1 THEN p ELSE papers[n]
  OBVIOUS
<1>4. Len(prints.papers) \in Nat
  BY <1>1
<1>5. Append(prints.papers, Paper(jobs[1], ok)) \in Seq(Sheet)
      /\ Len(Append(prints.papers, Paper(jobs[1], ok))) = Len(prints.papers) + 1
      /\ \A n \in 1..Len(prints.papers) + 1 :
           Append(prints.papers, Paper(jobs[1], ok))[n] =
             IF n = Len(prints.papers) + 1 THEN Paper(jobs[1], ok) ELSE prints.papers[n]
  BY <1>1, <1>2, <1>3
<1> QED BY <1>1, <1>2, <1>4, <1>5

LEMMA DoPrintKeepsInv ==
    ASSUME PrintInv, 1 \in 1..Len(jobs), DoPrint(1)
    PROVE  PrintInv'
<1> DEFINE job == jobs[1]
           Papers(ok) == Append(prints.papers, Paper(job, ok))
<1>1. PrintShape /\ FailedIsKept /\ MarkInv
  BY DEF PrintInv
<1>2. KeptShape /\ TillShape /\ JobsShape /\ PrintsShape
  BY <1>1 DEF PrintShape
<1>3. slip' = slip
  BY DEF DoPrint
<1>4. \A ok \in BOOLEAN : Papers(ok) \in Seq(Sheet) /\ \A n \in 1..Len(Papers(ok)) : Papers(ok)[n].known => Papers(ok)[n].mark
  BY PaperComesOut
<1> HIDE DEF Papers
<1>5. ASSUME NEW ok \in BOOLEAN, NEW phase \in Phase, InPhase(1, phase), UNCHANGED <<kept, till>>,
             prints' = [prints EXCEPT !.papers = Papers(ok)]
      PROVE  PrintInv'
  <2>1. /\ PrintsShape' /\ prints'.left = prints.left /\ prints'.dialogs = prints.dialogs
        /\ prints'.told = prints.told /\ prints'.reported = prints.reported /\ prints'.papers = Papers(ok)
    BY <1>2, <1>4, <1>5 DEF PrintsShape
  <2>2. LaterCopyMarked'
    BY <2>1, <1>4 DEF LaterCopyMarked
  <2>3. FailedIsKept'
    BY <2>1, <1>1, <1>5 DEF FailedIsKept, PendingKeys, FailedKeys
  <2>4. KeptShape' /\ TillShape' /\ prints'.reported \subseteq kept'.printed
    BY <2>1, <1>1, <1>2, <1>5 DEF KeptShape, TillShape, MarkInv
  <2> QED BY <2>1, <2>2, <2>3, <2>4, <1>3, <1>5, PhaseKeepsInv
<1>6. CASE InPhase(1, "printed") /\ job.kind = "statement"
  <2>1. \/ UNCHANGED <<kept, till>> /\ prints' = [prints EXCEPT !.papers = Papers(TRUE)] /\ InPhase(1, "printed")
        \/ InPhase(1, "broken")
    BY <1>6 DEF DoPrint, Papers
  <2>2. CASE InPhase(1, "broken")
    <3>1. JobsShape' /\ jobs'[1].phase = "broken" /\ jobs'[1].phase = "printed"
      BY <2>2, <1>2, <1>6, PhaseChanges DEF Phase
    <3> QED BY <3>1
  <2> QED BY <2>1, <2>2, <1>5 DEF Phase
<1>7. CASE InPhase(1, "broken")
  <2>1. ~ InPhase(1, "printed")
    <3> SUFFICES ASSUME InPhase(1, "printed") PROVE FALSE
      OBVIOUS
    <3>1. jobs'[1].phase = "broken" /\ jobs'[1].phase = "printed"
      BY <1>2, <1>7, PhaseChanges DEF Phase
    <3> QED BY <3>1
  <2>2. UNCHANGED <<kept, till>> /\ (prints' = prints \/ prints' = [prints EXCEPT !.papers = Papers(FALSE)])
    BY <2>1 DEF DoPrint, Papers
  <2>3. CASE prints' = prints
    BY <2>2, <2>3, <1>3, <1>7, QuietPhase DEF Phase
  <2>4. CASE prints' = [prints EXCEPT !.papers = Papers(FALSE)]
    BY <2>2, <2>4, <1>5, <1>7 DEF Phase
  <2> QED BY <2>2, <2>3, <2>4
<1>8. CASE InPhase(1, "printed") /\ job.kind # "statement"
  <2>1. ~ InPhase(1, "broken")
    <3> SUFFICES ASSUME InPhase(1, "broken") PROVE FALSE
      OBVIOUS
    <3>1. jobs'[1].phase = "broken" /\ jobs'[1].phase = "printed"
      BY <1>2, <1>8, PhaseChanges DEF Phase
    <3> QED BY <3>1
  <2>2. /\ kept' = [kept EXCEPT !.printed = kept.printed \cup {job.key}, !.pending = RemovePending(kept, job.key)]
        /\ till' = Drawn(till)
        /\ prints' = [prints EXCEPT !.papers = Papers(TRUE), !.reported = prints.reported \cup {job.key},
                                    !.told = Report(job.key, "printed")]
    BY <2>1, <1>8 DEF DoPrint, Papers, MarkSuccessful
  <2>3. job.key \in Number
    BY <1>2, JobFields
  <2>4. kept'.pending = RemovePending(kept, job.key) /\ kept'.queue = kept.queue
        /\ kept'.printed = kept.printed \cup {job.key}
    BY <2>2, <1>2 DEF KeptShape
  <2>5. /\ prints'.left = prints.left /\ prints'.dialogs = prints.dialogs /\ prints'.papers = Papers(TRUE)
        /\ prints'.reported = prints.reported \cup {job.key} /\ prints'.told = Report(job.key, "printed")
    BY <2>2, <1>2 DEF PrintsShape
  <2>6. /\ FailedIsKept' /\ prints'.told \in [Number -> Fate]
        /\ RemovePending(kept, job.key) \in Seq(Request) /\ Len(RemovePending(kept, job.key)) <= MaxKept
    BY <2>3, <2>4, <2>5, <1>1, ReceiptLeavesTold DEF Fate
  <2>7. KeptShape'
    <3>1. kept.printed \cup {job.key} \in SUBSET Number
      BY <2>3, <1>2 DEF KeptShape
    <3> QED BY <2>2, <2>6, <3>1, <1>2, KeptFields
  <2>8. PrintsShape'
    BY <2>2, <2>3, <2>5, <2>6, <1>2, <1>4 DEF PrintsShape
  <2>9. TillShape' /\ till'.current = till.current
    BY <2>2, <1>2, PageGoesOn, PrintAssumption
  <2>10. LaterCopyMarked' /\ prints'.reported \subseteq kept'.printed
    BY <2>4, <2>5, <1>1, <1>4 DEF LaterCopyMarked, MarkInv
  <2> QED BY <2>4, <2>5, <2>6, <2>7, <2>8, <2>9, <2>10, <1>3, <1>8, PhaseKeepsInv DEF Phase
<1> QED BY <1>6, <1>7, <1>8 DEF DoPrint

LEMMA StopKeepsInv ==
    ASSUME PrintInv, 1 \in 1..Len(jobs), Stop(1)
    PROVE  PrintInv'
<1>1. CASE jobs[1].kind = "statement"
  BY <1>1, StatementLeaves DEF Stop, State
<1>2. CASE jobs[1].kind # "statement"
  <2>1. PrintShape /\ FirstOnly /\ FailedIsKept /\ MarkInv /\ DialogInv /\ (~ prints.left => KeepInv) /\ Marked
    BY DEF PrintInv, MarkInv, Marked
  <2>2. jobs' = Without(1) /\ slip' = slip /\ kept' = kept /\ prints' = prints /\ till' = Ends(till, jobs[1])
    BY <1>2 DEF Stop
  <2>3. SlipShape' /\ KeptShape' /\ PrintsShape'
    BY <2>1, <2>2 DEF PrintShape, SlipShape, KeptShape, PrintsShape
  <2>4. TillShape' /\ till'.current = till.current
    BY <2>1, <2>2, PageGoesOn, PrintAssumption DEF PrintShape
  <2>5. JobsShape' /\ FirstOnly' /\ Marked' /\ (\E f : Carries(f))
    BY <2>1, <2>2, LeaveKeepsOrder, LeaveCarries DEF PrintShape
  <2>6. FailedIsKept' /\ MarkInv'
    BY <2>1, <2>2, <2>5 DEF FailedIsKept, PendingKeys, FailedKeys, MarkInv, Marked, LaterCopyMarked
  <2>7. DialogInv' /\ (~ prints.left => KeepInv)'
    BY <2>1, <2>2, <2>4, <2>5, DialogUndisturbed DEF Undisturbed
  <2> QED BY <2>3, <2>4, <2>5, <2>6, <2>7 DEF PrintInv, PrintShape
<1> QED BY <1>1, <1>2

LEMMA JobKeepsInv ==
    ASSUME PrintInv, NEW i \in 1..Len(jobs), JobWorks(i)
    PROVE  PrintInv'
<1>1. i = 1
  BY FirstWorks
<1>2. CASE StopBroken(i)
  BY <1>1, <1>2, FailsKeepsInv DEF StopBroken
<1> QED BY <1>1, <1>2, StartKeepsInv, SendKeepsInv, DoPrintKeepsInv, StopKeepsInv DEF JobWorks

-----------------------------------------------------------------------------
(* The page. *)

LEMMA Parts ==
    ASSUME PrintInv
    PROVE  /\ SlipShape /\ KeptShape /\ TillShape /\ JobsShape /\ PrintsShape /\ PrintShape
           /\ FirstOnly /\ FailedIsKept /\ MarkInv /\ DialogInv /\ (~ prints.left => KeepInv) /\ Marked
           /\ prints.jobs \in Nat /\ prints.dialogs \in Nat /\ MaxJob \in Nat /\ MaxOpen \in Nat
BY PrintAssumption DEF PrintInv, PrintShape, PrintsShape, MarkInv, Marked

(* What the history comes to when only its counters move.                   *)
LEMMA CountersMove ==
    ASSUME PrintsShape, NEW j \in 0..MaxJob, NEW d \in 0..MaxOpen, NEW left \in BOOLEAN, NEW r \in 0..MaxTillReload,
           prints' \in {[prints EXCEPT !.jobs = j], [prints EXCEPT !.dialogs = d], [prints EXCEPT !.left = left],
                        [prints EXCEPT !.reloads = r], [prints EXCEPT !.jobs = j, !.dialogs = d]}
    PROVE  /\ PrintsShape' /\ prints'.told = prints.told /\ prints'.papers = prints.papers
           /\ prints'.reported = prints.reported
           /\ prints'.left = prints.left \/ prints'.left = left
           /\ prints'.dialogs = prints.dialogs \/ prints'.dialogs = d
<1>1. prints' = [prints EXCEPT !.jobs = j] => PrintsShape' /\ prints'.told = prints.told /\ prints'.papers = prints.papers
           /\ prints'.reported = prints.reported /\ prints'.left = prints.left /\ prints'.dialogs = prints.dialogs
  BY DEF PrintsShape
<1>2. prints' = [prints EXCEPT !.dialogs = d] => PrintsShape' /\ prints'.told = prints.told /\ prints'.papers = prints.papers
           /\ prints'.reported = prints.reported /\ prints'.left = prints.left /\ prints'.dialogs = d
  BY DEF PrintsShape
<1>3. prints' = [prints EXCEPT !.left = left] => PrintsShape' /\ prints'.told = prints.told /\ prints'.papers = prints.papers
           /\ prints'.reported = prints.reported /\ prints'.left = left /\ prints'.dialogs = prints.dialogs
  BY DEF PrintsShape
<1>4. prints' = [prints EXCEPT !.reloads = r] => PrintsShape' /\ prints'.told = prints.told /\ prints'.papers = prints.papers
           /\ prints'.reported = prints.reported /\ prints'.left = prints.left /\ prints'.dialogs = prints.dialogs
  BY DEF PrintsShape
<1>5. prints' = [prints EXCEPT !.jobs = j, !.dialogs = d] => PrintsShape' /\ prints'.told = prints.told
           /\ prints'.papers = prints.papers
           /\ prints'.reported = prints.reported /\ prints'.left = prints.left /\ prints'.dialogs = d
  BY DEF PrintsShape
<1> QED BY <1>1, <1>2, <1>3, <1>4, <1>5

(* What is told of the receipts stays when neither list nor history moves.  *)
LEMMA TellingStays ==
    ASSUME FailedIsKept, kept'.pending = kept.pending, prints'.told = prints.told
    PROVE  FailedIsKept'
BY DEF FailedIsKept, PendingKeys, FailedKeys

LEMMA MarksStay ==
    ASSUME MarkInv, Marked', prints'.reported = prints.reported, prints'.papers = prints.papers, kept'.printed = kept.printed
    PROVE  MarkInv'
BY DEF MarkInv, Marked, LaterCopyMarked

LEMMA QueueStays ==
    ASSUME JobsShape, FirstOnly, Marked, jobs' = jobs
    PROVE  JobsShape' /\ FirstOnly' /\ Marked'
BY DEF JobsShape, FirstOnly, Marked

(* A receipt joins the queue. *)
LEMMA ReceiptJoins ==
    ASSUME PrintInv, prints.jobs < MaxJob, NEW job \in Job, job.kind # "statement", job.dialog = 0,
           job.phase = "waiting", job.known => job.mark, jobs' = Append(jobs, job),
           UNCHANGED <<slip, kept>>, TillShape', till'.current = till.current,
           prints' = [prints EXCEPT !.jobs = @ + 1]
    PROVE  PrintInv'
<1>1. JobsShape' /\ FirstOnly' /\ Marked' /\ (\E f : Carries(f))
  BY Parts, JoinKeepsOrder, JoinCarries
<1>2. prints.jobs + 1 \in 0..MaxJob
  BY Parts
<1>3. /\ PrintsShape' /\ prints'.told = prints.told /\ prints'.papers = prints.papers
      /\ prints'.reported = prints.reported /\ prints'.left = prints.left /\ prints'.dialogs = prints.dialogs
  BY <1>2, Parts DEF PrintsShape
<1>4. SlipShape' /\ KeptShape'
  BY Parts DEF SlipShape, KeptShape
<1>5. FailedIsKept' /\ MarkInv'
  BY <1>1, <1>3, Parts, TellingStays, MarksStay
<1>6. DialogInv' /\ (~ prints.left => KeepInv)'
  BY <1>1, <1>3, Parts, DialogUndisturbed DEF Undisturbed
<1> QED BY <1>1, <1>3, <1>4, <1>5, <1>6 DEF PrintInv, PrintShape

LEMMA RetryKeepsInv ==
    ASSUME PrintInv, Retry
    PROVE  PrintInv'
<1>1. PICK n \in 1..Len(kept.pending) :
        /\ Enqueue(RetryJob(kept.pending[n]))
        /\ till' = [till EXCEPT !.off = @ \cup {kept.pending[n].key}]
        /\ prints' = [prints EXCEPT !.jobs = @ + 1]
        /\ UNCHANGED <<slip, kept>>
  BY DEF Retry
<1>2. /\ kept.pending[n].key \in Number /\ kept.pending[n].mark \in BOOLEAN /\ kept.pending[n].known \in BOOLEAN
      /\ kept.pending[n].known => kept.pending[n].mark
  <2>1. kept.pending[n] \in Request
    BY Parts DEF KeptShape
  <2> QED BY <2>1 DEF Request, Waiting
<1> DEFINE job == NewJob("retry", kept.pending[n].key, kept.pending[n].mark, 0, kept.pending[n].known)
<1>3. prints.jobs < MaxJob /\ jobs' = Append(jobs, job)
  BY <1>1 DEF Enqueue, RetryJob
<1>4. job \in Job
  <2>1. 0 \in 0..MaxOpen
    BY Parts
  <2> QED BY <1>2, <1>3, <2>1, Parts, NewJobs
<1>5. job.kind # "statement" /\ job.dialog = 0 /\ job.phase = "waiting" /\ (job.known => job.mark)
  BY <1>2 DEF NewJob
<1>6. TillShape' /\ till'.current = till.current
  BY <1>1, <1>2, Parts DEF TillShape
<1> QED BY <1>1, <1>3, <1>4, <1>5, <1>6, ReceiptJoins

LEMMA ReceiptJobs ==
    ASSUME PrintInv, prints.jobs < MaxJob, NEW key \in Number
    PROVE  /\ ReceiptJob(key) \in Job /\ ReceiptJob(key).kind # "statement" /\ ReceiptJob(key).dialog = 0
           /\ ReceiptJob(key).phase = "waiting" /\ (ReceiptJob(key).known => ReceiptJob(key).mark)
<1>1. 0 \in 0..MaxOpen
  BY Parts
<1>2. (key \in kept.printed) \in BOOLEAN /\ (key \in prints.reported) \in BOOLEAN
  OBVIOUS
<1>3. ReceiptJob(key) \in Job
  BY <1>1, <1>2, Parts, NewJobs DEF ReceiptJob
<1>4. key \in prints.reported => key \in kept.printed
  BY Parts DEF MarkInv
<1> QED BY <1>3, <1>4 DEF ReceiptJob, NewJob

LEMMA PrintReceiptKeepsInv ==
    ASSUME PrintInv, PrintReceipt
    PROVE  PrintInv'
<1>1. slip.statement \in Number
  BY Parts DEF PrintReceipt, SlipShape
<1>2. prints.jobs < MaxJob /\ jobs' = Append(jobs, ReceiptJob(slip.statement)) /\ UNCHANGED <<slip, kept>>
      /\ prints' = [prints EXCEPT !.jobs = @ + 1] /\ till' = [till EXCEPT !.busy = prints.jobs + 1]
  BY DEF PrintReceipt, Enqueue
<1>3. prints.jobs + 1 \in 0..MaxJob
  BY <1>2, Parts
<1>4. TillShape' /\ till'.current = till.current
  BY <1>2, <1>3, Parts DEF TillShape
<1> QED BY <1>1, <1>2, <1>4, ReceiptJobs, ReceiptJoins

(* Nothing but the list of receipts moves. *)
LEMMA ReceiptTakenOff ==
    ASSUME PrintInv, NEW key \in Number, NEW what \in Fate \ {"failed"}, NEW r \in SUBSET Number, NEW q \in SUBSET Number,
           q \subseteq r, UNCHANGED jobs,
           kept'.pending = RemovePending(kept, key), kept'.queue = kept.queue, kept'.printed = r,
           kept' \in {[kept EXCEPT !.pending = RemovePending(kept, key)],
                      [kept EXCEPT !.pending = RemovePending(kept, key), !.printed = r]},
           prints' \in {[prints EXCEPT !.told = Report(key, what)],
                        [prints EXCEPT !.told = Report(key, what), !.reported = q]},
           prints'.reported = q, till' = Drawn(till)
    PROVE  /\ KeptShape' /\ TillShape' /\ JobsShape' /\ PrintsShape' /\ FirstOnly' /\ FailedIsKept' /\ MarkInv'
           /\ till'.current = till.current /\ prints'.left = prints.left /\ prints'.dialogs = prints.dialogs
<1>1. prints'.told = Report(key, what) /\ prints'.left = prints.left /\ prints'.dialogs = prints.dialogs
      /\ prints'.papers = prints.papers
  BY Parts DEF PrintsShape
<1>2. /\ FailedIsKept' /\ prints'.told \in [Number -> Fate]
      /\ RemovePending(kept, key) \in Seq(Request) /\ Len(RemovePending(kept, key)) <= MaxKept
  BY <1>1, Parts, ReceiptLeavesTold
<1>3. KeptShape'
  BY <1>2, Parts DEF KeptShape
<1>4. PrintsShape'
  BY <1>1, <1>2, Parts DEF PrintsShape
<1>5. TillShape' /\ till'.current = till.current
  BY Parts, PageGoesOn, PrintAssumption
<1>6. JobsShape' /\ FirstOnly' /\ Marked'
  BY Parts, QueueStays
<1>7. MarkInv'
  BY <1>1, <1>6, Parts DEF MarkInv, Marked, LaterCopyMarked
<1> QED BY <1>1, <1>2, <1>3, <1>4, <1>5, <1>6, <1>7

LEMMA DismissKeepsInv ==
    ASSUME PrintInv, DismissReceipt
    PROVE  PrintInv'
<1>1. PICK n \in 1..Len(kept.pending) :
        /\ kept' = [kept EXCEPT !.pending = RemovePending(kept, kept.pending[n].key)]
        /\ till' = Drawn(till)
        /\ prints' = [prints EXCEPT !.told = Report(kept.pending[n].key, "dismissed")]
        /\ UNCHANGED <<slip, jobs>>
  BY DEF DismissReceipt
<1> DEFINE key == kept.pending[n].key
<1>2. key \in Number
  <2>1. kept.pending[n] \in Request
    BY Parts DEF KeptShape
  <2> QED BY <2>1 DEF Request, Waiting
<1> HIDE DEF key
<1>3. /\ kept' = [kept EXCEPT !.pending = RemovePending(kept, key)]
      /\ prints' = [prints EXCEPT !.told = Report(key, "dismissed")]
  BY <1>1 DEF key
<1>4. kept'.pending = RemovePending(kept, key) /\ kept'.queue = kept.queue /\ kept'.printed = kept.printed
  BY <1>3, Parts DEF KeptShape
<1>5. prints'.reported = prints.reported
  BY <1>3, Parts DEF PrintsShape
<1>6. kept.printed \in SUBSET Number /\ prints.reported \in SUBSET Number /\ prints.reported \subseteq kept.printed
      /\ "dismissed" \in Fate \ {"failed"}
  BY Parts DEF KeptShape, PrintsShape, MarkInv, Fate
<1>7. /\ KeptShape' /\ TillShape' /\ JobsShape' /\ PrintsShape' /\ FirstOnly' /\ FailedIsKept' /\ MarkInv'
      /\ till'.current = till.current /\ prints'.left = prints.left /\ prints'.dialogs = prints.dialogs
  BY <1>1, <1>2, <1>3, <1>4, <1>5, <1>6, ReceiptTakenOff
<1>8. DialogInv' /\ (~ prints.left => KeepInv)'
  <2>1. Undisturbed
    BY <1>1, <1>4, <1>7 DEF Undisturbed
  <2>2. \E f : Carries(f)
    BY <1>1, Parts, SameCarries
  <2> QED BY <2>1, <2>2, Parts, DialogUndisturbed
<1>9. SlipShape'
  BY <1>1, Parts DEF SlipShape
<1> QED BY <1>7, <1>8, <1>9 DEF PrintInv, PrintShape

(* Without a dialog no job keeps a statement. *)
LEMMA ClosedKeepsNone ==
    ASSUME KeepInv, Closed
    PROVE  \A i \in 1..Len(jobs) : ~ Keeps(i)
BY DEF KeepInv, Closed

LEMMA CancelKeepsInv ==
    ASSUME PrintInv, CancelCheckout
    PROVE  PrintInv'
<1> DEFINE key == slip.statement
<1>1. /\ Closed /\ slip.status = "checked_out" /\ slip' = [slip EXCEPT !.status = "open"] /\ jobs' = jobs /\ till' = Drawn(till)
      /\ kept' = [kept EXCEPT !.pending = RemovePending(kept, key), !.printed = kept.printed \ {key}]
      /\ prints' = [prints EXCEPT !.told = Report(key, "cancelled"), !.reported = prints.reported \ {key}]
  BY DEF CancelCheckout
<1>2. key \in Number
  BY <1>1, Parts DEF SlipShape
<1>3. SlipShape'
  BY <1>1, Parts DEF SlipShape, Status
<1> HIDE DEF key
<1>4. kept'.pending = RemovePending(kept, key) /\ kept'.queue = kept.queue /\ kept'.printed = kept.printed \ {key}
  BY <1>1, Parts DEF KeptShape
<1>5. prints'.reported = prints.reported \ {key}
  BY <1>1, Parts DEF PrintsShape
<1>6. kept.printed \ {key} \in SUBSET Number /\ prints.reported \ {key} \in SUBSET Number
      /\ prints.reported \ {key} \subseteq kept.printed \ {key} /\ "cancelled" \in Fate \ {"failed"}
  BY Parts DEF KeptShape, PrintsShape, MarkInv, Fate
<1>7. /\ KeptShape' /\ TillShape' /\ JobsShape' /\ PrintsShape' /\ FirstOnly' /\ FailedIsKept' /\ MarkInv'
      /\ till'.current = till.current /\ prints'.left = prints.left /\ prints'.dialogs = prints.dialogs
  BY <1>1, <1>2, <1>4, <1>5, <1>6, ReceiptTakenOff
<1>8. till'.current = {} /\ till.current = {}
  BY <1>1, <1>7 DEF Closed
<1>9. DialogInv'
  BY <1>1, <1>7, <1>8, Parts DEF DialogInv
<1>10. ASSUME ~ prints'.left PROVE KeepInv'
  <2>1. KeepInv
    BY <1>7, <1>10, Parts
  <2>2. kept'.queue = {}
    BY <2>1, <1>1, <1>4 DEF KeepInv, KeptStatementIsIssued
  <2> QED BY <2>1, <2>2, <1>1, <1>8, ClosedKeepsNone DEF KeepInv, KeptStatementIsIssued, Keeps
<1> QED BY <1>3, <1>7, <1>9, <1>10 DEF PrintInv, PrintShape

LEMMA ReloadKeepsInv ==
    ASSUME PrintInv, ReloadTill
    PROVE  PrintInv'
<1>1. jobs' = <<>> /\ till' = [current |-> {}, busy |-> 0, off |-> {}] /\ slip' = slip /\ kept' = kept
      /\ prints' = [prints EXCEPT !.reloads = prints.reloads + 1] /\ prints.reloads < MaxTillReload
  BY DEF ReloadTill
<1>2. JobsShape' /\ Len(jobs') = 0 /\ FirstOnly' /\ Marked'
  BY <1>1 DEF JobsShape, FirstOnly, Marked
<1>3. TillShape' /\ till'.current = {}
  BY <1>1, Parts DEF TillShape
<1>4. /\ PrintsShape' /\ prints'.told = prints.told /\ prints'.papers = prints.papers /\ prints'.left = prints.left
      /\ prints'.reported = prints.reported /\ prints'.dialogs = prints.dialogs
  BY <1>1, Parts, PrintAssumption DEF PrintsShape
<1>5. SlipShape' /\ KeptShape'
  BY <1>1, Parts DEF SlipShape, KeptShape
<1>6. FailedIsKept' /\ MarkInv'
  BY <1>1, <1>2, <1>4, Parts, TellingStays, MarksStay
<1>7. DialogInv'
  BY <1>2, <1>3 DEF DialogInv
<1>8. ASSUME ~ prints'.left PROVE KeepInv'
  <2>1. KeepInv
    BY <1>4, <1>8, Parts
  <2> QED BY <2>1, <1>1, <1>2, <1>3 DEF KeepInv, KeptStatementIsIssued
<1> QED BY <1>2, <1>3, <1>4, <1>5, <1>6, <1>7, <1>8 DEF PrintInv, PrintShape

LEMMA CloseKeepsInv ==
    ASSUME PrintInv, Close
    PROVE  PrintInv'
<1> DEFINE task == \E d \in till.current : d.task
<1>1. jobs' = jobs /\ till' = [till EXCEPT !.current = {}] /\ slip' = slip /\ kept' = kept
      /\ prints' = [prints EXCEPT !.left = prints.left \/ task]
  BY DEF Close
<1>2. JobsShape' /\ FirstOnly' /\ Marked'
  BY <1>1, Parts, QueueStays
<1>3. TillShape' /\ till'.current = {}
  BY <1>1, Parts DEF TillShape
<1>4. /\ PrintsShape' /\ prints'.told = prints.told /\ prints'.papers = prints.papers /\ prints'.left = (prints.left \/ task)
      /\ prints'.reported = prints.reported /\ prints'.dialogs = prints.dialogs
  <2>1. (prints.left \/ task) \in BOOLEAN
    OBVIOUS
  <2> HIDE DEF task
  <2> QED BY <2>1, <1>1, Parts DEF PrintsShape
<1>5. SlipShape' /\ KeptShape'
  BY <1>1, Parts DEF SlipShape, KeptShape
<1>6. FailedIsKept' /\ MarkInv'
  BY <1>1, <1>2, <1>4, Parts, TellingStays, MarksStay
<1>7. DialogInv'
  BY <1>1, <1>3, <1>4, Parts DEF DialogInv
<1>8. ASSUME ~ prints'.left PROVE KeepInv'
  <2>1. KeepInv /\ ~ task
    BY <1>4, <1>8, Parts
  <2>2. \A i \in 1..Len(jobs) : ~ Keeps(i)
    BY <2>1 DEF KeepInv
  <2> QED BY <2>1, <2>2, <1>1, <1>3 DEF KeepInv, KeptStatementIsIssued, Keeps
<1> QED BY <1>2, <1>3, <1>4, <1>5, <1>6, <1>7, <1>8 DEF PrintInv, PrintShape

LEMMA ReleaseKeepsInv ==
    ASSUME PrintInv, Release
    PROVE  PrintInv'
<1>1. /\ \A d \in till.current : ~ d.task
      /\ slip' = [slip EXCEPT !.status = "open"] /\ kept' = [kept EXCEPT !.queue = {}]
      /\ till' = [till EXCEPT !.current = {}] /\ jobs' = jobs /\ prints' = prints
  BY DEF Release
<1>2. JobsShape' /\ FirstOnly' /\ Marked'
  BY <1>1, Parts, QueueStays
<1>3. TillShape' /\ till'.current = {}
  BY <1>1, Parts DEF TillShape
<1>4. PrintsShape'
  BY <1>1, Parts DEF PrintsShape
<1>5. SlipShape'
  BY <1>1, Parts DEF SlipShape, Status
<1>6. KeptShape' /\ kept'.queue = {} /\ kept'.pending = kept.pending /\ kept'.printed = kept.printed
  BY <1>1, Parts DEF KeptShape
<1>7. FailedIsKept' /\ MarkInv'
  BY <1>1, <1>2, <1>6, Parts, TellingStays, MarksStay
<1>8. DialogInv'
  BY <1>1, <1>3, Parts DEF DialogInv
<1>9. ASSUME ~ prints'.left PROVE KeepInv'
  <2>1. KeepInv
    BY <1>1, <1>9, Parts
  <2>2. \A i \in 1..Len(jobs) : ~ Keeps(i)
    BY <2>1, <1>1 DEF KeepInv
  <2> QED BY <2>2, <1>1, <1>3, <1>6 DEF KeepInv, KeptStatementIsIssued, Keeps
<1> QED BY <1>2, <1>3, <1>4, <1>5, <1>6, <1>7, <1>8, <1>9 DEF PrintInv, PrintShape

(* A statement joins the queue, for the dialog that comes to be open. *)
LEMMA StatementJoins ==
    ASSUME PrintInv, prints.jobs < MaxJob, NEW d \in Dialog, PrintCore(d, kept),
           SlipShape', PrintsShape', slip'.status = "checkout_ready",
           prints'.told = prints.told, prints'.papers = prints.papers, prints'.reported = prints.reported,
           prints'.left = prints.left, prints.dialogs <= prints'.dialogs, d.id <= prints'.dialogs,
           \A i \in 1..Len(jobs) : jobs[i].kind = "statement" /\ ~ jobs[i].keeps => d.id # jobs[i].dialog,
           ~ prints.left => d.statement = slip'.statement /\ \A i \in 1..Len(jobs) : ~ Keeps(i)
    PROVE  PrintInv'
<1> DEFINE job == NewJob("statement", d.statement, FALSE, d.id, FALSE)
           shown == [d EXCEPT !.state = "printing", !.task = TRUE]
           q == {[statement |-> d.statement, state |-> "printing"]}
<1>1. jobs' = Append(jobs, job) /\ kept' = [kept EXCEPT !.queue = q] /\ till' = [till EXCEPT !.current = {shown}]
  BY DEF PrintCore, Enqueue, Show
<1>2. d.statement \in Number /\ d.id \in 1..MaxOpen /\ d.id \in 0..MaxOpen
  BY DEF Dialog
<1>3. job \in Job
  BY <1>2, Parts, NewJobs
<1>4. /\ job.kind = "statement" /\ job.key = d.statement /\ job.dialog = d.id /\ job.keeps = TRUE
      /\ job.phase = "waiting" /\ job.known = FALSE
  BY DEF NewJob
<1>5. shown \in Dialog /\ shown.id = d.id /\ shown.statement = d.statement /\ shown.task = TRUE
  BY DEF Dialog, State
<1>6. q \in SUBSET [statement : Number, state : State]
  BY <1>2 DEF State
<1> HIDE DEF job, shown, q
<1>7. JobsShape' /\ FirstOnly' /\ Marked'
  BY <1>1, <1>3, <1>4, Parts, JoinKeepsOrder
<1>8. /\ Len(jobs) \in Nat /\ Len(jobs') = Len(jobs) + 1 /\ jobs'[Len(jobs) + 1] = job
      /\ \A k \in 1..Len(jobs) : jobs'[k] = jobs[k]
  BY <1>1, <1>3, Parts, JobJoins DEF JobsShape
<1>9. \A k \in 1..Len(jobs') : k \in 1..Len(jobs) \/ k = Len(jobs) + 1
  BY <1>8
<1>10. KeptShape' /\ kept'.queue = q /\ kept'.pending = kept.pending /\ kept'.printed = kept.printed
  BY <1>1, <1>6, Parts DEF KeptShape
<1>11. TillShape' /\ till'.current = {shown}
  BY <1>1, <1>5, Parts DEF TillShape
<1>12. FailedIsKept' /\ MarkInv'
  BY <1>7, <1>10, Parts, TellingStays, MarksStay
<1>13. DialogInv'
  <2>1. \A k \in 1..Len(jobs') : jobs'[k].dialog <= prints'.dialogs
    <3>1. prints'.dialogs \in Nat /\ \A k \in 1..Len(jobs) : jobs[k].dialog \in Nat
      BY Parts, JobFields DEF PrintsShape
    <3> QED BY <3>1, <1>4, <1>8, <1>9, Parts DEF DialogInv
  <2>2. \A k \in 1..Len(jobs') : jobs'[k].kind = "statement" /\ ~ jobs'[k].keeps => shown.id # jobs'[k].dialog
    BY <1>4, <1>5, <1>8, <1>9
  <2> QED BY <2>1, <2>2, <1>5, <1>11 DEF DialogInv
<1>14. ASSUME ~ prints'.left PROVE KeepInv'
  <2>1. d.statement = slip'.statement /\ \A i \in 1..Len(jobs) : ~ Keeps(i)
    BY <1>14
  <2>2. \A k \in 1..Len(jobs') : Keeps(k)' => k = Len(jobs) + 1
    BY <2>1, <1>8, <1>9 DEF Keeps
  <2>3. KeptStatementIsIssued'
    BY <2>1, <1>10 DEF KeptStatementIsIssued, q
  <2> QED BY <2>1, <2>2, <2>3, <1>4, <1>5, <1>8, <1>11 DEF KeepInv
<1> QED BY <1>7, <1>10, <1>11, <1>12, <1>13, <1>14 DEF PrintInv, PrintShape

LEMMA IssueKeepsInv ==
    ASSUME PrintInv, Issue
    PROVE  PrintInv'
<1> DEFINE d == NewDialog(slip.statement + 1, "pending")
<1>1. /\ Closed /\ slip.statement < MaxIssue /\ prints.dialogs < MaxOpen /\ prints.jobs < MaxJob
      /\ slip' = [slip EXCEPT !.status = "checkout_ready", !.statement = @ + 1] /\ PrintCore(d, kept)
      /\ prints' = [prints EXCEPT !.jobs = prints.jobs + 1, !.dialogs = prints.dialogs + 1]
  BY DEF Issue, PrintCore, Enqueue
<1>2. slip.statement \in Nat /\ MaxIssue \in Nat
  BY Parts, PrintAssumption DEF SlipShape
<1>3. SlipShape' /\ slip'.status = "checkout_ready" /\ slip'.statement = slip.statement + 1
  <2>1. slip.statement + 1 \in 0..MaxIssue /\ slip.statement + 1 \in Number
    BY <1>1, <1>2 DEF Number
  <2>2. slip'.status = "checkout_ready" /\ slip'.statement = slip.statement + 1
        /\ slip' \in [status : Status, statement : 0..MaxIssue]
    BY <1>1, <2>1, Parts DEF SlipShape, Status
  <2> QED BY <2>1, <2>2 DEF SlipShape
<1>4. d \in Dialog /\ d.id = prints.dialogs + 1 /\ d.statement = slip.statement + 1
  BY <1>1, <1>2, Parts DEF NewDialog, Dialog, State, Number
<1> HIDE DEF d
<1>5. prints.jobs + 1 \in 0..MaxJob /\ prints.dialogs + 1 \in 0..MaxOpen
  BY <1>1, Parts
<1>6. /\ PrintsShape' /\ prints'.told = prints.told /\ prints'.papers = prints.papers
      /\ prints'.reported = prints.reported /\ prints'.left = prints.left /\ prints'.dialogs = prints.dialogs + 1
  BY <1>1, <1>5, Parts DEF PrintsShape
<1>7. \A i \in 1..Len(jobs) : d.id # jobs[i].dialog
  <2>1. \A i \in 1..Len(jobs) : jobs[i].dialog \in Nat /\ jobs[i].dialog <= prints.dialogs
    BY Parts, JobFields DEF DialogInv
  <2> QED BY <2>1, <1>4, Parts
<1>8. ~ prints.left => \A i \in 1..Len(jobs) : ~ Keeps(i)
  BY <1>1, Parts, ClosedKeepsNone
<1>9. prints.dialogs <= prints'.dialogs /\ d.id <= prints'.dialogs
  BY <1>4, <1>6, Parts
<1> QED BY <1>1, <1>3, <1>4, <1>6, <1>7, <1>8, <1>9, StatementJoins

LEMMA PrintStatementKeepsInv ==
    ASSUME PrintInv, PrintStatement
    PROVE  PrintInv'
<1>1. PICK d \in till.current : ~ d.task /\ PrintCore(d, kept) /\ slip' = slip
                                /\ prints.jobs < MaxJob /\ prints' = [prints EXCEPT !.jobs = prints.jobs + 1]
  BY DEF PrintStatement, PrintCore, Enqueue
<1>2. d \in Dialog
  BY Parts DEF TillShape
<1>3. prints.jobs + 1 \in 0..MaxJob
  BY <1>1, Parts
<1>4. /\ PrintsShape' /\ prints'.told = prints.told /\ prints'.papers = prints.papers
      /\ prints'.reported = prints.reported /\ prints'.left = prints.left /\ prints'.dialogs = prints.dialogs
  BY <1>1, <1>3, Parts DEF PrintsShape
<1>5. SlipShape' /\ prints.dialogs <= prints'.dialogs /\ d.id <= prints'.dialogs
  BY <1>1, <1>4, Parts DEF SlipShape, DialogInv
<1>6. \A i \in 1..Len(jobs) : jobs[i].kind = "statement" /\ ~ jobs[i].keeps => d.id # jobs[i].dialog
  BY Parts DEF DialogInv
<1>7. ASSUME ~ prints.left PROVE d.statement = slip'.statement /\ \A i \in 1..Len(jobs) : ~ Keeps(i)
  <2>1. KeepInv
    BY <1>7, Parts
  <2> QED BY <2>1, <1>1, Parts DEF KeepInv, DialogInv
<1>8. slip'.status = "checkout_ready"
  BY <1>1, Parts DEF DialogInv
<1> QED BY <1>1, <1>2, <1>4, <1>5, <1>6, <1>7, <1>8, StatementJoins

LEMMA OpenKeepsInv ==
    ASSUME PrintInv, Open
    PROVE  PrintInv'
<1>1. /\ Closed /\ slip.status = "checkout_ready" /\ prints.dialogs < MaxOpen /\ slip' = slip /\ jobs' = jobs
      /\ prints' = [prints EXCEPT !.dialogs = prints.dialogs + 1]
  BY DEF Open
<1>2. slip.statement \in Number
  BY <1>1, Parts DEF SlipShape
<1>3. PICK statement \in Number, state \in State :
        /\ till' = [till EXCEPT !.current = {NewDialog(statement, state)}]
        /\ kept' \in {kept, [kept EXCEPT !.queue = {[statement |-> statement, state |-> state]}]}
        /\ statement = slip.statement \/ [statement |-> statement, state |-> state] \in kept.queue
        /\ kept' = kept => [statement |-> statement, state |-> state] \in kept.queue
  <2>1. CASE kept.queue # {}
    <3>1. PICK q \in kept.queue : till' = [till EXCEPT !.current = {NewDialog(q.statement, q.state)}] /\ kept' = kept
      BY <2>1 DEF Open, Show
    <3>2. q \in [statement : Number, state : State]
      BY Parts DEF KeptShape
    <3>3. q.statement \in Number /\ q.state \in State /\ q = [statement |-> q.statement, state |-> q.state]
      BY <3>2
    <3> QED BY <3>1, <3>3
  <2>2. CASE kept.queue = {}
    <3>1. /\ till' = [till EXCEPT !.current = {NewDialog(slip.statement, "pending")}]
          /\ kept' = [kept EXCEPT !.queue = {[statement |-> slip.statement, state |-> "pending"]}]
      BY <2>2 DEF Open, Show
    <3>2. "pending" \in State
      BY DEF State
    <3>3. kept'.queue = {[statement |-> slip.statement, state |-> "pending"]}
      BY <3>1, Parts DEF KeptShape
    <3>4. kept' # kept
      BY <2>2, <3>3
    <3> QED BY <3>1, <3>2, <3>4, <1>2
  <2> QED BY <2>1, <2>2
<1> DEFINE d == NewDialog(statement, state)
           q == [statement |-> statement, state |-> state]
<1>4. d \in Dialog /\ d.id = prints.dialogs + 1 /\ d.statement = statement
  BY <1>1, Parts DEF NewDialog, Dialog
<1>5. q \in [statement : Number, state : State] /\ q.statement = statement
  OBVIOUS
<1>6. /\ till' = [till EXCEPT !.current = {d}] /\ kept' \in {kept, [kept EXCEPT !.queue = {q}]}
      /\ statement = slip.statement \/ q \in kept.queue
  BY <1>3
<1> HIDE DEF d, q
<1>7. TillShape' /\ till'.current = {d}
  BY <1>4, <1>6, Parts DEF TillShape
<1>8. KeptShape' /\ kept'.queue \in {kept.queue, {q}} /\ kept'.pending = kept.pending /\ kept'.printed = kept.printed
  <2>1. KeptShape /\ {q} \in SUBSET [statement : Number, state : State]
    BY <1>5, Parts
  <2>2. CASE kept' = kept
    BY <2>1, <2>2 DEF KeptShape
  <2>3. CASE kept' = [kept EXCEPT !.queue = {q}]
    BY <2>1, <2>3 DEF KeptShape
  <2> QED BY <2>2, <2>3, <1>6
<1>9. prints.dialogs + 1 \in 0..MaxOpen
  BY <1>1, Parts
<1>10. /\ PrintsShape' /\ prints'.told = prints.told /\ prints'.papers = prints.papers
       /\ prints'.reported = prints.reported /\ prints'.left = prints.left /\ prints'.dialogs = prints.dialogs + 1
  BY <1>1, <1>9, Parts DEF PrintsShape
<1>11. JobsShape' /\ FirstOnly' /\ Marked'
  BY <1>1, Parts, QueueStays
<1>12. SlipShape'
  BY <1>1, Parts DEF SlipShape
<1>13. FailedIsKept' /\ MarkInv'
  BY <1>8, <1>10, <1>11, Parts, TellingStays, MarksStay
<1>14. DialogInv'
  <2>1. \A i \in 1..Len(jobs) : jobs[i].dialog \in Nat /\ jobs[i].dialog <= prints.dialogs
    BY Parts, JobFields DEF DialogInv
  <2> QED BY <2>1, <1>1, <1>4, <1>7, <1>10, Parts DEF DialogInv
<1>15. ASSUME ~ prints'.left PROVE KeepInv'
  <2>1. KeepInv
    BY <1>10, <1>15, Parts
  <2>2. \A i \in 1..Len(jobs) : ~ Keeps(i)
    BY <2>1, <1>1, ClosedKeepsNone
  <2>3. statement = slip.statement
    BY <2>1, <1>5, <1>6 DEF KeepInv, KeptStatementIsIssued
  <2>4. KeptStatementIsIssued'
    BY <2>1, <2>3, <1>1, <1>5, <1>8 DEF KeepInv, KeptStatementIsIssued
  <2> QED BY <2>2, <2>3, <2>4, <1>1, <1>4, <1>7 DEF KeepInv, Keeps
<1> QED BY <1>7, <1>8, <1>10, <1>11, <1>12, <1>13, <1>14, <1>15 DEF PrintInv, PrintShape

LEMMA ConfirmKeepsInv ==
    ASSUME PrintInv, Confirm
    PROVE  PrintInv'
<1>1. PICK d \in till.current :
        /\ slip.status = "checkout_ready" /\ prints.jobs < MaxJob
        /\ slip' = [slip EXCEPT !.status = "checked_out"] /\ kept' = [kept EXCEPT !.queue = {}]
        /\ till' = [till EXCEPT !.current = {}]
        /\ jobs' = Append(Discard(jobs, d.id), ReceiptJob(slip.statement))
        /\ prints' = [prints EXCEPT !.jobs = prints.jobs + 1]
  BY DEF Confirm
<1> DEFINE job == ReceiptJob(slip.statement)
           list == Discard(jobs, d.id)
<1>2. slip.statement \in Number
  BY <1>1, Parts DEF SlipShape
<1>3. job \in Job /\ job.kind # "statement" /\ job.dialog = 0 /\ job.phase = "waiting" /\ (job.known => job.mark)
  BY <1>1, <1>2, ReceiptJobs
<1>4. /\ list \in Seq(Job) /\ Len(list) = Len(jobs)
      /\ \A k \in 1..Len(jobs) :
           list[k] = IF jobs[k].dialog = d.id THEN [jobs[k] EXCEPT !.keeps = FALSE] ELSE jobs[k]
  BY Parts, DiscardKeepsRest
<1>5. Len(jobs) \in Nat /\ \A k \in 1..Len(jobs) : jobs[k] \in Job
  BY Parts DEF JobsShape
<1>6. \A k \in 1..Len(jobs) :
        /\ list[k].kind = jobs[k].kind /\ list[k].dialog = jobs[k].dialog /\ list[k].phase = jobs[k].phase
        /\ list[k].known = jobs[k].known /\ list[k].mark = jobs[k].mark
        /\ list[k].keeps = IF jobs[k].dialog = d.id THEN FALSE ELSE jobs[k].keeps
  BY <1>4, <1>5 DEF Job
<1>7. /\ jobs' \in Seq(Job) /\ Len(jobs') = Len(jobs) + 1 /\ jobs'[Len(jobs) + 1] = job
      /\ \A k \in 1..Len(jobs) : jobs'[k] = list[k]
  <2>1. jobs' = Append(list, job)
    BY <1>1
  <2> HIDE DEF list, job
  <2> QED BY <2>1, <1>3, <1>4, <1>5
<1> HIDE DEF job, list
<1>8. \A k \in 1..Len(jobs') : k \in 1..Len(jobs) \/ k = Len(jobs) + 1
  BY <1>5, <1>7
<1>9. JobsShape'
  BY <1>7 DEF JobsShape
<1>10. FirstOnly'
  BY <1>3, <1>6, <1>7, <1>8, Parts DEF FirstOnly
<1>11. Marked'
  <2>1. \A k \in 1..Len(jobs) : jobs'[k].known => jobs'[k].mark
    BY <1>6, <1>7, Parts DEF Marked
  <2> QED BY <2>1, <1>3, <1>7, <1>8 DEF Marked
<1>12. TillShape' /\ till'.current = {}
  BY <1>1, Parts DEF TillShape
<1>13. KeptShape' /\ kept'.queue = {} /\ kept'.pending = kept.pending /\ kept'.printed = kept.printed
  BY <1>1, Parts DEF KeptShape
<1>14. prints.jobs + 1 \in 0..MaxJob
  BY <1>1, Parts
<1>15. /\ PrintsShape' /\ prints'.told = prints.told /\ prints'.papers = prints.papers
       /\ prints'.reported = prints.reported /\ prints'.left = prints.left /\ prints'.dialogs = prints.dialogs
  BY <1>1, <1>14, Parts DEF PrintsShape
<1>16. SlipShape'
  BY <1>1, <1>2, Parts DEF SlipShape, Status
<1>17. FailedIsKept' /\ MarkInv'
  BY <1>11, <1>13, <1>15, Parts, TellingStays, MarksStay
<1>18. DialogInv'
  <2>1. \A k \in 1..Len(jobs') : jobs'[k].dialog <= prints'.dialogs
    <3>1. \A k \in 1..Len(jobs) : jobs'[k].dialog <= prints'.dialogs
      BY <1>6, <1>7, <1>15, Parts DEF DialogInv
    <3>2. jobs'[Len(jobs) + 1].dialog <= prints'.dialogs
      BY <1>3, <1>7, <1>15, Parts
    <3> QED BY <3>1, <3>2, <1>8
  <2> QED BY <2>1, <1>12 DEF DialogInv
<1>19. ASSUME ~ prints'.left PROVE KeepInv'
  <2>1. KeepInv
    BY <1>15, <1>19, Parts
  <2>2. \A k \in 1..Len(jobs) : Keeps(k) => jobs[k].dialog = d.id
    BY <2>1, Parts DEF KeepInv, DialogInv
  <2>3. ASSUME NEW k \in 1..Len(jobs'), Keeps(k)' PROVE FALSE
    <3>1. jobs'[k].kind = "statement" /\ jobs'[k].keeps
      BY <2>3 DEF Keeps
    <3>2. CASE k \in 1..Len(jobs)
      <4>1. jobs[k].kind = "statement" /\ jobs[k].keeps /\ jobs[k].dialog # d.id
        BY <3>1, <3>2, <1>6, <1>7
      <4> QED BY <4>1, <3>2, <2>2 DEF Keeps
    <3>3. CASE k = Len(jobs) + 1
      BY <3>1, <3>3, <1>3, <1>7
    <3> QED BY <3>2, <3>3, <1>8
  <2> QED BY <2>3, <1>12, <1>13 DEF KeepInv, KeptStatementIsIssued
<1> QED BY <1>9, <1>10, <1>12, <1>13, <1>15, <1>16, <1>17, <1>18, <1>19 DEF PrintInv, PrintShape

-----------------------------------------------------------------------------
LEMMA PrintInitInv == PrintInit => PrintInv
<1> SUFFICES ASSUME PrintInit PROVE PrintInv
  OBVIOUS
<1>1. SlipShape
  BY PrintAssumption DEF PrintInit, SlipShape, Status
<1>2. KeptShape
  BY PrintAssumption DEF PrintInit, KeptShape
<1>3. TillShape
  BY PrintAssumption DEF PrintInit, TillShape
<1>4. JobsShape /\ Len(jobs) = 0
  BY DEF PrintInit, JobsShape
<1>5. prints.told = [k \in Number |-> "nothing"] /\ prints.papers = <<>> /\ prints.reported = {}
  BY DEF PrintInit
<1>6. PrintsShape
  BY PrintAssumption, <1>5 DEF PrintInit, PrintsShape, Fate
<1>7. FailedIsKept
  <2>1. FailedKeys = {}
    BY <1>5 DEF FailedKeys
  <2>2. PendingKeys = {}
    BY DEF PrintInit, PendingKeys
  <2> QED BY <2>1, <2>2 DEF FailedIsKept
<1>8. FirstOnly /\ MarkInv
  BY <1>4, <1>5 DEF FirstOnly, MarkInv, LaterCopyMarked
<1>9. DialogInv /\ KeepInv
  BY <1>4 DEF PrintInit, DialogInv, KeepInv, KeptStatementIsIssued
<1> QED BY <1>1, <1>2, <1>3, <1>4, <1>6, <1>7, <1>8, <1>9 DEF PrintInv, PrintShape

LEMMA PrintStutters ==
    ASSUME PrintInv, UNCHANGED printVars
    PROVE  PrintInv'
BY DEF printVars, PrintInv, PrintShape, SlipShape, KeptShape, TillShape, JobsShape, PrintsShape, FirstOnly, FailedIsKept,
       PendingKeys, FailedKeys, MarkInv, LaterCopyMarked, DialogInv, KeepInv, KeptStatementIsIssued, Keeps

LEMMA PrintNextKeepsInv ==
    ASSUME PrintInv, [PrintNext]_printVars
    PROVE  PrintInv'
<1>1. CASE \E i \in 1..Len(jobs) : JobWorks(i)
  BY <1>1, JobKeepsInv
<1>2. CASE UNCHANGED printVars
  BY <1>2, PrintStutters
<1> QED BY <1>1, <1>2, RetryKeepsInv, DismissKeepsInv, IssueKeepsInv, OpenKeepsInv, CloseKeepsInv, PrintStatementKeepsInv,
           ReleaseKeepsInv, ConfirmKeepsInv, PrintReceiptKeepsInv, CancelKeepsInv, ReloadKeepsInv DEF PrintNext

LEMMA PrintInvTells == PrintInv => PrintedAsKept
<1> SUFFICES ASSUME PrintInv PROVE PrintedAsKept
  OBVIOUS
<1>1. OneSession
  <2>1. {i \in 1..Len(jobs) : jobs[i].phase # "waiting"} \subseteq {1}
    BY Parts DEF FirstOnly
  <2>2. IsFiniteSet({1}) /\ Cardinality({1}) = 1
    BY FS_Singleton
  <2>3. Cardinality({i \in 1..Len(jobs) : jobs[i].phase # "waiting"}) <= 1
    BY <2>1, <2>2, FS_Subset
  <2> QED BY <2>3 DEF OneSession
<1> QED BY <1>1, Parts DEF PrintedAsKept, MarkInv, KeptFollowsDialog, KeepInv

(* PrintedAsKept, for every number of statements, dialogs, jobs and places  *)
(* in the list: one job has the printer, what failed can be printed again,  *)
(* a later copy says that it is one, and the statement that is kept is the  *)
(* one issued until a dialog is left while it prints                        *)
(* (sii-print-queue.js, sii-receipt-printer.js, business-checkout.js).      *)
THEOREM PrintsAsKept == PrintSpec => []PrintedAsKept
<1>1. PrintInit => PrintInv
  BY PrintInitInv
<1>2. PrintInv /\ [PrintNext]_printVars => PrintInv'
  BY PrintNextKeepsInv
<1>3. PrintInv => PrintedAsKept
  BY PrintInvTells
<1> QED BY <1>1, <1>2, <1>3, PTL DEF PrintSpec
=============================================================================
