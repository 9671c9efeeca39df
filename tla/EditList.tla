------------------------------ MODULE EditList ------------------------------
(***************************************************************************)
(* What the business home page promises of the operations typed on it,     *)
(* without the queue, the batches and the messages that keep the promise:   *)
(* they are numbered as they are typed, take effect at most once and in     *)
(* that order, and what the page is told of one of them is what happened.   *)
(***************************************************************************)
EXTENDS Naturals, Sequences, SequencesExt

VARIABLES
    count,     \* operations typed
    applied,   \* those that took effect, in the order in which they did
    told       \* what the page learned of each: nothing, confirmed, refused

editVars == <<count, applied, told>>

EditInit == count = 0 /\ applied = <<>> /\ told = <<>>

TypeOne ==
    /\ count' = count + 1
    /\ told' = Append(told, "nothing")
    /\ UNCHANGED applied

(* A batch of later operations takes effect as a whole. *)
ApplySome(batch) ==
    /\ batch \in Seq(1..count)
    /\ \A i \in DOMAIN batch :
        /\ told[batch[i]] = "nothing"
        /\ \A j \in DOMAIN batch : i < j => batch[i] < batch[j]
        /\ \A j \in DOMAIN applied : applied[j] < batch[i]
    /\ applied' = applied \o batch
    /\ UNCHANGED <<count, told>>

(* The page is told: confirmed what took effect, refused what did not. *)
TellSome(ids, outcome) ==
    /\ \A i \in ids : told[i] = "nothing" /\ (outcome = "confirmed" <=> i \in Range(applied))
    /\ told' = [i \in 1..count |-> IF i \in ids THEN outcome ELSE told[i]]
    /\ UNCHANGED <<count, applied>>

EditNext ==
    \/ TypeOne
    \/ ApplySome(SubSeq(applied', Len(applied) + 1, Len(applied')))
    \/ \E outcome \in {"confirmed", "refused"} : TellSome({i \in 1..count : told[i] # told'[i]}, outcome)

EditSpec == EditInit /\ [][EditNext]_editVars

-----------------------------------------------------------------------------
(* An operation takes effect once, and in the order of typing. *)
OnceInOrder == \A i, j \in DOMAIN applied : i < j => applied[i] < applied[j]

(* What the page was told is what happened, and stays so. *)
ToldAsApplied ==
    \A i \in 1..count :
        /\ told[i] = "confirmed" => i \in Range(applied)
        /\ told[i] = "refused" => i \notin Range(applied)
=============================================================================
