------------------------ MODULE DiagramCaptureProofs ------------------------
(***************************************************************************)
(* Proofs about DiagramCapture, for any number of steps, captures, runs of *)
(* Refresh all and pose edits: a picture lands only on the source it was   *)
(* begun for, a pose edit that lands is the newest and every one finishes, *)
(* Stop reaches the run under way and a run is one undo entry, and the     *)
(* folds the captures share with the Edit canvas are run and stopped as    *)
(* FoldRuns has it.                                                        *)
(*                                                                         *)
(* The page's state is a record and what the code does to it are operators *)
(* on records, so most lemmas are about any record x, and an action's      *)
(* lemma cites those of the operators it is made of.                       *)
(***************************************************************************)
EXTENDS DiagramCapture, SequenceTheorems, FiniteSetTheorems, WellFoundedInduction, TLAPS

----------------------------------------------------------------------------
(* FoldRuns by itself: for any number of folds, calls and engine losses,   *)
(* the one shared slot stops only runs it was asked to stop, and it names  *)
(* the oldest of them for as long as one is left.                          *)

\* The oldest run noted is one of those noted, and none of them is older.
LEMMA OldestIsLeast ==
  ASSUME NEW ids \in SUBSET Nat, ids # {}
  PROVE  Oldest(ids) \in ids /\ \A j \in ids : Oldest(ids) <= j
<1> DEFINE R == {ss \in Nat \X Nat : ss[1] < ss[2]}
<1>1. IsWellFoundedOn(R, Nat)
  BY NatLessThanWellFounded DEF OpToRel
<1>2. \A i, j \in Nat : <<j, i>> \notin R => i <= j
  OBVIOUS
<1> HIDE DEF R
<1>3. PICK i \in ids : \A j \in ids : <<j, i>> \notin R
  BY <1>1, WFMin
<1>4. \A j \in ids : i <= j
  BY <1>2, <1>3
<1>5. QED
  BY <1>4 DEF Oldest

Places == {"page", "kernel", "host", "stopped", "failed", "hung", "over"}

\* A run's place changes, or those of several: the runs stay the same ones.
LEMMA MovedOne ==
  ASSUME NEW w \in Seq(Places), NEW i \in DOMAIN w, NEW to \in Places
  PROVE  /\ [w EXCEPT ![i] = to] \in Seq(Places)
         /\ DOMAIN [w EXCEPT ![i] = to] = DOMAIN w
<1>1. i \in 1..Len(w) /\ DOMAIN w = 1..Len(w)
  BY LenProperties
<1>2. QED
  BY <1>1, ExceptSeq

LEMMA MovedAll ==
  ASSUME NEW w \in Seq(Places), NEW f, f \in [DOMAIN w -> Places]
  PROVE  f \in Seq(Places)
<1>1. DOMAIN w = 1..Len(w) /\ Len(w) \in Nat
  BY LenProperties
<1>2. \E n \in Nat : f \in [1..n -> Places]
  BY <1>1
<1>3. QED
  BY <1>2, SeqDef

\* Aborting the signals of the runs noted ends only what the host engine does.
LEMMA AbortMoves ==
  ASSUME NEW w \in Seq(Places), NEW noted
  PROVE  /\ Abort(noted, w) \in Seq(Places)
         /\ DOMAIN Abort(noted, w) = DOMAIN w
         /\ \A i \in DOMAIN w : Abort(noted, w)[i] =
              IF i \in noted /\ w[i] = "host" THEN "stopped" ELSE w[i]
<1>1. \A i \in DOMAIN w : w[i] \in Places
  BY LenProperties, ElementOfSeq
<1>2. Abort(noted, w) \in [DOMAIN w -> Places]
  BY <1>1 DEF Abort, Places
<1>3. QED
  BY <1>2, MovedAll DEF Abort

----------------------------------------------------------------------------
(* The inductive invariant.                                                *)

\* The kernel's queue holds the runs whose work is there, each once: a run
\* awaits a call before it makes the next.
QueueOfRuns ==
  /\ \A k \in DOMAIN calls : work[calls[k]] = "kernel"
  /\ \A k, l \in DOMAIN calls : calls[k] = calls[l] => k = l

\* A run noted has had its signal raised; the slot names a run that was told to
\* stop, or one that is over, and the oldest of those noted while there are any.
StopsAreAsked == stopping \subseteq aborted
SlotIsAsked == slot # 0 => slot \in aborted \/ work[slot] = "over"
SlotIsOldest == stopping # {} => slot = Oldest(stopping)

FoldInv ==
  /\ FoldTypeOK /\ QueueOfRuns
  /\ StopsAreAsked /\ SlotIsAsked /\ SlotIsOldest
  /\ OnlyTheAskedStop

\* What the invariant says of the runs, without sequences.
LEMMA RunsFacts ==
  ASSUME FoldInv
  PROVE  /\ work \in Seq(Places) /\ DOMAIN work = 1..Len(work) /\ Len(work) \in Nat
         /\ \A i \in DOMAIN work : work[i] \in Places
         /\ calls \in Seq(DOMAIN work) /\ DOMAIN calls = 1..Len(calls) /\ Len(calls) \in Nat
         /\ \A k \in DOMAIN calls : calls[k] \in DOMAIN work
<1>1. work \in Seq(Places) /\ calls \in Seq(DOMAIN work)
  BY DEF FoldInv, FoldTypeOK, Places
<1>2. QED
  BY <1>1, LenProperties, ElementOfSeq

LEMMA HeadOfCalls ==
  ASSUME FoldInv, calls # <<>>
  PROVE  /\ Head(calls) = calls[1] /\ 1 \in DOMAIN calls /\ Head(calls) \in DOMAIN work
         /\ work[Head(calls)] = "kernel"
         /\ Tail(calls) \in Seq(DOMAIN work)
         /\ DOMAIN Tail(calls) = 1..(Len(calls) - 1)
         /\ \A k \in DOMAIN Tail(calls) : Tail(calls)[k] = calls[k + 1] /\ k + 1 \in DOMAIN calls
<1>1. /\ Head(calls) \in DOMAIN work /\ Tail(calls) \in Seq(DOMAIN work)
      /\ Len(Tail(calls)) = Len(calls) - 1 /\ Len(calls) \in Nat \ {0}
      /\ \A k \in 1..Len(Tail(calls)) : Tail(calls)[k] = calls[k + 1]
  BY RunsFacts, HeadTailProperties, EmptySeq
<1>2. DOMAIN Tail(calls) = 1..Len(Tail(calls)) /\ DOMAIN calls = 1..Len(calls)
  BY <1>1, RunsFacts, LenProperties
<1>3. Head(calls) = calls[1]
  BY RunsFacts
<1>4. QED
  BY <1>1, <1>2, <1>3 DEF FoldInv, QueueOfRuns

\* Aiming at the runs noted keeps what the slot may name.
LEMMA AimKeeps ==
  ASSUME FoldInv, NEW noted \in SUBSET DOMAIN work, Aim(noted)
  PROVE  /\ slot' \in {0} \cup DOMAIN work
         /\ noted # {} => slot' = Oldest(noted) /\ slot' \in noted
         /\ noted = {} => slot' = slot
<1>1. noted \in SUBSET Nat
  BY RunsFacts
<1>2. noted # {} => Oldest(noted) \in noted
  BY <1>1, OldestIsLeast
<1>3. slot \in {0} \cup DOMAIN work
  BY DEF FoldInv, FoldTypeOK
<1>4. QED
  BY <1>2, <1>3 DEF Aim

----------------------------------------------------------------------------
(* Each action keeps it.                                                   *)

LEMMA BeginKeeps ==
  ASSUME FoldInv, BeginFold
  PROVE  FoldInv'
<1>1. /\ work' \in Seq(Places) /\ DOMAIN work' = 1..(Len(work) + 1)
      /\ \A i \in DOMAIN work : work'[i] = work[i]
      /\ work'[Len(work) + 1] = "page"
  <2>1. "page" \in Places /\ work' = Append(work, "page")
    BY DEF Places, BeginFold
  <2>2. /\ work' \in Seq(Places) /\ Len(work') = Len(work) + 1
        /\ \A i \in 1..Len(work) : work'[i] = work[i]
        /\ work'[Len(work) + 1] = "page"
    BY <2>1, RunsFacts, AppendProperties
  <2>3. QED
    BY <2>2, RunsFacts, LenProperties
<1>2. /\ listed' = listed \cup {Len(work) + 1}
      /\ UNCHANGED <<stopping, slot, calls, losses, aborted>>
  BY DEF BeginFold
<1>3. FoldTypeOK'
  <2>1. DOMAIN work \subseteq DOMAIN work'
    BY <1>1, RunsFacts
  <2>2. calls' \in Seq(DOMAIN work')
    BY <1>2, <2>1, RunsFacts, SeqMonotonic
  <2>3. listed' \subseteq DOMAIN work'
    BY <1>1, <1>2, RunsFacts DEF FoldInv, FoldTypeOK
  <2>4. QED
    BY <1>1, <1>2, <2>1, <2>2, <2>3 DEF FoldInv, FoldTypeOK, Places
<1>4. QueueOfRuns'
  BY <1>1, <1>2, RunsFacts DEF FoldInv, QueueOfRuns
<1>5. StopsAreAsked' /\ SlotIsOldest'
  BY <1>2 DEF FoldInv, StopsAreAsked, SlotIsOldest
<1>6. SlotIsAsked'
  BY <1>1, <1>2, RunsFacts DEF FoldInv, FoldTypeOK, SlotIsAsked
<1>7. OnlyTheAskedStop'
  <2>1. \A i \in DOMAIN work' : i \in DOMAIN work \/ work'[i] = "page"
    BY <1>1, RunsFacts
  <2>2. QED
    BY <1>1, <1>2, <2>1 DEF FoldInv, OnlyTheAskedStop
<1>8. QED
  BY <1>3, <1>4, <1>5, <1>6, <1>7 DEF FoldInv

LEMMA CallKernelKeeps ==
  ASSUME FoldInv, NEW i \in DOMAIN work, CallKernel(i)
  PROVE  FoldInv'
<1>1. /\ work[i] = "page" /\ work' = [work EXCEPT ![i] = "kernel"]
      /\ work' \in Seq(Places) /\ DOMAIN work' = DOMAIN work
      /\ UNCHANGED <<listed, stopping, slot, losses, aborted>>
  BY RunsFacts, MovedOne DEF Places, CallKernel
<1>2. /\ calls' \in Seq(DOMAIN work) /\ DOMAIN calls' = 1..(Len(calls) + 1)
      /\ \A k \in DOMAIN calls : calls'[k] = calls[k]
      /\ calls'[Len(calls) + 1] = i
  <2>1. /\ calls' \in Seq(DOMAIN work) /\ Len(calls') = Len(calls) + 1
        /\ \A k \in 1..Len(calls) : calls'[k] = calls[k]
        /\ calls'[Len(calls) + 1] = i
    BY RunsFacts, AppendProperties DEF CallKernel
  <2>2. QED
    BY <2>1, RunsFacts, LenProperties
<1>3. FoldTypeOK'
  BY <1>1, <1>2 DEF FoldInv, FoldTypeOK, Places
<1>4. QueueOfRuns'
  <2>1. \A k \in DOMAIN calls : calls[k] # i
    BY <1>1 DEF FoldInv, QueueOfRuns
  <2>2. \A k \in DOMAIN calls' : k \in DOMAIN calls \/ (k = Len(calls) + 1 /\ calls'[k] = i)
    BY <1>2, RunsFacts
  <2>3. \A k \in DOMAIN calls : work'[calls[k]] = "kernel"
    BY <1>1, <2>1, RunsFacts DEF FoldInv, QueueOfRuns
  <2>4. work'[i] = "kernel"
    BY <1>1
  <2>5. \A k \in DOMAIN calls' : work'[calls'[k]] = "kernel"
    BY <1>2, <2>2, <2>3, <2>4
  <2>6. \A k, l \in DOMAIN calls' : calls'[k] = calls'[l] => k = l
    BY <1>2, <2>1, <2>2 DEF FoldInv, QueueOfRuns
  <2>7. QED
    BY <2>5, <2>6 DEF QueueOfRuns
<1>5. StopsAreAsked' /\ SlotIsOldest'
  BY <1>1 DEF FoldInv, StopsAreAsked, SlotIsOldest
<1>6. SlotIsAsked'
  BY <1>1 DEF FoldInv, FoldTypeOK, SlotIsAsked
<1>7. OnlyTheAskedStop'
  BY <1>1 DEF FoldInv, OnlyTheAskedStop
<1>8. QED
  BY <1>3, <1>4, <1>5, <1>6, <1>7 DEF FoldInv

\* A step that sends the kernel nothing, and moves no run that waits on it.
LEMMA CallsStay ==
  ASSUME FoldInv, calls' = calls,
         work' \in Seq(Places), DOMAIN work' = DOMAIN work,
         \A i \in DOMAIN work : work[i] = "kernel" => work'[i] = "kernel"
  PROVE  QueueOfRuns' /\ calls' \in Seq(DOMAIN work')
BY RunsFacts DEF FoldInv, QueueOfRuns

LEMMA HostKeeps ==
  ASSUME FoldInv, NEW i \in DOMAIN work, CallHost(i) \/ HostAnswers(i)
  PROVE  FoldInv'
<1>1. PICK to \in Places :
        /\ work' = [work EXCEPT ![i] = to] /\ work[i] \in {"page", "host"}
        /\ to = "stopped" => i \in aborted
  <2>1. CASE CallHost(i)
    BY <2>1 DEF CallHost, Places
  <2>2. CASE HostAnswers(i)
    BY <2>2 DEF HostAnswers, Places
  <2>3. QED
    BY <2>1, <2>2
<1>2. UNCHANGED <<listed, stopping, slot, calls, losses, aborted>>
  BY DEF CallHost, HostAnswers
<1>3. work' \in Seq(Places) /\ DOMAIN work' = DOMAIN work
  BY <1>1, RunsFacts, MovedOne
<1>4. QueueOfRuns' /\ calls' \in Seq(DOMAIN work')
  BY <1>1, <1>2, <1>3, CallsStay
<1>5. FoldTypeOK'
  BY <1>2, <1>3, <1>4 DEF FoldInv, FoldTypeOK, Places
<1>6. StopsAreAsked' /\ SlotIsOldest'
  BY <1>2 DEF FoldInv, StopsAreAsked, SlotIsOldest
<1>7. SlotIsAsked'
  BY <1>1, <1>2, <1>3 DEF FoldInv, FoldTypeOK, SlotIsAsked
<1>8. OnlyTheAskedStop'
  BY <1>1, <1>2, <1>3 DEF FoldInv, OnlyTheAskedStop
<1>9. QED
  BY <1>4, <1>5, <1>6, <1>7, <1>8 DEF FoldInv

LEMMA EndKeeps ==
  ASSUME FoldInv, NEW i \in DOMAIN work, EndFold(i)
  PROVE  FoldInv'
<1> DEFINE left == stopping \ {i}
<1>1. /\ work[i] \in {"page", "stopped", "failed"}
      /\ listed' = listed \ {i} /\ stopping' = left /\ Aim(left)
      /\ work' = Abort(left, [work EXCEPT ![i] = "over"])
      /\ aborted' = aborted \ {i} /\ UNCHANGED <<calls, losses>>
  BY DEF EndFold
<1>2. /\ work' \in Seq(Places) /\ DOMAIN work' = DOMAIN work
      /\ work'[i] = "over"
      /\ \A j \in DOMAIN work : j # i => work'[j] = IF j \in left /\ work[j] = "host" THEN "stopped" ELSE work[j]
  <2> DEFINE w == [work EXCEPT ![i] = "over"]
  <2>1. "over" \in Places
    BY DEF Places
  <2>2. w \in Seq(Places) /\ DOMAIN w = DOMAIN work
    BY <2>1, RunsFacts, MovedOne
  <2>3. w[i] = "over" /\ \A j \in DOMAIN work : j # i => w[j] = work[j]
    OBVIOUS
  <2>4. work' = Abort(left, w)
    BY <1>1
  <2> HIDE DEF w
  <2>5. QED
    BY <2>2, <2>3, <2>4, AbortMoves
<1>3. left \in SUBSET DOMAIN work /\ left \subseteq aborted'
  BY <1>1 DEF FoldInv, FoldTypeOK, StopsAreAsked
<1>4. /\ slot' \in {0} \cup DOMAIN work
      /\ left # {} => slot' = Oldest(left) /\ slot' \in left
      /\ left = {} => slot' = slot
  BY <1>1, <1>3, AimKeeps
<1>5. QueueOfRuns' /\ calls' \in Seq(DOMAIN work')
  BY <1>1, <1>2, CallsStay
<1>6. FoldTypeOK'
  BY <1>1, <1>2, <1>3, <1>4, <1>5 DEF FoldInv, FoldTypeOK, Places
<1>7. StopsAreAsked' /\ SlotIsOldest'
  BY <1>1, <1>3, <1>4 DEF StopsAreAsked, SlotIsOldest
<1>8. SlotIsAsked'
  <2>1. CASE left # {}
    BY <1>3, <1>4, <2>1 DEF SlotIsAsked
  <2>2. CASE left = {}
    BY <1>1, <1>2, <1>4, <2>2 DEF FoldInv, FoldTypeOK, SlotIsAsked
  <2>3. QED
    BY <2>1, <2>2
<1>9. OnlyTheAskedStop'
  BY <1>1, <1>2, <1>3 DEF FoldInv, OnlyTheAskedStop
<1>10. QED
  BY <1>5, <1>6, <1>7, <1>8, <1>9 DEF FoldInv

\* The kernel stops a run only on finding its id in the slot; a run that waits
\* on the kernel is not over, so the slot named it because it was asked to.
LEMMA KernelKeeps ==
  ASSUME FoldInv, KernelAnswers \/ KernelStops
  PROVE  FoldInv'
<1>1. PICK to \in Places :
        KernelEnds(to) /\ to # "kernel" /\ (to = "stopped" => slot = Head(calls))
  <2>1. CASE KernelAnswers
    BY <2>1 DEF KernelAnswers, Places
  <2>2. CASE KernelStops
    BY <2>2 DEF KernelStops, Places
  <2>3. QED
    BY <2>1, <2>2
<1> DEFINE i == Head(calls)
<1>2. /\ calls # <<>>
      /\ work' = [work EXCEPT ![i] = to] /\ calls' = Tail(calls)
      /\ UNCHANGED <<listed, stopping, slot, losses, aborted>>
  BY <1>1 DEF KernelEnds
<1>3. /\ i = calls[1] /\ 1 \in DOMAIN calls /\ i \in DOMAIN work /\ work[i] = "kernel"
      /\ calls' \in Seq(DOMAIN work)
      /\ DOMAIN calls' = 1..(Len(calls) - 1)
      /\ \A k \in DOMAIN calls' : calls'[k] = calls[k + 1] /\ k + 1 \in DOMAIN calls
  BY <1>2, HeadOfCalls
<1> HIDE DEF i
<1>4. work' \in Seq(Places) /\ DOMAIN work' = DOMAIN work
  BY <1>2, <1>3, RunsFacts, MovedOne
<1>5. FoldTypeOK'
  BY <1>2, <1>3, <1>4 DEF FoldInv, FoldTypeOK, Places
<1>6. QueueOfRuns'
  <2>1. \A k \in DOMAIN calls' : k \in Int /\ k + 1 # 1
    BY <1>3, RunsFacts
  <2>2. \A k \in DOMAIN calls' : calls[k + 1] # i
    BY <1>3, <2>1 DEF FoldInv, QueueOfRuns
  <2>3. \A k \in DOMAIN calls' : work'[calls'[k]] = "kernel"
    BY <1>2, <1>3, <2>2, RunsFacts DEF FoldInv, QueueOfRuns
  <2>4. \A k, l \in DOMAIN calls' : calls'[k] = calls'[l] => k = l
    BY <1>3, <2>1 DEF FoldInv, QueueOfRuns
  <2>5. QED
    BY <2>3, <2>4 DEF QueueOfRuns
<1>7. StopsAreAsked' /\ SlotIsOldest'
  BY <1>2 DEF FoldInv, StopsAreAsked, SlotIsOldest
<1>8. SlotIsAsked'
  BY <1>2, <1>3, <1>4 DEF FoldInv, FoldTypeOK, SlotIsAsked
<1>9. OnlyTheAskedStop'
  <2>1. to = "stopped" => i \in aborted
    <3>1. i # 0
      BY <1>3, RunsFacts
    <3>2. to = "stopped" => slot = i
      BY <1>1 DEF i
    <3>3. QED
      BY <1>3, <3>1, <3>2 DEF FoldInv, SlotIsAsked
  <2>2. QED
    BY <1>2, <1>4, <2>1 DEF FoldInv, OnlyTheAskedStop
<1>10. QED
  BY <1>5, <1>6, <1>7, <1>8, <1>9 DEF FoldInv

LEMMA LossKeeps ==
  ASSUME FoldInv, LoseEngine
  PROVE  FoldInv'
<1>1. /\ work' \in [DOMAIN work -> Places] /\ DOMAIN work' = DOMAIN work
      /\ \A i \in DOMAIN work : work'[i] = IF work[i] = "kernel" THEN "hung" ELSE work[i]
  BY RunsFacts DEF LoseEngine, Places
<1>2. work' \in Seq(Places)
  BY <1>1, RunsFacts, MovedAll
<1>3. /\ losses' = losses + 1 /\ losses < MaxEngineLosses
      /\ calls' = <<>> /\ listed' = {} /\ stopping' = {}
      /\ UNCHANGED <<slot, aborted>>
  BY DEF LoseEngine
<1>4. calls' \in Seq(DOMAIN work')
  BY <1>3, EmptySeq
<1>5. FoldTypeOK'
  <2>1. losses' \in 0..MaxEngineLosses
    BY <1>3, FoldBounds DEF FoldInv, FoldTypeOK
  <2>2. QED
    BY <1>1, <1>2, <1>3, <1>4, <2>1 DEF FoldInv, FoldTypeOK, Places
<1>6. QueueOfRuns'
  <2>1. DOMAIN calls' = {}
    BY <1>3
  <2>2. QED
    BY <2>1 DEF QueueOfRuns
<1>7. StopsAreAsked' /\ SlotIsOldest'
  BY <1>3 DEF StopsAreAsked, SlotIsOldest
<1>8. SlotIsAsked'
  BY <1>1, <1>3 DEF FoldInv, FoldTypeOK, SlotIsAsked
<1>9. OnlyTheAskedStop'
  BY <1>1, <1>3 DEF FoldInv, OnlyTheAskedStop
<1>10. QED
  BY <1>5, <1>6, <1>7, <1>8, <1>9 DEF FoldInv

LEMMA StopKeeps ==
  ASSUME FoldInv, NEW ids, Stop(ids)
  PROVE  FoldInv'
<1> DEFINE noted == stopping \cup ids
<1>1. /\ ids # {} /\ ids \subseteq listed
      /\ stopping' = noted /\ Aim(noted) /\ work' = Abort(noted, work)
      /\ aborted' = aborted \cup ids /\ UNCHANGED <<listed, calls, losses>>
  BY DEF Stop
<1>2. /\ work' \in Seq(Places) /\ DOMAIN work' = DOMAIN work
      /\ \A j \in DOMAIN work : work'[j] = IF j \in noted /\ work[j] = "host" THEN "stopped" ELSE work[j]
  BY <1>1, RunsFacts, AbortMoves
<1>3. noted \in SUBSET DOMAIN work /\ noted \subseteq aborted' /\ noted # {} /\ noted \subseteq listed
  BY <1>1 DEF FoldInv, FoldTypeOK, StopsAreAsked
<1>4. slot' = Oldest(noted) /\ slot' \in noted
  BY <1>1, <1>3, AimKeeps
<1>5. QueueOfRuns' /\ calls' \in Seq(DOMAIN work')
  BY <1>1, <1>2, CallsStay
<1>6. FoldTypeOK'
  BY <1>1, <1>2, <1>3, <1>4, <1>5 DEF FoldInv, FoldTypeOK, Places
<1>7. StopsAreAsked' /\ SlotIsOldest' /\ SlotIsAsked'
  BY <1>1, <1>3, <1>4 DEF StopsAreAsked, SlotIsOldest, SlotIsAsked
<1>8. OnlyTheAskedStop'
  BY <1>1, <1>2, <1>3 DEF FoldInv, OnlyTheAskedStop
<1>9. QED
  BY <1>5, <1>6, <1>7, <1>8 DEF FoldInv

----------------------------------------------------------------------------
(* The theorems.                                                           *)

LEMMA FoldInvInit == FoldInit => FoldInv
<1>1. ASSUME FoldInit PROVE FoldInv
  <2>1. /\ work = <<>> /\ listed = {} /\ stopping = {} /\ slot = 0
        /\ calls = <<>> /\ losses = 0 /\ aborted = {}
    BY <1>1 DEF FoldInit
  <2>2. work \in Seq(Places) /\ calls \in Seq(DOMAIN work) /\ DOMAIN work = {} /\ DOMAIN calls = {}
    BY <2>1, EmptySeq
  <2>3. FoldTypeOK
    BY <2>1, <2>2, FoldBounds DEF FoldTypeOK, Places
  <2>4. QED
    BY <2>1, <2>2, <2>3 DEF FoldInv, QueueOfRuns, StopsAreAsked, SlotIsAsked, SlotIsOldest, OnlyTheAskedStop
<1>2. QED
  BY <1>1

LEMMA FoldInvNext == FoldInv /\ [FoldNext]_foldVars => FoldInv'
<1> SUFFICES ASSUME FoldInv, [FoldNext]_foldVars PROVE FoldInv'
  OBVIOUS
<1>1. CASE BeginFold
  BY <1>1, BeginKeeps
<1>2. ASSUME NEW i \in DOMAIN work, CallKernel(i) PROVE FoldInv'
  BY <1>2, CallKernelKeeps
<1>3. ASSUME NEW i \in DOMAIN work, CallHost(i) \/ HostAnswers(i) PROVE FoldInv'
  BY <1>3, HostKeeps
<1>4. ASSUME NEW i \in DOMAIN work, EndFold(i) PROVE FoldInv'
  BY <1>4, EndKeeps
<1>5. CASE KernelAnswers \/ KernelStops
  BY <1>5, KernelKeeps
<1>6. CASE LoseEngine
  BY <1>6, LossKeeps
<1>7. CASE StopFoldRun \/ StopAllFolds
  BY <1>7, StopKeeps DEF StopFoldRun, StopAllFolds
<1>8. CASE UNCHANGED foldVars
  BY <1>8 DEF foldVars, FoldInv, FoldTypeOK, QueueOfRuns, StopsAreAsked, SlotIsAsked, SlotIsOldest, OnlyTheAskedStop
<1>9. QED
  BY <1>1, <1>2, <1>3, <1>4, <1>5, <1>6, <1>7, <1>8 DEF FoldNext

\* The oldest run noted is the executing one or an older one still live.
LEMMA OldestIsHeard == FoldInv => StopIsHeard
<1> SUFFICES ASSUME FoldInv, calls # <<>>, Head(calls) \in stopping
             PROVE  slot = Head(calls) \/ (slot \in stopping /\ slot < Head(calls))
  BY DEF StopIsHeard
<1>1. stopping \in SUBSET Nat /\ stopping # {}
  BY RunsFacts DEF FoldInv, FoldTypeOK
<1>2. Oldest(stopping) \in stopping /\ \A j \in stopping : Oldest(stopping) <= j
  BY <1>1, OldestIsLeast
<1>3. slot = Oldest(stopping)
  BY <1>1 DEF FoldInv, SlotIsOldest
<1>4. slot \in stopping /\ slot <= Head(calls)
  BY <1>2, <1>3
<1>5. slot \in Nat /\ Head(calls) \in Nat
  BY <1>1, <1>4
<1>6. QED
  BY <1>4, <1>5

LEMMA FoldInvHolds == FoldSpec => []FoldInv
<1>1. QED
  BY FoldInvInit, FoldInvNext, PTL DEF FoldSpec

\* The list, the notes, the slot and the kernel's queue speak of runs that were
\* begun, and a stop is only noted on a run that is listed.
THEOREM FoldTypesHold == FoldSpec => []FoldTypeOK
<1>1. FoldInv => FoldTypeOK
  BY DEF FoldInv
<1>2. QED
  BY <1>1, FoldInvHolds, PTL

\* No run is stopped that nobody asked to stop, for any number of runs that share
\* the slot: it only ever names a run whose signal was raised, or one that is
\* over and so has no call left for the kernel to stop.
THEOREM StopsAreTheAsked == FoldSpec => []OnlyTheAskedStop
<1>1. FoldInv => OnlyTheAskedStop
  BY DEF FoldInv
<1>2. QED
  BY <1>1, FoldInvHolds, PTL

\* The slot names the oldest run noted for as long as one is left, so the run
\* the kernel executes reads its own id in it, or an older run is still to stop.
THEOREM StopsAreHeard == FoldSpec => []StopIsHeard
<1>1. QED
  BY OldestIsHeard, FoldInvHolds, PTL

----------------------------------------------------------------------------
(* Sequences of anything.                                                  *)

IsSeq(s) == s \in Seq({s[i] : i \in DOMAIN s})

LEMMA SeqOfAny ==
  ASSUME NEW T, NEW s \in Seq(T)
  PROVE  IsSeq(s)
<1>1. s \in [1..Len(s) -> T] /\ DOMAIN s = 1..Len(s) /\ Len(s) \in Nat
  BY LenProperties
<1>2. s \in [1..Len(s) -> {s[i] : i \in DOMAIN s}]
  BY <1>1
<1>3. QED
  BY <1>1, <1>2, SeqDef DEF IsSeq

LEMMA EmptyIsSeq == IsSeq(<<>>) /\ DOMAIN <<>> = {}
<1>1. IsSeq(<<>>)
  BY EmptySeq, SeqOfAny
<1>2. DOMAIN <<>> = {}
  OBVIOUS
<1>3. QED
  BY <1>1, <1>2

LEMMA SeqFacts ==
  ASSUME NEW s, IsSeq(s)
  PROVE  /\ DOMAIN s = 1..Len(s) /\ Len(s) \in Nat
         /\ s # <<>> => Len(s) \in DOMAIN s /\ 1 \in DOMAIN s
<1>1. DOMAIN s = 1..Len(s) /\ Len(s) \in Nat /\ (s # <<>> => Len(s) \in Nat \ {0})
  BY LenProperties, EmptySeq DEF IsSeq
<1>2. QED
  BY <1>1

LEMMA SeqSame ==
  ASSUME NEW s, IsSeq(s), NEW T, NEW f, f \in [DOMAIN s -> T]
  PROVE  IsSeq(f) /\ Len(f) = Len(s)
<1>1. DOMAIN s = 1..Len(s) /\ Len(s) \in Nat
  BY SeqFacts
<1>2. \E n \in Nat : f \in [1..n -> T]
  BY <1>1
<1>3. f \in Seq(T)
  BY <1>2, SeqDef
<1>4. DOMAIN f = 1..Len(f) /\ Len(f) \in Nat /\ DOMAIN f = DOMAIN s
  BY <1>3, LenProperties
<1>5. QED
  BY <1>1, <1>3, <1>4, SeqOfAny

LEMMA SeqAppend ==
  ASSUME NEW s, IsSeq(s), NEW e
  PROVE  /\ IsSeq(Append(s, e)) /\ Len(Append(s, e)) = Len(s) + 1
         /\ DOMAIN Append(s, e) = 1..(Len(s) + 1)
         /\ \A i \in DOMAIN s : Append(s, e)[i] = s[i]
         /\ Append(s, e)[Len(s) + 1] = e
<1> DEFINE T == {s[i] : i \in DOMAIN s} \cup {e}
<1>1. s \in Seq(T)
  BY SeqMonotonic DEF IsSeq
<1>2. e \in T
  OBVIOUS
<1> HIDE DEF T
<1>3. /\ Append(s, e) \in Seq(T) /\ Len(Append(s, e)) = Len(s) + 1
      /\ \A i \in 1..Len(s) : Append(s, e)[i] = s[i]
      /\ Append(s, e)[Len(s) + 1] = e
  BY <1>1, <1>2, AppendProperties
<1>4. QED
  BY <1>1, <1>3, SeqOfAny, LenProperties

LEMMA SeqTail ==
  ASSUME NEW s, IsSeq(s), s # <<>>
  PROVE  /\ IsSeq(Tail(s)) /\ Head(s) = s[1] /\ 1 \in DOMAIN s
         /\ \A i \in DOMAIN Tail(s) : i + 1 \in DOMAIN s /\ Tail(s)[i] = s[i + 1]
<1> DEFINE T == {s[i] : i \in DOMAIN s}
<1>1. s \in Seq(T)
  BY DEF IsSeq
<1>2. /\ Tail(s) \in Seq(T) /\ Len(Tail(s)) = Len(s) - 1 /\ Head(s) = s[1]
      /\ \A i \in 1..Len(Tail(s)) : Tail(s)[i] = s[i + 1]
  <2> HIDE DEF T
  <2>1. QED
    BY <1>1, HeadTailProperties
<1>3. DOMAIN Tail(s) = 1..Len(Tail(s))
  <2> HIDE DEF T
  <2>1. QED
    BY <1>2, LenProperties
<1>4. IsSeq(Tail(s))
  <2> HIDE DEF T
  <2>1. QED
    BY <1>2, SeqOfAny
<1>5. DOMAIN s = 1..Len(s) /\ Len(s) \in Nat \ {0}
  BY SeqFacts
<1>6. \A i \in 1..(Len(s) - 1) : i + 1 \in 1..Len(s)
  BY <1>5
<1>7. QED
  BY <1>2, <1>3, <1>4, <1>5, <1>6

LEMMA SeqFront ==
  ASSUME NEW s, IsSeq(s), s # <<>>
  PROVE  /\ IsSeq(Front(s)) /\ Last(s) = s[Len(s)] /\ Len(s) \in DOMAIN s
         /\ \A i \in DOMAIN Front(s) : i \in DOMAIN s /\ Front(s)[i] = s[i]
<1> DEFINE T == {s[i] : i \in DOMAIN s}
           n == Len(s)
<1>1. s \in Seq(T) /\ DOMAIN s = 1..n /\ n \in Nat /\ n \in DOMAIN s
  BY SeqFacts DEF IsSeq
<1>2. \A i \in 1..(n - 1) : s[i] \in T
  BY <1>1
<1> HIDE DEF T, n
<1>3. /\ SubSeq(s, 1, n - 1) \in Seq(T)
      /\ Len(SubSeq(s, 1, n - 1)) = IF 1 <= n - 1 THEN (n - 1) - 1 + 1 ELSE 0
      /\ \A i \in 1..((n - 1) - 1 + 1) : SubSeq(s, 1, n - 1)[i] = s[1 + i - 1]
  <2>1. 1 \in Int /\ n - 1 \in Int
    BY <1>1
  <2>2. QED
    BY <1>2, <2>1, SubSeqProperties
<1>4. IsSeq(SubSeq(s, 1, n - 1)) /\ DOMAIN SubSeq(s, 1, n - 1) = 1..Len(SubSeq(s, 1, n - 1))
  BY <1>3, SeqOfAny, LenProperties
<1>5. \A i \in DOMAIN SubSeq(s, 1, n - 1) : i \in DOMAIN s /\ SubSeq(s, 1, n - 1)[i] = s[i]
  BY <1>1, <1>3, <1>4
<1>6. QED
  BY <1>1, <1>4, <1>5 DEF Front, Last, n

LEMMA SeqCons ==
  ASSUME NEW s, IsSeq(s), NEW e
  PROVE  /\ IsSeq(<<e>> \o s)
         /\ \A i \in DOMAIN (<<e>> \o s) :
              (<<e>> \o s)[i] = e \/ \E j \in DOMAIN s : (<<e>> \o s)[i] = s[j]
<1> DEFINE T == {s[i] : i \in DOMAIN s} \cup {e}
<1>1. s \in Seq(T)
  BY SeqMonotonic DEF IsSeq
<1>2. <<e>> \in Seq(T) /\ Len(<<e>>) = 1 /\ <<e>>[1] = e
  OBVIOUS
<1> HIDE DEF T
<1>3. /\ <<e>> \o s \in Seq(T) /\ Len(<<e>> \o s) = 1 + Len(s)
      /\ \A i \in 1..(1 + Len(s)) : (<<e>> \o s)[i] = IF i <= 1 THEN <<e>>[i] ELSE s[i - 1]
  BY <1>1, <1>2, ConcatProperties
<1>4. DOMAIN (<<e>> \o s) = 1..(1 + Len(s)) /\ DOMAIN s = 1..Len(s) /\ Len(s) \in Nat
  BY <1>1, <1>3, LenProperties
<1>5. QED
  <2>1. \A i \in 1..(1 + Len(s)) : i = 1 \/ i - 1 \in DOMAIN s
    BY <1>4
  <2>2. \A i \in 1..(1 + Len(s)) : (<<e>> \o s)[i] = IF i = 1 THEN e ELSE s[i - 1]
    BY <1>2, <1>3, <1>4
  <2>3. QED
    BY <1>3, <1>4, <2>1, <2>2, SeqOfAny

----------------------------------------------------------------------------
(* What is so of the page at any time.                                     *)

Fields == {"steps", "past", "future", "load", "caps", "refreshes"}
CapFields == {"step", "load", "rev", "saw", "run", "edit", "fold", "pc", "undone"}
RunFields == {"pc", "load", "todo", "cancelled", "join", "alone"}

IsDiagram(st) == DOMAIN st = Steps /\ \A s \in Steps : st[s].rev \in Nat

\* The history's snapshots are diagrams.
HistoryOK(x) ==
  /\ IsSeq(x.past) /\ IsSeq(x.future)
  /\ \A i \in DOMAIN x.past : IsDiagram(x.past[i].was)
  /\ \A i \in DOMAIN x.future : IsDiagram(x.future[i])

\* A run of Refresh all that is not over has a step to go, each one a step.
RunOK(run) ==
  /\ RunFields \subseteq DOMAIN run
  /\ run.todo \in Seq(Steps)
  /\ run.pc \in {"confirm", "turn", "edit", "capture"} => run.todo # <<>>

\* A capture under way: its fold is one of those begun, its run waits for it,
\* and while its step's revision is the one it saw, so is the step's source.
CapOK(x, cap, runs) ==
  /\ CapFields \subseteq DOMAIN cap
  /\ cap.step \in Steps /\ cap.load \in Nat /\ cap.load <= x.load /\ cap.rev \in Nat
  /\ cap.pc = "fold" => cap.fold \in runs
  /\ cap.run > 0 => cap.run \in DOMAIN x.refreshes /\ x.refreshes[cap.run].pc = "capture"
  /\ ~cap.undone /\ cap.load = x.load =>
       /\ cap.rev <= x.steps[cap.step].rev
       /\ cap.rev = x.steps[cap.step].rev => cap.saw = x.steps[cap.step].src

LiveCap(x, c) == x.caps[c].pc # "over"

\* Two captures under way are never of one run.
OwnCapture(x) ==
  \A b, c \in DOMAIN x.caps :
    LiveCap(x, b) /\ LiveCap(x, c) /\ x.caps[b].run > 0 /\ x.caps[b].run = x.caps[c].run => b = c

Page(x, runs) ==
  /\ Fields \subseteq DOMAIN x
  /\ x.load \in Nat /\ IsDiagram(x.steps) /\ HistoryOK(x)
  /\ IsSeq(x.refreshes) /\ \A r \in DOMAIN x.refreshes : RunOK(x.refreshes[r])
  /\ IsSeq(x.caps)
  /\ \A c \in DOMAIN x.caps : LiveCap(x, c) => CapOK(x, x.caps[c], runs)
  /\ OwnCapture(x)

\* What differs from x in nothing of that, or in its runs alone.
KeptButRuns(x, y) ==
  /\ DOMAIN y = DOMAIN x
  /\ y.steps = x.steps /\ y.past = x.past /\ y.future = x.future
  /\ y.load = x.load /\ y.caps = x.caps
Kept(x, y) == KeptButRuns(x, y) /\ y.refreshes = x.refreshes

LEMMA KeptPage ==
  ASSUME NEW x, NEW y, NEW runs, NEW more, Page(x, runs), Kept(x, y), runs \subseteq more
  PROVE  Page(y, more)
<1>1. /\ Fields \subseteq DOMAIN y /\ y.load \in Nat /\ IsDiagram(y.steps) /\ HistoryOK(y)
      /\ IsSeq(y.refreshes) /\ \A r \in DOMAIN y.refreshes : RunOK(y.refreshes[r])
      /\ IsSeq(y.caps)
  BY DEF Page, Kept, KeptButRuns, HistoryOK
<1>2. ASSUME NEW c \in DOMAIN y.caps, LiveCap(y, c)
      PROVE  CapOK(y, y.caps[c], more)
  <2>1. CapOK(x, x.caps[c], runs)
    BY <1>2 DEF Page, Kept, KeptButRuns, LiveCap
  <2>2. QED
    BY <2>1 DEF CapOK, Kept, KeptButRuns
<1>3. OwnCapture(y)
  BY DEF Page, Kept, KeptButRuns, OwnCapture, LiveCap
<1>4. QED
  BY <1>1, <1>2, <1>3 DEF Page

\* One run moves, which no capture is of unless the run still waits for it.
LEMMA RunMoves ==
  ASSUME NEW x, NEW y, NEW runs, Page(x, runs), KeptButRuns(x, y),
         NEW r \in DOMAIN x.refreshes, NEW run, RunOK(run),
         y.refreshes = [x.refreshes EXCEPT ![r] = run],
         \/ run.pc = x.refreshes[r].pc
         \/ \A c \in DOMAIN x.caps : LiveCap(x, c) /\ x.caps[c].run > 0 => x.caps[c].run # r
  PROVE  Page(y, runs)
<1>1. /\ DOMAIN y.refreshes = DOMAIN x.refreshes /\ y.refreshes[r] = run
      /\ \A q \in DOMAIN x.refreshes : q # r => y.refreshes[q] = x.refreshes[q]
  OBVIOUS
<1>2. IsSeq(y.refreshes)
  <2>1. y.refreshes \in [DOMAIN x.refreshes -> {y.refreshes[q] : q \in DOMAIN x.refreshes}]
    OBVIOUS
  <2>2. IsSeq(x.refreshes)
    BY DEF Page
  <2>3. QED
    BY <2>1, <2>2, SeqSame
<1>3. \A q \in DOMAIN y.refreshes : RunOK(y.refreshes[q])
  BY <1>1 DEF Page
<1>4. /\ Fields \subseteq DOMAIN y /\ y.load \in Nat /\ IsDiagram(y.steps) /\ HistoryOK(y)
      /\ IsSeq(y.caps)
  BY DEF Page, KeptButRuns, HistoryOK
<1>5. ASSUME NEW c \in DOMAIN y.caps, LiveCap(y, c)
      PROVE  CapOK(y, y.caps[c], runs)
  <2>1. CapOK(x, x.caps[c], runs) /\ c \in DOMAIN x.caps /\ LiveCap(x, c) /\ y.caps[c] = x.caps[c]
    BY <1>5 DEF Page, KeptButRuns, LiveCap
  <2>2. QED
    BY <1>1, <2>1 DEF CapOK, KeptButRuns
<1>6. OwnCapture(y)
  BY DEF Page, KeptButRuns, OwnCapture, LiveCap
<1>7. QED
  BY <1>2, <1>3, <1>4, <1>5, <1>6 DEF Page

\* One capture moves, or ends.
LEMMA CapMoves ==
  ASSUME NEW x, NEW y, NEW runs, NEW more, Page(x, runs), runs \subseteq more,
         DOMAIN y = DOMAIN x, y.steps = x.steps, y.past = x.past, y.future = x.future,
         y.load = x.load, y.refreshes = x.refreshes,
         NEW c \in DOMAIN x.caps, LiveCap(x, c), NEW cap,
         y.caps = [x.caps EXCEPT ![c] = cap],
         cap.pc = "over" \/ (CapOK(x, cap, more) /\ cap.run = x.caps[c].run)
  PROVE  Page(y, more)
<1>1. /\ DOMAIN y.caps = DOMAIN x.caps /\ y.caps[c] = cap
      /\ \A b \in DOMAIN x.caps : b # c => y.caps[b] = x.caps[b]
  OBVIOUS
<1>2. IsSeq(y.caps)
  <2>1. y.caps \in [DOMAIN x.caps -> {y.caps[b] : b \in DOMAIN x.caps}]
    OBVIOUS
  <2>2. IsSeq(x.caps)
    BY DEF Page
  <2>3. QED
    BY <2>1, <2>2, SeqSame
<1>3. /\ Fields \subseteq DOMAIN y /\ y.load \in Nat /\ IsDiagram(y.steps) /\ HistoryOK(y)
      /\ IsSeq(y.refreshes) /\ \A r \in DOMAIN y.refreshes : RunOK(y.refreshes[r])
  BY DEF Page, HistoryOK
<1>4. ASSUME NEW b \in DOMAIN y.caps, LiveCap(y, b)
      PROVE  CapOK(y, y.caps[b], more)
  <2>1. CASE b = c
    BY <1>1, <1>4, <2>1 DEF CapOK, LiveCap
  <2>2. CASE b # c
    <3>1. CapOK(x, x.caps[b], runs) /\ y.caps[b] = x.caps[b]
      BY <1>1, <1>4, <2>2 DEF Page, LiveCap
    <3>2. QED
      BY <3>1 DEF CapOK
  <2>3. QED
    BY <2>1, <2>2
<1>5. OwnCapture(y)
  <2>1. \A b \in DOMAIN y.caps : LiveCap(y, b) => LiveCap(x, b) /\ y.caps[b].run = x.caps[b].run
    BY <1>1 DEF LiveCap
  <2>2. QED
    BY <1>1, <2>1 DEF Page, OwnCapture
<1>6. QED
  BY <1>2, <1>3, <1>4, <1>5 DEF Page

----------------------------------------------------------------------------
(* The operators the code's functions are.                                 *)

LEMMA PoseQueueKeeps ==
  ASSUME NEW x, NEW e, NEW key
  PROVE  Kept(x, Offered(x, key)) /\ Kept(x, SessionsEnded(x)) /\ Kept(x, Written(x, e))
<1>1. \A es : Kept(x, DoneEdits(x, es))
  BY DEF Kept, KeptButRuns, DoneEdits
<1>2. Kept(x, Offered(x, key))
  BY <1>1 DEF Kept, KeptButRuns, Offered
<1>3. Kept(x, SessionsEnded(x))
  BY <1>1 DEF Kept, KeptButRuns, SessionsEnded
<1>4. Kept(x, Written(x, e))
  BY <1>1 DEF Kept, KeptButRuns, Written
<1>5. QED
  BY <1>2, <1>3, <1>4

\* No capture under way is of the run r.
Alone(x, r) == \A c \in DOMAIN x.caps : LiveCap(x, c) /\ x.caps[c].run > 0 => x.caps[c].run # r

LEMMA RunEndsPage ==
  ASSUME NEW x, NEW runs, Page(x, runs), NEW r \in DOMAIN x.refreshes, Alone(x, r)
  PROVE  Page(RunEnds(x, r), runs) /\ KeptButRuns(x, RunEnds(x, r))
<1> DEFINE y == RunEnds(x, r)
           run == [x.refreshes[r] EXCEPT !.pc = "over"]
<1>1. "refreshes" \in DOMAIN x /\ RunOK(x.refreshes[r])
  BY DEF Page, Fields
<1>2. KeptButRuns(x, y) /\ y.refreshes = [x.refreshes EXCEPT ![r] = run]
  BY <1>1 DEF KeptButRuns, RunEnds
<1>3. RunOK(run)
  BY <1>1 DEF RunOK, RunFields
<1>4. QED
  BY <1>2, <1>3, RunMoves DEF Alone

LEMMA NextStepPage ==
  ASSUME NEW x, NEW runs, Page(x, runs), NEW r \in DOMAIN x.refreshes, Alone(x, r),
         x.refreshes[r].todo # <<>>
  PROVE  Page(NextStep(x, r), runs) /\ KeptButRuns(x, NextStep(x, r))
<1> DEFINE todo == x.refreshes[r].todo
           y == [x EXCEPT !.refreshes[r].todo = Tail(@), !.refreshes[r].pc = "turn"]
           run == [x.refreshes[r] EXCEPT !.todo = Tail(@), !.pc = "turn"]
           over == [run EXCEPT !.pc = "over"]
<1>1. "refreshes" \in DOMAIN x /\ RunOK(x.refreshes[r])
  BY DEF Page, Fields
<1>2. todo \in Seq(Steps) /\ Tail(todo) \in Seq(Steps) /\ Len(Tail(todo)) = Len(todo) - 1
  BY <1>1, HeadTailProperties DEF RunOK
<1>3. Len(todo) # 1 => Tail(todo) # <<>>
  <2>1. Len(todo) \in Nat /\ Len(<<>>) = 0
    BY <1>2, LenProperties, EmptySeq
  <2> HIDE DEF todo
  <2>2. Tail(todo) = <<>> => Len(todo) - 1 = 0
    BY <1>2, <2>1
  <2>3. QED
    BY <2>1, <2>2
<1>4. KeptButRuns(x, y) /\ y.refreshes = [x.refreshes EXCEPT ![r] = run]
  BY <1>1 DEF KeptButRuns
<1>5. CASE Len(todo) # 1
  <2>1. RunOK(run)
    BY <1>1, <1>2, <1>3, <1>5 DEF RunOK, RunFields
  <2>2. NextStep(x, r) = y
    BY <1>5 DEF NextStep
  <2> HIDE DEF y, run
  <2>3. QED
    BY <1>4, <2>1, <2>2, RunMoves DEF Alone
<1>6. CASE Len(todo) = 1
  <2>1. NextStep(x, r) = RunEnds(y, r)
    BY <1>6 DEF NextStep
  <2>2. RunOK(over)
    BY <1>1, <1>2 DEF RunOK, RunFields
  <2>3. KeptButRuns(x, RunEnds(y, r)) /\ RunEnds(y, r).refreshes = [x.refreshes EXCEPT ![r] = over]
    BY <1>1, <1>4 DEF KeptButRuns, RunEnds
  <2> HIDE DEF y, over
  <2>4. QED
    BY <2>1, <2>2, <2>3, RunMoves DEF Alone
<1>7. QED
  BY <1>5, <1>6

LEMMA AfterCapturePage ==
  ASSUME NEW x, NEW runs, Page(x, runs), NEW r \in DOMAIN x.refreshes, Alone(x, r),
         x.refreshes[r].todo # <<>>, NEW outcome
  PROVE  Page(AfterCapture(x, r, outcome), runs) /\ KeptButRuns(x, AfterCapture(x, r, outcome))
<1> DEFINE join == IF outcome = "changed" /\ x.refreshes[r].join = 0 THEN Newest(x) ELSE x.refreshes[r].join
           run == [x.refreshes[r] EXCEPT !.join = join]
           y == [x EXCEPT !.refreshing = NoStep,
                          !.refreshes[r].join = IF outcome = "changed" /\ @ = 0 THEN Newest(x) ELSE @]
           z == [y EXCEPT !.progress = TRUE]
<1>1. "refreshes" \in DOMAIN x /\ RunOK(x.refreshes[r])
  BY DEF Page, Fields
<1>2. /\ KeptButRuns(x, y) /\ y.refreshes = [x.refreshes EXCEPT ![r] = run]
      /\ KeptButRuns(x, z) /\ z.refreshes = [x.refreshes EXCEPT ![r] = run]
  BY <1>1 DEF KeptButRuns
<1>3. RunOK(run) /\ run.todo = x.refreshes[r].todo
  BY <1>1 DEF RunOK, RunFields
<1>4. Page(y, runs) /\ Page(z, runs)
  <2> HIDE DEF y, z, run
  <2>1. Page(y, runs)
    BY <1>2, <1>3, RunMoves DEF Alone
  <2>2. Page(z, runs)
    BY <1>2, <1>3, RunMoves DEF Alone
  <2>3. QED
    BY <2>1, <2>2
<1>5. Alone(y, r) /\ Alone(z, r) /\ r \in DOMAIN y.refreshes /\ r \in DOMAIN z.refreshes /\ z.refreshes[r].todo # <<>>
  BY <1>2, <1>3 DEF Alone, KeptButRuns, LiveCap
<1>6. AfterCapture(x, r, outcome) = IF outcome = "stopped" THEN RunEnds(y, r) ELSE NextStep(z, r)
  BY DEF AfterCapture
<1> HIDE DEF y, z
<1>7. CASE outcome = "stopped"
  <2>1. Page(RunEnds(y, r), runs) /\ KeptButRuns(y, RunEnds(y, r))
    BY <1>4, <1>5, RunEndsPage
  <2>2. QED
    BY <1>2, <1>6, <1>7, <2>1 DEF KeptButRuns
<1>8. CASE outcome # "stopped"
  <2>1. Page(NextStep(z, r), runs) /\ KeptButRuns(z, NextStep(z, r))
    BY <1>4, <1>5, NextStepPage
  <2>2. QED
    BY <1>2, <1>6, <1>8, <2>1 DEF KeptButRuns
<1>9. QED
  BY <1>7, <1>8

LEMMA FinishPage ==
  ASSUME NEW x, NEW runs, Page(x, runs), NEW c \in DOMAIN x.caps, LiveCap(x, c), NEW outcome
  PROVE  LET y == Finish(x, c, outcome) IN
         /\ Page(y, runs) /\ y.steps = x.steps /\ y.load = x.load
         /\ \A b \in DOMAIN x.caps : b # c => y.caps[b] = x.caps[b]
<1> DEFINE cap == x.caps[c]
           y == [x EXCEPT !.marks[cap.step] = None, !.caps[c] = Ended]
<1>1. "caps" \in DOMAIN x /\ CapOK(x, cap, runs)
  BY DEF Page, Fields
<1>2. /\ DOMAIN y = DOMAIN x /\ y.steps = x.steps /\ y.past = x.past /\ y.future = x.future
      /\ y.load = x.load /\ y.refreshes = x.refreshes /\ y.caps = [x.caps EXCEPT ![c] = Ended]
  BY <1>1
<1>3. Ended.pc = "over"
  BY DEF Ended
<1>4. Finish(x, c, outcome) =
        IF cap.edit > 0 THEN Written(y, cap.edit)
        ELSE IF cap.run > 0 THEN AfterCapture(y, cap.run, outcome) ELSE y
  BY DEF Finish
<1>5. /\ DOMAIN y.caps = DOMAIN x.caps /\ y.caps[c] = Ended
      /\ \A b \in DOMAIN x.caps : b # c => y.caps[b] = x.caps[b]
  BY <1>2
<1> HIDE DEF y
<1>6. Page(y, runs)
  BY <1>2, <1>3, CapMoves
<1>7. Page(Written(y, cap.edit), runs) /\ Kept(y, Written(y, cap.edit))
  BY <1>6, PoseQueueKeeps, KeptPage
<1>8. ASSUME cap.run > 0
      PROVE  Page(AfterCapture(y, cap.run, outcome), runs) /\ KeptButRuns(y, AfterCapture(y, cap.run, outcome))
  <2>1. cap.run \in DOMAIN y.refreshes /\ y.refreshes[cap.run].pc = "capture"
    BY <1>1, <1>2, <1>8 DEF CapOK
  <2>2. y.refreshes[cap.run].todo # <<>>
    BY <1>6, <2>1 DEF Page, RunOK
  <2>3. Alone(y, cap.run)
    <3>1. ASSUME NEW b \in DOMAIN y.caps, LiveCap(y, b), y.caps[b].run > 0, y.caps[b].run = cap.run PROVE FALSE
      <4>1. b # c /\ LiveCap(x, b) /\ y.caps[b] = x.caps[b]
        BY <1>3, <1>5, <3>1 DEF LiveCap
      <4>2. QED
        BY <1>5, <1>8, <3>1, <4>1 DEF Page, OwnCapture
    <3>2. QED
      BY <3>1 DEF Alone
  <2>4. QED
    BY <1>6, <2>1, <2>2, <2>3, AfterCapturePage
<1>9. CASE cap.edit > 0
  BY <1>2, <1>4, <1>5, <1>7, <1>9 DEF Kept, KeptButRuns
<1>10. CASE ~(cap.edit > 0) /\ cap.run > 0
  BY <1>2, <1>4, <1>5, <1>8, <1>10 DEF KeptButRuns
<1>11. CASE ~(cap.edit > 0) /\ ~(cap.run > 0)
  BY <1>2, <1>4, <1>5, <1>6, <1>11
<1>12. QED
  BY <1>9, <1>10, <1>11

\* A capture begun has seen the source it finds; it is the only one of its run.
LEMMA BegunPage ==
  ASSUME NEW x, NEW runs, Page(x, runs), NEW s \in Steps, NEW run, NEW edit,
         run > 0 => run \in DOMAIN x.refreshes /\ x.refreshes[run].pc = "capture" /\ Alone(x, run)
  PROVE  LET y == Begun(x, s, run, edit) IN
         /\ Page(y, runs) /\ y.steps = x.steps
         /\ \A b \in DOMAIN x.caps : y.caps[b] = x.caps[b]
<1> DEFINE y == Begun(x, s, run, edit)
           n == Len(x.caps) + 1
           cap == [step |-> s, load |-> x.load, rev |-> x.steps[s].rev, saw |-> x.steps[s].src,
                   lands |-> IF run > 0 THEN x.steps[s].src ELSE x.sources + 1,
                   drawn |-> x.pattern, run |-> run, edit |-> edit,
                   fold |-> 0, pc |-> "prepare", undone |-> FALSE]
<1>1. "caps" \in DOMAIN x /\ x.load \in Nat /\ IsDiagram(x.steps) /\ IsSeq(x.caps)
  BY DEF Page, Fields
<1>2. /\ DOMAIN y = DOMAIN x /\ y.steps = x.steps /\ y.past = x.past /\ y.future = x.future
      /\ y.load = x.load /\ y.refreshes = x.refreshes /\ y.caps = Append(x.caps, cap)
  BY <1>1 DEF Begun
<1>3. /\ cap.step = s /\ cap.load = x.load /\ cap.rev = x.steps[s].rev /\ cap.saw = x.steps[s].src
      /\ cap.run = run /\ cap.pc = "prepare" /\ CapFields \subseteq DOMAIN cap
  BY DEF CapFields
<1> HIDE DEF y, cap
<1>4. /\ IsSeq(y.caps) /\ DOMAIN y.caps = 1..n /\ y.caps[n] = cap
      /\ DOMAIN x.caps = 1..Len(x.caps) /\ Len(x.caps) \in Nat
      /\ \A b \in DOMAIN x.caps : y.caps[b] = x.caps[b]
  BY <1>1, <1>2, SeqAppend, SeqFacts
<1>5. \A b \in DOMAIN y.caps : b = n \/ b \in DOMAIN x.caps
  BY <1>4
<1>6. CapOK(y, cap, runs)
  BY <1>1, <1>2, <1>3 DEF CapOK, IsDiagram
<1>7. ASSUME NEW b \in DOMAIN x.caps, LiveCap(x, b) PROVE CapOK(y, y.caps[b], runs)
  BY <1>2, <1>4, <1>7 DEF Page, CapOK
<1>8. \A b \in DOMAIN y.caps : LiveCap(y, b) => CapOK(y, y.caps[b], runs)
  BY <1>4, <1>5, <1>6, <1>7 DEF LiveCap
<1>9. OwnCapture(y)
  <2>1. ASSUME NEW b \in DOMAIN y.caps, NEW c \in DOMAIN y.caps,
               LiveCap(y, b), LiveCap(y, c), y.caps[b].run > 0, y.caps[b].run = y.caps[c].run, b # c
        PROVE  FALSE
    <3>1. CASE b \in DOMAIN x.caps /\ c \in DOMAIN x.caps
      BY <1>4, <2>1, <3>1 DEF Page, OwnCapture, LiveCap
    <3>2. CASE b = n /\ c \in DOMAIN x.caps
      BY <1>3, <1>4, <2>1, <3>2 DEF Alone, LiveCap
    <3>3. CASE c = n /\ b \in DOMAIN x.caps
      BY <1>3, <1>4, <2>1, <3>3 DEF Alone, LiveCap
    <3>4. QED
      BY <1>5, <2>1, <3>1, <3>2, <3>3
  <2>2. QED
    BY <2>1 DEF OwnCapture
<1>10. /\ Fields \subseteq DOMAIN y /\ y.load \in Nat /\ IsDiagram(y.steps) /\ HistoryOK(y)
       /\ IsSeq(y.refreshes) /\ \A r \in DOMAIN y.refreshes : RunOK(y.refreshes[r])
  BY <1>2 DEF Page, HistoryOK
<1>11. Page(y, runs)
  BY <1>4, <1>8, <1>9, <1>10 DEF Page
<1>12. QED
  BY <1>2, <1>4, <1>11 DEF y

LEMMA TryStepPage ==
  ASSUME NEW x, NEW runs, Page(x, runs), NEW r \in DOMAIN x.refreshes, Alone(x, r),
         x.refreshes[r].todo # <<>>
  PROVE  LET y == TryStep(x, r) IN
         /\ Page(y, runs) /\ y.steps = x.steps
         /\ \A b \in DOMAIN x.caps : y.caps[b] = x.caps[b]
<1> DEFINE run == x.refreshes[r]
           s == Head(run.todo)
           y == [Begun(x, s, r, 0) EXCEPT !.refreshing = s, !.refreshes[r].pc = "capture"]
           z == [x EXCEPT !.refreshing = s, !.refreshes[r].pc = "capture"]
           taken == [run EXCEPT !.pc = "capture"]
<1>1. "refreshes" \in DOMAIN x /\ RunOK(run) /\ r > 0
  BY SeqFacts DEF Page, Fields
<1>2. s \in Steps
  BY <1>1, HeadTailProperties DEF RunOK
<1>3. Page(RunEnds(x, r), runs) /\ KeptButRuns(x, RunEnds(x, r))
  BY RunEndsPage
<1>4. Page(NextStep(x, r), runs) /\ KeptButRuns(x, NextStep(x, r))
  BY NextStepPage
<1>5. Page(AfterCapture(x, r, "busy"), runs) /\ KeptButRuns(x, AfterCapture(x, r, "busy"))
  BY AfterCapturePage
<1>6. Page(y, runs) /\ y.steps = x.steps /\ \A b \in DOMAIN x.caps : y.caps[b] = x.caps[b]
  <2>1. KeptButRuns(x, z) /\ z.refreshes = [x.refreshes EXCEPT ![r] = taken]
    BY <1>1 DEF KeptButRuns
  <2>2. RunOK(taken)
    BY <1>1 DEF RunOK, RunFields
  <2>3. Page(z, runs)
    <3> HIDE DEF z, taken
    <3>1. QED
      BY <2>1, <2>2, RunMoves DEF Alone
  <2>4. r \in DOMAIN z.refreshes /\ z.refreshes[r].pc = "capture" /\ Alone(z, r)
    BY <1>1, <2>1 DEF Alone, KeptButRuns, LiveCap, RunOK, RunFields
  <2>5. LET w == Begun(z, s, r, 0) IN
        Page(w, runs) /\ w.steps = z.steps /\ \A b \in DOMAIN z.caps : w.caps[b] = z.caps[b]
    <3> HIDE DEF z, s
    <3>1. QED
      BY <1>2, <2>3, <2>4, BegunPage
  <2>6. Kept(Begun(z, s, r, 0), y)
    <3>1. z.load = x.load /\ z.steps = x.steps /\ z.sources = x.sources /\ z.pattern = x.pattern /\ z.caps = x.caps
      OBVIOUS
    <3>2. y.caps = Begun(x, s, r, 0).caps /\ Begun(z, s, r, 0).caps = Begun(x, s, r, 0).caps
      <4>1. "caps" \in DOMAIN x /\ "caps" \in DOMAIN z
        BY DEF Page, Fields
      <4>2. Begun(z, s, r, 0).caps = Begun(x, s, r, 0).caps
        <5> HIDE DEF z, s
        <5>1. QED
          BY <3>1, <4>1 DEF Begun
      <4>3. QED
        BY <4>2
    <3>3. /\ DOMAIN y = DOMAIN x /\ y.steps = x.steps /\ y.past = x.past /\ y.future = x.future
          /\ y.load = x.load /\ y.refreshes = [x.refreshes EXCEPT ![r] = taken]
      BY <1>1 DEF Begun
    <3>4. /\ DOMAIN Begun(z, s, r, 0) = DOMAIN z /\ Begun(z, s, r, 0).steps = z.steps
          /\ Begun(z, s, r, 0).past = z.past /\ Begun(z, s, r, 0).future = z.future
          /\ Begun(z, s, r, 0).load = z.load /\ Begun(z, s, r, 0).refreshes = z.refreshes
      BY DEF Begun
    <3> HIDE DEF y, z, taken, s
    <3>5. QED
      BY <2>1, <3>2, <3>3, <3>4 DEF Kept, KeptButRuns
  <2> HIDE DEF y, z, s
  <2>7. Page(y, runs)
    BY <2>5, <2>6, KeptPage
  <2>8. QED
    BY <2>1, <2>5, <2>6, <2>7 DEF Kept, KeptButRuns
<1>7. TryStep(x, r) =
        IF run.cancelled \/ x.load # run.load THEN RunEnds(x, r)
        ELSE IF x.steps[s].drawn = None THEN NextStep(x, r)
        ELSE IF x.marks[s] # None THEN AfterCapture(x, r, "busy")
        ELSE y
  BY DEF TryStep
<1> HIDE DEF y, s, run
<1>8. TryStep(x, r) \in {RunEnds(x, r), NextStep(x, r), AfterCapture(x, r, "busy"), y}
  BY <1>7
<1>9. QED
  BY <1>3, <1>4, <1>5, <1>6, <1>8 DEF KeptButRuns

LEMMA GoOnPage ==
  ASSUME NEW x, NEW runs, Page(x, runs), NEW r \in DOMAIN x.refreshes, Alone(x, r),
         NEW stale \in Seq(Steps), stale # <<>>
  PROVE  Page(GoOn(x, r, stale), runs) /\ KeptButRuns(x, GoOn(x, r, stale))
<1> DEFINE run == [x.refreshes[r] EXCEPT !.pc = "turn", !.todo = stale]
           y == GoOn(x, r, stale)
<1>1. "refreshes" \in DOMAIN x /\ RunOK(x.refreshes[r])
  BY DEF Page, Fields
<1>2. KeptButRuns(x, y) /\ y.refreshes = [x.refreshes EXCEPT ![r] = run]
  BY <1>1 DEF KeptButRuns, GoOn
<1>3. RunOK(run)
  BY <1>1 DEF RunOK, RunFields
<1> HIDE DEF run, y
<1>4. Page(y, runs) /\ KeptButRuns(x, y)
  BY <1>2, <1>3, RunMoves DEF Alone
<1>5. QED
  BY <1>4 DEF y

\* What is stale is a sequence of steps.
LEMMA StaleSteps ==
  ASSUME NEW x
  PROVE  Stale(x) \in Seq(Steps)
<1> DEFINE S == {s \in Steps : x.steps[s].drawn \notin {None, x.pattern}}
           n == Cardinality(S)
<1>1. IsFiniteSet(S) /\ n \in Nat /\ ExistsBijection(1..n, S)
  BY CaptureAssumption, FS_Subset, FS_CardinalityType
<1>2. \E f \in [1..n -> S] : IsInjective(f)
  BY <1>1 DEF ExistsBijection, Bijection, Injection
<1>3. SetToSeq(S) \in [1..n -> S]
  BY <1>2 DEF SetToSeq
<1>4. SetToSeq(S) \in [1..n -> Steps]
  BY <1>3
<1>5. \E m \in Nat : SetToSeq(S) \in [1..m -> Steps]
  BY <1>1, <1>4
<1>6. QED
  BY <1>5, SeqDef DEF Stale

\* A commit gives the steps it changes a revision of their own.
LEMMA CommitPage ==
  ASSUME NEW x, NEW runs, Page(x, runs), NEW by, NEW st, IsDiagram(st), NEW extend,
         \A s \in Steps : st[s] = x.steps[s] \/ st[s].rev > x.steps[s].rev
  PROVE  LET y == Commit(x, by, st, extend) IN
         Page(y, runs) /\ y.caps = x.caps /\ y.load = x.load /\ y.refreshes = x.refreshes
<1> DEFINE y == Commit(x, by, st, extend)
           entry == [n |-> x.entries + 1, by |-> by, was |-> x.steps]
<1>1. Fields \subseteq DOMAIN x /\ IsDiagram(x.steps) /\ HistoryOK(x)
  BY DEF Page
<1>2. /\ DOMAIN y = DOMAIN x /\ y.caps = x.caps /\ y.load = x.load /\ y.refreshes = x.refreshes
      /\ y.steps \in {x.steps, st}
      /\ y.past \in {x.past, Append(x.past, entry)}
      /\ y.future \in {x.future, <<>>}
  BY <1>1 DEF Commit, Fields
<1>3. /\ IsSeq(Append(x.past, entry)) /\ IsSeq(<<>>) /\ DOMAIN <<>> = {}
      /\ \A i \in DOMAIN Append(x.past, entry) : IsDiagram(Append(x.past, entry)[i].was)
  <2>1. IsSeq(x.past) /\ entry.was = x.steps
    BY <1>1 DEF HistoryOK
  <2>2. /\ IsSeq(Append(x.past, entry)) /\ DOMAIN Append(x.past, entry) = 1..(Len(x.past) + 1)
        /\ \A i \in DOMAIN x.past : Append(x.past, entry)[i] = x.past[i]
        /\ Append(x.past, entry)[Len(x.past) + 1] = entry
        /\ DOMAIN x.past = 1..Len(x.past) /\ Len(x.past) \in Nat
    <3> HIDE DEF entry
    <3>1. QED
      BY <2>1, SeqAppend, SeqFacts
  <2>3. \A i \in 1..(Len(x.past) + 1) : i = Len(x.past) + 1 \/ i \in DOMAIN x.past
    BY <2>2
  <2>4. IsSeq(<<>>)
    BY EmptySeq, SeqOfAny
  <2> HIDE DEF entry
  <2>5. QED
    BY <1>1, <2>1, <2>2, <2>3, <2>4 DEF HistoryOK
<1> HIDE DEF y, entry
<1>4. HistoryOK(y)
  BY <1>1, <1>2, <1>3 DEF HistoryOK
<1>5. ASSUME NEW c \in DOMAIN x.caps, LiveCap(x, c)
      PROVE  CapOK(y, x.caps[c], runs)
  <2> DEFINE cap == x.caps[c]
  <2>1. CapOK(x, cap, runs)
    BY <1>5 DEF Page
  <2>2. y.steps[cap.step] = x.steps[cap.step] \/ y.steps[cap.step].rev > x.steps[cap.step].rev
    BY <1>2, <2>1 DEF CapOK
  <2>3. x.steps[cap.step].rev \in Nat /\ y.steps[cap.step].rev \in Nat
    BY <1>1, <1>2, <2>1 DEF CapOK, IsDiagram
  <2>4. QED
    BY <1>2, <2>1, <2>2, <2>3 DEF CapOK
<1>6. Page(y, runs)
  BY <1>1, <1>2, <1>4, <1>5 DEF Page, LiveCap, OwnCapture
<1>7. QED
  BY <1>2, <1>6 DEF y

\* Every run is told something that moves none of them, and every capture
\* something that leaves it what it is.
LEMMA AllTold ==
  ASSUME NEW x, NEW y, NEW runs, Page(x, runs),
         DOMAIN y = DOMAIN x, y.load = x.load, IsDiagram(y.steps), HistoryOK(y),
         IsSeq(y.refreshes), DOMAIN y.refreshes = DOMAIN x.refreshes,
         \A r \in DOMAIN x.refreshes :
           RunOK(y.refreshes[r]) /\ y.refreshes[r].pc = x.refreshes[r].pc,
         IsSeq(y.caps), DOMAIN y.caps = DOMAIN x.caps,
         \A c \in DOMAIN x.caps :
           \/ y.caps[c].pc = "over"
           \/ LiveCap(x, c) /\ y.caps[c].run = x.caps[c].run /\ CapOK(y, y.caps[c], runs)
  PROVE  Page(y, runs)
<1>1. \A c \in DOMAIN y.caps : LiveCap(y, c) =>
        LiveCap(x, c) /\ y.caps[c].run = x.caps[c].run /\ CapOK(y, y.caps[c], runs)
  BY DEF LiveCap
<1>2. OwnCapture(y)
  BY <1>1 DEF Page, OwnCapture
<1>3. QED
  BY <1>1, <1>2 DEF Page

LEMMA DisturbPage ==
  ASSUME NEW x, NEW runs, Page(x, runs), NEW by
  PROVE  LET y == Disturb(x, by) IN
         Page(y, runs) /\ y.caps = x.caps /\ y.steps = x.steps /\ y.load = x.load
<1> DEFINE y == Disturb(x, by)
           told == [r \in DOMAIN x.refreshes |-> [x.refreshes[r] EXCEPT !.alone = @ /\ r = by]]
<1>1. "refreshes" \in DOMAIN x /\ IsSeq(x.refreshes) /\ \A r \in DOMAIN x.refreshes : RunOK(x.refreshes[r])
  BY DEF Page, Fields
<1>2. KeptButRuns(x, y) /\ y.refreshes = told
  BY <1>1 DEF KeptButRuns, Disturb
<1>3. \A r \in DOMAIN x.refreshes : RunOK(told[r]) /\ told[r].pc = x.refreshes[r].pc
  BY <1>1 DEF RunOK, RunFields
<1>4. told \in [DOMAIN x.refreshes -> {told[r] : r \in DOMAIN x.refreshes}] /\ DOMAIN told = DOMAIN x.refreshes
  OBVIOUS
<1> HIDE DEF told, y
<1>5. IsSeq(told)
  BY <1>1, <1>4, SeqSame
<1>6. IsDiagram(y.steps) /\ HistoryOK(y) /\ IsSeq(y.caps)
  BY <1>2 DEF Page, KeptButRuns, HistoryOK
<1>7. \A c \in DOMAIN x.caps : LiveCap(x, c) => CapOK(y, y.caps[c], runs)
  BY <1>2, <1>3, <1>4 DEF Page, KeptButRuns, CapOK
<1>8. Page(y, runs)
  <2>1. \A c \in DOMAIN x.caps :
           \/ y.caps[c].pc = "over"
           \/ LiveCap(x, c) /\ y.caps[c].run = x.caps[c].run /\ CapOK(y, y.caps[c], runs)
    BY <1>2, <1>7 DEF KeptButRuns, LiveCap
  <2>2. /\ DOMAIN y = DOMAIN x /\ y.load = x.load /\ DOMAIN y.caps = DOMAIN x.caps
        /\ IsSeq(y.refreshes) /\ DOMAIN y.refreshes = DOMAIN x.refreshes
        /\ \A r \in DOMAIN x.refreshes : RunOK(y.refreshes[r]) /\ y.refreshes[r].pc = x.refreshes[r].pc
    BY <1>2, <1>3, <1>4, <1>5 DEF KeptButRuns
  <2>3. QED
    BY <1>6, <2>1, <2>2, AllTold
<1>9. QED
  BY <1>2, <1>8 DEF KeptButRuns, y

\* A travel of the history tells every capture under way.
LEMMA OutdatedCaps ==
  ASSUME NEW x, NEW runs, Page(x, runs)
  PROVE  LET told == Outdated(x.caps) IN
         /\ IsSeq(told) /\ DOMAIN told = DOMAIN x.caps
         /\ \A c \in DOMAIN x.caps :
              IF LiveCap(x, c) THEN told[c] = [x.caps[c] EXCEPT !.undone = TRUE] ELSE told[c] = x.caps[c]
<1> DEFINE told == Outdated(x.caps)
<1>1. told \in [DOMAIN x.caps -> {told[c] : c \in DOMAIN x.caps}] /\ DOMAIN told = DOMAIN x.caps
  BY DEF Outdated
<1>2. IsSeq(x.caps)
  BY DEF Page
<1>3. IsSeq(told)
  <2> HIDE DEF told
  <2>1. QED
    BY <1>1, <1>2, SeqSame
<1>4. QED
  BY <1>1, <1>3 DEF Outdated, LiveCap

LEMMA TravelPage ==
  ASSUME NEW x, NEW y, NEW runs, Page(x, runs),
         DOMAIN y = DOMAIN x, y.load = x.load, IsDiagram(y.steps), HistoryOK(y),
         y.refreshes = x.refreshes, y.caps = Outdated(x.caps)
  PROVE  Page(y, runs) /\ \A c \in DOMAIN x.caps : y.caps[c].pc = x.caps[c].pc
<1>1. /\ IsSeq(y.caps) /\ DOMAIN y.caps = DOMAIN x.caps
      /\ \A c \in DOMAIN x.caps :
           IF LiveCap(x, c) THEN y.caps[c] = [x.caps[c] EXCEPT !.undone = TRUE] ELSE y.caps[c] = x.caps[c]
  BY OutdatedCaps
<1>2. ASSUME NEW c \in DOMAIN x.caps, LiveCap(x, c)
      PROVE  CapOK(y, y.caps[c], runs) /\ y.caps[c].run = x.caps[c].run /\ y.caps[c].pc = x.caps[c].pc
  <2>1. CapOK(x, x.caps[c], runs)
    BY <1>2 DEF Page
  <2>2. y.caps[c] = [x.caps[c] EXCEPT !.undone = TRUE] /\ "undone" \in DOMAIN x.caps[c]
    BY <1>1, <1>2, <2>1 DEF CapOK, CapFields
  <2>3. y.caps[c].undone = TRUE
    BY <2>2
  <2>4. QED
    BY <2>1, <2>2, <2>3 DEF CapOK
<1>3. \A c \in DOMAIN x.caps :
           \/ y.caps[c].pc = "over"
           \/ LiveCap(x, c) /\ y.caps[c].run = x.caps[c].run /\ CapOK(y, y.caps[c], runs)
  BY <1>1, <1>2 DEF LiveCap
<1>4. IsSeq(x.refreshes) /\ \A r \in DOMAIN x.refreshes : RunOK(x.refreshes[r])
  BY DEF Page
<1>5. Page(y, runs)
  BY <1>1, <1>3, <1>4, AllTold
<1>6. QED
  BY <1>1, <1>2, <1>5

LEMMA UndonePage ==
  ASSUME NEW x, NEW runs, Page(x, runs), x.past # <<>>
  PROVE  Page(Undone(x), runs) /\ \A c \in DOMAIN x.caps : Undone(x).caps[c].pc = x.caps[c].pc
<1> DEFINE y == Undone(x)
<1>1. Fields \subseteq DOMAIN x /\ IsDiagram(x.steps) /\ HistoryOK(x)
  BY DEF Page
<1>2. /\ DOMAIN y = DOMAIN x /\ y.load = x.load /\ y.refreshes = x.refreshes
      /\ y.caps = Outdated(x.caps) /\ y.steps = Last(x.past).was
      /\ y.past = Front(x.past) /\ y.future = <<x.steps>> \o x.future
  BY <1>1 DEF Undone, Fields
<1> HIDE DEF y
<1>3. /\ IsSeq(y.past) /\ Last(x.past) = x.past[Len(x.past)] /\ Len(x.past) \in DOMAIN x.past
      /\ \A i \in DOMAIN y.past : i \in DOMAIN x.past /\ y.past[i] = x.past[i]
  BY <1>1, <1>2, SeqFront DEF HistoryOK
<1>4. /\ IsSeq(y.future)
      /\ \A i \in DOMAIN y.future : y.future[i] = x.steps \/ \E j \in DOMAIN x.future : y.future[i] = x.future[j]
  <2>1. IsSeq(x.future)
    BY <1>1 DEF HistoryOK
  <2>2. /\ IsSeq(<<x.steps>> \o x.future)
        /\ \A i \in DOMAIN (<<x.steps>> \o x.future) :
             \/ (<<x.steps>> \o x.future)[i] = x.steps
             \/ \E j \in DOMAIN x.future : (<<x.steps>> \o x.future)[i] = x.future[j]
    BY <2>1, SeqCons
  <2>3. y.future = <<x.steps>> \o x.future
    BY <1>2
  <2>4. QED
    BY <2>2, <2>3, Zenon
<1>5. IsDiagram(y.steps)
  BY <1>1, <1>2, <1>3 DEF HistoryOK
<1>6. HistoryOK(y)
  BY <1>1, <1>3, <1>4 DEF HistoryOK
<1>7. Page(y, runs) /\ \A c \in DOMAIN x.caps : y.caps[c].pc = x.caps[c].pc
  BY <1>2, <1>5, <1>6, TravelPage
<1>8. QED
  BY <1>7 DEF y

LEMMA RedonePage ==
  ASSUME NEW x, NEW runs, Page(x, runs), x.future # <<>>
  PROVE  Page(Redone(x), runs) /\ \A c \in DOMAIN x.caps : Redone(x).caps[c].pc = x.caps[c].pc
<1> DEFINE y == Redone(x)
           entry == [n |-> x.entries + 1, by |-> 0, was |-> x.steps]
<1>1. Fields \subseteq DOMAIN x /\ IsDiagram(x.steps) /\ HistoryOK(x)
  BY DEF Page
<1>2. /\ DOMAIN y = DOMAIN x /\ y.load = x.load /\ y.refreshes = x.refreshes
      /\ y.caps = Outdated(x.caps) /\ y.steps = Head(x.future)
      /\ y.past = Append(x.past, entry) /\ y.future = Tail(x.future)
  BY <1>1 DEF Redone, Fields
<1>3. entry.was = x.steps
  OBVIOUS
<1> HIDE DEF y, entry
<1>4. /\ IsSeq(y.past) /\ DOMAIN y.past = 1..(Len(x.past) + 1)
      /\ \A i \in DOMAIN x.past : y.past[i] = x.past[i]
      /\ y.past[Len(x.past) + 1] = entry
      /\ DOMAIN x.past = 1..Len(x.past) /\ Len(x.past) \in Nat
  BY <1>1, <1>2, SeqAppend, SeqFacts DEF HistoryOK
<1>5. \A i \in DOMAIN y.past : i = Len(x.past) + 1 \/ i \in DOMAIN x.past
  BY <1>4
<1>6. /\ IsSeq(y.future) /\ Head(x.future) = x.future[1] /\ 1 \in DOMAIN x.future
      /\ \A i \in DOMAIN y.future : i + 1 \in DOMAIN x.future /\ y.future[i] = x.future[i + 1]
  BY <1>1, <1>2, SeqTail DEF HistoryOK
<1>7. IsDiagram(y.steps)
  BY <1>1, <1>2, <1>6 DEF HistoryOK
<1>8. HistoryOK(y)
  BY <1>1, <1>3, <1>4, <1>5, <1>6 DEF HistoryOK
<1>9. Page(y, runs) /\ \A c \in DOMAIN x.caps : y.caps[c].pc = x.caps[c].pc
  BY <1>2, <1>7, <1>8, TravelPage
<1>10. QED
  BY <1>9 DEF y

----------------------------------------------------------------------------
(* What each action does to the page and to the folds.                     *)

\* What a step may do to the folds.
FoldStep == [FoldNext]_foldVars

\* No picture lands in this step.
NoneLands == \A c \in DOMAIN d.caps : ~Landed(c)

LEMMA NotLanding ==
  ASSUME \/ d'.steps = d.steps
         \/ \A c \in DOMAIN d.caps : d'.caps[c] = d.caps[c]
         \/ \A c \in DOMAIN d.caps : d'.caps[c].pc = d.caps[c].pc
  PROVE  NoneLands
BY DEF NoneLands, Landed

\* Folds are only ever begun, so those of the captures stay folds.
LEMMA FoldsStay ==
  ASSUME FoldInv, FoldStep
  PROVE  DOMAIN work \subseteq DOMAIN work'
<1>1. CASE BeginFold
  <2>1. /\ work \in Seq(Places) /\ "page" \in Places /\ work' = Append(work, "page")
    BY <1>1, RunsFacts DEF BeginFold, Places
  <2>2. IsSeq(work)
    BY <2>1, SeqOfAny
  <2>3. DOMAIN work' = 1..(Len(work) + 1) /\ DOMAIN work = 1..Len(work) /\ Len(work) \in Nat
    BY <2>1, <2>2, SeqAppend, SeqFacts
  <2>4. QED
    BY <2>3
<1>2. ASSUME NEW i \in DOMAIN work, CallKernel(i) \/ CallHost(i) \/ HostAnswers(i) \/ EndFold(i)
      PROVE  DOMAIN work' = DOMAIN work
  BY <1>2 DEF CallKernel, CallHost, HostAnswers, EndFold, Abort
<1>3. CASE KernelAnswers \/ KernelStops \/ LoseEngine
  BY <1>3 DEF KernelAnswers, KernelStops, KernelEnds, LoseEngine
<1>4. CASE StopFoldRun \/ StopAllFolds
  BY <1>4 DEF StopFoldRun, StopAllFolds, Stop, Abort
<1>5. CASE UNCHANGED foldVars
  BY <1>5 DEF foldVars
<1>6. QED
  BY <1>1, <1>2, <1>3, <1>4, <1>5 DEF FoldStep, FoldNext

LEMMA WaitingAlone ==
  ASSUME NEW x, NEW runs, Page(x, runs), NEW r \in DOMAIN x.refreshes, x.refreshes[r].pc # "capture"
  PROVE  Alone(x, r)
BY DEF Page, CapOK, Alone

LEMMA RefreshStep ==
  ASSUME Page(d, DOMAIN work), Refresh
  PROVE  FoldStep /\ Page(d', DOMAIN work') /\ NoneLands
<1> DEFINE run == [pc |-> "index", load |-> d.load, todo |-> <<>>,
                   cancelled |-> FALSE, join |-> 0, alone |-> TRUE]
<1>1. UNCHANGED foldVars /\ d' = [d EXCEPT !.refreshes = Append(@, run)]
  BY DEF Refresh
<1>2. Fields \subseteq DOMAIN d /\ IsSeq(d.refreshes) /\ DOMAIN work' = DOMAIN work
  BY <1>1 DEF Page, foldVars
<1>3. RunOK(run)
  <2>1. <<>> \in Seq(Steps)
    BY EmptySeq
  <2>2. QED
    BY <2>1 DEF RunOK, RunFields
<1>4. KeptButRuns(d, d') /\ d'.refreshes = Append(d.refreshes, run)
  BY <1>1, <1>2 DEF KeptButRuns, Fields
<1> HIDE DEF run
<1>5. /\ IsSeq(d'.refreshes) /\ DOMAIN d'.refreshes = 1..(Len(d.refreshes) + 1)
      /\ \A r \in DOMAIN d.refreshes : d'.refreshes[r] = d.refreshes[r]
      /\ d'.refreshes[Len(d.refreshes) + 1] = run
      /\ DOMAIN d.refreshes = 1..Len(d.refreshes) /\ Len(d.refreshes) \in Nat
  BY <1>2, <1>4, SeqAppend, SeqFacts
<1>6. \A r \in DOMAIN d'.refreshes : RunOK(d'.refreshes[r])
  <2>1. \A r \in DOMAIN d'.refreshes : r \in DOMAIN d.refreshes \/ r = Len(d.refreshes) + 1
    BY <1>5
  <2>2. QED
    BY <1>3, <1>5, <2>1 DEF Page
<1>7. ASSUME NEW c \in DOMAIN d.caps, LiveCap(d, c) PROVE CapOK(d', d.caps[c], DOMAIN work)
  <2>1. CapOK(d, d.caps[c], DOMAIN work)
    BY <1>7 DEF Page
  <2>2. \A r \in DOMAIN d.refreshes : r \in DOMAIN d'.refreshes
    BY <1>5
  <2>3. QED
    BY <1>4, <1>5, <2>1, <2>2 DEF CapOK, KeptButRuns
<1>8. Page(d', DOMAIN work')
  BY <1>2, <1>4, <1>5, <1>6, <1>7 DEF Page, KeptButRuns, HistoryOK, LiveCap, OwnCapture
<1>9. NoneLands
  BY <1>4, NotLanding DEF KeptButRuns
<1>10. QED
  BY <1>1, <1>8, <1>9 DEF FoldStep

LEMMA AskedStep ==
  ASSUME Page(d, DOMAIN work), NEW r \in DOMAIN d.refreshes, Indexed(r) \/ Confirmed(r) \/ Declined(r)
  PROVE  FoldStep /\ Page(d', DOMAIN work') /\ NoneLands
<1> DEFINE run == d.refreshes[r]
           over == [run EXCEPT !.pc = "over"]
           asked == [run EXCEPT !.pc = "confirm", !.todo = Stale(d)]
<1>1. UNCHANGED foldVars /\ DOMAIN work' = DOMAIN work /\ run.pc \in {"index", "confirm"}
  BY DEF Indexed, Confirmed, Declined, foldVars
<1>2. "refreshes" \in DOMAIN d /\ RunOK(run) /\ Alone(d, r)
  BY <1>1, WaitingAlone DEF Page, Fields
<1>3. Stale(d) \in Seq(Steps)
  BY StaleSteps
<1>4. CASE d' = [d EXCEPT !.refreshes[r].pc = "over"]
  <2>1. KeptButRuns(d, d') /\ d'.refreshes = [d.refreshes EXCEPT ![r] = over]
    BY <1>2, <1>4 DEF KeptButRuns
  <2>2. RunOK(over)
    BY <1>2 DEF RunOK, RunFields
  <2> HIDE DEF over
  <2>3. Page(d', DOMAIN work)
    BY <1>2, <2>1, <2>2, RunMoves DEF Alone
  <2>4. QED
    BY <1>1, <2>1, <2>3, NotLanding DEF KeptButRuns, FoldStep
<1>5. CASE Stale(d) # <<>> /\ d' = [d EXCEPT !.refreshes[r].pc = "confirm", !.refreshes[r].todo = Stale(d)]
  <2>1. KeptButRuns(d, d') /\ d'.refreshes = [d.refreshes EXCEPT ![r] = asked]
    BY <1>2, <1>5 DEF KeptButRuns
  <2>2. RunOK(asked)
    BY <1>2, <1>3, <1>5 DEF RunOK, RunFields
  <2> HIDE DEF asked
  <2>3. Page(d', DOMAIN work)
    BY <1>2, <2>1, <2>2, RunMoves DEF Alone
  <2>4. QED
    BY <1>1, <2>1, <2>3, NotLanding DEF KeptButRuns, FoldStep
<1>6. ASSUME NEW stale \in Seq(Steps), stale # <<>>, d' = GoOn(d, r, stale)
      PROVE  FoldStep /\ Page(d', DOMAIN work') /\ NoneLands
  <2>1. Page(d', DOMAIN work) /\ KeptButRuns(d, d')
    BY <1>2, <1>6, GoOnPage
  <2>2. QED
    BY <1>1, <2>1, NotLanding DEF KeptButRuns, FoldStep
<1>7. CASE Indexed(r)
  BY <1>3, <1>4, <1>5, <1>6, <1>7 DEF Indexed
<1>8. CASE Confirmed(r)
  BY <1>2, <1>4, <1>6, <1>8 DEF Confirmed, RunOK
<1>9. CASE Declined(r)
  BY <1>4, <1>9 DEF Declined
<1>10. QED
  BY <1>7, <1>8, <1>9

LEMMA TurnStep ==
  ASSUME Page(d, DOMAIN work), NEW r \in DOMAIN d.refreshes, Turn(r) \/ WaitedForEdit(r)
  PROVE  FoldStep /\ Page(d', DOMAIN work') /\ NoneLands
<1> DEFINE run == d.refreshes[r]
           waits == [run EXCEPT !.pc = "edit"]
<1>1. /\ UNCHANGED foldVars /\ DOMAIN work' = DOMAIN work /\ run.pc \in {"turn", "edit"}
      /\ d' = TryStep(d, r) \/ d' = [d EXCEPT !.refreshes[r].pc = "edit"]
  BY DEF Turn, WaitedForEdit, foldVars
<1>2. "refreshes" \in DOMAIN d /\ RunOK(run) /\ Alone(d, r) /\ run.todo # <<>>
  BY <1>1, WaitingAlone DEF Page, Fields, RunOK
<1>3. CASE d' = TryStep(d, r)
  <2>1. Page(d', DOMAIN work) /\ \A b \in DOMAIN d.caps : d'.caps[b] = d.caps[b]
    BY <1>2, <1>3, TryStepPage
  <2>2. QED
    BY <1>1, <2>1, NotLanding DEF FoldStep
<1>4. CASE d' = [d EXCEPT !.refreshes[r].pc = "edit"]
  <2>1. KeptButRuns(d, d') /\ d'.refreshes = [d.refreshes EXCEPT ![r] = waits]
    BY <1>2, <1>4 DEF KeptButRuns
  <2>2. RunOK(waits)
    BY <1>2 DEF RunOK, RunFields
  <2> HIDE DEF waits
  <2>3. Page(d', DOMAIN work)
    BY <1>2, <2>1, <2>2, RunMoves DEF Alone
  <2>4. QED
    BY <1>1, <2>1, <2>3, NotLanding DEF KeptButRuns, FoldStep
<1>5. QED
  BY <1>1, <1>3, <1>4

LEMMA StopStep ==
  ASSUME FoldInv, Page(d, DOMAIN work), NEW s \in Steps, StopRefresh \/ StopCapture(s) \/ StopAll
  PROVE  FoldStep /\ Page(d', DOMAIN work') /\ NoneLands
<1>1. FoldStep
  <2>1. ASSUME NEW i \in listed, Stop({i}) PROVE FoldNext
    BY <2>1 DEF FoldNext, StopFoldRun
  <2>2. CASE StopRefresh
    BY <2>1, <2>2 DEF FoldStep, StopRefresh
  <2>3. CASE StopCapture(s)
    BY <2>1, <2>3 DEF FoldStep, StopCapture
  <2>4. CASE StopAll
    BY <2>4 DEF FoldStep, StopAll, FoldNext
  <2>5. QED
    BY <2>2, <2>3, <2>4
<1>2. DOMAIN work \subseteq DOMAIN work'
  BY <1>1, FoldsStay
<1>3. CASE UNCHANGED d
  <2>1. Kept(d, d')
    BY <1>3 DEF Kept, KeptButRuns
  <2>2. QED
    BY <1>1, <1>2, <2>1, KeptPage, NotLanding DEF Kept, KeptButRuns
<1>4. CASE StopRefresh
  <2> DEFINE r == d.cancel
             run == [d.refreshes[r] EXCEPT !.cancelled = TRUE]
  <2>1. d' = [d EXCEPT !.refreshes[r].cancelled = TRUE] /\ "refreshes" \in DOMAIN d
    BY <1>4 DEF StopRefresh, Page, Fields
  <2>2. KeptButRuns(d, d') /\ d'.refreshes = [d.refreshes EXCEPT ![r] = run]
    BY <2>1 DEF KeptButRuns
  <2>3. CASE r \in DOMAIN d.refreshes
    <3>1. RunOK(run) /\ run.pc = d.refreshes[r].pc
      BY <2>3 DEF Page, RunOK, RunFields
    <3> HIDE DEF run
    <3>2. Page(d', DOMAIN work)
      BY <2>2, <2>3, <3>1, RunMoves
    <3>3. Kept(d', d')
      BY DEF Kept, KeptButRuns
    <3>4. Page(d', DOMAIN work')
      BY <1>2, <3>2, <3>3, KeptPage
    <3>5. QED
      BY <1>1, <2>2, <3>4, NotLanding DEF KeptButRuns
  <2>4. CASE r \notin DOMAIN d.refreshes
    <3>1. IsSeq(d.refreshes)
      BY DEF Page
    <3>2. d.refreshes = [q \in DOMAIN d.refreshes |-> d.refreshes[q]]
      BY <3>1, LenProperties DEF IsSeq
    <3>3. d'.refreshes = d.refreshes
      BY <2>2, <2>4, <3>2
    <3>4. Kept(d, d')
      BY <2>2, <3>3 DEF Kept
    <3>5. QED
      BY <1>1, <1>2, <3>4, KeptPage, NotLanding DEF Kept, KeptButRuns
  <2>5. QED
    BY <2>3, <2>4
<1>5. QED
  BY <1>3, <1>4 DEF StopCapture, StopAll

LEMMA BeginStep ==
  ASSUME Page(d, DOMAIN work), NEW s \in Steps, NEW key \in Keys,
         Verb(s) \/ OfferPose(key) \/ DrainPose
  PROVE  FoldStep /\ Page(d', DOMAIN work') /\ NoneLands
<1>1. UNCHANGED foldVars /\ DOMAIN work' = DOMAIN work
  BY DEF Verb, OfferPose, DrainPose, foldVars
<1>2. ASSUME NEW x, Kept(d, x), NEW t \in Steps, NEW e, d' = Begun(x, t, 0, e)
      PROVE  FoldStep /\ Page(d', DOMAIN work') /\ NoneLands
  <2>1. Page(x, DOMAIN work)
    BY <1>2, KeptPage
  <2>2. Page(d', DOMAIN work) /\ d'.steps = x.steps
    BY <1>2, <2>1, BegunPage
  <2>3. QED
    BY <1>1, <1>2, <2>2, NotLanding DEF Kept, KeptButRuns, FoldStep
<1>3. ASSUME NEW x, Kept(d, x), d' = x
      PROVE  FoldStep /\ Page(d', DOMAIN work') /\ NoneLands
  <2>1. Page(d', DOMAIN work')
    BY <1>1, <1>3, KeptPage
  <2>2. QED
    BY <1>1, <1>3, <2>1, NotLanding DEF Kept, KeptButRuns, FoldStep
<1>4. CASE Verb(s)
  <2>1. Kept(d, d)
    BY DEF Kept, KeptButRuns
  <2>2. QED
    BY <1>2, <1>4, <2>1 DEF Verb
<1>5. CASE OfferPose(key)
  <2>1. Kept(d, Offered(d, key))
    BY PoseQueueKeeps
  <2>2. QED
    BY <1>3, <1>5, <2>1 DEF OfferPose
<1>6. CASE DrainPose
  <2> DEFINE e == Head(d.queue.pending)
             x == [d EXCEPT !.queue.pending = Tail(@), !.queue.busy = e]
  <2>1. d' = IF d.steps[Posed].drawn = None THEN Written(x, e) ELSE Begun(x, Posed, 0, e)
    BY <1>6 DEF DrainPose
  <2>2. Kept(d, x)
    BY DEF Kept, KeptButRuns
  <2> HIDE DEF x, e
  <2>3. Kept(x, Written(x, e))
    BY PoseQueueKeeps
  <2>4. Kept(d, Written(x, e))
    BY <2>2, <2>3 DEF Kept, KeptButRuns
  <2>5. Posed \in Steps
    BY CaptureAssumption
  <2>6. CASE d.steps[Posed].drawn = None
    BY <1>3, <2>1, <2>4, <2>6
  <2>7. CASE d.steps[Posed].drawn # None
    BY <1>2, <2>1, <2>2, <2>5, <2>7
  <2>8. QED
    BY <2>6, <2>7
<1>7. QED
  BY <1>4, <1>5, <1>6

\* The page goes from one capture's state to another's.
LEMMA CapGoesOn ==
  ASSUME Page(d, DOMAIN work), NEW runs, DOMAIN work \subseteq runs,
         NEW c \in DOMAIN d.caps, LiveCap(d, c), NEW cap,
         DOMAIN d' = DOMAIN d, d'.steps = d.steps, d'.past = d.past, d'.future = d.future,
         d'.load = d.load, d'.refreshes = d.refreshes,
         d'.caps = [d.caps EXCEPT ![c] = cap],
         CapOK(d, cap, runs), cap.run = d.caps[c].run
  PROVE  Page(d', runs) /\ NoneLands
BY CapMoves, NotLanding

LEMMA PreparedStep ==
  ASSUME FoldInv, Page(d, DOMAIN work), NEW c \in DOMAIN d.caps, Prepared(c)
  PROVE  FoldStep /\ Page(d', DOMAIN work') /\ NoneLands
<1> DEFINE cap == d.caps[c]
           drawn == [cap EXCEPT !.pc = "picture"]
           fold == [cap EXCEPT !.pc = "fold", !.fold = Len(work')]
<1>1. LiveCap(d, c) /\ cap.pc = "prepare" /\ "caps" \in DOMAIN d /\ CapOK(d, cap, DOMAIN work)
  BY DEF Prepared, LiveCap, Page, Fields
<1>2. CASE d' = [d EXCEPT !.caps[c].pc = "picture"] /\ UNCHANGED foldVars
  <2>1. d'.caps = [d.caps EXCEPT ![c] = drawn]
    BY <1>1, <1>2
  <2>2. CapOK(d, drawn, DOMAIN work) /\ drawn.run = cap.run
    BY <1>1 DEF CapOK, CapFields
  <2>3. /\ DOMAIN d' = DOMAIN d /\ d'.steps = d.steps /\ d'.past = d.past /\ d'.future = d.future
        /\ d'.load = d.load /\ d'.refreshes = d.refreshes
    BY <1>2
  <2> HIDE DEF drawn
  <2>4. Page(d', DOMAIN work) /\ NoneLands
    BY <1>1, <2>1, <2>2, <2>3, CapGoesOn
  <2>5. QED
    BY <1>2, <2>4 DEF FoldStep, foldVars
<1>3. CASE BeginFold /\ d' = [d EXCEPT !.caps[c].pc = "fold", !.caps[c].fold = Len(work'),
                                       !.marks[cap.step] = IF @ = None THEN None ELSE Len(work')]
  <2>1. FoldStep /\ DOMAIN work \subseteq DOMAIN work'
    BY <1>3, FoldsStay DEF FoldStep, FoldNext
  <2>2. Len(work') \in DOMAIN work'
    <3>1. IsSeq(work) /\ work' = Append(work, "page")
      BY <1>3, RunsFacts, SeqOfAny DEF BeginFold
    <3>2. DOMAIN work' = 1..(Len(work) + 1) /\ Len(work') = Len(work) + 1 /\ Len(work) \in Nat
      BY <3>1, SeqAppend, SeqFacts
    <3>3. QED
      BY <3>2
  <2>3. d'.caps = [d.caps EXCEPT ![c] = fold]
    BY <1>1, <1>3
  <2>4. CapOK(d, fold, DOMAIN work') /\ fold.run = cap.run
    BY <1>1, <2>1, <2>2 DEF CapOK, CapFields
  <2>5. /\ DOMAIN d' = DOMAIN d /\ d'.steps = d.steps /\ d'.past = d.past /\ d'.future = d.future
        /\ d'.load = d.load /\ d'.refreshes = d.refreshes
    BY <1>3
  <2> HIDE DEF fold
  <2>6. Page(d', DOMAIN work') /\ NoneLands
    BY <1>1, <2>1, <2>3, <2>4, <2>5, CapGoesOn
  <2>7. QED
    BY <2>1, <2>6
<1>4. QED
  BY <1>2, <1>3 DEF Prepared

LEMMA FoldedStep ==
  ASSUME FoldInv, Page(d, DOMAIN work), NEW c \in DOMAIN d.caps, Folded(c)
  PROVE  FoldStep /\ Page(d', DOMAIN work') /\ NoneLands
<1> DEFINE cap == d.caps[c]
           drawn == [cap EXCEPT !.pc = "picture"]
<1>1. LiveCap(d, c) /\ cap.pc = "fold" /\ "caps" \in DOMAIN d /\ CapOK(d, cap, DOMAIN work)
  BY DEF Folded, LiveCap, Page, Fields
<1>2. cap.fold \in DOMAIN work /\ EndFold(cap.fold)
  BY <1>1 DEF Folded, CapOK
<1>3. FoldStep /\ DOMAIN work \subseteq DOMAIN work'
  <2>1. FoldStep
    BY <1>2 DEF FoldStep, FoldNext
  <2>2. QED
    BY <2>1, FoldsStay
<1>4. ASSUME NEW outcome, d' = Finish(d, c, outcome)
      PROVE  Page(d', DOMAIN work') /\ NoneLands
  <2>1. Page(d', DOMAIN work) /\ d'.steps = d.steps
    BY <1>1, <1>4, FinishPage
  <2>2. Kept(d', d')
    BY DEF Kept, KeptButRuns
  <2>3. QED
    BY <1>3, <2>1, <2>2, KeptPage, NotLanding
<1>5. CASE d' = [d EXCEPT !.caps[c].pc = "picture"]
  <2>1. d'.caps = [d.caps EXCEPT ![c] = drawn]
    BY <1>1, <1>5
  <2>2. CapOK(d, drawn, DOMAIN work') /\ drawn.run = cap.run
    BY <1>1 DEF CapOK, CapFields
  <2>3. /\ DOMAIN d' = DOMAIN d /\ d'.steps = d.steps /\ d'.past = d.past /\ d'.future = d.future
        /\ d'.load = d.load /\ d'.refreshes = d.refreshes
    BY <1>5
  <2> HIDE DEF drawn
  <2>4. QED
    BY <1>1, <1>3, <2>1, <2>2, <2>3, CapGoesOn
<1>6. \/ d' = [d EXCEPT !.caps[c].pc = "picture"]
      \/ \E outcome \in {"stopped", "failed", "discarded"} : d' = Finish(d, c, outcome)
  BY DEF Folded
<1>7. QED
  BY <1>3, <1>4, <1>5, <1>6

\* What lands is the picture of the capture that ends, and it lands on the source
\* that capture was begun on, as the newest edit of its field.
LEMMA LandStep ==
  ASSUME Page(d, DOMAIN work), NEW c \in DOMAIN d.caps, Land(c)
  PROVE  /\ FoldStep /\ Page(d', DOMAIN work')
         /\ \A b \in DOMAIN d.caps : Landed(b) => b = c /\ Current(d, c)
<1> DEFINE cap == d.caps[c]
           y == Commit(d, cap.run, Pictured(d, cap), Joins(d, cap))
<1>1. /\ LiveCap(d, c) /\ cap.pc = "picture" /\ CapOK(d, cap, DOMAIN work)
      /\ UNCHANGED foldVars /\ DOMAIN work' = DOMAIN work
  BY DEF Land, LiveCap, Page, foldVars
<1>2. /\ IsDiagram(Pictured(d, cap))
      /\ \A s \in Steps : Pictured(d, cap)[s] = d.steps[s] \/ Pictured(d, cap)[s].rev > d.steps[s].rev
  <2> DEFINE was == d.steps[cap.step]
             st == [d.steps EXCEPT ![cap.step] = [rev |-> was.rev + 1, src |-> cap.lands, drawn |-> cap.drawn]]
  <2>1. IsDiagram(d.steps) /\ cap.step \in Steps /\ was.rev \in Nat
    BY <1>1 DEF Page, CapOK, IsDiagram
  <2>2. /\ DOMAIN st = Steps /\ st[cap.step].rev = was.rev + 1
        /\ \A s \in Steps : s # cap.step => st[s] = d.steps[s]
    BY <2>1 DEF IsDiagram
  <2>3. Pictured(d, cap) \in {d.steps, st}
    BY DEF Pictured
  <2> HIDE DEF st
  <2>4. IsDiagram(st) /\ \A s \in Steps : st[s] = d.steps[s] \/ st[s].rev > d.steps[s].rev
    BY <2>1, <2>2 DEF IsDiagram
  <2>5. QED
    BY <2>1, <2>3, <2>4
<1>3. Page(y, DOMAIN work) /\ y.caps = d.caps
  <2> DEFINE st == Pictured(d, cap)
             joins == Joins(d, cap)
             by == cap.run
  <2> HIDE DEF st, joins, by
  <2>1. Page(Commit(d, by, st, joins), DOMAIN work) /\ Commit(d, by, st, joins).caps = d.caps
    BY <1>2, CommitPage DEF st
  <2>2. QED
    BY <2>1 DEF st, joins, by
<1> HIDE DEF y
<1>4. ASSUME NEW x, Page(x, DOMAIN work), x.caps = d.caps, NEW outcome
      PROVE  \A to \in {Finish(x, c, outcome), Disturb(Finish(x, c, outcome), cap.run)} :
               /\ Page(to, DOMAIN work) /\ to.steps = x.steps
               /\ \A b \in DOMAIN d.caps : b # c => to.caps[b] = d.caps[b]
  <2> DEFINE done == Finish(x, c, outcome)
             by == cap.run
  <2>1. c \in DOMAIN x.caps /\ LiveCap(x, c)
    BY <1>1, <1>4 DEF LiveCap
  <2>2. /\ Page(done, DOMAIN work) /\ done.steps = x.steps
        /\ \A b \in DOMAIN x.caps : b # c => done.caps[b] = x.caps[b]
    BY <1>4, <2>1, FinishPage
  <2> HIDE DEF done, by
  <2>3. LET z == Disturb(done, by) IN Page(z, DOMAIN work) /\ z.caps = done.caps /\ z.steps = done.steps
    BY <2>2, DisturbPage
  <2>4. QED
    BY <1>4, <2>2, <2>3 DEF done, by
<1>5. ASSUME NEW x, Page(x, DOMAIN work), x.caps = d.caps, NEW outcome,
             d' \in {Finish(x, c, outcome), Disturb(Finish(x, c, outcome), cap.run)}
      PROVE  /\ Page(d', DOMAIN work') /\ d'.steps = x.steps
             /\ \A b \in DOMAIN d.caps : b # c => d'.caps[b] = d.caps[b]
  BY <1>1, <1>4, <1>5
<1>6. d' = IF ~Current(d, c) THEN Finish(d, c, "discarded")
           ELSE IF y = d THEN Finish(d, c, "same")
           ELSE Disturb(Finish(y, c, "changed"), cap.run)
  BY DEF Land, y
<1>7. ASSUME NEW x, Page(x, DOMAIN work), x.caps = d.caps, NEW outcome,
             d' \in {Finish(x, c, outcome), Disturb(Finish(x, c, outcome), cap.run)},
             Current(d, c) \/ x.steps = d.steps
      PROVE  /\ Page(d', DOMAIN work')
             /\ \A b \in DOMAIN d.caps : Landed(b) => b = c /\ Current(d, c)
  <2>1. /\ Page(d', DOMAIN work') /\ d'.steps = x.steps
        /\ \A b \in DOMAIN d.caps : b # c => d'.caps[b] = d.caps[b]
    BY <1>5, <1>7
  <2>2. \A b \in DOMAIN d.caps : Landed(b) => b = c /\ d'.steps # d.steps
    BY <2>1 DEF Landed
  <2>3. QED
    BY <1>7, <2>1, <2>2
<1>8. CASE ~Current(d, c)
  BY <1>6, <1>7, <1>8, <1>1 DEF FoldStep
<1>9. CASE Current(d, c) /\ y = d
  BY <1>6, <1>7, <1>9, <1>1 DEF FoldStep
<1>10. CASE Current(d, c) /\ y # d
  BY <1>3, <1>6, <1>7, <1>10, <1>1 DEF FoldStep
<1>11. QED
  BY <1>8, <1>9, <1>10

LEMMA FailStep ==
  ASSUME Page(d, DOMAIN work), NEW c \in DOMAIN d.caps, FailCapture(c)
  PROVE  FoldStep /\ Page(d', DOMAIN work') /\ NoneLands
<1>1. /\ LiveCap(d, c) /\ d' = Finish(d, c, "failed")
      /\ UNCHANGED foldVars /\ DOMAIN work' = DOMAIN work
  BY DEF FailCapture, LiveCap, foldVars
<1>2. Page(d', DOMAIN work) /\ d'.steps = d.steps
  BY <1>1, FinishPage
<1>3. QED
  BY <1>1, <1>2, NotLanding DEF FoldStep

LEMMA EditSourceStep ==
  ASSUME Page(d, DOMAIN work), NEW s \in Steps, EditSource(s)
  PROVE  FoldStep /\ Page(d', DOMAIN work') /\ NoneLands
<1> DEFINE n == d.sources + 1
           was == d.steps[s]
           st == [d.steps EXCEPT ![s] = [rev |-> was.rev + 1, src |-> n, drawn |-> None]]
           x == Commit(d, 0, st, FALSE)
           y == [x EXCEPT !.sources = n]
<1>1. d' = Disturb(y, 0) /\ UNCHANGED foldVars /\ DOMAIN work' = DOMAIN work
  BY DEF EditSource, foldVars
<1>2. IsDiagram(d.steps) /\ was.rev \in Nat
  BY DEF Page, IsDiagram
<1>3. /\ DOMAIN st = Steps /\ st[s].rev = was.rev + 1
      /\ \A t \in Steps : t # s => st[t] = d.steps[t]
  BY <1>2 DEF IsDiagram
<1> HIDE DEF st
<1>4. IsDiagram(st) /\ \A t \in Steps : st[t] = d.steps[t] \/ st[t].rev > d.steps[t].rev
  BY <1>2, <1>3 DEF IsDiagram
<1>5. Page(x, DOMAIN work) /\ x.caps = d.caps
  <2> DEFINE no == FALSE
  <2> HIDE DEF no
  <2>1. Page(Commit(d, 0, st, no), DOMAIN work) /\ Commit(d, 0, st, no).caps = d.caps
    BY <1>4, CommitPage
  <2>2. QED
    BY <2>1 DEF no
<1> HIDE DEF x
<1>6. Kept(x, y)
  BY DEF Kept, KeptButRuns
<1> HIDE DEF y
<1>7. Page(y, DOMAIN work) /\ y.caps = d.caps
  BY <1>5, <1>6, KeptPage DEF Kept, KeptButRuns
<1>8. Page(d', DOMAIN work) /\ d'.caps = y.caps
  BY <1>1, <1>7, DisturbPage
<1>9. QED
  BY <1>1, <1>7, <1>8, NotLanding DEF FoldStep

LEMMA TravelStep ==
  ASSUME Page(d, DOMAIN work), Undo \/ Redo
  PROVE  FoldStep /\ Page(d', DOMAIN work') /\ NoneLands
<1> DEFINE x == SessionsEnded(d)
<1>1. /\ UNCHANGED foldVars /\ DOMAIN work' = DOMAIN work
      /\ \/ d.past # <<>> /\ d' = Disturb(Undone(x), 0)
         \/ d.future # <<>> /\ d' = Disturb(Redone(x), 0)
  BY DEF Undo, Redo, foldVars
<1>2. Page(x, DOMAIN work) /\ x.past = d.past /\ x.future = d.future /\ x.caps = d.caps
  BY PoseQueueKeeps, KeptPage DEF Kept, KeptButRuns
<1> HIDE DEF x
<1>3. ASSUME NEW y, Page(y, DOMAIN work), \A c \in DOMAIN x.caps : y.caps[c].pc = x.caps[c].pc, d' = Disturb(y, 0)
      PROVE  FoldStep /\ Page(d', DOMAIN work') /\ NoneLands
  <2>1. Page(d', DOMAIN work) /\ d'.caps = y.caps
    BY <1>3, DisturbPage
  <2>2. \A c \in DOMAIN d.caps : d'.caps[c].pc = d.caps[c].pc
    BY <1>2, <1>3, <2>1
  <2>3. QED
    BY <1>1, <2>1, <2>2, NotLanding DEF FoldStep
<1>4. CASE d.past # <<>> /\ d' = Disturb(Undone(x), 0)
  BY <1>2, <1>3, <1>4, UndonePage
<1>5. CASE d.future # <<>> /\ d' = Disturb(Redone(x), 0)
  BY <1>2, <1>3, <1>5, RedonePage
<1>6. QED
  BY <1>1, <1>4, <1>5

LEMMA OpenStep ==
  ASSUME Page(d, DOMAIN work), Open
  PROVE  FoldStep /\ Page(d', DOMAIN work') /\ NoneLands
<1> DEFINE x == SessionsEnded(d)
<1>1. /\ UNCHANGED foldVars /\ DOMAIN work' = DOMAIN work
      /\ d' = [x EXCEPT !.load = @ + 1, !.steps = Fresh(d.sources + 1), !.sources = @ + 1,
                        !.past = <<>>, !.future = <<>>, !.progress = FALSE,
                        !.marks = [s \in Steps |-> None]]
  BY DEF Open, foldVars
<1>2. Page(x, DOMAIN work) /\ x.load = d.load /\ x.caps = d.caps
  BY PoseQueueKeeps, KeptPage DEF Kept, KeptButRuns
<1> HIDE DEF x
<1>3. /\ DOMAIN d' = DOMAIN x /\ d'.load = x.load + 1 /\ d'.steps = Fresh(d.sources + 1)
      /\ d'.past = <<>> /\ d'.future = <<>> /\ d'.caps = x.caps /\ d'.refreshes = x.refreshes
  BY <1>1, <1>2 DEF Page, Fields
<1>4. IsDiagram(d'.steps)
  BY <1>3 DEF IsDiagram, Fresh
<1>5. HistoryOK(d')
  <2>1. IsSeq(<<>>) /\ DOMAIN <<>> = {}
    BY EmptyIsSeq
  <2>2. QED
    BY <1>3, <2>1 DEF HistoryOK
<1>6. ASSUME NEW c \in DOMAIN x.caps, LiveCap(x, c) PROVE CapOK(d', x.caps[c], DOMAIN work)
  BY <1>2, <1>3, <1>6 DEF Page, CapOK
<1>7. Page(d', DOMAIN work)
  BY <1>2, <1>3, <1>4, <1>5, <1>6 DEF Page, LiveCap, OwnCapture
<1>8. QED
  BY <1>1, <1>2, <1>3, <1>7, NotLanding DEF FoldStep

LEMMA ElsewhereStep ==
  ASSUME FoldInv, Page(d, DOMAIN work), GoToEdit \/ EditPattern \/ EditFold \/ FoldGoesOn \/ UNCHANGED vars
  PROVE  FoldStep /\ Page(d', DOMAIN work') /\ NoneLands
<1>1. FoldStep
  <2>1. CASE FoldGoesOn
    BY <2>1 DEF FoldGoesOn, FoldStep, FoldNext
  <2>2. CASE EditFold
    BY <2>2 DEF EditFold, FoldStep, FoldNext
  <2>3. CASE GoToEdit \/ EditPattern \/ UNCHANGED vars
    BY <2>3 DEF GoToEdit, EditPattern, vars, FoldStep
  <2>4. QED
    BY <2>1, <2>2, <2>3
<1>2. Kept(d, d')
  <2>1. CASE GoToEdit
    BY <2>1 DEF Kept, KeptButRuns, GoToEdit
  <2>2. CASE EditPattern
    BY <2>2 DEF Kept, KeptButRuns, EditPattern
  <2>3. CASE UNCHANGED d
    BY <2>3 DEF Kept, KeptButRuns
  <2>4. QED
    BY <2>1, <2>2, <2>3 DEF EditFold, FoldGoesOn, vars
<1>3. QED
  BY <1>1, <1>2, FoldsStay, KeptPage, NotLanding DEF Kept, KeptButRuns

LEMMA LoseStep ==
  ASSUME FoldInv, Page(d, DOMAIN work), LoseKernel
  PROVE  FoldStep /\ Page(d', DOMAIN work') /\ NoneLands
<1> DEFINE caps == [c \in DOMAIN d.caps |->
                      IF OnEngine(d.caps[c]) THEN [d.caps[c] EXCEPT !.pc = "lost"] ELSE d.caps[c]]
           told == [r \in DOMAIN d.refreshes |->
                      IF Live(d.refreshes[r]) THEN [d.refreshes[r] EXCEPT !.cancelled = TRUE] ELSE d.refreshes[r]]
<1>1. FoldStep
  BY DEF LoseKernel, FoldStep, FoldNext
<1>2. /\ Fields \subseteq DOMAIN d /\ IsSeq(d.caps) /\ IsSeq(d.refreshes)
      /\ DOMAIN work \subseteq DOMAIN work'
  BY <1>1, FoldsStay DEF Page
<1>3. /\ DOMAIN d' = DOMAIN d /\ d'.load = d.load /\ d'.steps = d.steps
      /\ d'.past = d.past /\ d'.future = d.future /\ d'.caps = caps /\ d'.refreshes = told
  BY <1>2 DEF LoseKernel, Fields
<1>4. /\ caps \in [DOMAIN d.caps -> {caps[c] : c \in DOMAIN d.caps}] /\ DOMAIN caps = DOMAIN d.caps
      /\ told \in [DOMAIN d.refreshes -> {told[r] : r \in DOMAIN d.refreshes}] /\ DOMAIN told = DOMAIN d.refreshes
  OBVIOUS
<1>5. ASSUME NEW r \in DOMAIN d.refreshes
      PROVE  RunOK(told[r]) /\ told[r].pc = d.refreshes[r].pc
  <2>1. RunOK(d.refreshes[r])
    BY DEF Page
  <2>2. QED
    BY <2>1 DEF RunOK, RunFields
<1>6. \A c \in DOMAIN d.caps : LiveCap(d, c) => CapOK(d, d.caps[c], DOMAIN work) /\ "pc" \in DOMAIN d.caps[c]
  BY DEF Page, CapOK, CapFields
<1>7. \A c \in DOMAIN d.caps :
        \/ caps[c] = d.caps[c]
        \/ LiveCap(d, c) /\ caps[c] = [d.caps[c] EXCEPT !.pc = "lost"]
  BY DEF OnEngine, LiveCap
<1> HIDE DEF caps, told
<1>8. ASSUME NEW c \in DOMAIN d.caps, LiveCap(d, c)
      PROVE  CapOK(d', caps[c], DOMAIN work) /\ caps[c].run = d.caps[c].run
             /\ (caps[c].pc = d.caps[c].pc \/ caps[c].pc = "lost")
  <2>1. CASE caps[c] = d.caps[c]
    BY <1>3, <1>4, <1>5, <1>6, <1>8, <2>1 DEF CapOK
  <2>2. CASE caps[c] = [d.caps[c] EXCEPT !.pc = "lost"]
    <3>1. /\ DOMAIN caps[c] = DOMAIN d.caps[c] /\ caps[c].pc = "lost"
          /\ caps[c].step = d.caps[c].step /\ caps[c].load = d.caps[c].load /\ caps[c].rev = d.caps[c].rev
          /\ caps[c].saw = d.caps[c].saw /\ caps[c].run = d.caps[c].run /\ caps[c].undone = d.caps[c].undone
      BY <1>6, <1>8, <2>2
    <3>2. QED
      BY <1>3, <1>4, <1>5, <1>6, <1>8, <3>1 DEF CapOK
  <2>3. QED
    BY <1>7, <2>1, <2>2
<1>9. Page(d', DOMAIN work)
  <2>1. IsSeq(d'.refreshes) /\ IsSeq(d'.caps)
    BY <1>2, <1>3, <1>4, SeqSame
  <2>2. IsDiagram(d'.steps) /\ HistoryOK(d')
    BY <1>3 DEF Page, HistoryOK
  <2>3. \A c \in DOMAIN d.caps :
          \/ d'.caps[c].pc = "over"
          \/ LiveCap(d, c) /\ d'.caps[c].run = d.caps[c].run /\ CapOK(d', d'.caps[c], DOMAIN work)
    BY <1>3, <1>7, <1>8 DEF LiveCap
  <2>4. QED
    BY <1>3, <1>4, <1>5, <2>1, <2>2, <2>3, AllTold
<1>10. Kept(d', d')
  BY DEF Kept, KeptButRuns
<1>11. QED
  BY <1>1, <1>2, <1>3, <1>9, <1>10, KeptPage, NotLanding

----------------------------------------------------------------------------
(* The theorems.                                                           *)

CaptureInv == FoldInv /\ Page(d, DOMAIN work)

\* A picture that lands in this step is of a capture that is still current.
LandsCurrent == \A c \in DOMAIN d.caps : Landed(c) => d.caps[c].pc = "picture" /\ Current(d, c)

LEMMA CaptureInvInit == Init => CaptureInv
<1> SUFFICES ASSUME Init PROVE CaptureInv
  OBVIOUS
<1>1. FoldInv
  BY FoldInvInit DEF Init
<1>2. /\ Fields \subseteq DOMAIN d /\ d.load = 1 /\ d.steps = Fresh(1)
      /\ d.past = <<>> /\ d.future = <<>> /\ d.caps = <<>> /\ d.refreshes = <<>>
  BY DEF Init, Fields
<1>3. IsDiagram(d.steps)
  BY <1>2 DEF IsDiagram, Fresh
<1>4. Page(d, DOMAIN work)
  BY <1>2, <1>3, EmptyIsSeq DEF Page, HistoryOK, OwnCapture
<1>5. QED
  BY <1>1, <1>4 DEF CaptureInv

LEMMA CaptureStep ==
  ASSUME CaptureInv, [Next]_vars
  PROVE  FoldStep /\ CaptureInv' /\ LandsCurrent
<1> USE DEF CaptureInv
<1> DEFINE Good == FoldStep /\ Page(d', DOMAIN work') /\ LandsCurrent
<1>0. NoneLands => LandsCurrent
  BY DEF NoneLands, LandsCurrent
<1> HIDE DEF Good
<1>1. ASSUME Refresh PROVE Good
  BY <1>0, <1>1, RefreshStep DEF Good
<1>2. ASSUME NEW r \in DOMAIN d.refreshes, Indexed(r) \/ Confirmed(r) \/ Declined(r) PROVE Good
  BY <1>0, <1>2, AskedStep DEF Good
<1>3. ASSUME NEW r \in DOMAIN d.refreshes, Turn(r) \/ WaitedForEdit(r) PROVE Good
  BY <1>0, <1>3, TurnStep DEF Good
<1>4. ASSUME NEW s \in Steps, StopRefresh \/ StopCapture(s) \/ StopAll PROVE Good
  BY <1>0, <1>4, StopStep DEF Good
<1>5. ASSUME NEW s \in Steps, NEW key \in Keys, Verb(s) \/ OfferPose(key) \/ DrainPose PROVE Good
  BY <1>0, <1>5, BeginStep DEF Good
<1>6. ASSUME NEW s \in Steps, EditSource(s) PROVE Good
  BY <1>0, <1>6, EditSourceStep DEF Good
<1>7. ASSUME NEW c \in DOMAIN d.caps, Prepared(c) PROVE Good
  BY <1>0, <1>7, PreparedStep DEF Good
<1>8. ASSUME NEW c \in DOMAIN d.caps, Folded(c) PROVE Good
  BY <1>0, <1>8, FoldedStep DEF Good
<1>9. ASSUME NEW c \in DOMAIN d.caps, FailCapture(c) PROVE Good
  BY <1>0, <1>9, FailStep DEF Good
<1>10. ASSUME NEW c \in DOMAIN d.caps, Land(c) PROVE Good
  <2>1. FoldStep /\ Page(d', DOMAIN work') /\ \A b \in DOMAIN d.caps : Landed(b) => b = c /\ Current(d, c)
    BY <1>10, LandStep
  <2>2. LandsCurrent
    BY <2>1 DEF LandsCurrent, Landed
  <2>3. QED
    BY <2>1, <2>2 DEF Good
<1>11. ASSUME Undo \/ Redo PROVE Good
  BY <1>0, <1>11, TravelStep DEF Good
<1>12. ASSUME Open PROVE Good
  BY <1>0, <1>12, OpenStep DEF Good
<1>13. ASSUME GoToEdit \/ EditPattern \/ EditFold \/ FoldGoesOn \/ UNCHANGED vars PROVE Good
  BY <1>0, <1>13, ElsewhereStep DEF Good
<1>14. ASSUME LoseKernel PROVE Good
  BY <1>0, <1>14, LoseStep DEF Good
<1>15. \E s \in Steps : \E key \in Keys : TRUE
  BY CaptureAssumption
<1>16. Good
  <2>1. CASE Next
    BY <1>1, <1>2, <1>3, <1>4, <1>5, <1>6, <1>7, <1>8, <1>9, <1>10, <1>11, <1>12, <1>13, <1>14, <1>15, <2>1 DEF Next
  <2>2. CASE UNCHANGED vars
    BY <1>13, <2>2
  <2>3. QED
    BY <2>1, <2>2
<1>17. FoldInv'
  BY <1>16, FoldInvNext DEF Good, FoldStep
<1>18. QED
  BY <1>16, <1>17 DEF Good

LEMMA CaptureInvHolds == Spec => []CaptureInv
<1>1. CaptureInv /\ [Next]_vars => CaptureInv'
  BY CaptureStep
<1>2. QED
  BY <1>1, CaptureInvInit, PTL DEF Spec

\* The folds of the captures and of the Edit canvas are FoldRuns': whatever the
\* capture queue, the pose queue and the history do, each of their steps begins,
\* ends, stops or advances folds as foldRuns.ts has it, or leaves them alone.
THEOREM CapturesImplementFoldRuns == Spec => FoldSpec
<1>1. Init => FoldInit
  BY DEF Init
<1>2. CaptureInv /\ [Next]_vars => [FoldNext]_foldVars
  BY CaptureStep DEF FoldStep
<1>3. QED
  BY <1>1, <1>2, CaptureInvHolds, PTL DEF Spec, FoldSpec

\* So among captures too, a Stop stops only the runs it is for, and reaches them.
THEOREM CapturesStopTheAsked == Spec => []OnlyTheAskedStop /\ []StopIsHeard
<1>1. QED
  BY CapturesImplementFoldRuns, StopsAreTheAsked, StopsAreHeard, PTL

\* A capture's picture lands only on the source the capture was begun on, for any
\* number of captures, edits, travels and files opened meanwhile: commitStepCapture
\* compares the document's identity and the step's revision, and every change of a
\* step's source gives it a greater revision.
THEOREM PicturesLandOnTheirSource == Spec => LandsOnItsSource
<1>1. CaptureInv /\ [Next]_vars =>
        [\A c \in DOMAIN d.caps : Landed(c) /\ ~d.caps[c].undone =>
           d.load = d.caps[c].load /\ d.steps[d.caps[c].step].src = d.caps[c].saw]_vars
  <2> SUFFICES ASSUME CaptureInv, [Next]_vars, NEW c \in DOMAIN d.caps, Landed(c), ~d.caps[c].undone
               PROVE  d.load = d.caps[c].load /\ d.steps[d.caps[c].step].src = d.caps[c].saw
    OBVIOUS
  <2>1. d.caps[c].pc = "picture" /\ Current(d, c)
    BY CaptureStep DEF LandsCurrent
  <2>2. CapOK(d, d.caps[c], DOMAIN work)
    BY <2>1 DEF CaptureInv, Page, LiveCap
  <2>3. QED
    BY <2>1, <2>2 DEF CapOK, Current
<1>2. QED
  BY <1>1, CaptureInvHolds, PTL DEF Spec, LandsOnItsSource

----------------------------------------------------------------------------
(* The newest pose edit.                                                   *)

\* The queue's latest edit of a field is the newest of that field.
QueueKnowsNewest(x) ==
  /\ {"queue", "edits"} \subseteq DOMAIN x /\ {"on", "latest"} \subseteq DOMAIN x.queue
  /\ IsSeq(x.edits) /\ \A e \in DOMAIN x.edits : x.edits[e].key \in Keys
  /\ \A k \in Keys :
       /\ x.queue.latest[k] \in Nat
       /\ x.queue.latest[k] # 0 =>
            \A e \in DOMAIN x.edits : x.edits[e].key = k => e <= x.queue.latest[k]

\* What leaves the queue and its edits alone.
QueueKept(x, y) == DOMAIN y = DOMAIN x /\ y.queue = x.queue /\ y.edits = x.edits

LEMMA QueueKeptKnows ==
  ASSUME NEW x, NEW y, QueueKnowsNewest(x), QueueKept(x, y)
  PROVE  QueueKnowsNewest(y)
BY DEF QueueKnowsNewest, QueueKept

\* Finishing edits leaves their fields, and the queue, as they are.
LEMMA DoneKnows ==
  ASSUME NEW x, QueueKnowsNewest(x), NEW es
  PROVE  LET y == DoneEdits(x, es) IN
         /\ QueueKnowsNewest(y) /\ y.queue = x.queue /\ Len(y.edits) = Len(x.edits)
         /\ DOMAIN y = DOMAIN x
<1> DEFINE edits == [e \in DOMAIN x.edits |-> [x.edits[e] EXCEPT !.done = @ \/ e \in es]]
           y == DoneEdits(x, es)
<1>1. DOMAIN y = DOMAIN x /\ y.edits = edits /\ y.queue = x.queue
  BY DEF DoneEdits, QueueKnowsNewest
<1>2. \A e \in DOMAIN x.edits : edits[e].key = x.edits[e].key
  OBVIOUS
<1>3. DOMAIN edits = DOMAIN x.edits /\ edits \in [DOMAIN x.edits -> {edits[e] : e \in DOMAIN x.edits}]
  OBVIOUS
<1> HIDE DEF edits, y
<1>4. IsSeq(edits) /\ Len(edits) = Len(x.edits)
  BY <1>3, SeqSame DEF QueueKnowsNewest
<1>5. QueueKnowsNewest(y)
  BY <1>1, <1>2, <1>3, <1>4 DEF QueueKnowsNewest
<1>6. QED
  BY <1>1, <1>4, <1>5 DEF y

LEMMA OfferedKnows ==
  ASSUME NEW x, QueueKnowsNewest(x), NEW key \in Keys
  PROVE  QueueKnowsNewest(Offered(x, key))
<1> DEFINE n == Len(x.edits) + 1
           edit == [key |-> key, done |-> FALSE]
           pending == Waiting(x, key, n)
           y == DoneEdits(x, ToSet(x.queue.pending) \ ToSet(pending))
           latest == [k \in Keys |-> IF k = key THEN n ELSE IF k \in Dropped(key) THEN 0 ELSE x.queue.latest[k]]
           queue == [on |-> TRUE, pending |-> pending, latest |-> latest, busy |-> x.queue.busy]
           z == Offered(x, key)
<1>1. QueueKnowsNewest(y) /\ y.queue = x.queue /\ Len(y.edits) = Len(x.edits)
  BY DoneKnows
<1>2. z = [y EXCEPT !.edits = Append(@, edit), !.queue = queue]
  BY DEF Offered
<1>3. edit.key = key /\ queue.latest = latest /\ {"on", "latest"} \subseteq DOMAIN queue
  OBVIOUS
<1> HIDE DEF y, edit, queue, z
<1>4. DOMAIN z = DOMAIN y /\ z.edits = Append(y.edits, edit) /\ z.queue = queue
  BY <1>1, <1>2 DEF QueueKnowsNewest
<1>5. /\ IsSeq(z.edits) /\ DOMAIN z.edits = 1..n /\ z.edits[n] = edit
      /\ \A e \in DOMAIN y.edits : z.edits[e] = y.edits[e]
      /\ DOMAIN y.edits = 1..(n - 1) /\ n \in Nat /\ n # 0
  BY <1>1, <1>4, SeqAppend, SeqFacts DEF QueueKnowsNewest
<1>6. \A e \in DOMAIN z.edits : e = n \/ e \in DOMAIN y.edits
  BY <1>5
<1>7. \A e \in DOMAIN z.edits : z.edits[e].key \in Keys
  BY <1>1, <1>3, <1>5, <1>6 DEF QueueKnowsNewest
<1>8. ASSUME NEW k \in Keys
      PROVE  /\ queue.latest[k] \in Nat
             /\ queue.latest[k] # 0 => \A e \in DOMAIN z.edits : z.edits[e].key = k => e <= queue.latest[k]
  <2>1. CASE k = key
    BY <1>3, <1>5, <2>1
  <2>2. CASE k # key /\ k \in Dropped(key)
    BY <1>3, <2>2
  <2>3. CASE k # key /\ k \notin Dropped(key)
    <3>1. queue.latest[k] = x.queue.latest[k]
      BY <1>3, <2>3
    <3>2. QED
      BY <1>1, <1>3, <1>5, <1>6, <2>3, <3>1 DEF QueueKnowsNewest
  <2>4. QED
    BY <2>1, <2>2, <2>3
<1>9. QueueKnowsNewest(z)
  BY <1>1, <1>3, <1>4, <1>5, <1>7, <1>8 DEF QueueKnowsNewest
<1>10. QED
  BY <1>9 DEF z

\* A session's end leaves no queue.
LEMMA EndedKnows ==
  ASSUME NEW x, QueueKnowsNewest(x)
  PROVE  QueueKnowsNewest(SessionsEnded(x))
<1> DEFINE y == DoneEdits(x, {x.queue.latest[k] : k \in Keys})
<1>1. QueueKnowsNewest(y)
  BY DoneKnows
<1>2. SessionsEnded(x) = [y EXCEPT !.queue = NoQueue]
  BY DEF SessionsEnded
<1> HIDE DEF y
<1>3. QED
  BY <1>1, <1>2 DEF QueueKnowsNewest, NoQueue

LEMMA WrittenKnows ==
  ASSUME NEW x, QueueKnowsNewest(x), NEW e
  PROVE  QueueKnowsNewest(Written(x, e))
<1> DEFINE y == DoneEdits(x, {e})
           q == x.queue
           queue == IF q.busy # e THEN q ELSE IF q.pending = <<>> THEN NoQueue ELSE [q EXCEPT !.busy = 0]
<1>1. QueueKnowsNewest(y) /\ y.queue = q /\ DOMAIN y = DOMAIN x
  BY DoneKnows
<1>2. Written(x, e) = [y EXCEPT !.queue = queue]
  BY DEF Written
<1>3. /\ {"on", "latest"} \subseteq DOMAIN queue
      /\ queue.latest = q.latest \/ \A k \in Keys : queue.latest[k] = 0
  BY <1>1 DEF NoQueue, QueueKnowsNewest
<1> HIDE DEF y, queue
<1>4. /\ DOMAIN Written(x, e) = DOMAIN y /\ Written(x, e).queue = queue /\ Written(x, e).edits = y.edits
  BY <1>1, <1>2 DEF QueueKnowsNewest
<1>5. QED
  BY <1>1, <1>3, <1>4 DEF QueueKnowsNewest

\* The runs' operators leave the queue alone.
LEMMA RunEndsKeepsQueue ==
  ASSUME NEW x, NEW r
  PROVE  QueueKept(x, RunEnds(x, r))
BY DEF QueueKept, RunEnds

LEMMA NextStepKeepsQueue ==
  ASSUME NEW x, NEW r
  PROVE  QueueKept(x, NextStep(x, r))
<1> DEFINE y == [x EXCEPT !.refreshes[r].todo = Tail(@), !.refreshes[r].pc = "turn"]
<1>1. NextStep(x, r) = IF Len(x.refreshes[r].todo) = 1 THEN RunEnds(y, r) ELSE y
  BY DEF NextStep
<1>2. QueueKept(x, y)
  BY DEF QueueKept
<1> HIDE DEF y
<1>3. QueueKept(y, RunEnds(y, r))
  BY RunEndsKeepsQueue
<1>4. QED
  BY <1>1, <1>2, <1>3 DEF QueueKept

LEMMA RunsKeepQueue ==
  ASSUME NEW x, NEW r, NEW outcome, NEW stale
  PROVE  /\ QueueKept(x, RunEnds(x, r)) /\ QueueKept(x, NextStep(x, r))
         /\ QueueKept(x, AfterCapture(x, r, outcome)) /\ QueueKept(x, GoOn(x, r, stale))
<1> DEFINE y == [x EXCEPT !.refreshing = NoStep,
                          !.refreshes[r].join = IF outcome = "changed" /\ @ = 0 THEN Newest(x) ELSE @]
           z == [y EXCEPT !.progress = TRUE]
<1>1. AfterCapture(x, r, outcome) = IF outcome = "stopped" THEN RunEnds(y, r) ELSE NextStep(z, r)
  BY DEF AfterCapture
<1>2. QueueKept(x, y) /\ QueueKept(x, z)
  BY DEF QueueKept
<1> HIDE DEF y, z
<1>3. QueueKept(y, RunEnds(y, r)) /\ QueueKept(z, NextStep(z, r))
  BY RunEndsKeepsQueue, NextStepKeepsQueue
<1>4. QueueKept(x, AfterCapture(x, r, outcome))
  BY <1>1, <1>2, <1>3 DEF QueueKept
<1>5. QueueKept(x, GoOn(x, r, stale))
  BY DEF QueueKept, GoOn
<1>6. QED
  BY <1>4, <1>5, RunEndsKeepsQueue, NextStepKeepsQueue

LEMMA FinishKnows ==
  ASSUME NEW x, QueueKnowsNewest(x), NEW c, NEW outcome
  PROVE  QueueKnowsNewest(Finish(x, c, outcome))
<1> DEFINE cap == x.caps[c]
           y == [x EXCEPT !.marks[cap.step] = None, !.caps[c] = Ended]
<1>1. QueueKept(x, y)
  BY DEF QueueKept
<1>2. Finish(x, c, outcome) =
        IF cap.edit > 0 THEN Written(y, cap.edit)
        ELSE IF cap.run > 0 THEN AfterCapture(y, cap.run, outcome) ELSE y
  BY DEF Finish
<1> HIDE DEF y
<1>3. QueueKnowsNewest(y)
  BY <1>1, QueueKeptKnows
<1>4. QueueKnowsNewest(Written(y, cap.edit))
  BY <1>3, WrittenKnows
<1>5. QueueKnowsNewest(AfterCapture(y, cap.run, outcome))
  BY <1>3, RunsKeepQueue, QueueKeptKnows
<1>6. QED
  BY <1>2, <1>3, <1>4, <1>5

LEMMA BegunKeepsQueue ==
  ASSUME NEW x, NEW s, NEW run, NEW edit
  PROVE  QueueKept(x, Begun(x, s, run, edit))
BY DEF QueueKept, Begun

LEMMA TryStepKnows ==
  ASSUME NEW x, QueueKnowsNewest(x), NEW r
  PROVE  QueueKnowsNewest(TryStep(x, r))
<1> DEFINE run == x.refreshes[r]
           s == Head(run.todo)
           b == Begun(x, s, r, 0)
           y == [b EXCEPT !.refreshing = s, !.refreshes[r].pc = "capture"]
<1>1. TryStep(x, r) =
        IF run.cancelled \/ x.load # run.load THEN RunEnds(x, r)
        ELSE IF x.steps[s].drawn = None THEN NextStep(x, r)
        ELSE IF x.marks[s] # None THEN AfterCapture(x, r, "busy")
        ELSE y
  BY DEF TryStep
<1>2. QueueKept(x, b)
  BY BegunKeepsQueue
<1> HIDE DEF b, s, run
<1>3. QueueKept(x, y)
  BY <1>2 DEF QueueKept
<1> HIDE DEF y
<1>4. TryStep(x, r) \in {RunEnds(x, r), NextStep(x, r), AfterCapture(x, r, "busy"), y}
  BY <1>1
<1>5. QueueKept(x, RunEnds(x, r)) /\ QueueKept(x, NextStep(x, r)) /\ QueueKept(x, AfterCapture(x, r, "busy"))
  BY RunsKeepQueue
<1>6. QueueKept(x, TryStep(x, r))
  BY <1>3, <1>4, <1>5
<1>7. QED
  BY <1>6, QueueKeptKnows

LEMMA HistoryKeepsQueue ==
  ASSUME NEW x, NEW by, NEW st, NEW extend
  PROVE  /\ QueueKept(x, Commit(x, by, st, extend)) /\ QueueKept(x, Disturb(x, by))
         /\ QueueKept(x, Undone(x)) /\ QueueKept(x, Redone(x))
<1>1. QueueKept(x, Commit(x, by, st, extend))
  BY DEF QueueKept, Commit
<1>2. QueueKept(x, Disturb(x, by))
  BY DEF QueueKept, Disturb
<1>3. QueueKept(x, Undone(x)) /\ QueueKept(x, Redone(x))
  BY DEF QueueKept, Undone, Redone
<1>4. QED
  BY <1>1, <1>2, <1>3

LEMMA QueueInit == Init => QueueKnowsNewest(d)
<1> SUFFICES ASSUME Init PROVE QueueKnowsNewest(d)
  OBVIOUS
<1>1. {"queue", "edits"} \subseteq DOMAIN d /\ d.queue = NoQueue /\ d.edits = <<>>
  BY DEF Init
<1>2. QED
  BY <1>1, EmptyIsSeq DEF QueueKnowsNewest, NoQueue

LEMMA QueueStep ==
  ASSUME QueueKnowsNewest(d), [Next]_vars
  PROVE  QueueKnowsNewest(d)'
<1> DEFINE Knows == QueueKnowsNewest(d')
<1> HIDE DEF Knows
<1>0. ASSUME QueueKept(d, d') PROVE Knows
  BY <1>0, QueueKeptKnows DEF Knows
<1>1. ASSUME UNCHANGED d \/ Refresh \/ StopRefresh \/ GoToEdit \/ EditPattern \/ LoseKernel PROVE Knows
  <2>1. QueueKept(d, d')
    <3>1. CASE UNCHANGED d
      BY <3>1 DEF QueueKept
    <3>2. CASE Refresh
      BY <3>2 DEF QueueKept, Refresh
    <3>3. CASE StopRefresh
      BY <3>3 DEF QueueKept, StopRefresh
    <3>4. CASE GoToEdit
      BY <3>4 DEF QueueKept, GoToEdit
    <3>5. CASE EditPattern
      BY <3>5 DEF QueueKept, EditPattern
    <3>6. CASE LoseKernel
      BY <3>6 DEF QueueKept, LoseKernel
    <3>7. QED
      BY <1>1, <3>1, <3>2, <3>3, <3>4, <3>5, <3>6
  <2>2. QED
    BY <1>0, <2>1
<1>2. ASSUME NEW r \in DOMAIN d.refreshes, Indexed(r) \/ Confirmed(r) \/ Declined(r) PROVE Knows
  <2> DEFINE over == [d EXCEPT !.refreshes[r].pc = "over"]
             asks == [d EXCEPT !.refreshes[r].pc = "confirm", !.refreshes[r].todo = Stale(d)]
             all == GoOn(d, r, Stale(d))
             rest == GoOn(d, r, d.refreshes[r].todo)
  <2>1. QueueKept(d, over) /\ QueueKept(d, asks)
    BY DEF QueueKept
  <2>2. QueueKept(d, all) /\ QueueKept(d, rest)
    BY RunsKeepQueue
  <2>3. Indexed(r) => d' \in {over, asks, all}
    BY DEF Indexed
  <2>4. Confirmed(r) => d' \in {over, rest}
    BY DEF Confirmed
  <2>5. Declined(r) => d' = over
    BY DEF Declined
  <2> HIDE DEF over, asks, all, rest
  <2>6. d' \in {over, asks, all, rest}
    BY <1>2, <2>3, <2>4, <2>5
  <2>7. QED
    BY <1>0, <2>1, <2>2, <2>6
<1>3. ASSUME NEW r \in DOMAIN d.refreshes, Turn(r) \/ WaitedForEdit(r) PROVE Knows
  <2> DEFINE waits == [d EXCEPT !.refreshes[r].pc = "edit"]
  <2>1. QueueKept(d, waits)
    BY DEF QueueKept
  <2>2. Turn(r) => d' \in {waits, TryStep(d, r)}
    BY DEF Turn
  <2>3. WaitedForEdit(r) => d' = TryStep(d, r)
    BY DEF WaitedForEdit
  <2> HIDE DEF waits
  <2>4. d' \in {waits, TryStep(d, r)}
    BY <1>3, <2>2, <2>3
  <2>5. QED
    BY <1>0, <2>1, <2>4, TryStepKnows DEF Knows
<1>4. ASSUME NEW s \in Steps, Verb(s) PROVE Knows
  BY <1>0, <1>4, BegunKeepsQueue DEF Verb
<1>5. ASSUME NEW key \in Keys, OfferPose(key) PROVE Knows
  BY <1>5, OfferedKnows DEF OfferPose, Knows
<1>6. ASSUME DrainPose PROVE Knows
  <2> DEFINE e == Head(d.queue.pending)
             x == [d EXCEPT !.queue.pending = Tail(@), !.queue.busy = e]
  <2>1. d' = IF d.steps[Posed].drawn = None THEN Written(x, e) ELSE Begun(x, Posed, 0, e)
    BY <1>6 DEF DrainPose
  <2>2. QueueKnowsNewest(x)
    BY DEF QueueKnowsNewest
  <2> HIDE DEF x, e
  <2>3. QueueKnowsNewest(Written(x, e)) /\ QueueKnowsNewest(Begun(x, Posed, 0, e))
    BY <2>2, WrittenKnows, BegunKeepsQueue, QueueKeptKnows
  <2>4. QED
    BY <2>1, <2>3 DEF Knows
<1>7. ASSUME NEW c \in DOMAIN d.caps, Prepared(c) PROVE Knows
  <2> DEFINE n == Len(work')
             s == d.caps[c].step
             drawn == [d EXCEPT !.caps[c].pc = "picture"]
             folds == [d EXCEPT !.caps[c].pc = "fold", !.caps[c].fold = n,
                                !.marks[s] = IF @ = None THEN None ELSE n]
  <2>1. QueueKept(d, drawn)
    BY DEF QueueKept
  <2>2. QueueKept(d, folds)
    BY DEF QueueKept
  <2>3. d' \in {drawn, folds}
    BY <1>7 DEF Prepared
  <2> HIDE DEF drawn, folds
  <2>4. QED
    BY <1>0, <2>1, <2>2, <2>3
<1>8. ASSUME NEW c \in DOMAIN d.caps, Folded(c) \/ FailCapture(c) PROVE Knows
  <2> DEFINE drawn == [d EXCEPT !.caps[c].pc = "picture"]
             ends == {Finish(d, c, "stopped"), Finish(d, c, "failed"), Finish(d, c, "discarded")}
  <2>1. QueueKept(d, drawn)
    BY DEF QueueKept
  <2>2. Folded(c) => d' \in ends \cup {drawn}
    BY DEF Folded
  <2>3. FailCapture(c) => d' \in ends
    BY DEF FailCapture
  <2>4. \A y \in ends : QueueKnowsNewest(y)
    BY FinishKnows
  <2> HIDE DEF drawn, ends
  <2>5. d' \in ends \cup {drawn}
    BY <1>8, <2>2, <2>3
  <2>6. QED
    BY <1>0, <2>1, <2>4, <2>5 DEF Knows
<1>9. ASSUME NEW c \in DOMAIN d.caps, Land(c) PROVE Knows
  <2> DEFINE cap == d.caps[c]
             y == Commit(d, cap.run, Pictured(d, cap), Joins(d, cap))
             z == Finish(y, c, "changed")
  <2>1. QueueKept(d, y) /\ QueueKept(z, Disturb(z, cap.run))
    BY HistoryKeepsQueue
  <2>2. (\E outcome : d' = Finish(d, c, outcome)) \/ d' = Disturb(z, cap.run)
    BY <1>9 DEF Land
  <2> HIDE DEF y
  <2>3. QueueKnowsNewest(z)
    BY <2>1, QueueKeptKnows, FinishKnows
  <2> HIDE DEF z
  <2>4. QED
    BY <2>1, <2>2, <2>3, QueueKeptKnows, FinishKnows DEF Knows
<1>10. ASSUME NEW s \in Steps, EditSource(s) PROVE Knows
  <2> DEFINE st == [d.steps EXCEPT ![s] = [rev |-> @.rev + 1, src |-> d.sources + 1, drawn |-> None]]
             x == Commit(d, 0, st, FALSE)
             y == [x EXCEPT !.sources = d.sources + 1]
  <2>1. d' = Disturb(y, 0)
    BY <1>10 DEF EditSource
  <2>2. QueueKept(d, x)
    <3> DEFINE no == FALSE
    <3> HIDE DEF no, st
    <3>1. QueueKept(d, Commit(d, 0, st, no))
      BY HistoryKeepsQueue
    <3>2. QED
      BY <3>1 DEF no
  <2> HIDE DEF x
  <2>3. QueueKept(x, y)
    BY DEF QueueKept
  <2> HIDE DEF y
  <2>4. QueueKept(y, Disturb(y, 0))
    BY HistoryKeepsQueue
  <2>5. QED
    BY <1>0, <2>1, <2>2, <2>3, <2>4 DEF QueueKept
<1>11. ASSUME Undo \/ Redo PROVE Knows
  <2> DEFINE x == SessionsEnded(d)
  <2>1. d' = Disturb(Undone(x), 0) \/ d' = Disturb(Redone(x), 0)
    BY <1>11 DEF Undo, Redo
  <2>2. QueueKnowsNewest(x)
    BY EndedKnows
  <2> HIDE DEF x
  <2>3. QueueKnowsNewest(Undone(x)) /\ QueueKnowsNewest(Redone(x))
    BY <2>2, HistoryKeepsQueue, QueueKeptKnows
  <2>4. QED
    BY <2>1, <2>3, HistoryKeepsQueue, QueueKeptKnows DEF Knows
<1>12. ASSUME Open PROVE Knows
  <2>1. QueueKnowsNewest(SessionsEnded(d))
    BY EndedKnows
  <2>2. QueueKept(SessionsEnded(d), d')
    BY <1>12 DEF Open, QueueKept
  <2>3. QED
    BY <2>1, <2>2, QueueKeptKnows DEF Knows
<1>13. ASSUME EditFold \/ StopAll \/ FoldGoesOn \/ UNCHANGED vars \/ (\E s \in Steps : StopCapture(s)) PROVE Knows
  BY <1>1, <1>13 DEF EditFold, StopAll, FoldGoesOn, StopCapture, vars
<1>14. Knows
  <2>1. CASE Next
    BY <1>1, <1>2, <1>3, <1>4, <1>5, <1>6, <1>7, <1>8, <1>9, <1>10, <1>11, <1>12, <1>13, <2>1 DEF Next
  <2>2. CASE UNCHANGED vars
    BY <1>13, <2>2
  <2>3. QED
    BY <2>1, <2>2
<1>15. QED
  BY <1>14 DEF Knows

\* A pose edit that lands is the newest of its field, for any number of edits: a
\* capture is committed only for the edit the queue has as its field's latest, and
\* that is never older than one offered since.
THEOREM PosesLandNewest == Spec => NewestPoseWins
<1>1. QueueKnowsNewest(d) /\ [Next]_vars => QueueKnowsNewest(d)'
  BY QueueStep
<1>2. CaptureInv /\ QueueKnowsNewest(d) /\ [Next]_vars =>
        [\A c \in DOMAIN d.caps : Landed(c) /\ d.caps[c].edit > 0 =>
           ~\E e \in DOMAIN d.edits : e > d.caps[c].edit /\ d.edits[e].key = d.edits[d.caps[c].edit].key]_vars
  <2> SUFFICES ASSUME CaptureInv, QueueKnowsNewest(d), [Next]_vars,
                      NEW c \in DOMAIN d.caps, Landed(c), d.caps[c].edit > 0,
                      NEW e \in DOMAIN d.edits, e > d.caps[c].edit,
                      d.edits[e].key = d.edits[d.caps[c].edit].key
               PROVE  FALSE
    OBVIOUS
  <2> DEFINE edit == d.caps[c].edit
             k == d.edits[edit].key
  <2>1. Current(d, c)
    BY CaptureStep DEF LandsCurrent
  <2>2. edit = 0 \/ d.queue.latest[k] = edit
    BY <2>1 DEF Current, IsLatest
  <2>3. k \in Keys
    BY DEF QueueKnowsNewest
  <2>4. e \in Nat
    BY SeqFacts DEF QueueKnowsNewest
  <2>5. QED
    BY <2>2, <2>3, <2>4 DEF QueueKnowsNewest
<1>3. QED
  BY <1>1, <1>2, QueueInit, CaptureInvHolds, PTL DEF Spec, NewestPoseWins

----------------------------------------------------------------------------
(* One run of Refresh all at a time.                                       *)

RunStates == {"index", "confirm", "turn", "edit", "capture", "over"}

\* At most one run is not over; the one that captures is the run Stop cancels,
\* and shows its progress in its own document, which is never one opened later.
OneRun(x) ==
  /\ {"refreshes", "cancel", "progress", "load"} \subseteq DOMAIN x
  /\ IsSeq(x.refreshes) /\ x.load \in Nat
  /\ \A r \in DOMAIN x.refreshes :
       /\ {"pc", "load"} \subseteq DOMAIN x.refreshes[r]
       /\ x.refreshes[r].pc \in RunStates /\ x.refreshes[r].load \in Nat /\ x.refreshes[r].load <= x.load
       /\ \A q \in DOMAIN x.refreshes : x.refreshes[r].pc = "over" \/ x.refreshes[q].pc = "over" \/ r = q
       /\ Live(x.refreshes[r]) => x.cancel = r /\ (x.load = x.refreshes[r].load => x.progress)

\* What leaves each run where it is, and the document and its progress alone.
RunsAlike(x, y) ==
  /\ DOMAIN y = DOMAIN x /\ y.cancel = x.cancel /\ y.load = x.load /\ y.progress = x.progress
  /\ \E T : y.refreshes \in [DOMAIN x.refreshes -> T]
  /\ \A r \in DOMAIN x.refreshes :
       DOMAIN y.refreshes[r] = DOMAIN x.refreshes[r]
       /\ y.refreshes[r].pc = x.refreshes[r].pc /\ y.refreshes[r].load = x.refreshes[r].load

LEMMA RunsAlikeOne ==
  ASSUME NEW x, NEW y, OneRun(x), RunsAlike(x, y)
  PROVE  OneRun(y)
<1>1. PICK T : y.refreshes \in [DOMAIN x.refreshes -> T]
  BY DEF RunsAlike
<1>2. IsSeq(y.refreshes) /\ DOMAIN y.refreshes = DOMAIN x.refreshes
  BY <1>1, SeqSame DEF OneRun
<1>3. QED
  BY <1>2 DEF OneRun, RunsAlike, Live

\* The run that is not over moves, or ends.
LEMMA OneMoves ==
  ASSUME NEW x, NEW y, OneRun(x), NEW r \in DOMAIN x.refreshes, x.refreshes[r].pc # "over",
         NEW run, y.refreshes = [x.refreshes EXCEPT ![r] = run],
         {"pc", "load"} \subseteq DOMAIN run, run.load = x.refreshes[r].load, run.pc \in RunStates,
         DOMAIN y = DOMAIN x, y.load = x.load,
         Live(run) => y.cancel = r /\ (x.load = run.load => y.progress)
  PROVE  OneRun(y)
<1>1. /\ DOMAIN y.refreshes = DOMAIN x.refreshes /\ y.refreshes[r] = run
      /\ \A q \in DOMAIN x.refreshes : q # r => y.refreshes[q] = x.refreshes[q]
  OBVIOUS
<1>2. y.refreshes \in [DOMAIN x.refreshes -> {y.refreshes[q] : q \in DOMAIN x.refreshes}]
  OBVIOUS
<1>3. IsSeq(y.refreshes)
  BY <1>2, SeqSame DEF OneRun
<1>4. \A q \in DOMAIN x.refreshes : q # r => x.refreshes[q].pc = "over"
  BY DEF OneRun
<1>5. ASSUME NEW q \in DOMAIN y.refreshes
      PROVE  /\ {"pc", "load"} \subseteq DOMAIN y.refreshes[q]
             /\ y.refreshes[q].pc \in RunStates /\ y.refreshes[q].load \in Nat /\ y.refreshes[q].load <= y.load
             /\ \A p \in DOMAIN y.refreshes : y.refreshes[q].pc = "over" \/ y.refreshes[p].pc = "over" \/ q = p
             /\ Live(y.refreshes[q]) => y.cancel = q /\ (y.load = y.refreshes[q].load => y.progress)
  <2>1. CASE q = r
    BY <1>1, <1>4, <2>1 DEF OneRun
  <2>2. CASE q # r
    BY <1>1, <1>4, <1>5, <2>2 DEF OneRun, Live
  <2>3. QED
    BY <2>1, <2>2
<1>6. QED
  BY <1>1, <1>3, <1>5 DEF OneRun

LEMMA RunEndsOne ==
  ASSUME NEW x, OneRun(x), NEW r \in DOMAIN x.refreshes, x.refreshes[r].pc # "over"
  PROVE  OneRun(RunEnds(x, r))
<1> DEFINE y == RunEnds(x, r)
           run == [x.refreshes[r] EXCEPT !.pc = "over"]
<1>1. /\ y.refreshes = [x.refreshes EXCEPT ![r] = run] /\ DOMAIN y = DOMAIN x /\ y.load = x.load
  BY DEF RunEnds, OneRun
<1>2. /\ {"pc", "load"} \subseteq DOMAIN run /\ run.load = x.refreshes[r].load /\ ~Live(run) /\ run.pc \in RunStates
  BY DEF OneRun, Live, RunStates
<1> HIDE DEF y, run
<1>3. OneRun(y)
  BY <1>1, <1>2, OneMoves
<1>4. QED
  BY <1>3 DEF y

\* A run's next step: the run is under way, and its progress shows.
LEMMA NextStepOne ==
  ASSUME NEW x, OneRun(x), NEW r \in DOMAIN x.refreshes, Live(x.refreshes[r])
  PROVE  OneRun(NextStep(x, r))
<1> DEFINE y == [x EXCEPT !.refreshes[r].todo = Tail(@), !.refreshes[r].pc = "turn"]
           run == [[x.refreshes[r] EXCEPT !.todo = Tail(@)] EXCEPT !.pc = "turn"]
<1>1. NextStep(x, r) = IF Len(x.refreshes[r].todo) = 1 THEN RunEnds(y, r) ELSE y
  BY DEF NextStep
<1>2. /\ y.refreshes = [x.refreshes EXCEPT ![r] = run] /\ DOMAIN y = DOMAIN x /\ y.load = x.load
      /\ y.cancel = x.cancel /\ y.progress = x.progress
  BY DEF OneRun
<1>3. {"pc", "load"} \subseteq DOMAIN run /\ run.load = x.refreshes[r].load /\ run.pc = "turn" /\ run.pc \in RunStates
  BY DEF OneRun, RunStates
<1>4. x.cancel = r /\ (x.load = run.load => x.progress) /\ x.refreshes[r].pc # "over"
  BY <1>3 DEF OneRun, Live
<1> HIDE DEF y, run
<1>5. OneRun(y)
  BY <1>2, <1>3, <1>4, OneMoves
<1>6. r \in DOMAIN y.refreshes /\ y.refreshes[r].pc # "over"
  BY <1>2, <1>3
<1>7. OneRun(RunEnds(y, r))
  BY <1>5, <1>6, RunEndsOne
<1>8. QED
  BY <1>1, <1>5, <1>7

LEMMA AfterCaptureOne ==
  ASSUME NEW x, OneRun(x), NEW r \in DOMAIN x.refreshes, Live(x.refreshes[r]), NEW outcome
  PROVE  OneRun(AfterCapture(x, r, outcome))
<1> DEFINE y == [x EXCEPT !.refreshing = NoStep,
                          !.refreshes[r].join = IF outcome = "changed" /\ @ = 0 THEN Newest(x) ELSE @]
           z == [y EXCEPT !.progress = TRUE]
           run == [x.refreshes[r] EXCEPT !.join = IF outcome = "changed" /\ @ = 0 THEN Newest(x) ELSE @]
<1>1. AfterCapture(x, r, outcome) = IF outcome = "stopped" THEN RunEnds(y, r) ELSE NextStep(z, r)
  BY DEF AfterCapture
<1>2. /\ y.refreshes = [x.refreshes EXCEPT ![r] = run] /\ DOMAIN y = DOMAIN x /\ y.load = x.load
      /\ y.cancel = x.cancel /\ y.progress = x.progress
  BY DEF OneRun
<1>3. {"pc", "load"} \subseteq DOMAIN run /\ run.load = x.refreshes[r].load /\ run.pc = x.refreshes[r].pc /\ run.pc \in RunStates
  BY DEF OneRun
<1>4. x.cancel = r /\ (x.load = run.load => x.progress) /\ x.refreshes[r].pc # "over" /\ Live(run)
  BY <1>3 DEF OneRun, Live
<1>5. /\ z.refreshes = y.refreshes /\ DOMAIN z = DOMAIN y /\ z.load = y.load /\ z.cancel = y.cancel
  OBVIOUS
<1>6. z.progress
  BY <1>2 DEF OneRun
<1> HIDE DEF y, z, run
<1>7. OneRun(y) /\ OneRun(z)
  BY <1>2, <1>3, <1>4, <1>5, <1>6, OneMoves
<1>8. r \in DOMAIN y.refreshes /\ r \in DOMAIN z.refreshes /\ Live(z.refreshes[r]) /\ y.refreshes[r].pc # "over"
  BY <1>2, <1>3, <1>4, <1>5
<1>9. OneRun(RunEnds(y, r)) /\ OneRun(NextStep(z, r))
  BY <1>7, <1>8, RunEndsOne, NextStepOne
<1>10. QED
  BY <1>1, <1>9

LEMMA GoOnOne ==
  ASSUME NEW x, OneRun(x), NEW r \in DOMAIN x.refreshes, x.refreshes[r].pc # "over", NEW stale
  PROVE  OneRun(GoOn(x, r, stale))
<1> DEFINE y == GoOn(x, r, stale)
           run == [[x.refreshes[r] EXCEPT !.pc = "turn"] EXCEPT !.todo = stale]
<1>1. /\ y.refreshes = [x.refreshes EXCEPT ![r] = run] /\ DOMAIN y = DOMAIN x /\ y.load = x.load
      /\ y.cancel = r /\ y.progress
  BY DEF GoOn, OneRun
<1>2. {"pc", "load"} \subseteq DOMAIN run /\ run.load = x.refreshes[r].load /\ run.pc \in RunStates
  BY DEF OneRun, RunStates
<1> HIDE DEF y, run
<1>3. OneRun(y)
  BY <1>1, <1>2, OneMoves
<1>4. QED
  BY <1>3 DEF y

\* What the rest of the page does leaves the runs alike.
SameRuns(x, y) ==
  DOMAIN y = DOMAIN x /\ y.refreshes = x.refreshes /\ y.cancel = x.cancel
  /\ y.load = x.load /\ y.progress = x.progress

LEMMA SameRunsOne ==
  ASSUME NEW x, NEW y, OneRun(x), SameRuns(x, y)
  PROVE  OneRun(y)
BY DEF OneRun, SameRuns

LEMMA PoseQueueSameRuns ==
  ASSUME NEW x, NEW e, NEW key
  PROVE  SameRuns(x, Offered(x, key)) /\ SameRuns(x, SessionsEnded(x)) /\ SameRuns(x, Written(x, e))
<1>1. \A es : SameRuns(x, DoneEdits(x, es))
  BY DEF SameRuns, DoneEdits
<1>2. SameRuns(x, Offered(x, key))
  BY <1>1 DEF SameRuns, Offered
<1>3. SameRuns(x, SessionsEnded(x))
  BY <1>1 DEF SameRuns, SessionsEnded
<1>4. SameRuns(x, Written(x, e))
  BY <1>1 DEF SameRuns, Written
<1>5. QED
  BY <1>2, <1>3, <1>4

LEMMA PageSameRuns ==
  ASSUME NEW x, NEW by, NEW st, NEW extend, NEW s, NEW run, NEW edit
  PROVE  /\ SameRuns(x, Commit(x, by, st, extend)) /\ SameRuns(x, Undone(x)) /\ SameRuns(x, Redone(x))
         /\ SameRuns(x, Begun(x, s, run, edit))
<1>1. SameRuns(x, Commit(x, by, st, extend))
  BY DEF SameRuns, Commit
<1>2. SameRuns(x, Undone(x))
  BY DEF SameRuns, Undone
<1>3. SameRuns(x, Redone(x))
  BY DEF SameRuns, Redone
<1>4. SameRuns(x, Begun(x, s, run, edit))
  BY DEF SameRuns, Begun
<1>5. QED
  BY <1>1, <1>2, <1>3, <1>4

LEMMA DisturbOne ==
  ASSUME NEW x, OneRun(x), NEW by
  PROVE  OneRun(Disturb(x, by)) /\ \A r \in DOMAIN x.refreshes :
           r \in DOMAIN Disturb(x, by).refreshes /\ Disturb(x, by).refreshes[r].pc = x.refreshes[r].pc
<1> DEFINE rs == [r \in DOMAIN x.refreshes |-> [x.refreshes[r] EXCEPT !.alone = @ /\ r = by]]
           y == Disturb(x, by)
<1>1. y.refreshes = rs /\ DOMAIN y = DOMAIN x /\ y.cancel = x.cancel /\ y.load = x.load /\ y.progress = x.progress
  BY DEF Disturb, OneRun
<1>2. \A r \in DOMAIN x.refreshes : DOMAIN rs[r] = DOMAIN x.refreshes[r]
        /\ rs[r].pc = x.refreshes[r].pc /\ rs[r].load = x.refreshes[r].load
  BY DEF OneRun
<1>3. DOMAIN rs = DOMAIN x.refreshes /\ rs \in [DOMAIN x.refreshes -> {rs[r] : r \in DOMAIN x.refreshes}]
  OBVIOUS
<1> HIDE DEF rs, y
<1>4. RunsAlike(x, y)
  BY <1>1, <1>2, <1>3 DEF RunsAlike
<1>5. OneRun(y)
  BY <1>4, RunsAlikeOne
<1>6. QED
  BY <1>1, <1>2, <1>3, <1>5 DEF y

LEMMA FinishOne ==
  ASSUME NEW x, OneRun(x), NEW c, NEW outcome,
         x.caps[c].run > 0 => x.caps[c].run \in DOMAIN x.refreshes /\ x.refreshes[x.caps[c].run].pc = "capture"
  PROVE  OneRun(Finish(x, c, outcome))
<1> DEFINE cap == x.caps[c]
           y == [x EXCEPT !.marks[cap.step] = None, !.caps[c] = Ended]
<1>1. Finish(x, c, outcome) =
        IF cap.edit > 0 THEN Written(y, cap.edit)
        ELSE IF cap.run > 0 THEN AfterCapture(y, cap.run, outcome) ELSE y
  BY DEF Finish
<1>2. SameRuns(x, y)
  BY DEF SameRuns
<1> HIDE DEF y
<1>3. OneRun(y)
  BY <1>2, SameRunsOne
<1>4. OneRun(Written(y, cap.edit))
  BY <1>3, PoseQueueSameRuns, SameRunsOne
<1>5. cap.run > 0 => OneRun(AfterCapture(y, cap.run, outcome))
  BY <1>2, <1>3, AfterCaptureOne DEF SameRuns, Live
<1>6. QED
  BY <1>1, <1>3, <1>4, <1>5

LEMMA TryStepOne ==
  ASSUME NEW x, OneRun(x), NEW r \in DOMAIN x.refreshes, Live(x.refreshes[r])
  PROVE  OneRun(TryStep(x, r))
<1> DEFINE run == x.refreshes[r]
           s == Head(run.todo)
           b == Begun(x, s, r, 0)
           y == [b EXCEPT !.refreshing = s, !.refreshes[r].pc = "capture"]
           moved == [x.refreshes[r] EXCEPT !.pc = "capture"]
<1>1. TryStep(x, r) =
        IF run.cancelled \/ x.load # run.load THEN RunEnds(x, r)
        ELSE IF x.steps[s].drawn = None THEN NextStep(x, r)
        ELSE IF x.marks[s] # None THEN AfterCapture(x, r, "busy")
        ELSE y
  BY DEF TryStep
<1>2. SameRuns(x, b)
  BY PageSameRuns
<1> HIDE DEF b, s
<1>3. /\ y.refreshes = [x.refreshes EXCEPT ![r] = moved] /\ DOMAIN y = DOMAIN x /\ y.load = x.load
      /\ y.cancel = x.cancel /\ y.progress = x.progress
  BY <1>2 DEF SameRuns, OneRun
<1>4. {"pc", "load"} \subseteq DOMAIN moved /\ moved.load = x.refreshes[r].load /\ moved.pc \in RunStates
  BY DEF OneRun, RunStates
<1>5. x.cancel = r /\ (x.load = moved.load => x.progress) /\ x.refreshes[r].pc # "over"
  BY <1>4 DEF OneRun, Live
<1> HIDE DEF y, moved, run
<1>6. OneRun(y)
  BY <1>3, <1>4, <1>5, OneMoves
<1>7. OneRun(RunEnds(x, r)) /\ OneRun(NextStep(x, r)) /\ OneRun(AfterCapture(x, r, "busy"))
  BY <1>5, RunEndsOne, NextStepOne, AfterCaptureOne
<1>8. QED
  BY <1>1, <1>6, <1>7

LEMMA OneRunInit == Init => OneRun(d)
<1> SUFFICES ASSUME Init PROVE OneRun(d)
  OBVIOUS
<1>1. /\ {"refreshes", "cancel", "progress", "load"} \subseteq DOMAIN d
      /\ d.refreshes = <<>> /\ d.load = 1
  BY DEF Init
<1>2. QED
  BY <1>1, EmptyIsSeq DEF OneRun

\* A new run of Refresh all starts when every other is over.
LEMMA RefreshOne ==
  ASSUME ~Overlaps, OneRun(d), Refresh
  PROVE  OneRun(d')
<1> DEFINE run == [pc |-> "index", load |-> d.load, todo |-> <<>>, cancelled |-> FALSE, join |-> 0, alone |-> TRUE]
           n == Len(d.refreshes) + 1
<1>1. DOMAIN d' = DOMAIN d /\ d'.refreshes = Append(d.refreshes, run)
      /\ d'.load = d.load
  BY DEF Refresh, OneRun
<1>2. {"pc", "load"} \subseteq DOMAIN run /\ run.load = d.load /\ run.pc \in RunStates /\ ~Live(run)
  BY DEF Live, RunStates
<1> HIDE DEF run
<1>3. /\ IsSeq(d'.refreshes) /\ DOMAIN d'.refreshes = 1..n /\ d'.refreshes[n] = run
      /\ \A r \in DOMAIN d.refreshes : d'.refreshes[r] = d.refreshes[r]
      /\ DOMAIN d.refreshes = 1..(n - 1) /\ n \in Nat
  BY <1>1, SeqAppend, SeqFacts DEF OneRun
<1>4. \A r \in DOMAIN d.refreshes : ~Live(d.refreshes[r]) /\ d.refreshes[r].pc \notin {"index", "confirm"}
  BY <1>3 DEF Refresh, OneRun
<1>5. \A r \in DOMAIN d'.refreshes : r = n \/ r \in DOMAIN d.refreshes
  BY <1>3
<1>6. \A r \in DOMAIN d.refreshes : d.refreshes[r].pc = "over"
  BY <1>4 DEF OneRun, RunStates, Live
<1>7. ASSUME NEW r \in DOMAIN d'.refreshes
      PROVE  /\ {"pc", "load"} \subseteq DOMAIN d'.refreshes[r]
             /\ d'.refreshes[r].pc \in RunStates /\ d'.refreshes[r].load \in Nat /\ d'.refreshes[r].load <= d'.load
             /\ \A q \in DOMAIN d'.refreshes :
                  d'.refreshes[r].pc = "over" \/ d'.refreshes[q].pc = "over" \/ r = q
             /\ ~Live(d'.refreshes[r])
  <2>1. CASE r = n
    BY <1>1, <1>2, <1>3, <1>5, <1>6, <2>1 DEF OneRun
  <2>2. CASE r \in DOMAIN d.refreshes
    BY <1>1, <1>3, <1>4, <1>6, <2>2 DEF OneRun
  <2>3. QED
    BY <1>5, <2>1, <2>2
<1>8. QED
  BY <1>1, <1>3, <1>7 DEF OneRun

LEMMA OneRunStep ==
  ASSUME ~Overlaps, CaptureInv, OneRun(d), [Next]_vars
  PROVE  OneRun(d)'
<1> DEFINE One == OneRun(d')
<1>0. ASSUME NEW x, OneRun(x), SameRuns(x, d') PROVE One
  BY <1>0, SameRunsOne
<1>1. ASSUME NEW x, OneRun(x), RunsAlike(x, d') PROVE One
  BY <1>1, RunsAlikeOne
<1>2. ASSUME Refresh PROVE One
  BY <1>2, RefreshOne
<1>3. ASSUME NEW r \in DOMAIN d.refreshes, Indexed(r) \/ Confirmed(r) \/ Declined(r) PROVE One
  <2> DEFINE run == [d.refreshes[r] EXCEPT !.pc = "over"]
             asked == [[d.refreshes[r] EXCEPT !.pc = "confirm"] EXCEPT !.todo = Stale(d)]
             over == [d EXCEPT !.refreshes[r].pc = "over"]
             asks == [d EXCEPT !.refreshes[r].pc = "confirm", !.refreshes[r].todo = Stale(d)]
             all == GoOn(d, r, Stale(d))
             rest == GoOn(d, r, d.refreshes[r].todo)
  <2>1. d.refreshes[r].pc # "over"
    BY <1>3 DEF Indexed, Confirmed, Declined
  <2>2. /\ over.refreshes = [d.refreshes EXCEPT ![r] = run] /\ DOMAIN over = DOMAIN d /\ over.load = d.load
        /\ {"pc", "load"} \subseteq DOMAIN run /\ run.load = d.refreshes[r].load
        /\ run.pc \in RunStates /\ ~Live(run)
    BY DEF OneRun, RunStates, Live
  <2>3. /\ asks.refreshes = [d.refreshes EXCEPT ![r] = asked] /\ DOMAIN asks = DOMAIN d /\ asks.load = d.load
        /\ {"pc", "load"} \subseteq DOMAIN asked /\ asked.load = d.refreshes[r].load
        /\ asked.pc \in RunStates /\ ~Live(asked)
    BY DEF OneRun, RunStates, Live
  <2>4. Indexed(r) => d' \in {over, asks, all}
    BY DEF Indexed
  <2>5. Confirmed(r) => d' \in {over, rest}
    BY DEF Confirmed
  <2>6. Declined(r) => d' = over
    BY DEF Declined
  <2>7. OneRun(all) /\ OneRun(rest)
    BY <2>1, GoOnOne
  <2> HIDE DEF run, asked, over, asks, all, rest
  <2>8. OneRun(over) /\ OneRun(asks)
    BY <2>1, <2>2, <2>3, OneMoves
  <2>9. QED
    BY <1>3, <2>4, <2>5, <2>6, <2>7, <2>8
<1>4. ASSUME NEW r \in DOMAIN d.refreshes, Turn(r) \/ WaitedForEdit(r) PROVE One
  <2> DEFINE run == [d.refreshes[r] EXCEPT !.pc = "edit"]
             waits == [d EXCEPT !.refreshes[r].pc = "edit"]
  <2>1. Live(d.refreshes[r])
    BY <1>4 DEF Turn, WaitedForEdit, Live
  <2>2. /\ waits.refreshes = [d.refreshes EXCEPT ![r] = run] /\ DOMAIN waits = DOMAIN d /\ waits.load = d.load
        /\ waits.cancel = d.cancel /\ waits.progress = d.progress
        /\ {"pc", "load"} \subseteq DOMAIN run /\ run.load = d.refreshes[r].load /\ run.pc \in RunStates
    BY DEF OneRun, RunStates
  <2>3. d.cancel = r /\ (d.load = run.load => d.progress) /\ d.refreshes[r].pc # "over"
    BY <2>1, <2>2 DEF OneRun, Live
  <2>4. Turn(r) => d' \in {waits, TryStep(d, r)}
    BY DEF Turn
  <2>5. WaitedForEdit(r) => d' = TryStep(d, r)
    BY DEF WaitedForEdit
  <2> HIDE DEF run, waits
  <2>6. OneRun(waits)
    BY <2>2, <2>3, OneMoves
  <2>7. OneRun(TryStep(d, r))
    BY <2>1, TryStepOne
  <2>8. QED
    BY <1>4, <2>4, <2>5, <2>6, <2>7
<1>5. ASSUME StopRefresh PROVE One
  <2> DEFINE rs == [d.refreshes EXCEPT ![d.cancel] = [@ EXCEPT !.cancelled = TRUE]]
  <2>1. /\ d'.refreshes = rs /\ DOMAIN d' = DOMAIN d /\ d'.cancel = d.cancel
        /\ d'.load = d.load /\ d'.progress = d.progress
    BY <1>5 DEF StopRefresh, OneRun
  <2>2. /\ rs \in [DOMAIN d.refreshes -> {rs[r] : r \in DOMAIN d.refreshes}]
        /\ \A r \in DOMAIN d.refreshes : DOMAIN rs[r] = DOMAIN d.refreshes[r]
             /\ rs[r].pc = d.refreshes[r].pc /\ rs[r].load = d.refreshes[r].load
    BY DEF OneRun
  <2> HIDE DEF rs
  <2>3. RunsAlike(d, d')
    BY <2>1, <2>2 DEF RunsAlike
  <2>4. QED
    BY <1>1, <2>3
<1>6. ASSUME LoseKernel PROVE One
  <2> DEFINE rs == [r \in DOMAIN d.refreshes |->
               IF Live(d.refreshes[r]) THEN [d.refreshes[r] EXCEPT !.cancelled = TRUE] ELSE d.refreshes[r]]
  <2>1. /\ d'.refreshes = rs /\ DOMAIN d' = DOMAIN d /\ d'.cancel = d.cancel
        /\ d'.load = d.load /\ d'.progress = d.progress
    BY <1>6 DEF LoseKernel, OneRun
  <2>2. /\ rs \in [DOMAIN d.refreshes -> {rs[r] : r \in DOMAIN d.refreshes}]
        /\ \A r \in DOMAIN d.refreshes : DOMAIN rs[r] = DOMAIN d.refreshes[r]
             /\ rs[r].pc = d.refreshes[r].pc /\ rs[r].load = d.refreshes[r].load
    BY DEF OneRun
  <2> HIDE DEF rs
  <2>3. RunsAlike(d, d')
    BY <2>1, <2>2 DEF RunsAlike
  <2>4. QED
    BY <1>1, <2>3
<1>7. ASSUME NEW s \in Steps, Verb(s) PROVE One
  BY <1>0, <1>7, PageSameRuns DEF Verb
<1>8. ASSUME NEW key \in Keys, OfferPose(key) PROVE One
  BY <1>0, <1>8, PoseQueueSameRuns DEF OfferPose
<1>9. ASSUME DrainPose PROVE One
  <2> DEFINE e == Head(d.queue.pending)
             x == [d EXCEPT !.queue.pending = Tail(@), !.queue.busy = e]
  <2>1. d' = IF d.steps[Posed].drawn = None THEN Written(x, e) ELSE Begun(x, Posed, 0, e)
    BY <1>9 DEF DrainPose
  <2>2. SameRuns(d, x)
    BY DEF SameRuns
  <2> HIDE DEF x, e
  <2>3. OneRun(x) /\ SameRuns(x, Written(x, e)) /\ SameRuns(x, Begun(x, Posed, 0, e))
    BY <2>2, SameRunsOne, PoseQueueSameRuns, PageSameRuns
  <2>4. QED
    BY <1>0, <2>1, <2>3
<1>10. ASSUME NEW c \in DOMAIN d.caps, LiveCap(d, c)
       PROVE  d.caps[c].run > 0 => d.caps[c].run \in DOMAIN d.refreshes /\ d.refreshes[d.caps[c].run].pc = "capture"
  BY <1>10 DEF CaptureInv, Page, CapOK
<1>11. ASSUME NEW c \in DOMAIN d.caps, Prepared(c) PROVE One
  <2> DEFINE n == Len(work')
             s == d.caps[c].step
             drawn == [d EXCEPT !.caps[c].pc = "picture"]
             folds == [d EXCEPT !.caps[c].pc = "fold", !.caps[c].fold = n,
                                !.marks[s] = IF @ = None THEN None ELSE n]
  <2>1. SameRuns(d, drawn)
    BY DEF SameRuns
  <2>2. SameRuns(d, folds)
    BY DEF SameRuns
  <2>3. d' \in {drawn, folds}
    BY <1>11 DEF Prepared
  <2> HIDE DEF drawn, folds
  <2>4. QED
    BY <1>0, <2>1, <2>2, <2>3
<1>12. ASSUME NEW c \in DOMAIN d.caps, Folded(c) \/ FailCapture(c) PROVE One
  <2> DEFINE drawn == [d EXCEPT !.caps[c].pc = "picture"]
             ends == {Finish(d, c, "stopped"), Finish(d, c, "failed"), Finish(d, c, "discarded")}
  <2>1. SameRuns(d, drawn)
    BY DEF SameRuns
  <2>2. Folded(c) => d' \in ends \cup {drawn}
    BY DEF Folded
  <2>3. FailCapture(c) => d' \in ends
    BY DEF FailCapture
  <2>4. LiveCap(d, c)
    BY <1>12 DEF Folded, FailCapture, LiveCap
  <2>5. \A y \in ends : OneRun(y)
    BY <1>10, <2>4, FinishOne
  <2> HIDE DEF drawn, ends
  <2>6. d' \in ends \cup {drawn}
    BY <1>12, <2>2, <2>3
  <2>7. QED
    BY <1>0, <2>1, <2>5, <2>6
<1>13. ASSUME NEW c \in DOMAIN d.caps, Land(c) PROVE One
  <2> DEFINE cap == d.caps[c]
             y == Commit(d, cap.run, Pictured(d, cap), Joins(d, cap))
             z == Finish(y, c, "changed")
  <2>1. (\E outcome : d' = Finish(d, c, outcome)) \/ d' = Disturb(z, cap.run)
    BY <1>13 DEF Land
  <2>2. SameRuns(d, y)
    BY PageSameRuns
  <2>3. LiveCap(d, c)
    BY <1>13 DEF Land, LiveCap
  <2>4. y.caps = d.caps
    BY DEF Commit
  <2> HIDE DEF y
  <2>5. OneRun(y)
    BY <2>2, SameRunsOne
  <2>6. y.caps[c].run > 0 => y.caps[c].run \in DOMAIN y.refreshes /\ y.refreshes[y.caps[c].run].pc = "capture"
    BY <1>10, <2>2, <2>3, <2>4 DEF SameRuns
  <2>7. OneRun(z)
    BY <2>5, <2>6, FinishOne
  <2> HIDE DEF z
  <2>8. OneRun(Disturb(z, cap.run)) /\ \A outcome : OneRun(Finish(d, c, outcome))
    BY <1>10, <2>3, <2>7, FinishOne, DisturbOne
  <2>9. QED
    BY <2>1, <2>8
<1>14. ASSUME NEW s \in Steps, EditSource(s) PROVE One
  <2> DEFINE st == [d.steps EXCEPT ![s] = [rev |-> @.rev + 1, src |-> d.sources + 1, drawn |-> None]]
             no == FALSE
             x == Commit(d, 0, st, no)
             y == [x EXCEPT !.sources = d.sources + 1]
  <2>1. d' = Disturb(y, 0)
    BY <1>14 DEF EditSource
  <2> HIDE DEF no, st
  <2>2. SameRuns(d, x)
    BY PageSameRuns
  <2> HIDE DEF x
  <2>3. SameRuns(x, y)
    BY DEF SameRuns
  <2> HIDE DEF y
  <2>4. OneRun(Disturb(y, 0))
    BY <2>2, <2>3, SameRunsOne, DisturbOne
  <2>5. QED
    BY <2>1, <2>4
<1>15. ASSUME Undo \/ Redo PROVE One
  <2> DEFINE x == SessionsEnded(d)
  <2>1. d' = Disturb(Undone(x), 0) \/ d' = Disturb(Redone(x), 0)
    BY <1>15 DEF Undo, Redo
  <2>2. OneRun(x)
    BY PoseQueueSameRuns, SameRunsOne
  <2> HIDE DEF x
  <2>3. OneRun(Undone(x)) /\ OneRun(Redone(x))
    BY <2>2, PageSameRuns, SameRunsOne
  <2>4. QED
    BY <2>1, <2>3, DisturbOne
<1>16. ASSUME Open PROVE One
  <2> DEFINE x == SessionsEnded(d)
  <2>1. SameRuns(d, x)
    BY PoseQueueSameRuns
  <2>2. DOMAIN d' = DOMAIN x /\ d'.refreshes = x.refreshes /\ d'.cancel = x.cancel /\ d'.load = d.load + 1
    BY <1>16, <2>1 DEF Open, OneRun, SameRuns
  <2> HIDE DEF x
  <2>3. DOMAIN d' = DOMAIN d /\ d'.refreshes = d.refreshes /\ d'.cancel = d.cancel /\ d'.load = d.load + 1
    BY <2>1, <2>2 DEF SameRuns
  <2>4. \A r \in DOMAIN d.refreshes : d.refreshes[r].load # d'.load /\ d.refreshes[r].load <= d'.load
    BY <2>3 DEF OneRun
  <2>5. QED
    BY <2>3, <2>4 DEF OneRun
<1>17. ASSUME GoToEdit \/ EditPattern PROVE One
  <2>1. CASE GoToEdit
    BY <1>0, <2>1 DEF GoToEdit, SameRuns
  <2>2. CASE EditPattern
    BY <1>0, <2>2 DEF EditPattern, SameRuns
  <2>3. QED
    BY <1>17, <2>1, <2>2
<1>18. ASSUME EditFold \/ StopAll \/ FoldGoesOn \/ UNCHANGED vars \/ (\E s \in Steps : StopCapture(s)) PROVE One
  BY <1>18 DEF EditFold, StopAll, FoldGoesOn, StopCapture, vars
<1>19. One
  <2> HIDE DEF One
  <2>1. CASE Next
    BY <1>2, <1>3, <1>4, <1>5, <1>6, <1>7, <1>8, <1>9, <1>11, <1>12, <1>13, <1>14, <1>15, <1>16, <1>17, <1>18, <2>1 DEF Next
  <2>2. CASE UNCHANGED vars
    BY <1>18, <2>2
  <2>3. QED
    BY <2>1, <2>2
<1>20. QED
  BY <1>19

\* While a run of Refresh all captures, or waits to, Stop reaches it and its
\* progress shows, for any number of steps, runs and documents opened meanwhile:
\* so long as it is not asked for again before it knows what is stale, only one
\* run is ever under way.
THEOREM StopReachesIt ==
  ASSUME ~Overlaps
  PROVE  Spec => []StopReachesTheRun
<1>1. CaptureInv /\ OneRun(d) /\ [Next]_vars => OneRun(d)'
  BY OneRunStep
<1>2. OneRun(d) => StopReachesTheRun
  BY DEF OneRun, StopReachesTheRun
<1>3. QED
  BY <1>1, <1>2, OneRunInit, CaptureInvHolds, PTL DEF Spec

----------------------------------------------------------------------------
(* One undo entry for a run of Refresh all.                                *)

EntryFields == {"past", "entries", "load", "caps", "refreshes"}

\* A capture of a run writes no pose, and is of the document the run began in.
OwnedBy(cap, x) ==
  /\ CapFields \subseteq DOMAIN cap
  /\ cap.run = 0 \/ (cap.run \in DOMAIN x.refreshes /\ cap.edit = 0 /\ cap.load = x.refreshes[cap.run].load)

\* Entries are numbered, and written by the runs and by nobody else but 0.
EntriesOK(x) ==
  /\ EntryFields \subseteq DOMAIN x /\ x.load \in Nat /\ x.entries \in Nat
  /\ IsSeq(x.past) /\ IsSeq(x.refreshes) /\ IsSeq(x.caps)
  /\ \A i \in DOMAIN x.past : x.past[i].by \in {0} \cup DOMAIN x.refreshes
  /\ \A r \in DOMAIN x.refreshes :
       /\ RunFields \subseteq DOMAIN x.refreshes[r]
       /\ x.refreshes[r].load \in Nat /\ x.refreshes[r].load <= x.load
  /\ \A c \in DOMAIN x.caps : LiveCap(x, c) => OwnedBy(x.caps[c], x)

\* A run that knows an entry to join finds it the newest, and has no other.
Joined(x, r) ==
  LET run == x.refreshes[r] IN
  /\ run.join # 0 /\ run.load = x.load => x.past # <<>> /\ Last(x.past).n = run.join
  /\ \A i \in DOMAIN x.past : x.past[i].by = r => i = Len(x.past) /\ run.join # 0 /\ run.load = x.load

EntryInv(x) == EntriesOK(x) /\ \A r \in DOMAIN x.refreshes : x.refreshes[r].alone => Joined(x, r)

\* What leaves the history alone, and of the runs whatever concerns it; a capture
\* is a former one that goes on, or one that owns itself.
SameEntries(x, y) ==
  /\ DOMAIN y = DOMAIN x /\ y.past = x.past /\ y.entries = x.entries /\ y.load = x.load
  /\ IsSeq(y.refreshes) /\ DOMAIN y.refreshes = DOMAIN x.refreshes
  /\ \A r \in DOMAIN x.refreshes :
       /\ DOMAIN y.refreshes[r] = DOMAIN x.refreshes[r] /\ y.refreshes[r].load = x.refreshes[r].load
       /\ y.refreshes[r].join = x.refreshes[r].join /\ y.refreshes[r].alone = x.refreshes[r].alone
  /\ IsSeq(y.caps)
  /\ \A c \in DOMAIN y.caps : LiveCap(y, c) =>
       \/ /\ c \in DOMAIN x.caps /\ LiveCap(x, c)
          /\ DOMAIN y.caps[c] = DOMAIN x.caps[c] /\ y.caps[c].run = x.caps[c].run
          /\ y.caps[c].edit = x.caps[c].edit /\ y.caps[c].load = x.caps[c].load
       \/ OwnedBy(y.caps[c], x)

LEMMA SameEntriesKeep ==
  ASSUME NEW x, NEW y, EntriesOK(x), SameEntries(x, y)
  PROVE  /\ EntriesOK(y)
         /\ \A r \in DOMAIN x.refreshes : Joined(x, r) => Joined(y, r)
         /\ EntryInv(x) => EntryInv(y)
<1>1. ASSUME NEW c \in DOMAIN y.caps, LiveCap(y, c)
      PROVE  OwnedBy(y.caps[c], y)
  <2>1. OwnedBy(y.caps[c], x)
    BY <1>1 DEF EntriesOK, SameEntries, OwnedBy
  <2>2. QED
    BY <2>1 DEF SameEntries, OwnedBy
<1>2. EntriesOK(y)
  BY <1>1 DEF EntriesOK, SameEntries
<1>3. ASSUME NEW r \in DOMAIN x.refreshes, Joined(x, r)
      PROVE  Joined(y, r)
  BY <1>3 DEF Joined, SameEntries
<1>4. QED
  BY <1>2, <1>3 DEF EntryInv, SameEntries

\* What touches none of it.
Aside(x, y) ==
  /\ DOMAIN y = DOMAIN x /\ y.past = x.past /\ y.entries = x.entries /\ y.load = x.load
  /\ y.refreshes = x.refreshes /\ y.caps = x.caps

LEMMA AsideSame ==
  ASSUME NEW x, NEW y, EntriesOK(x), Aside(x, y)
  PROVE  SameEntries(x, y)
BY DEF EntriesOK, Aside, SameEntries, LiveCap

\* One run moves and keeps what concerns its entry.
LEMMA RunMovesSame ==
  ASSUME NEW x, NEW y, EntriesOK(x), NEW r \in DOMAIN x.refreshes, NEW run,
         DOMAIN y = DOMAIN x, y.past = x.past, y.entries = x.entries, y.load = x.load, y.caps = x.caps,
         y.refreshes = [x.refreshes EXCEPT ![r] = run],
         DOMAIN run = DOMAIN x.refreshes[r], run.load = x.refreshes[r].load,
         run.join = x.refreshes[r].join, run.alone = x.refreshes[r].alone
  PROVE  SameEntries(x, y)
<1>1. /\ DOMAIN y.refreshes = DOMAIN x.refreshes /\ y.refreshes[r] = run
      /\ \A q \in DOMAIN x.refreshes : q # r => y.refreshes[q] = x.refreshes[q]
  OBVIOUS
<1>2. y.refreshes \in [DOMAIN x.refreshes -> {y.refreshes[q] : q \in DOMAIN x.refreshes}]
  OBVIOUS
<1>3. IsSeq(y.refreshes)
  BY <1>2, SeqSame DEF EntriesOK
<1>4. QED
  BY <1>1, <1>3 DEF EntriesOK, SameEntries, LiveCap

\* One capture moves, or ends.
LEMMA CapMovesSame ==
  ASSUME NEW x, NEW y, EntriesOK(x), NEW c \in DOMAIN x.caps, NEW cap,
         DOMAIN y = DOMAIN x, y.past = x.past, y.entries = x.entries, y.load = x.load,
         y.refreshes = x.refreshes, y.caps = [x.caps EXCEPT ![c] = cap],
         \/ cap.pc = "over"
         \/ LiveCap(x, c) /\ DOMAIN cap = DOMAIN x.caps[c] /\ cap.run = x.caps[c].run /\ cap.edit = x.caps[c].edit /\ cap.load = x.caps[c].load
  PROVE  SameEntries(x, y)
<1>1. /\ DOMAIN y.caps = DOMAIN x.caps /\ y.caps[c] = cap
      /\ \A b \in DOMAIN x.caps : b # c => y.caps[b] = x.caps[b]
  OBVIOUS
<1>2. y.caps \in [DOMAIN x.caps -> {y.caps[b] : b \in DOMAIN x.caps}]
  OBVIOUS
<1>3. IsSeq(y.caps)
  BY <1>2, SeqSame DEF EntriesOK
<1>4. QED
  BY <1>1, <1>3 DEF EntriesOK, SameEntries, LiveCap

LEMMA PoseQueueAside ==
  ASSUME NEW x, NEW e, NEW key
  PROVE  Aside(x, Offered(x, key)) /\ Aside(x, SessionsEnded(x)) /\ Aside(x, Written(x, e))
<1>1. \A es : Aside(x, DoneEdits(x, es))
  BY DEF Aside, DoneEdits
<1>2. Aside(x, Offered(x, key))
  BY <1>1 DEF Aside, Offered
<1>3. Aside(x, SessionsEnded(x))
  BY <1>1 DEF Aside, SessionsEnded
<1>4. Aside(x, Written(x, e))
  BY <1>1 DEF Aside, Written
<1>5. QED
  BY <1>2, <1>3, <1>4

LEMMA RunEndsSame ==
  ASSUME NEW x, EntriesOK(x), NEW r \in DOMAIN x.refreshes
  PROVE  SameEntries(x, RunEnds(x, r))
<1> DEFINE y == RunEnds(x, r)
           run == [x.refreshes[r] EXCEPT !.pc = "over"]
<1>1. /\ DOMAIN y = DOMAIN x /\ y.past = x.past /\ y.entries = x.entries /\ y.load = x.load /\ y.caps = x.caps
      /\ y.refreshes = [x.refreshes EXCEPT ![r] = run]
  BY DEF RunEnds, EntriesOK, EntryFields
<1>2. /\ DOMAIN run = DOMAIN x.refreshes[r] /\ run.load = x.refreshes[r].load
      /\ run.join = x.refreshes[r].join /\ run.alone = x.refreshes[r].alone
  OBVIOUS
<1> HIDE DEF y, run
<1>3. SameEntries(x, y)
  BY <1>1, <1>2, RunMovesSame
<1>4. QED
  BY <1>3 DEF y

LEMMA NextStepSame ==
  ASSUME NEW x, EntriesOK(x), NEW r \in DOMAIN x.refreshes
  PROVE  SameEntries(x, NextStep(x, r))
<1> DEFINE y == [x EXCEPT !.refreshes[r].todo = Tail(@), !.refreshes[r].pc = "turn"]
           run == [[x.refreshes[r] EXCEPT !.todo = Tail(@)] EXCEPT !.pc = "turn"]
<1>1. NextStep(x, r) = IF Len(x.refreshes[r].todo) = 1 THEN RunEnds(y, r) ELSE y
  BY DEF NextStep
<1>2. /\ DOMAIN y = DOMAIN x /\ y.past = x.past /\ y.entries = x.entries /\ y.load = x.load /\ y.caps = x.caps
      /\ y.refreshes = [x.refreshes EXCEPT ![r] = run]
  BY DEF EntriesOK, EntryFields
<1>3. /\ DOMAIN run = DOMAIN x.refreshes[r] /\ run.load = x.refreshes[r].load
      /\ run.join = x.refreshes[r].join /\ run.alone = x.refreshes[r].alone
  OBVIOUS
<1> HIDE DEF y, run
<1>4. SameEntries(x, y)
  BY <1>2, <1>3, RunMovesSame
<1>5. EntriesOK(y) /\ r \in DOMAIN y.refreshes
  BY <1>4, SameEntriesKeep DEF SameEntries
<1>6. SameEntries(y, RunEnds(y, r))
  BY <1>5, RunEndsSame
<1>7. y.caps = x.caps /\ RunEnds(y, r).caps = y.caps
  BY <1>2 DEF RunEnds
<1>8. SameEntries(x, RunEnds(y, r))
  BY <1>4, <1>6, <1>7 DEF SameEntries, EntriesOK, LiveCap
<1>9. QED
  BY <1>1, <1>4, <1>8

\* Of an outcome that changed nothing the run learns no entry.
LEMMA AfterCaptureSame ==
  ASSUME NEW x, EntryInv(x), NEW r \in DOMAIN x.refreshes, NEW outcome, outcome # "changed"
  PROVE  EntryInv(AfterCapture(x, r, outcome))
<1> DEFINE y == [x EXCEPT !.refreshing = NoStep,
                          !.refreshes[r].join = IF outcome = "changed" /\ @ = 0 THEN Newest(x) ELSE @]
           z == [y EXCEPT !.progress = TRUE]
           run == [x.refreshes[r] EXCEPT !.join = IF outcome = "changed" /\ @ = 0 THEN Newest(x) ELSE @]
<1>1. AfterCapture(x, r, outcome) = IF outcome = "stopped" THEN RunEnds(y, r) ELSE NextStep(z, r)
  BY DEF AfterCapture
<1>2. /\ DOMAIN y = DOMAIN x /\ y.past = x.past /\ y.entries = x.entries /\ y.load = x.load /\ y.caps = x.caps
      /\ y.refreshes = [x.refreshes EXCEPT ![r] = run]
  BY DEF EntryInv, EntriesOK, EntryFields
<1>3. /\ DOMAIN run = DOMAIN x.refreshes[r] /\ run.load = x.refreshes[r].load
      /\ run.join = x.refreshes[r].join /\ run.alone = x.refreshes[r].alone
  OBVIOUS
<1>4. Aside(y, z)
  BY DEF Aside
<1> HIDE DEF y, z, run
<1>5. SameEntries(x, y)
  BY <1>2, <1>3, RunMovesSame DEF EntryInv
<1>6. EntryInv(y) /\ r \in DOMAIN y.refreshes
  BY <1>5, SameEntriesKeep DEF SameEntries, EntryInv
<1>7. EntryInv(z) /\ r \in DOMAIN z.refreshes
  BY <1>4, <1>6, AsideSame, SameEntriesKeep DEF Aside, EntryInv
<1>8. EntryInv(RunEnds(y, r)) /\ EntryInv(NextStep(z, r))
  BY <1>6, <1>7, RunEndsSame, NextStepSame, SameEntriesKeep DEF EntryInv
<1>9. QED
  BY <1>1, <1>8

\* A capture that ends in anything but a change.
LEMMA FinishEntry ==
  ASSUME NEW x, EntryInv(x), NEW c \in DOMAIN x.caps, LiveCap(x, c), x.caps[c].run \in Nat,
         NEW outcome, outcome # "changed"
  PROVE  EntryInv(Finish(x, c, outcome))
<1> DEFINE cap == x.caps[c]
           y == [x EXCEPT !.marks[cap.step] = None, !.caps[c] = Ended]
<1>1. Finish(x, c, outcome) =
        IF cap.edit > 0 THEN Written(y, cap.edit)
        ELSE IF cap.run > 0 THEN AfterCapture(y, cap.run, outcome) ELSE y
  BY DEF Finish
<1>2. /\ DOMAIN y = DOMAIN x /\ y.past = x.past /\ y.entries = x.entries /\ y.load = x.load
      /\ y.refreshes = x.refreshes /\ y.caps = [x.caps EXCEPT ![c] = Ended] /\ Ended.pc = "over"
  BY DEF EntryInv, EntriesOK, EntryFields, Ended
<1> HIDE DEF y
<1>3. SameEntries(x, y)
  BY <1>2, CapMovesSame DEF EntryInv
<1>4. EntryInv(y)
  BY <1>3, SameEntriesKeep DEF EntryInv
<1>5. EntryInv(Written(y, cap.edit))
  <2>1. Aside(y, Written(y, cap.edit))
    BY PoseQueueAside
  <2>2. SameEntries(y, Written(y, cap.edit))
    BY <1>4, <2>1, AsideSame DEF EntryInv
  <2>3. QED
    BY <1>4, <2>2, SameEntriesKeep DEF EntryInv
<1>6. cap.run > 0 => cap.run \in DOMAIN y.refreshes
  BY <1>2 DEF EntryInv, EntriesOK, OwnedBy
<1>7. cap.run > 0 => EntryInv(AfterCapture(y, cap.run, outcome))
  BY <1>4, <1>6, AfterCaptureSame
<1>8. QED
  BY <1>1, <1>4, <1>5, <1>7

\* A capture is begun, for a run of this document or for none.
LEMMA BegunSame ==
  ASSUME NEW x, EntriesOK(x), NEW s, NEW run, NEW edit,
         run = 0 \/ (run \in DOMAIN x.refreshes /\ edit = 0 /\ x.load = x.refreshes[run].load)
  PROVE  SameEntries(x, Begun(x, s, run, edit))
<1> DEFINE cap == [step |-> s, load |-> x.load, rev |-> x.steps[s].rev, saw |-> x.steps[s].src,
                   lands |-> IF run > 0 THEN x.steps[s].src ELSE x.sources + 1,
                   drawn |-> x.pattern, run |-> run, edit |-> edit,
                   fold |-> 0, pc |-> "prepare", undone |-> FALSE]
           y == Begun(x, s, run, edit)
           n == Len(x.caps) + 1
<1>1. /\ DOMAIN y = DOMAIN x /\ y.past = x.past /\ y.entries = x.entries /\ y.load = x.load
      /\ y.refreshes = x.refreshes /\ y.caps = Append(x.caps, cap)
  BY DEF Begun, EntriesOK, EntryFields
<1>2. OwnedBy(cap, x)
  BY DEF OwnedBy, CapFields
<1> HIDE DEF cap, y
<1>3. /\ IsSeq(y.caps) /\ DOMAIN y.caps = 1..n /\ y.caps[n] = cap
      /\ \A c \in DOMAIN x.caps : y.caps[c] = x.caps[c]
      /\ DOMAIN x.caps = 1..(n - 1) /\ n \in Nat
  BY <1>1, SeqAppend, SeqFacts DEF EntriesOK
<1>4. \A c \in DOMAIN y.caps : c = n \/ c \in DOMAIN x.caps
  BY <1>3
<1>5. SameEntries(x, y)
  BY <1>1, <1>2, <1>3, <1>4 DEF SameEntries, EntriesOK, LiveCap
<1>6. QED
  BY <1>5 DEF y

LEMMA TryStepEntry ==
  ASSUME NEW x, EntryInv(x), NEW r \in DOMAIN x.refreshes
  PROVE  EntryInv(TryStep(x, r))
<1> DEFINE run == x.refreshes[r]
           s == Head(run.todo)
           b == Begun(x, s, r, 0)
           y == [b EXCEPT !.refreshing = s, !.refreshes[r].pc = "capture"]
           moved == [b.refreshes[r] EXCEPT !.pc = "capture"]
<1>1. TryStep(x, r) =
        IF run.cancelled \/ x.load # run.load THEN RunEnds(x, r)
        ELSE IF x.steps[s].drawn = None THEN NextStep(x, r)
        ELSE IF x.marks[s] # None THEN AfterCapture(x, r, "busy")
        ELSE y
  BY DEF TryStep
<1>2. ASSUME x.load = run.load
      PROVE  EntryInv(y)
  <2>1. SameEntries(x, b)
    BY <1>2, BegunSame DEF EntryInv
  <2> HIDE DEF b, s
  <2>2. EntryInv(b) /\ r \in DOMAIN b.refreshes
    BY <2>1, SameEntriesKeep DEF EntryInv, SameEntries
  <2>3. /\ DOMAIN y = DOMAIN b /\ y.past = b.past /\ y.entries = b.entries /\ y.load = b.load /\ y.caps = b.caps
        /\ y.refreshes = [b.refreshes EXCEPT ![r] = moved]
    BY <2>2 DEF EntryInv, EntriesOK, EntryFields
  <2>4. /\ DOMAIN moved = DOMAIN b.refreshes[r] /\ moved.load = b.refreshes[r].load
        /\ moved.join = b.refreshes[r].join /\ moved.alone = b.refreshes[r].alone
    OBVIOUS
  <2> HIDE DEF y, moved
  <2>5. SameEntries(b, y)
    BY <2>2, <2>3, <2>4, RunMovesSame DEF EntryInv
  <2>6. QED
    BY <2>2, <2>5, SameEntriesKeep DEF EntryInv
<1> HIDE DEF y, s
<1>3. EntryInv(RunEnds(x, r)) /\ EntryInv(NextStep(x, r)) /\ EntryInv(AfterCapture(x, r, "busy"))
  BY RunEndsSame, NextStepSame, AfterCaptureSame, SameEntriesKeep DEF EntryInv
<1>4. QED
  BY <1>1, <1>2, <1>3

\* After an act, nobody but its actor is alone.
LEMMA DisturbEntry ==
  ASSUME NEW x, EntriesOK(x), NEW by,
         by \in DOMAIN x.refreshes /\ x.refreshes[by].alone => Joined(x, by)
  PROVE  EntryInv(Disturb(x, by))
<1> DEFINE rs == [r \in DOMAIN x.refreshes |-> [x.refreshes[r] EXCEPT !.alone = @ /\ r = by]]
           y == Disturb(x, by)
<1>1. /\ DOMAIN y = DOMAIN x /\ y.past = x.past /\ y.entries = x.entries /\ y.load = x.load
      /\ y.caps = x.caps /\ y.refreshes = rs
  BY DEF Disturb, EntriesOK, EntryFields
<1>2. \A r \in DOMAIN x.refreshes :
         /\ DOMAIN rs[r] = DOMAIN x.refreshes[r] /\ rs[r].load = x.refreshes[r].load
         /\ rs[r].join = x.refreshes[r].join /\ (rs[r].alone => x.refreshes[r].alone /\ r = by)
  BY DEF EntriesOK, RunFields
<1>3. DOMAIN rs = DOMAIN x.refreshes /\ rs \in [DOMAIN x.refreshes -> {rs[r] : r \in DOMAIN x.refreshes}]
  OBVIOUS
<1> HIDE DEF rs, y
<1>4. IsSeq(y.refreshes)
  BY <1>1, <1>3, SeqSame DEF EntriesOK
<1>5. EntriesOK(y)
  BY <1>1, <1>2, <1>3, <1>4 DEF EntriesOK, LiveCap, OwnedBy
<1>6. ASSUME NEW r \in DOMAIN y.refreshes, y.refreshes[r].alone
      PROVE  Joined(y, r)
  <2>1. r = by /\ r \in DOMAIN x.refreshes /\ Joined(x, r)
    BY <1>1, <1>2, <1>3, <1>6
  <2>2. QED
    BY <1>1, <1>2, <1>3, <2>1 DEF Joined
<1>7. QED
  BY <1>5, <1>6 DEF EntryInv, y

\* A change that is committed: the entry it joins, or the one it makes.
LEMMA CommitEntry ==
  ASSUME NEW x, EntriesOK(x), NEW by \in {0} \cup DOMAIN x.refreshes, NEW st, NEW extend
  PROVE  LET y == Commit(x, by, st, extend) IN
         /\ EntriesOK(y) /\ DOMAIN y = DOMAIN x /\ y.load = x.load /\ y.refreshes = x.refreshes /\ y.caps = x.caps
         /\ extend => y.past = x.past
         /\ st # x.steps /\ ~extend =>
              y.past = Append(x.past, [n |-> x.entries + 1, by |-> by, was |-> x.steps])
<1> DEFINE entry == [n |-> x.entries + 1, by |-> by, was |-> x.steps]
           joins == [x EXCEPT !.steps = st]
           makes == [x EXCEPT !.steps = st, !.future = <<>>, !.entries = @ + 1, !.past = Append(@, entry)]
           y == Commit(x, by, st, extend)
           n == Len(x.past) + 1
<1>1. y = IF st = x.steps THEN x ELSE IF extend THEN joins ELSE makes
  BY DEF Commit
<1>2. Aside(x, joins)
  BY DEF Aside
<1>3. /\ DOMAIN makes = DOMAIN x /\ makes.load = x.load /\ makes.refreshes = x.refreshes /\ makes.caps = x.caps
      /\ makes.entries = x.entries + 1 /\ makes.past = Append(x.past, entry)
  BY DEF EntriesOK, EntryFields
<1>4. entry.by = by
  OBVIOUS
<1> HIDE DEF joins, makes, entry
<1>5. EntriesOK(joins) /\ DOMAIN joins = DOMAIN x /\ joins.load = x.load /\ joins.refreshes = x.refreshes
      /\ joins.caps = x.caps /\ joins.past = x.past
  BY <1>2, AsideSame, SameEntriesKeep DEF Aside
<1>6. /\ IsSeq(makes.past) /\ DOMAIN makes.past = 1..n /\ makes.past[n] = entry
      /\ \A i \in DOMAIN x.past : makes.past[i] = x.past[i]
      /\ DOMAIN x.past = 1..(n - 1) /\ n \in Nat
  BY <1>3, SeqAppend, SeqFacts DEF EntriesOK
<1>7. \A i \in DOMAIN makes.past : i = n \/ i \in DOMAIN x.past
  BY <1>6
<1>8. \A i \in DOMAIN makes.past : makes.past[i].by \in {0} \cup DOMAIN x.refreshes
  BY <1>4, <1>6, <1>7 DEF EntriesOK
<1>9. EntriesOK(makes)
  BY <1>3, <1>6, <1>8 DEF EntriesOK, LiveCap, OwnedBy
<1> HIDE DEF y
<1>10. y \in {x, joins, makes} /\ (extend => y \in {x, joins}) /\ (st # x.steps /\ ~extend => y = makes)
  BY <1>1
<1>11. EntriesOK(y) /\ DOMAIN y = DOMAIN x /\ y.load = x.load /\ y.refreshes = x.refreshes /\ y.caps = x.caps
  BY <1>3, <1>5, <1>9, <1>10
<1>12. (extend => y.past = x.past) /\ (st # x.steps /\ ~extend => y.past = Append(x.past, entry))
  BY <1>3, <1>5, <1>10
<1>13. QED
  BY <1>11, <1>12 DEF y, entry

\* What a landed capture of the run r leaves the run: the newest entry to join.
OnlyNewest(x, r) ==
  /\ x.past # <<>> /\ Last(x.past).n # 0 /\ x.refreshes[r].load = x.load
  /\ x.refreshes[r].join \in {0, Last(x.past).n}
  /\ \A i \in DOMAIN x.past : x.past[i].by = r => i = Len(x.past)

LEMMA ChangedEntry ==
  ASSUME NEW x, EntriesOK(x), NEW r \in DOMAIN x.refreshes
  PROVE  LET y == AfterCapture(x, r, "changed") IN
         /\ EntriesOK(y) /\ DOMAIN y.refreshes = DOMAIN x.refreshes
         /\ y.refreshes[r].alone = x.refreshes[r].alone
         /\ OnlyNewest(x, r) => Joined(y, r)
<1> DEFINE outcome == "changed"
           y == [x EXCEPT !.refreshing = NoStep,
                          !.refreshes[r].join = IF outcome = "changed" /\ @ = 0 THEN Newest(x) ELSE @]
           z == [y EXCEPT !.progress = TRUE]
           run == [x.refreshes[r] EXCEPT !.join = IF outcome = "changed" /\ @ = 0 THEN Newest(x) ELSE @]
<1>1. AfterCapture(x, r, outcome) = NextStep(z, r)
  BY DEF AfterCapture
<1>2. /\ DOMAIN z = DOMAIN x /\ z.past = x.past /\ z.entries = x.entries /\ z.load = x.load /\ z.caps = x.caps
      /\ z.refreshes = [x.refreshes EXCEPT ![r] = run]
  BY DEF EntriesOK, EntryFields
<1>3. /\ DOMAIN run = DOMAIN x.refreshes[r] /\ run.load = x.refreshes[r].load
      /\ run.alone = x.refreshes[r].alone
      /\ OnlyNewest(x, r) => run.join = Last(x.past).n
  BY DEF Newest, EntriesOK, RunFields, OnlyNewest
<1> HIDE DEF z, y, run
<1>4. /\ DOMAIN z.refreshes = DOMAIN x.refreshes /\ z.refreshes[r] = run
      /\ \A q \in DOMAIN x.refreshes : q # r => z.refreshes[q] = x.refreshes[q]
  BY <1>2
<1>5. IsSeq(z.refreshes)
  <2>1. z.refreshes \in [DOMAIN x.refreshes -> {z.refreshes[q] : q \in DOMAIN x.refreshes}]
    BY <1>2
  <2>2. QED
    BY <2>1, SeqSame DEF EntriesOK
<1>6. EntriesOK(z)
  BY <1>2, <1>3, <1>4, <1>5 DEF EntriesOK, LiveCap, OwnedBy
<1>7. OnlyNewest(x, r) => Joined(z, r)
  BY <1>2, <1>3, <1>4 DEF Joined, OnlyNewest
<1>8. SameEntries(z, NextStep(z, r)) /\ r \in DOMAIN z.refreshes
  BY <1>4, <1>6, NextStepSame
<1>9. /\ EntriesOK(NextStep(z, r)) /\ DOMAIN NextStep(z, r).refreshes = DOMAIN z.refreshes
      /\ NextStep(z, r).refreshes[r].alone = z.refreshes[r].alone
      /\ OnlyNewest(x, r) => Joined(NextStep(z, r), r)
  BY <1>6, <1>7, <1>8, SameEntriesKeep DEF SameEntries
<1>10. QED
  BY <1>1, <1>3, <1>4, <1>9

LEMMA LandEntry ==
  ASSUME EntryInv(d), NEW c \in DOMAIN d.caps, d.caps[c].run \in Nat, Land(c)
  PROVE  EntryInv(d')
<1> DEFINE cap == d.caps[c]
           r == cap.run
           st == Pictured(d, cap)
           joins == Joins(d, cap)
           y == Commit(d, r, st, joins)
           w == [y EXCEPT !.marks[cap.step] = None, !.caps[c] = Ended]
           z == Finish(y, c, "changed")
           entry == [n |-> d.entries + 1, by |-> r, was |-> d.steps]
<1>1. \/ d' \in {Finish(d, c, "discarded"), Finish(d, c, "same")}
      \/ Current(d, c) /\ y # d /\ d' = Disturb(z, r)
  BY DEF Land
<1>2. LiveCap(d, c) /\ cap.pc = "picture" /\ OwnedBy(cap, d)
  BY DEF Land, LiveCap, EntryInv, EntriesOK
<1>3. CASE d' \in {Finish(d, c, "discarded"), Finish(d, c, "same")}
  BY <1>2, <1>3, FinishEntry
<1>4. CASE Current(d, c) /\ y # d /\ d' = Disturb(z, r)
  <2>1. st # d.steps
    BY <1>4 DEF Commit
  <2>2. r \in {0} \cup DOMAIN d.refreshes
    BY <1>2 DEF OwnedBy
  <2>3. z = IF y.caps[c].edit > 0 THEN Written(w, y.caps[c].edit)
            ELSE IF y.caps[c].run > 0 THEN AfterCapture(w, y.caps[c].run, "changed") ELSE w
    <3>1. y.caps = d.caps
      BY DEF Commit
    <3> HIDE DEF y
    <3>2. QED
      BY <3>1 DEF Finish
  <2> HIDE DEF st, joins
  <2>4. /\ EntriesOK(y) /\ DOMAIN y = DOMAIN d /\ y.load = d.load /\ y.refreshes = d.refreshes /\ y.caps = d.caps
        /\ joins => y.past = d.past
        /\ ~joins => y.past = Append(d.past, entry)
    BY <2>1, <2>2, CommitEntry DEF EntryInv
  <2> HIDE DEF y, z
  <2>5. /\ DOMAIN w = DOMAIN y /\ w.past = y.past /\ w.entries = y.entries /\ w.load = y.load
        /\ w.refreshes = y.refreshes /\ w.caps = [y.caps EXCEPT ![c] = Ended] /\ Ended.pc = "over"
    BY <2>4 DEF EntriesOK, EntryFields, Ended
  <2> HIDE DEF w
  <2>6. EntriesOK(w)
    BY <2>4, <2>5, CapMovesSame, SameEntriesKeep
  <2>7. CASE r = 0
    <3>1. z \in {w, Written(w, cap.edit)}
      BY <2>3, <2>4, <2>7
    <3>2. Aside(w, Written(w, cap.edit))
      BY PoseQueueAside
    <3>3. EntriesOK(z) /\ DOMAIN z.refreshes = DOMAIN d.refreshes
      BY <2>4, <2>5, <2>6, <3>1, <3>2, AsideSame, SameEntriesKeep DEF Aside
    <3>4. 0 \notin DOMAIN z.refreshes
      BY <3>3, SeqFacts DEF EntryInv, EntriesOK
    <3>5. QED
      BY <1>4, <2>7, <3>3, <3>4, DisturbEntry
  <2>8. CASE r # 0
    <3>1. r \in DOMAIN d.refreshes /\ r > 0 /\ cap.edit = 0 /\ cap.load = d.refreshes[r].load
      BY <1>2, <2>8 DEF OwnedBy
    <3>2. z = AfterCapture(w, r, "changed") /\ d.refreshes[r].load = d.load
      BY <1>4, <2>3, <2>4, <3>1 DEF Current
    <3>3. w.refreshes = d.refreshes /\ w.load = d.load /\ w.past = y.past
      BY <2>4, <2>5
    <3>4. ASSUME d.refreshes[r].alone
          PROVE  OnlyNewest(w, r)
      <4>1. Joined(d, r)
        BY <3>1, <3>4 DEF EntryInv
      <4>2. CASE joins
        <5>1. d.refreshes[r].join # 0 /\ Newest(d) = d.refreshes[r].join
          BY <4>2 DEF joins, Joins
        <5>2. d.past # <<>> /\ Last(d.past).n = d.refreshes[r].join
          BY <5>1 DEF Newest
        <5>3. QED
          BY <2>4, <3>2, <3>3, <4>1, <4>2, <5>1, <5>2 DEF Joined, OnlyNewest
      <4>3. CASE ~joins
        <5>1. d.refreshes[r].join = 0
          BY <3>1, <3>2, <4>1, <4>3 DEF joins, Joins, Joined, Newest
        <5>2. \A i \in DOMAIN d.past : d.past[i].by # r
          BY <4>1, <5>1 DEF Joined
        <5>3. w.past = Append(d.past, entry)
          BY <2>4, <3>3, <4>3
        <5>4. entry.n # 0
          BY DEF EntryInv, EntriesOK
        <5> HIDE DEF entry
        <5>5. /\ IsSeq(w.past) /\ DOMAIN w.past = 1..(Len(d.past) + 1) /\ Len(w.past) = Len(d.past) + 1
              /\ w.past[Len(d.past) + 1] = entry
              /\ \A i \in DOMAIN d.past : w.past[i] = d.past[i]
              /\ DOMAIN d.past = 1..Len(d.past) /\ Len(d.past) \in Nat
          BY <5>3, SeqAppend, SeqFacts DEF EntryInv, EntriesOK
        <5>6. w.past # <<>> /\ Last(w.past) = entry
          BY <5>5, EmptyIsSeq DEF Last
        <5>7. \A i \in DOMAIN w.past : i = Len(w.past) \/ i \in DOMAIN d.past
          BY <5>5
        <5>8. QED
          BY <3>2, <3>3, <5>1, <5>2, <5>4, <5>5, <5>6, <5>7 DEF OnlyNewest
      <4>4. QED
        BY <4>2, <4>3
    <3>5. /\ EntriesOK(z) /\ DOMAIN z.refreshes = DOMAIN d.refreshes
          /\ z.refreshes[r].alone = d.refreshes[r].alone
          /\ d.refreshes[r].alone => Joined(z, r)
      BY <2>6, <3>1, <3>2, <3>3, <3>4, ChangedEntry
    <3>6. QED
      BY <1>4, <3>5, DisturbEntry
  <2>9. QED
    BY <2>7, <2>8
<1>5. QED
  BY <1>1, <1>3, <1>4

\* A travel: the history moves, and every capture under way is told.
LEMMA TravelEntry ==
  ASSUME NEW x, EntriesOK(x), NEW y, DOMAIN y = DOMAIN x, y.load = x.load, y.refreshes = x.refreshes,
         y.caps = Outdated(x.caps), y.entries \in Nat, IsSeq(y.past),
         \A i \in DOMAIN y.past : y.past[i].by = 0 \/ \E j \in DOMAIN x.past : y.past[i] = x.past[j]
  PROVE  EntriesOK(y)
<1> DEFINE told == Outdated(x.caps)
<1>1. /\ told \in [DOMAIN x.caps -> {told[c] : c \in DOMAIN x.caps}] /\ DOMAIN told = DOMAIN x.caps
      /\ \A c \in DOMAIN x.caps : told[c].pc # "over" => LiveCap(x, c)
      /\ \A c \in DOMAIN x.caps : LiveCap(x, c) =>
           /\ DOMAIN told[c] = DOMAIN x.caps[c] /\ told[c].run = x.caps[c].run
           /\ told[c].edit = x.caps[c].edit /\ told[c].load = x.caps[c].load
  BY DEF Outdated, LiveCap, EntriesOK, OwnedBy, CapFields
<1> HIDE DEF told
<1>2. IsSeq(told)
  BY <1>1, SeqSame DEF EntriesOK
<1>3. y.caps = told
  BY DEF told
<1>4. \A c \in DOMAIN y.caps : LiveCap(y, c) => OwnedBy(y.caps[c], y)
  BY <1>1, <1>3 DEF EntriesOK, LiveCap, OwnedBy
<1>5. \A i \in DOMAIN y.past : y.past[i].by \in {0} \cup DOMAIN y.refreshes
  BY DEF EntriesOK
<1>6. QED
  BY <1>2, <1>3, <1>4, <1>5 DEF EntriesOK

LEMMA UndoneEntry ==
  ASSUME NEW x, EntriesOK(x), x.past # <<>>
  PROVE  EntriesOK(Undone(x)) /\ Undone(x).refreshes = x.refreshes
<1> DEFINE y == Undone(x)
<1>1. /\ DOMAIN y = DOMAIN x /\ y.load = x.load /\ y.refreshes = x.refreshes
      /\ y.caps = Outdated(x.caps) /\ y.entries = x.entries /\ y.past = Front(x.past)
  BY DEF Undone, EntriesOK, EntryFields
<1> HIDE DEF y
<1>2. IsSeq(y.past) /\ \A i \in DOMAIN y.past : i \in DOMAIN x.past /\ y.past[i] = x.past[i]
  BY <1>1, SeqFront DEF EntriesOK
<1>3. y.entries \in Nat
  BY <1>1 DEF EntriesOK
<1>4. \A i \in DOMAIN y.past : y.past[i].by = 0 \/ \E j \in DOMAIN x.past : y.past[i] = x.past[j]
  BY <1>2
<1>5. EntriesOK(y)
  BY <1>1, <1>2, <1>3, <1>4, TravelEntry
<1>6. QED
  BY <1>1, <1>5 DEF y

LEMMA RedoneEntry ==
  ASSUME NEW x, EntriesOK(x)
  PROVE  EntriesOK(Redone(x)) /\ Redone(x).refreshes = x.refreshes
<1> DEFINE y == Redone(x)
           entry == [n |-> x.entries + 1, by |-> 0, was |-> x.steps]
           n == Len(x.past) + 1
<1>1. /\ DOMAIN y = DOMAIN x /\ y.load = x.load /\ y.refreshes = x.refreshes
      /\ y.caps = Outdated(x.caps) /\ y.entries = x.entries + 1 /\ y.past = Append(x.past, entry)
  BY DEF Redone, EntriesOK, EntryFields
<1>2. entry.by = 0
  OBVIOUS
<1> HIDE DEF y, entry
<1>3. /\ IsSeq(y.past) /\ DOMAIN y.past = 1..n /\ y.past[n] = entry
      /\ \A i \in DOMAIN x.past : y.past[i] = x.past[i]
      /\ DOMAIN x.past = 1..(n - 1) /\ n \in Nat
  BY <1>1, SeqAppend, SeqFacts DEF EntriesOK
<1>4. \A i \in DOMAIN y.past : i = n \/ i \in DOMAIN x.past
  BY <1>3
<1>5. \A i \in DOMAIN y.past : y.past[i].by = 0 \/ \E j \in DOMAIN x.past : y.past[i] = x.past[j]
  BY <1>2, <1>3, <1>4
<1>6. y.entries \in Nat
  BY <1>1 DEF EntriesOK
<1>7. EntriesOK(y)
  BY <1>1, <1>3, <1>5, <1>6, TravelEntry
<1>8. QED
  BY <1>1, <1>7 DEF y

LEMMA OthersEntry ==
  ASSUME NEW x, EntriesOK(x)
  PROVE  EntryInv(Disturb(x, 0))
<1>1. 0 \notin DOMAIN x.refreshes
  BY SeqFacts DEF EntriesOK
<1>2. QED
  BY <1>1, DisturbEntry

LEMMA RefreshEntry ==
  ASSUME EntryInv(d), Refresh
  PROVE  EntryInv(d')
<1> DEFINE run == [pc |-> "index", load |-> d.load, todo |-> <<>>, cancelled |-> FALSE, join |-> 0, alone |-> TRUE]
           n == Len(d.refreshes) + 1
<1>1. /\ DOMAIN d' = DOMAIN d /\ d'.refreshes = Append(d.refreshes, run)
      /\ d'.load = d.load /\ d'.past = d.past /\ d'.entries = d.entries /\ d'.caps = d.caps
  BY DEF Refresh, EntryInv, EntriesOK, EntryFields
<1>2. RunFields \subseteq DOMAIN run /\ run.load = d.load /\ run.join = 0
  BY DEF RunFields
<1> HIDE DEF run
<1>3. /\ IsSeq(d'.refreshes) /\ DOMAIN d'.refreshes = 1..n /\ d'.refreshes[n] = run
      /\ \A r \in DOMAIN d.refreshes : d'.refreshes[r] = d.refreshes[r]
      /\ DOMAIN d.refreshes = 1..(n - 1) /\ n \in Nat
  BY <1>1, SeqAppend, SeqFacts DEF EntryInv, EntriesOK
<1>4. \A r \in DOMAIN d'.refreshes : r = n \/ r \in DOMAIN d.refreshes
  BY <1>3
<1>5. DOMAIN d.refreshes \subseteq DOMAIN d'.refreshes
  BY <1>3
<1>6. \A r \in DOMAIN d'.refreshes :
        RunFields \subseteq DOMAIN d'.refreshes[r] /\ d'.refreshes[r].load \in Nat /\ d'.refreshes[r].load <= d'.load
  BY <1>1, <1>2, <1>3, <1>4 DEF EntryInv, EntriesOK
<1>7. \A c \in DOMAIN d'.caps : LiveCap(d', c) => OwnedBy(d'.caps[c], d')
  BY <1>1, <1>3, <1>5 DEF EntryInv, EntriesOK, OwnedBy, LiveCap
<1>8. EntriesOK(d')
  BY <1>1, <1>3, <1>5, <1>6, <1>7 DEF EntryInv, EntriesOK
<1>9. \A i \in DOMAIN d'.past : d'.past[i].by # n
  BY <1>1, <1>3 DEF EntryInv, EntriesOK
<1>10. ASSUME NEW r \in DOMAIN d'.refreshes, d'.refreshes[r].alone
       PROVE  Joined(d', r)
  <2>1. CASE r = n
    BY <1>2, <1>3, <1>9, <2>1 DEF Joined
  <2>2. CASE r \in DOMAIN d.refreshes
    <3>1. Joined(d, r)
      BY <1>3, <1>10, <2>2 DEF EntryInv
    <3>2. QED
      BY <1>1, <1>3, <2>2, <3>1 DEF Joined
  <2>3. QED
    BY <1>4, <2>1, <2>2
<1>11. QED
  BY <1>8, <1>10 DEF EntryInv

LEMMA OpenEntry ==
  ASSUME EntryInv(d), Open
  PROVE  EntryInv(d')
<1> DEFINE x == SessionsEnded(d)
<1>1. Aside(d, x)
  BY PoseQueueAside
<1>2. /\ DOMAIN d' = DOMAIN x /\ d'.past = <<>> /\ d'.load = x.load + 1 /\ d'.entries = x.entries
      /\ d'.refreshes = x.refreshes /\ d'.caps = x.caps
  BY <1>1 DEF Open, Aside, EntryInv, EntriesOK, EntryFields
<1> HIDE DEF x
<1>3. /\ DOMAIN d' = DOMAIN d /\ d'.past = <<>> /\ d'.load = d.load + 1 /\ d'.entries = d.entries
      /\ d'.refreshes = d.refreshes /\ d'.caps = d.caps
  BY <1>1, <1>2 DEF Aside
<1>4. EntriesOK(d')
  BY <1>3, EmptyIsSeq DEF EntryInv, EntriesOK, LiveCap, OwnedBy
<1>5. ASSUME NEW r \in DOMAIN d'.refreshes
      PROVE  Joined(d', r)
  <2>1. d'.refreshes[r].load # d'.load
    BY <1>3 DEF EntryInv, EntriesOK
  <2>2. QED
    BY <1>3, <2>1, EmptyIsSeq DEF Joined
<1>6. QED
  BY <1>4, <1>5 DEF EntryInv

LEMMA StopEntry ==
  ASSUME EntryInv(d), StopRefresh \/ LoseKernel
  PROVE  EntryInv(d')
<1> DEFINE rs == [d.refreshes EXCEPT ![d.cancel] = [@ EXCEPT !.cancelled = TRUE]]
           lost == [r \in DOMAIN d.refreshes |->
               IF Live(d.refreshes[r]) THEN [d.refreshes[r] EXCEPT !.cancelled = TRUE] ELSE d.refreshes[r]]
           caps == [c \in DOMAIN d.caps |->
               IF OnEngine(d.caps[c]) THEN [d.caps[c] EXCEPT !.pc = "lost"] ELSE d.caps[c]]
<1>1. /\ DOMAIN d' = DOMAIN d /\ d'.load = d.load /\ d'.past = d.past /\ d'.entries = d.entries
      /\ d'.refreshes \in {rs, lost} /\ d'.caps \in {d.caps, caps}
  BY DEF StopRefresh, LoseKernel, EntryInv, EntriesOK, EntryFields
<1>2. \A q \in {rs, lost} :
        /\ q \in [DOMAIN d.refreshes -> {q[r] : r \in DOMAIN d.refreshes}]
        /\ \A r \in DOMAIN d.refreshes : DOMAIN q[r] = DOMAIN d.refreshes[r]
             /\ q[r].load = d.refreshes[r].load /\ q[r].join = d.refreshes[r].join
             /\ q[r].alone = d.refreshes[r].alone
  <2>1. \A r \in DOMAIN d.refreshes : RunFields \subseteq DOMAIN d.refreshes[r]
    BY DEF EntryInv, EntriesOK
  <2>2. /\ rs \in [DOMAIN d.refreshes -> {rs[r] : r \in DOMAIN d.refreshes}]
        /\ \A r \in DOMAIN d.refreshes : DOMAIN rs[r] = DOMAIN d.refreshes[r]
             /\ rs[r].load = d.refreshes[r].load /\ rs[r].join = d.refreshes[r].join
             /\ rs[r].alone = d.refreshes[r].alone
    BY <2>1 DEF RunFields
  <2>3. /\ lost \in [DOMAIN d.refreshes -> {lost[r] : r \in DOMAIN d.refreshes}]
        /\ \A r \in DOMAIN d.refreshes : DOMAIN lost[r] = DOMAIN d.refreshes[r]
             /\ lost[r].load = d.refreshes[r].load /\ lost[r].join = d.refreshes[r].join
             /\ lost[r].alone = d.refreshes[r].alone
    BY <2>1 DEF RunFields
  <2> HIDE DEF rs, lost
  <2>4. QED
    BY <2>2, <2>3
<1>3. \A q \in {d.caps, caps} :
        /\ q \in [DOMAIN d.caps -> {q[c] : c \in DOMAIN d.caps}]
        /\ \A c \in DOMAIN d.caps : q[c].pc # "over" =>
             /\ LiveCap(d, c) /\ DOMAIN q[c] = DOMAIN d.caps[c]
             /\ q[c].load = d.caps[c].load /\ q[c].run = d.caps[c].run
             /\ q[c].edit = d.caps[c].edit
  <2>1. d.caps \in [DOMAIN d.caps -> {d.caps[c] : c \in DOMAIN d.caps}]
    BY SeqFacts DEF EntryInv, EntriesOK, IsSeq
  <2>2. caps \in [DOMAIN d.caps -> {caps[c] : c \in DOMAIN d.caps}]
    OBVIOUS
  <2>3. \A c \in DOMAIN d.caps : caps[c].pc # "over" =>
             /\ LiveCap(d, c) /\ DOMAIN caps[c] = DOMAIN d.caps[c]
             /\ caps[c].load = d.caps[c].load /\ caps[c].run = d.caps[c].run
             /\ caps[c].edit = d.caps[c].edit
    BY DEF LiveCap, OnEngine, EntryInv, EntriesOK, OwnedBy, CapFields
  <2> HIDE DEF caps
  <2>4. QED
    BY <2>1, <2>2, <2>3 DEF LiveCap
<1> HIDE DEF rs, lost, caps
<1>4. IsSeq(d'.refreshes) /\ IsSeq(d'.caps) /\ DOMAIN d'.refreshes = DOMAIN d.refreshes /\ DOMAIN d'.caps = DOMAIN d.caps
  BY <1>1, <1>2, <1>3, SeqSame DEF EntryInv, EntriesOK
<1>5. SameEntries(d, d')
  BY <1>1, <1>2, <1>3, <1>4 DEF SameEntries, LiveCap
<1>6. QED
  BY <1>5, SameEntriesKeep DEF EntryInv

LEMMA EntryInit == Init => EntryInv(d)
<1> SUFFICES ASSUME Init PROVE EntryInv(d)
  OBVIOUS
<1>1. /\ EntryFields \subseteq DOMAIN d /\ d.past = <<>> /\ d.refreshes = <<>> /\ d.caps = <<>>
      /\ d.load = 1 /\ d.entries = 0
  BY DEF Init, EntryFields
<1>2. QED
  BY <1>1, EmptyIsSeq DEF EntryInv, EntriesOK

LEMMA EntryStep ==
  ASSUME EntryInv(d), [Next]_vars
  PROVE  EntryInv(d)'
<1> DEFINE Ok == EntryInv(d')
<1> HIDE DEF Ok
<1>0. ASSUME SameEntries(d, d') PROVE Ok
  BY <1>0, SameEntriesKeep DEF Ok, EntryInv
<1>1. ASSUME NEW x, Aside(d, x) PROVE SameEntries(d, x) /\ EntryInv(x)
  BY <1>1, AsideSame, SameEntriesKeep DEF EntryInv
<1>2. ASSUME Refresh PROVE Ok
  BY <1>2, RefreshEntry DEF Ok
<1>3. ASSUME NEW r \in DOMAIN d.refreshes, Indexed(r) \/ Confirmed(r) \/ Declined(r) PROVE Ok
  <2> DEFINE run == [d.refreshes[r] EXCEPT !.pc = "over"]
             asked == [[d.refreshes[r] EXCEPT !.pc = "confirm"] EXCEPT !.todo = Stale(d)]
             going(todo) == [[d.refreshes[r] EXCEPT !.pc = "turn"] EXCEPT !.todo = todo]
             over == [d EXCEPT !.refreshes[r].pc = "over"]
             asks == [d EXCEPT !.refreshes[r].pc = "confirm", !.refreshes[r].todo = Stale(d)]
             all == GoOn(d, r, Stale(d))
             rest == GoOn(d, r, d.refreshes[r].todo)
  <2>0. RunFields \subseteq DOMAIN d.refreshes[r]
    BY DEF EntryInv, EntriesOK
  <2>1. /\ over.refreshes = [d.refreshes EXCEPT ![r] = run] /\ DOMAIN over = DOMAIN d /\ over.load = d.load
        /\ over.past = d.past /\ over.entries = d.entries /\ over.caps = d.caps
        /\ DOMAIN run = DOMAIN d.refreshes[r] /\ run.load = d.refreshes[r].load
        /\ run.join = d.refreshes[r].join /\ run.alone = d.refreshes[r].alone
    BY <2>0 DEF EntryInv, EntriesOK, EntryFields, RunFields
  <2>2. /\ asks.refreshes = [d.refreshes EXCEPT ![r] = asked] /\ DOMAIN asks = DOMAIN d /\ asks.load = d.load
        /\ asks.past = d.past /\ asks.entries = d.entries /\ asks.caps = d.caps
        /\ DOMAIN asked = DOMAIN d.refreshes[r] /\ asked.load = d.refreshes[r].load
        /\ asked.join = d.refreshes[r].join /\ asked.alone = d.refreshes[r].alone
    BY <2>0 DEF EntryInv, EntriesOK, EntryFields, RunFields
  <2>3. ASSUME NEW todo
        PROVE  LET y == GoOn(d, r, todo) IN
               /\ y.refreshes = [d.refreshes EXCEPT ![r] = going(todo)] /\ DOMAIN y = DOMAIN d /\ y.load = d.load
               /\ y.past = d.past /\ y.entries = d.entries /\ y.caps = d.caps
               /\ DOMAIN going(todo) = DOMAIN d.refreshes[r] /\ going(todo).load = d.refreshes[r].load
               /\ going(todo).join = d.refreshes[r].join /\ going(todo).alone = d.refreshes[r].alone
    BY <2>0 DEF EntryInv, EntriesOK, EntryFields, RunFields, GoOn
  <2>4. Indexed(r) => d' \in {over, asks, all}
    BY DEF Indexed
  <2>5. Confirmed(r) => d' \in {over, rest}
    BY DEF Confirmed
  <2>6. Declined(r) => d' = over
    BY DEF Declined
  <2> HIDE DEF run, asked, going, over, asks
  <2>7. SameEntries(d, over) /\ SameEntries(d, asks)
    BY <2>1, <2>2, RunMovesSame DEF EntryInv
  <2>8. ASSUME NEW todo PROVE SameEntries(d, GoOn(d, r, todo))
    <3> DEFINE y == GoOn(d, r, todo)
               gone == going(todo)
    <3>1. /\ y.refreshes = [d.refreshes EXCEPT ![r] = gone] /\ DOMAIN y = DOMAIN d /\ y.load = d.load
          /\ y.past = d.past /\ y.entries = d.entries /\ y.caps = d.caps
          /\ DOMAIN gone = DOMAIN d.refreshes[r] /\ gone.load = d.refreshes[r].load
          /\ gone.join = d.refreshes[r].join /\ gone.alone = d.refreshes[r].alone
      BY <2>3
    <3> HIDE DEF y, gone
    <3>2. SameEntries(d, y)
      BY <3>1, RunMovesSame DEF EntryInv
    <3>3. QED
      BY <3>2 DEF y
  <2>9. SameEntries(d, all) /\ SameEntries(d, rest)
    BY <2>8
  <2> HIDE DEF all, rest
  <2>10. QED
    BY <1>0, <1>3, <2>4, <2>5, <2>6, <2>7, <2>9
<1>4. ASSUME NEW r \in DOMAIN d.refreshes, Turn(r) \/ WaitedForEdit(r) PROVE Ok
  <2> DEFINE run == [d.refreshes[r] EXCEPT !.pc = "edit"]
             waits == [d EXCEPT !.refreshes[r].pc = "edit"]
  <2>0. RunFields \subseteq DOMAIN d.refreshes[r]
    BY DEF EntryInv, EntriesOK
  <2>1. /\ waits.refreshes = [d.refreshes EXCEPT ![r] = run] /\ DOMAIN waits = DOMAIN d /\ waits.load = d.load
        /\ waits.past = d.past /\ waits.entries = d.entries /\ waits.caps = d.caps
        /\ DOMAIN run = DOMAIN d.refreshes[r] /\ run.load = d.refreshes[r].load
        /\ run.join = d.refreshes[r].join /\ run.alone = d.refreshes[r].alone
    BY <2>0 DEF EntryInv, EntriesOK, EntryFields, RunFields
  <2>2. Turn(r) => d' \in {waits, TryStep(d, r)}
    BY DEF Turn
  <2>3. WaitedForEdit(r) => d' = TryStep(d, r)
    BY DEF WaitedForEdit
  <2> HIDE DEF run, waits
  <2>4. SameEntries(d, waits)
    BY <2>1, RunMovesSame DEF EntryInv
  <2>5. EntryInv(TryStep(d, r))
    BY TryStepEntry
  <2>6. QED
    BY <1>0, <1>4, <2>2, <2>3, <2>4, <2>5 DEF Ok
<1>5. ASSUME StopRefresh \/ LoseKernel PROVE Ok
  BY <1>5, StopEntry DEF Ok
<1>6. ASSUME NEW s \in Steps, Verb(s) PROVE Ok
  <2>1. SameEntries(d, Begun(d, s, 0, 0))
    BY BegunSame DEF EntryInv
  <2>2. QED
    BY <1>0, <1>6, <2>1 DEF Verb
<1>7. ASSUME NEW key \in Keys, OfferPose(key) PROVE Ok
  <2>1. Aside(d, Offered(d, key))
    BY PoseQueueAside
  <2>2. QED
    BY <1>1, <1>7, <2>1 DEF OfferPose, Ok
<1>8. ASSUME DrainPose PROVE Ok
  <2> DEFINE e == Head(d.queue.pending)
             x == [d EXCEPT !.queue.pending = Tail(@), !.queue.busy = e]
  <2>1. d' = IF d.steps[Posed].drawn = None THEN Written(x, e) ELSE Begun(x, Posed, 0, e)
    BY <1>8 DEF DrainPose
  <2>2. Aside(d, x)
    BY DEF Aside
  <2> HIDE DEF x, e
  <2>3. EntryInv(x) /\ EntriesOK(x)
    BY <1>1, <2>2 DEF EntryInv
  <2>4. Aside(x, Written(x, e))
    BY PoseQueueAside
  <2>5. SameEntries(x, Written(x, e)) /\ SameEntries(x, Begun(x, Posed, 0, e))
    BY <2>3, <2>4, AsideSame, BegunSame
  <2>6. EntryInv(Written(x, e)) /\ EntryInv(Begun(x, Posed, 0, e))
    BY <2>3, <2>5, SameEntriesKeep
  <2>7. QED
    BY <2>1, <2>6 DEF Ok
<1>9. ASSUME NEW c \in DOMAIN d.caps, LiveCap(d, c) PROVE d.caps[c].run \in Nat /\ CapFields \subseteq DOMAIN d.caps[c]
  BY <1>9, SeqFacts DEF EntryInv, EntriesOK, OwnedBy
<1>10. ASSUME NEW c \in DOMAIN d.caps, Prepared(c) PROVE Ok
  <2> DEFINE n == Len(work')
             s == d.caps[c].step
             toPicture == [d.caps[c] EXCEPT !.pc = "picture"]
             toFold == [[d.caps[c] EXCEPT !.pc = "fold"] EXCEPT !.fold = n]
             drawn == [d EXCEPT !.caps[c].pc = "picture"]
             folds == [d EXCEPT !.caps[c].pc = "fold", !.caps[c].fold = n,
                                !.marks[s] = IF @ = None THEN None ELSE n]
  <2>1. LiveCap(d, c) /\ CapFields \subseteq DOMAIN d.caps[c] /\ EntryFields \subseteq DOMAIN d
    BY <1>9, <1>10 DEF Prepared, LiveCap, EntryInv, EntriesOK
  <2>2. /\ drawn.caps = [d.caps EXCEPT ![c] = toPicture] /\ DOMAIN drawn = DOMAIN d /\ drawn.load = d.load
        /\ drawn.past = d.past /\ drawn.entries = d.entries /\ drawn.refreshes = d.refreshes
        /\ DOMAIN toPicture = DOMAIN d.caps[c] /\ toPicture.run = d.caps[c].run
        /\ toPicture.edit = d.caps[c].edit /\ toPicture.load = d.caps[c].load
    BY <2>1 DEF EntryFields, CapFields
  <2>3. /\ folds.caps = [d.caps EXCEPT ![c] = toFold] /\ DOMAIN folds = DOMAIN d /\ folds.load = d.load
        /\ folds.past = d.past /\ folds.entries = d.entries /\ folds.refreshes = d.refreshes
        /\ DOMAIN toFold = DOMAIN d.caps[c] /\ toFold.run = d.caps[c].run
        /\ toFold.edit = d.caps[c].edit /\ toFold.load = d.caps[c].load
    BY <2>1 DEF EntryFields, CapFields
  <2>4. d' \in {drawn, folds}
    BY <1>10 DEF Prepared
  <2> HIDE DEF drawn, folds, toPicture, toFold
  <2>5. SameEntries(d, drawn) /\ SameEntries(d, folds)
    BY <2>1, <2>2, <2>3, CapMovesSame DEF EntryInv
  <2>6. QED
    BY <1>0, <2>4, <2>5
<1>11. ASSUME NEW c \in DOMAIN d.caps, Folded(c) \/ FailCapture(c) PROVE Ok
  <2> DEFINE toPicture == [d.caps[c] EXCEPT !.pc = "picture"]
             drawn == [d EXCEPT !.caps[c].pc = "picture"]
             ends == {Finish(d, c, "stopped"), Finish(d, c, "failed"), Finish(d, c, "discarded")}
  <2>1. LiveCap(d, c) /\ CapFields \subseteq DOMAIN d.caps[c] /\ EntryFields \subseteq DOMAIN d
    BY <1>9, <1>11 DEF Folded, FailCapture, LiveCap, EntryInv, EntriesOK
  <2>2. /\ drawn.caps = [d.caps EXCEPT ![c] = toPicture] /\ DOMAIN drawn = DOMAIN d /\ drawn.load = d.load
        /\ drawn.past = d.past /\ drawn.entries = d.entries /\ drawn.refreshes = d.refreshes
        /\ DOMAIN toPicture = DOMAIN d.caps[c] /\ toPicture.run = d.caps[c].run
        /\ toPicture.edit = d.caps[c].edit /\ toPicture.load = d.caps[c].load
    BY <2>1 DEF EntryFields, CapFields
  <2>3. Folded(c) => d' \in ends \cup {drawn}
    BY DEF Folded
  <2>4. FailCapture(c) => d' \in ends
    BY DEF FailCapture
  <2>5. \A y \in ends : EntryInv(y)
    BY <1>9, <2>1, FinishEntry
  <2> HIDE DEF drawn, ends, toPicture
  <2>6. SameEntries(d, drawn)
    BY <2>1, <2>2, CapMovesSame DEF EntryInv
  <2>7. d' \in ends \cup {drawn}
    BY <1>11, <2>3, <2>4
  <2>8. QED
    BY <1>0, <2>5, <2>6, <2>7 DEF Ok
<1>12. ASSUME NEW c \in DOMAIN d.caps, Land(c) PROVE Ok
  <2>1. LiveCap(d, c)
    BY <1>12 DEF Land, LiveCap
  <2>2. QED
    BY <1>9, <1>12, <2>1, LandEntry DEF Ok
<1>13. ASSUME NEW s \in Steps, EditSource(s) PROVE Ok
  <2> DEFINE st == [d.steps EXCEPT ![s] = [rev |-> @.rev + 1, src |-> d.sources + 1, drawn |-> None]]
             no == FALSE
             x == Commit(d, 0, st, no)
             y == [x EXCEPT !.sources = d.sources + 1]
  <2>1. d' = Disturb(y, 0)
    BY <1>13 DEF EditSource
  <2> HIDE DEF no, st
  <2>2. EntriesOK(x)
    BY CommitEntry DEF EntryInv
  <2> HIDE DEF x
  <2>3. Aside(x, y)
    BY DEF Aside
  <2> HIDE DEF y
  <2>4. EntriesOK(y)
    BY <2>2, <2>3, AsideSame, SameEntriesKeep
  <2>5. QED
    BY <2>1, <2>4, OthersEntry DEF Ok
<1>14. ASSUME Undo \/ Redo PROVE Ok
  <2> DEFINE x == SessionsEnded(d)
  <2>1. (Undo /\ d' = Disturb(Undone(x), 0)) \/ d' = Disturb(Redone(x), 0)
    BY <1>14 DEF Undo, Redo
  <2>2. Aside(d, x)
    BY PoseQueueAside
  <2> HIDE DEF x
  <2>3. EntriesOK(x) /\ (Undo => x.past # <<>>)
    BY <1>1, <2>2 DEF EntryInv, Aside, Undo
  <2>4. EntriesOK(Redone(x)) /\ (Undo => EntriesOK(Undone(x)))
    BY <2>3, UndoneEntry, RedoneEntry
  <2>5. QED
    BY <2>1, <2>4, OthersEntry DEF Ok
<1>15. ASSUME Open PROVE Ok
  BY <1>15, OpenEntry DEF Ok
<1>16. ASSUME GoToEdit \/ EditPattern PROVE Ok
  <2>1. Aside(d, d')
    <3>1. CASE GoToEdit
      BY <3>1 DEF GoToEdit, Aside
    <3>2. CASE EditPattern
      BY <3>2 DEF EditPattern, Aside
    <3>3. QED
      BY <1>16, <3>1, <3>2
  <2>2. QED
    BY <1>1, <2>1 DEF Ok
<1>17. ASSUME EditFold \/ StopAll \/ FoldGoesOn \/ UNCHANGED vars \/ (\E s \in Steps : StopCapture(s)) PROVE Ok
  BY <1>17 DEF EditFold, StopAll, FoldGoesOn, StopCapture, vars, Ok
<1>18. Ok
  <2>1. CASE Next
    BY <1>2, <1>3, <1>4, <1>5, <1>6, <1>7, <1>8, <1>10, <1>11, <1>12, <1>13, <1>14, <1>15, <1>16, <1>17, <2>1 DEF Next
  <2>2. CASE UNCHANGED vars
    BY <1>17, <2>2
  <2>3. QED
    BY <2>1, <2>2
<1>19. QED
  BY <1>18 DEF Ok

\* Refresh all is one undo entry, for any number of steps, runs and captures, over stops,
\* failures and files opened meanwhile, as long as nobody else edits the diagram or travels
\* its history while it goes on (captureQueue.ts, diagramCapture.ts): the entry a run joins
\* is the newest there is, so none of its captures makes a second.
THEOREM RunsAreOneEntry == Spec => []OneEntryPerRun
<1>1. EntryInv(d) /\ [Next]_vars => EntryInv(d)'
  BY EntryStep
<1>2. EntryInv(d) => OneEntryPerRun
  <2> SUFFICES ASSUME EntryInv(d), NEW r \in DOMAIN d.refreshes, d.refreshes[r].alone
               PROVE  Cardinality({i \in DOMAIN d.past : d.past[i].by = r}) <= 1
    BY DEF OneEntryPerRun
  <2> DEFINE mine == {i \in DOMAIN d.past : d.past[i].by = r}
  <2>1. mine \subseteq {Len(d.past)}
    BY DEF EntryInv, Joined
  <2>2. IsFiniteSet({Len(d.past)}) /\ Cardinality({Len(d.past)}) = 1
    BY FS_Singleton
  <2> HIDE DEF mine
  <2>3. Cardinality(mine) <= Cardinality({Len(d.past)})
    BY <2>1, <2>2, FS_Subset
  <2>4. QED
    BY <2>2, <2>3 DEF mine
<1>3. QED
  BY <1>1, <1>2, EntryInit, PTL DEF Spec

----------------------------------------------------------------------------
(* Induction over the natural numbers, from their being well-founded.      *)

LEMMA Least ==
  ASSUME NEW T \in SUBSET Nat, T # {}
  PROVE  \E n \in T : \A m \in T : n <= m
<1>1. IsWellFoundedOn(OpToRel(<, Nat), Nat)
  BY NatLessThanWellFounded
<1>2. PICK n \in T : \A m \in T : ~ (<<m, n>> \in OpToRel(<, Nat))
  BY <1>1, WFMin
<1>3. \A m \in T : ~ (m < n)
  BY <1>2 DEF OpToRel
<1> QED
  BY <1>3

\* A set of numbers with the first, and with the next of each below k, has all up to k.
LEMMA Ascent ==
  ASSUME NEW k \in Nat, NEW T, 0 \in T, \A n \in Nat : n \in T /\ n < k => n + 1 \in T
  PROVE  \A n \in 0..k : n \in T
<1> SUFFICES ASSUME (0..k) \ T # {}
             PROVE  FALSE
  OBVIOUS
<1> DEFINE R == (0..k) \ T
<1>0. R \in SUBSET Nat /\ R # {}
  OBVIOUS
<1>1. PICK n \in R : \A m \in R : n <= m
  <2> HIDE DEF R
  <2> QED
    BY <1>0, Least
<1>2. n - 1 \in Nat /\ n - 1 \in T /\ n - 1 < k
  BY <1>1
<1> QED
  BY <1>1, <1>2

----------------------------------------------------------------------------
(* Every pose edit finishes.                                               *)

Keep(x, key, k, i) ==
  LET q == x.queue.pending IN
  IF i = 0 THEN <<>> ELSE IF x.edits[q[i]].key \in Dropped(key) THEN k[i - 1] ELSE Append(k[i - 1], q[i])

LEMMA KeepExists ==
  ASSUME NEW S, NEW x, NEW key, NEW q \in Seq(S), q = x.queue.pending
  PROVE  \E k : k = [i \in 0..Len(q) |-> Keep(x, key, k, i)]
<1> DEFINE T == {n \in Nat : \E k : k = [i \in 0..n |-> Keep(x, key, k, i)]}
<1>1. 0 \in T
  <2> DEFINE k == [i \in 0..0 |-> <<>>]
  <2>1. k = [i \in 0..0 |-> Keep(x, key, k, i)]
    BY DEF Keep
  <2> QED
    BY <2>1
<1>2. ASSUME NEW n \in Nat, n \in T
      PROVE  n + 1 \in T
  <2>1. PICK k : k = [i \in 0..n |-> Keep(x, key, k, i)]
    BY <1>2
  <2> DEFINE j == [i \in 0..(n + 1) |-> IF i = n + 1 THEN Keep(x, key, k, i) ELSE k[i]]
  <2>2. \A i \in 0..n : i # 0 => i - 1 \in 0..n /\ j[i - 1] = k[i - 1]
    OBVIOUS
  <2>3. j[n + 1] = Keep(x, key, j, n + 1)
    BY DEF Keep
  <2>4. \A i \in 0..n : j[i] = Keep(x, key, j, i)
    <3> TAKE i \in 0..n
    <3>0. j[i] = k[i] /\ i \in 0..n
      OBVIOUS
    <3>1. j[i] = Keep(x, key, k, i)
      <4> HIDE DEF j
      <4>1. k[i] = Keep(x, key, k, i)
        BY <2>1, <3>0
      <4> QED
        BY <3>0, <4>1
    <3>2. CASE i = 0
      BY <3>1, <3>2 DEF Keep
    <3>3. CASE i # 0
      BY <2>2, <3>1, <3>3 DEF Keep
    <3> QED
      BY <3>2, <3>3
  <2>5. j = [i \in 0..(n + 1) |-> Keep(x, key, j, i)]
    BY <2>3, <2>4
  <2> HIDE DEF j
  <2> QED
    BY <2>5
<1>3. \A n \in 0..Len(q) : n \in T
  <2>1. Len(q) \in Nat
    BY LenProperties
  <2> HIDE DEF T
  <2> QED
    BY <1>1, <1>2, <2>1, Ascent
<1> QED
  BY <1>3

LEMMA AppendToSet ==
  ASSUME NEW S, NEW c \in Seq(S), NEW e \in S
  PROVE  Append(c, e) \in Seq(S) /\ ToSet(Append(c, e)) = ToSet(c) \cup {e}
<1>1. DOMAIN Append(c, e) = DOMAIN c \cup {Len(c) + 1} /\ Append(c, e)[Len(c) + 1] = e
  OBVIOUS
<1>2. \A i \in DOMAIN c : Append(c, e)[i] = c[i]
  OBVIOUS
<1> QED
  BY <1>1, <1>2 DEF ToSet

\* What is left of a queue are the edits of the fields not dropped.
LEMMA UndroppedKeeps ==
  ASSUME NEW S, NEW x, NEW key, NEW q \in Seq(S), q = x.queue.pending
  PROVE  /\ Undropped(x, key) \in Seq(S)
         /\ ToSet(Undropped(x, key)) = {e \in ToSet(q) : x.edits[e].key \notin Dropped(key)}
<1> DEFINE kept == CHOOSE k : k = [i \in 0..Len(q) |-> Keep(x, key, k, i)]
<1>1. kept = [i \in 0..Len(q) |-> Keep(x, key, kept, i)]
  BY KeepExists
<1>2. Undropped(x, key) = kept[Len(q)]
  BY DEF Undropped, Keep
<1> HIDE DEF kept
<1> DEFINE T == {n \in 0..Len(q) : kept[n] \in Seq(S)
                   /\ ToSet(kept[n]) = {q[i] : i \in {j \in 1..n : x.edits[q[j]].key \notin Dropped(key)}}}
<1>3. 0 \in T
  BY <1>1 DEF Keep, ToSet
<1>4. ASSUME NEW n \in Nat, n \in T, n < Len(q)
      PROVE  n + 1 \in T
  <2>1. n + 1 \in 0..Len(q) /\ n + 1 \in 1..Len(q) /\ q[n + 1] \in S
    BY <1>4
  <2>0. kept[n + 1] = Keep(x, key, kept, n + 1)
    BY <1>1, <2>1
  <2>2. CASE x.edits[q[n + 1]].key \in Dropped(key)
    <3>1. kept[n + 1] = kept[n]
      BY <2>0, <2>2 DEF Keep
    <3>2. {j \in 1..(n + 1) : x.edits[q[j]].key \notin Dropped(key)} = {j \in 1..n : x.edits[q[j]].key \notin Dropped(key)}
      BY <2>2
    <3> QED
      BY <1>4, <2>1, <3>1, <3>2
  <2>3. CASE x.edits[q[n + 1]].key \notin Dropped(key)
    <3>1. kept[n + 1] = Append(kept[n], q[n + 1])
      BY <2>0, <2>3 DEF Keep
    <3>2. {j \in 1..(n + 1) : x.edits[q[j]].key \notin Dropped(key)} = {j \in 1..n : x.edits[q[j]].key \notin Dropped(key)} \cup {n + 1}
      BY <2>3
    <3>3. kept[n + 1] \in Seq(S) /\ ToSet(kept[n + 1]) = ToSet(kept[n]) \cup {q[n + 1]}
      BY <1>4, <2>1, <3>1, AppendToSet
    <3> QED
      BY <1>4, <2>1, <3>2, <3>3
  <2> QED
    BY <2>2, <2>3
<1>5. Len(q) \in T
  <2> HIDE DEF T
  <2>1. Len(q) \in Nat
    OBVIOUS
  <2>2. \A n \in 0..Len(q) : n \in T
    BY <1>3, <1>4, <2>1, Ascent
  <2> QED
    BY <2>1, <2>2
<1>6. ToSet(q) = {q[i] : i \in 1..Len(q)}
  BY DEF ToSet
<1>7. {q[i] : i \in {j \in 1..Len(q) : x.edits[q[j]].key \notin Dropped(key)}} = {e \in ToSet(q) : x.edits[e].key \notin Dropped(key)}
  BY <1>6
<1> QED
  BY <1>2, <1>5, <1>7

PoseFields == {"queue", "edits", "marks", "caps"}
QueueFields == {"on", "pending", "latest", "busy"}

\* A capture under way that writes the edit e, or of the step s.
Writes(x, e) == \E c \in DOMAIN x.caps : LiveCap(x, c) /\ x.caps[c].edit = e
WritesPosed(x, e) == \E c \in DOMAIN x.caps : LiveCap(x, c) /\ x.caps[c].edit = e /\ x.caps[c].step = Posed
Draws(x, s) == \E c \in DOMAIN x.caps : LiveCap(x, c) /\ x.caps[c].step = s

\* The queue and its edits: what waits is the latest of its field.
QueueOK(x) ==
  /\ PoseFields \subseteq DOMAIN x /\ QueueFields \subseteq DOMAIN x.queue
  /\ IsSeq(x.edits) /\ \A e \in DOMAIN x.edits : {"key", "done"} \subseteq DOMAIN x.edits[e] /\ x.edits[e].key \in Keys
  /\ x.queue.pending \in Seq(DOMAIN x.edits)
  /\ \A e \in ToSet(x.queue.pending) : x.queue.latest[x.edits[e].key] = e

\* A step marked is drawn by a capture under way.
MarksOK(x) ==
  /\ IsSeq(x.caps)
  /\ \A c \in DOMAIN x.caps : LiveCap(x, c) =>
       CapFields \subseteq DOMAIN x.caps[c] /\ x.caps[c].edit \in Nat /\ x.caps[c].step \in Steps
  /\ DOMAIN x.marks = Steps /\ \A s \in Steps : x.marks[s] # None => Draws(x, s)

\* But for the edit e, one not done waits or is written, and the one the queue is
\* busy with is written.
EditsOK(x, e) ==
  /\ \A i \in DOMAIN x.edits : i # e /\ ~x.edits[i].done => i \in ToSet(x.queue.pending) \/ Writes(x, i)
  /\ x.queue.busy # 0 /\ x.queue.busy # e => WritesPosed(x, x.queue.busy)

PoseBut(x, e) == QueueOK(x) /\ MarksOK(x) /\ EditsOK(x, e)
PoseInv(x) == PoseBut(x, 0)

\* What leaves all of that as it is.
PoseKept(x, y) ==
  DOMAIN y = DOMAIN x /\ y.queue = x.queue /\ y.edits = x.edits /\ y.marks = x.marks /\ y.caps = x.caps

LEMMA PoseKeptKeeps ==
  ASSUME NEW x, NEW y, NEW e, PoseBut(x, e), PoseKept(x, y)
  PROVE  PoseBut(y, e)
BY DEF PoseBut, PoseKept, QueueOK, MarksOK, EditsOK, Writes, WritesPosed, Draws, LiveCap

\* The captures move, none ends, and no step is marked anew.
LEMMA PoseMovedKeeps ==
  ASSUME NEW x, NEW y, NEW e, PoseBut(x, e),
         DOMAIN y = DOMAIN x, y.queue = x.queue, y.edits = x.edits,
         DOMAIN y.marks = Steps, \A s \in Steps : y.marks[s] # None => x.marks[s] # None,
         IsSeq(y.caps), DOMAIN y.caps = DOMAIN x.caps,
         \A c \in DOMAIN x.caps :
           /\ LiveCap(y, c) <=> LiveCap(x, c)
           /\ LiveCap(x, c) => /\ DOMAIN y.caps[c] = DOMAIN x.caps[c]
                               /\ y.caps[c].edit = x.caps[c].edit /\ y.caps[c].step = x.caps[c].step
  PROVE  PoseBut(y, e)
<1>1. \A i : Writes(x, i) => Writes(y, i)
  BY DEF Writes
<1>2. \A i : WritesPosed(x, i) => WritesPosed(y, i)
  BY DEF WritesPosed
<1>3. \A s : Draws(x, s) => Draws(y, s)
  BY DEF Draws
<1>4. QueueOK(y)
  BY DEF PoseBut, QueueOK
<1>5. MarksOK(y)
  BY <1>3 DEF PoseBut, MarksOK
<1>6. EditsOK(y, e)
  BY <1>1, <1>2 DEF PoseBut, EditsOK
<1>7. QED
  BY <1>4, <1>5, <1>6 DEF PoseBut

\* Edits are done: those of es, and what was before.
LEMMA DonePose ==
  ASSUME NEW x, NEW e, PoseBut(x, e), NEW es
  PROVE  LET y == DoneEdits(x, es) IN
         /\ PoseBut(y, e) /\ y.queue = x.queue /\ Len(y.edits) = Len(x.edits)
         /\ DOMAIN y = DOMAIN x /\ y.marks = x.marks /\ y.caps = x.caps /\ DOMAIN y.edits = DOMAIN x.edits
         /\ \A i \in DOMAIN x.edits : y.edits[i].key = x.edits[i].key /\ (i \in es => y.edits[i].done)
<1> DEFINE edits == [i \in DOMAIN x.edits |-> [x.edits[i] EXCEPT !.done = @ \/ i \in es]]
           y == DoneEdits(x, es)
<1>1. DOMAIN y = DOMAIN x /\ y.edits = edits /\ y.queue = x.queue /\ y.marks = x.marks /\ y.caps = x.caps
  BY DEF DoneEdits, PoseBut, QueueOK, PoseFields
<1>2. \A i \in DOMAIN x.edits : /\ edits[i].key = x.edits[i].key /\ DOMAIN edits[i] = DOMAIN x.edits[i]
                                /\ i \in es => edits[i].done
                                /\ x.edits[i].done => edits[i].done
  BY DEF PoseBut, QueueOK
<1>3. DOMAIN edits = DOMAIN x.edits /\ edits \in [DOMAIN x.edits -> {edits[i] : i \in DOMAIN x.edits}]
  OBVIOUS
<1> HIDE DEF edits, y
<1>4. IsSeq(edits) /\ Len(edits) = Len(x.edits)
  BY <1>3, SeqSame DEF PoseBut, QueueOK
<1>5. ToSet(x.queue.pending) \subseteq DOMAIN x.edits
  BY DEF PoseBut, QueueOK, ToSet
<1>6. QueueOK(y)
  BY <1>1, <1>2, <1>3, <1>4, <1>5 DEF PoseBut, QueueOK
<1>7. MarksOK(y)
  BY <1>1 DEF PoseBut, MarksOK, Draws, LiveCap
<1>8. EditsOK(y, e)
  BY <1>1, <1>2, <1>3 DEF PoseBut, EditsOK, Writes, WritesPosed, LiveCap
<1>9. PoseBut(y, e)
  BY <1>6, <1>7, <1>8 DEF PoseBut
<1>10. QED
  BY <1>1, <1>2, <1>3, <1>4, <1>9 DEF y

LEMMA NoQueueIs ==
  /\ QueueFields \subseteq DOMAIN NoQueue /\ NoQueue.pending = <<>> /\ NoQueue.busy = 0
  /\ ToSet(<<>>) = {} /\ \A S : <<>> \in Seq(S)
BY EmptySeq DEF NoQueue, QueueFields, ToSet

\* The edit e is written, which nothing need have been said of.
LEMMA WrittenPose ==
  ASSUME NEW x, NEW e, PoseBut(x, e)
  PROVE  PoseInv(Written(x, e))
<1> DEFINE y == DoneEdits(x, {e})
           q == x.queue
           idle == [q EXCEPT !.busy = 0]
           queue == IF q.busy # e THEN q ELSE IF q.pending = <<>> THEN NoQueue ELSE idle
           z == Written(x, e)
<1>1. /\ PoseBut(y, e) /\ y.queue = q /\ DOMAIN y.edits = DOMAIN x.edits
      /\ \A i \in DOMAIN x.edits : i = e => y.edits[i].done
  BY DonePose
<1>2. z = [y EXCEPT !.queue = queue]
  BY DEF Written
<1> HIDE DEF y, z
<1>3. /\ DOMAIN z = DOMAIN y /\ z.queue = queue /\ z.edits = y.edits /\ z.marks = y.marks /\ z.caps = y.caps
  BY <1>1, <1>2 DEF PoseBut, QueueOK, PoseFields
<1>4. /\ QueueFields \subseteq DOMAIN queue /\ queue.pending \in {q.pending, <<>>}
      /\ queue.pending # <<>> => queue.pending = q.pending /\ queue.latest = q.latest
      /\ ToSet(queue.pending) = ToSet(q.pending)
      /\ queue.busy = 0 \/ (queue.busy = q.busy /\ q.busy # e)
  <2>1. QueueFields \subseteq DOMAIN q
    BY <1>1 DEF PoseBut, QueueOK
  <2>2. QueueFields \subseteq DOMAIN idle /\ idle.pending = q.pending /\ idle.latest = q.latest /\ idle.busy = 0
    BY <2>1 DEF QueueFields
  <2>3. CASE q.busy # e
    <3>1. queue = q
      BY <2>3
    <3> HIDE DEF queue
    <3>2. QED
      BY <2>1, <2>3, <3>1
  <2>4. CASE q.busy = e /\ q.pending = <<>>
    <3>1. queue = NoQueue
      BY <2>4
    <3> HIDE DEF queue
    <3>2. QED
      BY <2>4, <3>1, NoQueueIs
  <2>5. CASE q.busy = e /\ q.pending # <<>>
    <3>1. queue = idle
      BY <2>5
    <3> HIDE DEF queue, idle
    <3>2. QED
      BY <2>2, <3>1
  <2>6. QED
    BY <2>3, <2>4, <2>5
<1> HIDE DEF queue
<1>5. queue.pending \in Seq(DOMAIN y.edits) /\ \A i \in ToSet(queue.pending) : queue.latest[y.edits[i].key] = i
  <2>1. CASE queue.pending = <<>>
    BY <2>1, NoQueueIs
  <2>2. CASE queue.pending # <<>>
    BY <1>1, <1>4, <2>2 DEF PoseBut, QueueOK
  <2>3. QED
    BY <2>1, <2>2
<1>6. QueueOK(z)
  BY <1>1, <1>3, <1>4, <1>5 DEF PoseBut, QueueOK
<1>7. MarksOK(z)
  BY <1>1, <1>3 DEF PoseBut, MarksOK, Draws, LiveCap
<1>8. EditsOK(z, 0)
  <2>1. \A i : Writes(y, i) => Writes(z, i)
    BY <1>3 DEF Writes, LiveCap
  <2>2. \A i : WritesPosed(y, i) => WritesPosed(z, i)
    BY <1>3 DEF WritesPosed, LiveCap
  <2>3. QED
    BY <1>1, <1>3, <1>4, <2>1, <2>2 DEF PoseBut, EditsOK
<1>9. QED
  BY <1>6, <1>7, <1>8 DEF PoseInv, PoseBut, z


\* A newer edit waits at the end or in an older one's place, those of other fields stay.
LEMMA WaitingIs ==
  ASSUME NEW S, NEW x, NEW key, NEW q \in Seq(S), q = x.queue.pending, NEW n
  PROVE  LET w == Waiting(x, key, n) IN
         /\ w \in Seq(S \cup {n}) /\ n \in ToSet(w)
         /\ \A e \in ToSet(w) : e = n \/ (e \in ToSet(q) /\ x.edits[e].key \notin {key} \cup Dropped(key))
<1> DEFINE kept == Undropped(x, key)
           same == {i \in DOMAIN kept : x.edits[kept[i]].key = key}
           w == Waiting(x, key, n)
           place == [i \in DOMAIN kept |-> IF i \in same THEN n ELSE kept[i]]
           T == S \cup {n}
<1>1. kept \in Seq(S) /\ \A e \in ToSet(kept) : e \in ToSet(q) /\ x.edits[e].key \notin Dropped(key)
  BY UndroppedKeeps
<1>2. w = IF same = {} THEN Append(kept, n) ELSE place
  BY DEF Waiting
<1>3. kept \in Seq(T) /\ n \in T
  BY <1>1, SeqMonotonic
<1>4. \A i \in DOMAIN kept : kept[i] \in ToSet(kept) /\ kept[i] \in S
  BY <1>1 DEF ToSet
<1> HIDE DEF kept
<1>5. CASE same = {}
  <2>1. w = Append(kept, n)
    BY <1>2, <1>5
  <2>2. \A e \in ToSet(kept) : x.edits[e].key # key
    BY <1>5 DEF ToSet
  <2> HIDE DEF w, same, T
  <2>3. w \in Seq(T) /\ ToSet(w) = ToSet(kept) \cup {n}
    BY <1>3, <2>1, AppendToSet
  <2>4. QED
    BY <1>1, <2>2, <2>3 DEF T, w
<1>6. CASE same # {}
  <2>1. w = place
    BY <1>2, <1>6
  <2>2. place \in [DOMAIN kept -> T]
    BY <1>4
  <2>3. \E m \in Nat : place \in [1..m -> T]
    BY <1>1, <2>2, LenProperties
  <2>4. place \in Seq(T) /\ DOMAIN place = DOMAIN kept
    BY <2>3, SeqDef
  <2>5. \E i \in DOMAIN place : place[i] = n
    BY <1>6
  <2>6. \A i \in DOMAIN place : place[i] = n \/ (place[i] \in ToSet(kept) /\ x.edits[place[i]].key # key)
    BY <1>4
  <2> HIDE DEF w, same, T, place
  <2>7. n \in ToSet(place)
    BY <2>5 DEF ToSet
  <2>8. \A e \in ToSet(place) : e = n \/ (e \in ToSet(kept) /\ x.edits[e].key # key)
    BY <2>6 DEF ToSet
  <2>9. QED
    BY <1>1, <2>1, <2>4, <2>7, <2>8 DEF T, w
<1>7. QED
  BY <1>5, <1>6

\* An edit is offered: those that give way to it finish.
LEMMA OfferedPose ==
  ASSUME NEW x, PoseInv(x), NEW key \in Keys
  PROVE  PoseInv(Offered(x, key))
<1> DEFINE n == Len(x.edits) + 1
           q == x.queue.pending
           w == Waiting(x, key, n)
           gone == ToSet(q) \ ToSet(w)
           y == DoneEdits(x, gone)
           edit == [key |-> key, done |-> FALSE]
           edits == Append(y.edits, edit)
           latest == [k \in Keys |-> IF k = key THEN n ELSE IF k \in Dropped(key) THEN 0 ELSE x.queue.latest[k]]
           queue == [on |-> TRUE, pending |-> w, latest |-> latest, busy |-> x.queue.busy]
           z == Offered(x, key)
<1>1. /\ PoseInv(y) /\ y.queue = x.queue /\ Len(y.edits) = Len(x.edits)
      /\ DOMAIN y = DOMAIN x /\ y.marks = x.marks /\ y.caps = x.caps /\ DOMAIN y.edits = DOMAIN x.edits
      /\ \A i \in DOMAIN x.edits : y.edits[i].key = x.edits[i].key /\ (i \in gone => y.edits[i].done)
  BY DonePose DEF PoseInv
<1>2. z = [y EXCEPT !.edits = edits, !.queue = queue]
  BY DEF Offered
<1> HIDE DEF y
<1>3. QueueOK(x) /\ QueueOK(y) /\ EditsOK(y, 0) /\ MarksOK(y)
  BY <1>1 DEF PoseInv, PoseBut
<1> HIDE DEF z, queue, edits
<1>4. /\ DOMAIN z = DOMAIN y /\ z.queue = queue /\ z.edits = edits /\ z.marks = y.marks /\ z.caps = y.caps
  BY <1>2, <1>3 DEF QueueOK, PoseFields
<1>5. /\ w \in Seq(DOMAIN x.edits \cup {n}) /\ n \in ToSet(w)
      /\ \A e \in ToSet(w) : e = n \/ (e \in ToSet(q) /\ x.edits[e].key \notin {key} \cup Dropped(key))
  <2>1. x.queue.pending \in Seq(DOMAIN x.edits)
    BY <1>3 DEF QueueOK
  <2> HIDE DEF n
  <2>2. QED
    BY <2>1, WaitingIs
<1>6. /\ IsSeq(edits) /\ DOMAIN edits = DOMAIN x.edits \cup {n} /\ n \notin DOMAIN x.edits
      /\ edits[n] = edit /\ \A i \in DOMAIN x.edits : edits[i] = y.edits[i]
  <2>1. IsSeq(y.edits) /\ DOMAIN y.edits = 1..(n - 1) /\ n - 1 \in Nat /\ Len(y.edits) + 1 = n
    BY <1>1, <1>3, SeqFacts DEF QueueOK
  <2>2. /\ IsSeq(edits) /\ DOMAIN edits = 1..(Len(y.edits) + 1) /\ edits[Len(y.edits) + 1] = edit
        /\ \A i \in DOMAIN y.edits : edits[i] = y.edits[i]
    BY <2>1, SeqAppend DEF edits
  <2>3. QED
    BY <1>1, <2>1, <2>2
<1>7. queue.pending = w /\ queue.latest = latest /\ queue.busy = x.queue.busy /\ QueueFields \subseteq DOMAIN queue
  BY DEF queue, QueueFields
<1>8. ToSet(q) \subseteq DOMAIN x.edits
  BY <1>3 DEF QueueOK, ToSet
<1>9. \A e \in ToSet(w) : latest[edits[e].key] = e
  <2> SUFFICES ASSUME NEW e \in ToSet(w) PROVE latest[edits[e].key] = e
    OBVIOUS
  <2>1. CASE e = n
    BY <1>6, <2>1
  <2>2. CASE e # n
    <3>1. e \in ToSet(q) /\ x.edits[e].key \notin {key} \cup Dropped(key) /\ e \in DOMAIN x.edits
      BY <1>5, <1>8, <2>2
    <3>2. edits[e].key = x.edits[e].key /\ x.edits[e].key \in Keys /\ x.queue.latest[x.edits[e].key] = e
      BY <1>1, <1>3, <1>6, <3>1 DEF QueueOK
    <3> HIDE DEF w, q
    <3>3. QED
      BY <3>1, <3>2
  <2>3. QED
    BY <2>1, <2>2
<1> HIDE DEF w, latest, q
<1>10. QueueOK(z)
  <2>1. \A e \in DOMAIN edits : {"key", "done"} \subseteq DOMAIN edits[e] /\ edits[e].key \in Keys
    BY <1>1, <1>3, <1>6 DEF QueueOK
  <2>2. QED
    BY <1>3, <1>4, <1>5, <1>6, <1>7, <1>9, <2>1 DEF QueueOK
<1>11. MarksOK(z)
  BY <1>3, <1>4 DEF MarksOK, Draws, LiveCap
<1>12. EditsOK(z, 0)
  <2>1. \A i : Writes(y, i) => Writes(z, i)
    BY <1>4 DEF Writes, LiveCap
  <2>2. \A i : WritesPosed(y, i) => WritesPosed(z, i)
    BY <1>4 DEF WritesPosed, LiveCap
  <2>3. ASSUME NEW i \in DOMAIN edits, i # 0, ~edits[i].done
        PROVE  i \in ToSet(w) \/ Writes(z, i)
    <3>1. CASE i = n
      BY <1>5, <3>1
    <3>2. CASE i \in DOMAIN x.edits
      <4>1. ~y.edits[i].done /\ i \notin gone
        BY <1>1, <1>6, <2>3, <3>2
      <4>2. i \in ToSet(q) \/ Writes(y, i)
        BY <1>1, <1>3, <2>3, <3>2, <4>1 DEF EditsOK, q
      <4>3. QED
        BY <2>1, <4>1, <4>2
    <3>3. QED
      BY <1>6, <3>1, <3>2
  <2>4. QED
    BY <1>1, <1>3, <1>4, <1>7, <2>2, <2>3 DEF EditsOK
<1>13. QED
  BY <1>10, <1>11, <1>12 DEF PoseInv, PoseBut, z

\* The session ends: what waits is the latest of its field, and finishes.
LEMMA EndedPose ==
  ASSUME NEW x, PoseInv(x)
  PROVE  /\ PoseInv(SessionsEnded(x)) /\ SessionsEnded(x).caps = x.caps
         /\ SessionsEnded(x).marks = x.marks /\ DOMAIN SessionsEnded(x) = DOMAIN x
<1> DEFINE es == {x.queue.latest[k] : k \in Keys}
           y == DoneEdits(x, es)
           z == SessionsEnded(x)
<1>1. /\ PoseInv(y) /\ y.queue = x.queue
      /\ DOMAIN y = DOMAIN x /\ y.marks = x.marks /\ y.caps = x.caps /\ DOMAIN y.edits = DOMAIN x.edits
      /\ \A i \in DOMAIN x.edits : i \in es => y.edits[i].done
  BY DonePose DEF PoseInv
<1>2. z = [y EXCEPT !.queue = NoQueue]
  BY DEF SessionsEnded
<1> HIDE DEF y, z
<1>3. QueueOK(x) /\ QueueOK(y) /\ EditsOK(y, 0) /\ MarksOK(y)
  BY <1>1 DEF PoseInv, PoseBut
<1>4. /\ DOMAIN z = DOMAIN y /\ z.queue = NoQueue /\ z.edits = y.edits /\ z.marks = y.marks /\ z.caps = y.caps
  BY <1>2, <1>3 DEF QueueOK, PoseFields
<1>5. QueueOK(z)
  BY <1>3, <1>4, NoQueueIs DEF QueueOK
<1>6. MarksOK(z)
  BY <1>3, <1>4 DEF MarksOK, Draws, LiveCap
<1>7. ASSUME NEW i \in DOMAIN y.edits, i # 0, ~y.edits[i].done
      PROVE  Writes(z, i)
  <2>1. i \notin es
    BY <1>1, <1>7
  <2>2. i \notin ToSet(x.queue.pending)
    BY <1>1, <1>3, <2>1 DEF QueueOK
  <2>3. Writes(y, i)
    BY <1>1, <1>3, <1>7, <2>2 DEF EditsOK
  <2>4. QED
    BY <1>4, <2>3 DEF Writes, LiveCap
<1>8. EditsOK(z, 0)
  BY <1>4, <1>7, NoQueueIs DEF EditsOK
<1>9. QED
  BY <1>1, <1>4, <1>5, <1>6, <1>8 DEF PoseInv, PoseBut, z


\* What a run does, and what the history does, is nothing to the queue and the captures.
LEMMA RunsKeepPose ==
  ASSUME NEW x, NEW r, NEW outcome, NEW stale
  PROVE  /\ PoseKept(x, RunEnds(x, r)) /\ PoseKept(x, NextStep(x, r))
         /\ PoseKept(x, AfterCapture(x, r, outcome)) /\ PoseKept(x, GoOn(x, r, stale))
<1> DEFINE y == [x EXCEPT !.refreshing = NoStep,
                          !.refreshes[r].join = IF outcome = "changed" /\ @ = 0 THEN Newest(x) ELSE @]
           z == [y EXCEPT !.progress = TRUE]
<1>1. AfterCapture(x, r, outcome) = IF outcome = "stopped" THEN RunEnds(y, r) ELSE NextStep(z, r)
  BY DEF AfterCapture
<1>2. PoseKept(x, y) /\ PoseKept(x, z)
  BY DEF PoseKept
<1>3. ASSUME NEW u PROVE PoseKept(u, RunEnds(u, r))
  BY DEF PoseKept, RunEnds
<1>4. ASSUME NEW u PROVE PoseKept(u, NextStep(u, r))
  <2> DEFINE v == [u EXCEPT !.refreshes[r].todo = Tail(@), !.refreshes[r].pc = "turn"]
  <2>1. NextStep(u, r) = IF Len(u.refreshes[r].todo) = 1 THEN RunEnds(v, r) ELSE v
    BY DEF NextStep
  <2>2. PoseKept(u, v)
    BY DEF PoseKept
  <2> HIDE DEF v
  <2>3. PoseKept(v, RunEnds(v, r))
    BY <1>3
  <2>4. QED
    BY <2>1, <2>2, <2>3 DEF PoseKept
<1> HIDE DEF y, z
<1>5. PoseKept(y, RunEnds(y, r)) /\ PoseKept(z, NextStep(z, r))
  BY <1>3, <1>4
<1>6. PoseKept(x, AfterCapture(x, r, outcome))
  BY <1>1, <1>2, <1>5 DEF PoseKept
<1>7. PoseKept(x, GoOn(x, r, stale))
  BY DEF PoseKept, GoOn
<1>8. QED
  BY <1>3, <1>4, <1>6, <1>7

LEMMA HistoryKeepsPose ==
  ASSUME NEW x, NEW by, NEW st, NEW extend \in BOOLEAN
  PROVE  PoseKept(x, Commit(x, by, st, extend)) /\ PoseKept(x, Disturb(x, by))
BY DEF PoseKept, Commit, Disturb

\* A capture is begun, of the step edited when it writes an edit.
LEMMA BegunPose ==
  ASSUME NEW x, NEW s \in Steps, NEW run, NEW edit \in Nat, NEW e, PoseBut(x, e),
         e = 0 \/ (e = edit /\ s = Posed)
  PROVE  PoseInv(Begun(x, s, run, edit))
<1> DEFINE cap == [step |-> s, load |-> x.load, rev |-> x.steps[s].rev, saw |-> x.steps[s].src,
                   lands |-> IF run > 0 THEN x.steps[s].src ELSE x.sources + 1,
                   drawn |-> x.pattern, run |-> run, edit |-> edit,
                   fold |-> 0, pc |-> "prepare", undone |-> FALSE]
           z == Begun(x, s, run, edit)
           n == Len(x.caps) + 1
<1>1. QueueOK(x) /\ MarksOK(x) /\ EditsOK(x, e)
  BY DEF PoseBut
<1>2. /\ DOMAIN z = DOMAIN x /\ z.queue = x.queue /\ z.edits = x.edits /\ z.marks = [x.marks EXCEPT ![s] = 0]
      /\ z.caps = Append(x.caps, cap)
  BY <1>1 DEF Begun, QueueOK, PoseFields
<1>3. cap.step = s /\ cap.edit = edit /\ cap.pc # "over" /\ CapFields \subseteq DOMAIN cap
  BY DEF CapFields
<1> HIDE DEF cap, z
<1>4. /\ IsSeq(z.caps) /\ DOMAIN z.caps = DOMAIN x.caps \cup {n} /\ n \notin DOMAIN x.caps /\ z.caps[n] = cap
      /\ \A c \in DOMAIN x.caps : z.caps[c] = x.caps[c]
  <2>1. IsSeq(x.caps) /\ DOMAIN x.caps = 1..(n - 1) /\ n - 1 \in Nat
    BY <1>1, SeqFacts DEF MarksOK
  <2>2. /\ IsSeq(z.caps) /\ DOMAIN z.caps = 1..n /\ z.caps[n] = cap
        /\ \A c \in DOMAIN x.caps : z.caps[c] = x.caps[c]
    BY <1>2, <2>1, SeqAppend
  <2>3. QED
    BY <2>1, <2>2
<1> HIDE DEF n
<1>5. /\ \A i : Writes(x, i) \/ i = edit => Writes(z, i)
      /\ \A i : WritesPosed(x, i) \/ (i = edit /\ s = Posed) => WritesPosed(z, i)
      /\ \A t : Draws(x, t) \/ t = s => Draws(z, t)
  BY <1>3, <1>4 DEF Writes, WritesPosed, Draws, LiveCap
<1>6. QueueOK(z)
  BY <1>1, <1>2 DEF QueueOK
<1>7. MarksOK(z)
  <2>1. \A c \in DOMAIN z.caps : LiveCap(z, c) =>
          CapFields \subseteq DOMAIN z.caps[c] /\ z.caps[c].edit \in Nat /\ z.caps[c].step \in Steps
    BY <1>1, <1>3, <1>4 DEF MarksOK, LiveCap
  <2>2. DOMAIN z.marks = Steps /\ \A t \in Steps : z.marks[t] # None => Draws(z, t)
    BY <1>1, <1>2, <1>5 DEF MarksOK
  <2>3. QED
    BY <1>4, <2>1, <2>2 DEF MarksOK
<1>8. EditsOK(z, 0)
  <2>1. \A i \in DOMAIN z.edits : i # 0 /\ ~z.edits[i].done => i \in ToSet(z.queue.pending) \/ Writes(z, i)
    BY <1>1, <1>2, <1>5 DEF EditsOK
  <2>2. z.queue.busy # 0 => WritesPosed(z, z.queue.busy)
    BY <1>1, <1>2, <1>5 DEF EditsOK
  <2>3. QED
    BY <2>1, <2>2 DEF EditsOK
<1>9. QED
  BY <1>6, <1>7, <1>8 DEF PoseInv, PoseBut, z

\* A capture ends: its edit is written, and its step's mark goes with it.
LEMMA FinishPose ==
  ASSUME NEW x, PoseInv(x), NEW c \in DOMAIN x.caps, LiveCap(x, c), NEW outcome
  PROVE  PoseInv(Finish(x, c, outcome))
<1> DEFINE cap == x.caps[c]
           y == [x EXCEPT !.marks[cap.step] = None, !.caps[c] = Ended]
<1>1. Finish(x, c, outcome) =
        IF cap.edit > 0 THEN Written(y, cap.edit)
        ELSE IF cap.run > 0 THEN AfterCapture(y, cap.run, outcome) ELSE y
  BY DEF Finish
<1>2. QueueOK(x) /\ MarksOK(x) /\ EditsOK(x, 0)
  BY DEF PoseInv, PoseBut
<1>3. /\ DOMAIN y = DOMAIN x /\ y.queue = x.queue /\ y.edits = x.edits
      /\ y.marks = [x.marks EXCEPT ![cap.step] = None] /\ y.caps = [x.caps EXCEPT ![c] = Ended]
  BY <1>2 DEF QueueOK, PoseFields
<1>4. cap.edit \in Nat /\ cap.step \in Steps
  BY <1>2 DEF MarksOK
<1> HIDE DEF y
<1>5. /\ DOMAIN y.caps = DOMAIN x.caps /\ ~LiveCap(y, c)
      /\ \A b \in DOMAIN x.caps : b # c => y.caps[b] = x.caps[b]
  BY <1>3 DEF LiveCap, Ended
<1>6. IsSeq(y.caps)
  <2>1. y.caps \in [DOMAIN x.caps -> {y.caps[b] : b \in DOMAIN x.caps}]
    BY <1>3
  <2>2. QED
    BY <1>2, <2>1, SeqSame DEF MarksOK
<1>7. /\ \A i : Writes(x, i) /\ i # cap.edit => Writes(y, i)
      /\ \A i : WritesPosed(x, i) /\ i # cap.edit => WritesPosed(y, i)
      /\ \A t : Draws(x, t) /\ t # cap.step => Draws(y, t)
  BY <1>5 DEF Writes, WritesPosed, Draws, LiveCap
<1>8. QueueOK(y)
  BY <1>2, <1>3 DEF QueueOK
<1>9. MarksOK(y)
  <2>1. \A b \in DOMAIN y.caps : LiveCap(y, b) =>
          CapFields \subseteq DOMAIN y.caps[b] /\ y.caps[b].edit \in Nat /\ y.caps[b].step \in Steps
    BY <1>2, <1>5 DEF MarksOK, LiveCap
  <2>2. DOMAIN y.marks = Steps /\ \A t \in Steps : y.marks[t] # None => Draws(y, t)
    BY <1>2, <1>3, <1>4, <1>7 DEF MarksOK
  <2>3. QED
    BY <1>6, <2>1, <2>2 DEF MarksOK
<1>10. \A i \in DOMAIN x.edits : i # 0
  BY <1>2, SeqFacts DEF QueueOK
<1>11. EditsOK(y, cap.edit)
  <2>1. \A i \in DOMAIN y.edits : i # cap.edit /\ ~y.edits[i].done => i \in ToSet(y.queue.pending) \/ Writes(y, i)
    BY <1>2, <1>3, <1>7, <1>10 DEF EditsOK
  <2>2. y.queue.busy # 0 /\ y.queue.busy # cap.edit => WritesPosed(y, y.queue.busy)
    BY <1>2, <1>3, <1>7 DEF EditsOK
  <2>3. QED
    BY <2>1, <2>2 DEF EditsOK
<1>12. PoseBut(y, cap.edit)
  BY <1>8, <1>9, <1>11 DEF PoseBut
<1>13. PoseInv(Written(y, cap.edit))
  BY <1>12, WrittenPose
<1>14. CASE ~(cap.edit > 0)
  <2>1. PoseInv(y)
    BY <1>4, <1>12, <1>14 DEF PoseInv
  <2>2. PoseInv(AfterCapture(y, cap.run, outcome))
    BY <2>1, RunsKeepPose, PoseKeptKeeps DEF PoseInv
  <2>3. QED
    BY <1>1, <1>14, <2>1, <2>2
<1>15. QED
  BY <1>1, <1>13, <1>14

LEMMA TryStepPose ==
  ASSUME NEW x, PoseInv(x), NEW r, Head(x.refreshes[r].todo) \in Steps
  PROVE  PoseInv(TryStep(x, r))
<1> DEFINE run == x.refreshes[r]
           s == Head(run.todo)
           b == Begun(x, s, r, 0)
           y == [b EXCEPT !.refreshing = s, !.refreshes[r].pc = "capture"]
<1>1. TryStep(x, r) =
        IF run.cancelled \/ x.load # run.load THEN RunEnds(x, r)
        ELSE IF x.steps[s].drawn = None THEN NextStep(x, r)
        ELSE IF x.marks[s] # None THEN AfterCapture(x, r, "busy")
        ELSE y
  BY DEF TryStep
<1>2. PoseInv(b)
  BY BegunPose DEF PoseInv
<1> HIDE DEF b, s
<1>3. PoseKept(b, y)
  BY DEF PoseKept
<1> HIDE DEF y
<1>4. PoseInv(y)
  BY <1>2, <1>3, PoseKeptKeeps DEF PoseInv
<1>5. PoseInv(RunEnds(x, r)) /\ PoseInv(NextStep(x, r)) /\ PoseInv(AfterCapture(x, r, "busy"))
  BY RunsKeepPose, PoseKeptKeeps DEF PoseInv
<1>6. QED
  BY <1>1, <1>4, <1>5


LEMMA TravelPose ==
  ASSUME NEW x, PoseInv(x)
  PROVE  PoseInv(Undone(x)) /\ PoseInv(Redone(x))
<1> DEFINE caps == Outdated(x.caps)
<1>1. QueueOK(x) /\ MarksOK(x)
  BY DEF PoseInv, PoseBut
<1>2. /\ DOMAIN caps = DOMAIN x.caps /\ caps \in [DOMAIN x.caps -> {caps[c] : c \in DOMAIN x.caps}]
      /\ \A c \in DOMAIN x.caps :
           /\ caps[c].pc # "over" <=> LiveCap(x, c)
           /\ LiveCap(x, c) => /\ DOMAIN caps[c] = DOMAIN x.caps[c]
                               /\ caps[c].edit = x.caps[c].edit /\ caps[c].step = x.caps[c].step
  BY <1>1 DEF Outdated, MarksOK, LiveCap, CapFields
<1>3. IsSeq(caps)
  BY <1>1, <1>2, SeqSame DEF MarksOK
<1>4. \A y \in {Undone(x), Redone(x)} :
        DOMAIN y = DOMAIN x /\ y.queue = x.queue /\ y.edits = x.edits /\ y.marks = x.marks /\ y.caps = caps
  <2> DEFINE Moved(y) ==
        DOMAIN y = DOMAIN x /\ y.queue = x.queue /\ y.edits = x.edits /\ y.marks = x.marks /\ y.caps = caps
  <2>1. Moved(Undone(x))
    BY <1>1 DEF Undone, QueueOK, PoseFields
  <2>2. Moved(Redone(x))
    BY <1>1 DEF Redone, QueueOK, PoseFields
  <2>3. QED
    BY <2>1, <2>2
<1> HIDE DEF caps
<1>5. ASSUME NEW y \in {Undone(x), Redone(x)} PROVE PoseInv(y)
  <2>1. /\ DOMAIN y = DOMAIN x /\ y.queue = x.queue /\ y.edits = x.edits /\ y.marks = x.marks /\ y.caps = caps
    BY <1>4
  <2>2. DOMAIN y.marks = Steps
    BY <1>1, <2>1 DEF MarksOK
  <2>3. \A c \in DOMAIN x.caps :
           /\ LiveCap(y, c) <=> LiveCap(x, c)
           /\ LiveCap(x, c) => /\ DOMAIN y.caps[c] = DOMAIN x.caps[c]
                               /\ y.caps[c].edit = x.caps[c].edit /\ y.caps[c].step = x.caps[c].step
    BY <1>2, <2>1 DEF LiveCap
  <2>4. QED
    BY <1>2, <1>3, <2>1, <2>2, <2>3, PoseMovedKeeps DEF PoseInv
<1>6. QED
  BY <1>5

\* The document that opens leaves the captures to end, and marks none.
LEMMA OpenPose ==
  ASSUME PoseInv(d), Open
  PROVE  PoseInv(d')
<1> DEFINE x == SessionsEnded(d)
<1>1. PoseInv(x)
  BY EndedPose
<1>2. QueueOK(x) /\ MarksOK(x)
  BY <1>1 DEF PoseInv, PoseBut
<1>3. /\ DOMAIN d' = DOMAIN x /\ d'.queue = x.queue /\ d'.edits = x.edits /\ d'.caps = x.caps
      /\ d'.marks = [s \in Steps |-> None]
  BY <1>2 DEF Open, QueueOK, PoseFields
<1> HIDE DEF x
<1>4. DOMAIN d'.marks = Steps /\ \A s \in Steps : d'.marks[s] # None => x.marks[s] # None
  BY <1>3
<1>5. IsSeq(d'.caps) /\ \A c \in DOMAIN x.caps : LiveCap(d', c) <=> LiveCap(x, c)
  BY <1>2, <1>3 DEF MarksOK, LiveCap
<1>6. QED
  BY <1>1, <1>3, <1>4, <1>5, PoseMovedKeeps DEF PoseInv

\* The engine is lost: the captures on it have yet to be told.
LEMMA LosePose ==
  ASSUME PoseInv(d), LoseKernel
  PROVE  PoseInv(d')
<1> DEFINE caps == [c \in DOMAIN d.caps |->
               IF OnEngine(d.caps[c]) THEN [d.caps[c] EXCEPT !.pc = "lost"] ELSE d.caps[c]]
<1>1. QueueOK(d) /\ MarksOK(d)
  BY DEF PoseInv, PoseBut
<1>2. /\ DOMAIN d' = DOMAIN d /\ d'.queue = d.queue /\ d'.edits = d.edits /\ d'.marks = d.marks /\ d'.caps = caps
  BY <1>1 DEF LoseKernel, QueueOK, PoseFields
<1>3. /\ DOMAIN caps = DOMAIN d.caps /\ caps \in [DOMAIN d.caps -> {caps[c] : c \in DOMAIN d.caps}]
      /\ \A c \in DOMAIN d.caps :
           /\ LiveCap(d, c) => caps[c].pc # "over"
           /\ LiveCap(d, c) => /\ DOMAIN caps[c] = DOMAIN d.caps[c]
                               /\ caps[c].edit = d.caps[c].edit /\ caps[c].step = d.caps[c].step
  BY <1>1 DEF MarksOK, LiveCap, CapFields
<1>4. \A c \in DOMAIN d.caps : caps[c].pc # "over" => LiveCap(d, c)
  BY DEF LiveCap, OnEngine
<1> HIDE DEF caps
<1>5. IsSeq(caps) /\ DOMAIN d'.marks = Steps
  BY <1>1, <1>2, <1>3, SeqSame DEF MarksOK
<1>6. \A c \in DOMAIN d.caps : LiveCap(d', c) <=> LiveCap(d, c)
  BY <1>2, <1>3, <1>4 DEF LiveCap
<1>7. QED
  BY <1>2, <1>3, <1>5, <1>6, PoseMovedKeeps DEF PoseInv

\* The queue's next edit is being written, or is by now.
LEMMA DrainPoseKeeps ==
  ASSUME PoseInv(d), DrainPose
  PROVE  PoseInv(d')
<1> DEFINE q == d.queue.pending
           e == Head(q)
           queue == [[d.queue EXCEPT !.pending = Tail(@)] EXCEPT !.busy = e]
           x == [d EXCEPT !.queue.pending = Tail(@), !.queue.busy = e]
<1>1. d' = IF d.steps[Posed].drawn = None THEN Written(x, e) ELSE Begun(x, Posed, 0, e)
  BY DEF DrainPose
<1>2. QueueOK(d) /\ MarksOK(d) /\ EditsOK(d, 0)
  BY DEF PoseInv, PoseBut
<1>3. DOMAIN x = DOMAIN d /\ x.queue = queue /\ x.edits = d.edits /\ x.marks = d.marks /\ x.caps = d.caps
  BY <1>2 DEF QueueOK, PoseFields
<1>4. QueueFields \subseteq DOMAIN queue /\ queue.pending = Tail(q) /\ queue.busy = e /\ queue.latest = d.queue.latest
  BY <1>2 DEF QueueOK, QueueFields
<1>5. q \in Seq(DOMAIN d.edits) /\ q # <<>>
  BY <1>2 DEF QueueOK, DrainPose
<1> HIDE DEF x, queue
<1>6. e \in DOMAIN d.edits /\ Tail(q) \in Seq(DOMAIN d.edits) /\ ToSet(q) = {e} \cup ToSet(Tail(q))
  <2> HIDE DEF q
  <2>1. /\ e \in DOMAIN d.edits /\ e = q[1] /\ Tail(q) \in Seq(DOMAIN d.edits) /\ Len(Tail(q)) = Len(q) - 1
        /\ \A i \in 1..Len(Tail(q)) : Tail(q)[i] = q[i + 1]
    BY <1>5, HeadTailProperties
  <2>2. DOMAIN q = 1..Len(q) /\ DOMAIN Tail(q) = 1..Len(Tail(q)) /\ Len(q) \in Nat /\ Len(q) # 0
    BY <1>5, <2>1, LenProperties, EmptySeq
  <2>3. \A i \in DOMAIN Tail(q) : Tail(q)[i] \in ToSet(q)
    BY <2>1, <2>2 DEF ToSet
  <2>4. \A i \in DOMAIN q : i = 1 \/ (i - 1 \in DOMAIN Tail(q) /\ q[i] = Tail(q)[i - 1])
    BY <2>1, <2>2
  <2>5. e \in ToSet(q) /\ ToSet(Tail(q)) \subseteq ToSet(q)
    BY <2>1, <2>2, <2>3 DEF ToSet
  <2>6. \A i \in DOMAIN q : q[i] \in {e} \cup ToSet(Tail(q))
    BY <2>1, <2>4 DEF ToSet
  <2>7. ToSet(q) \subseteq {e} \cup ToSet(Tail(q))
    BY <2>6 DEF ToSet
  <2>8. QED
    BY <2>1, <2>5, <2>7
<1> HIDE DEF e
<1>7. QueueOK(x)
  BY <1>2, <1>3, <1>4, <1>6 DEF QueueOK
<1>8. MarksOK(x)
  BY <1>2, <1>3 DEF MarksOK, Draws, LiveCap
<1>9. \A i \in DOMAIN d.edits : i # 0 /\ i \in Nat
  BY <1>2, SeqFacts DEF QueueOK
<1>10. EditsOK(x, e)
  <2>1. \A i : Writes(d, i) => Writes(x, i)
    BY <1>3 DEF Writes, LiveCap
  <2>2. QED
    BY <1>2, <1>3, <1>4, <1>6, <1>9, <2>1 DEF EditsOK
<1>11. PoseBut(x, e) /\ e \in Nat /\ Posed \in Steps
  BY <1>6, <1>7, <1>8, <1>9, <1>10, CaptureAssumption DEF PoseBut
<1>12. PoseInv(Written(x, e)) /\ PoseInv(Begun(x, Posed, 0, e))
  BY <1>11, WrittenPose, BegunPose
<1>13. QED
  BY <1>1, <1>12

\* A capture goes on: it folds, or what it needs is there.
LEMMA GoesOnPose ==
  ASSUME NEW x, PoseInv(x), NEW y, NEW c \in DOMAIN x.caps, LiveCap(x, c), NEW cap,
         DOMAIN y = DOMAIN x, y.queue = x.queue, y.edits = x.edits, y.caps = [x.caps EXCEPT ![c] = cap],
         DOMAIN y.marks = Steps, \A s \in Steps : y.marks[s] # None => x.marks[s] # None,
         cap.pc # "over", DOMAIN cap = DOMAIN x.caps[c], cap.edit = x.caps[c].edit, cap.step = x.caps[c].step
  PROVE  PoseInv(y)
<1>1. IsSeq(x.caps)
  BY DEF PoseInv, PoseBut, MarksOK
<1>2. /\ DOMAIN y.caps = DOMAIN x.caps /\ y.caps[c] = cap
      /\ \A b \in DOMAIN x.caps : b # c => y.caps[b] = x.caps[b]
  OBVIOUS
<1>3. IsSeq(y.caps)
  <2>1. y.caps \in [DOMAIN x.caps -> {y.caps[b] : b \in DOMAIN x.caps}]
    OBVIOUS
  <2>2. QED
    BY <1>1, <2>1, SeqSame
<1>4. \A b \in DOMAIN x.caps :
           /\ LiveCap(y, b) <=> LiveCap(x, b)
           /\ LiveCap(x, b) => /\ DOMAIN y.caps[b] = DOMAIN x.caps[b]
                               /\ y.caps[b].edit = x.caps[b].edit /\ y.caps[b].step = x.caps[b].step
  BY <1>2 DEF LiveCap
<1>5. QED
  BY <1>2, <1>3, <1>4, PoseMovedKeeps DEF PoseInv

LEMMA PreparedPose ==
  ASSUME PoseInv(d), NEW c \in DOMAIN d.caps, Prepared(c)
  PROVE  PoseInv(d')
<1> DEFINE n == Len(work')
           s == d.caps[c].step
           toPicture == [d.caps[c] EXCEPT !.pc = "picture"]
           toFold == [[d.caps[c] EXCEPT !.pc = "fold"] EXCEPT !.fold = n]
           drawn == [d EXCEPT !.caps[c].pc = "picture"]
           folds == [d EXCEPT !.caps[c].pc = "fold", !.caps[c].fold = n,
                              !.marks[s] = IF @ = None THEN None ELSE n]
           marks == [d.marks EXCEPT ![s] = IF @ = None THEN None ELSE n]
<1>1. QueueOK(d) /\ MarksOK(d) /\ LiveCap(d, c)
  BY DEF PoseInv, PoseBut, Prepared, LiveCap
<1>2. CapFields \subseteq DOMAIN d.caps[c] /\ s \in Steps /\ DOMAIN d.marks = Steps
  BY <1>1 DEF MarksOK
<1>3. /\ DOMAIN toPicture = DOMAIN d.caps[c] /\ toPicture.pc # "over"
      /\ toPicture.edit = d.caps[c].edit /\ toPicture.step = d.caps[c].step
  BY <1>2 DEF CapFields
<1>4. /\ DOMAIN toFold = DOMAIN d.caps[c] /\ toFold.pc # "over"
      /\ toFold.edit = d.caps[c].edit /\ toFold.step = d.caps[c].step
  BY <1>2 DEF CapFields
<1>5. /\ drawn.caps = [d.caps EXCEPT ![c] = toPicture] /\ DOMAIN drawn = DOMAIN d
      /\ drawn.queue = d.queue /\ drawn.edits = d.edits /\ drawn.marks = d.marks
  BY <1>1 DEF QueueOK, PoseFields
<1>6. /\ folds.caps = [d.caps EXCEPT ![c] = toFold] /\ DOMAIN folds = DOMAIN d
      /\ folds.queue = d.queue /\ folds.edits = d.edits /\ folds.marks = marks
  BY <1>1 DEF QueueOK, PoseFields
<1>7. DOMAIN marks = Steps /\ \A t \in Steps : marks[t] # None => d.marks[t] # None
  BY <1>2
<1>8. d' \in {drawn, folds}
  BY DEF Prepared
<1> HIDE DEF drawn, folds, toPicture, toFold, marks
<1>9. PoseInv(drawn)
  BY <1>1, <1>2, <1>3, <1>5, GoesOnPose
<1>10. PoseInv(folds)
  BY <1>1, <1>4, <1>6, <1>7, GoesOnPose
<1>11. QED
  BY <1>8, <1>9, <1>10

LEMMA FoldedPose ==
  ASSUME PoseInv(d), NEW c \in DOMAIN d.caps, Folded(c) \/ FailCapture(c)
  PROVE  PoseInv(d')
<1> DEFINE toPicture == [d.caps[c] EXCEPT !.pc = "picture"]
           drawn == [d EXCEPT !.caps[c].pc = "picture"]
           ends == {Finish(d, c, "stopped"), Finish(d, c, "failed"), Finish(d, c, "discarded")}
<1>1. QueueOK(d) /\ MarksOK(d) /\ LiveCap(d, c)
  BY DEF PoseInv, PoseBut, Folded, FailCapture, LiveCap
<1>2. CapFields \subseteq DOMAIN d.caps[c] /\ DOMAIN d.marks = Steps
  BY <1>1 DEF MarksOK
<1>3. /\ DOMAIN toPicture = DOMAIN d.caps[c] /\ toPicture.pc # "over"
      /\ toPicture.edit = d.caps[c].edit /\ toPicture.step = d.caps[c].step
  BY <1>2 DEF CapFields
<1>4. /\ drawn.caps = [d.caps EXCEPT ![c] = toPicture] /\ DOMAIN drawn = DOMAIN d
      /\ drawn.queue = d.queue /\ drawn.edits = d.edits /\ drawn.marks = d.marks
  BY <1>1 DEF QueueOK, PoseFields
<1>5. Folded(c) => d' \in ends \cup {drawn}
  BY DEF Folded
<1>6. FailCapture(c) => d' \in ends
  BY DEF FailCapture
<1>7. \A y \in ends : PoseInv(y)
  BY <1>1, FinishPose
<1> HIDE DEF drawn, ends, toPicture
<1>8. PoseInv(drawn)
  BY <1>1, <1>2, <1>3, <1>4, GoesOnPose
<1>9. QED
  BY <1>5, <1>6, <1>7, <1>8

LEMMA LandPose ==
  ASSUME PoseInv(d), NEW c \in DOMAIN d.caps, Land(c)
  PROVE  PoseInv(d')
<1> DEFINE cap == d.caps[c]
           joins == Joins(d, cap)
           y == Commit(d, cap.run, Pictured(d, cap), joins)
           z == Finish(y, c, "changed")
<1>1. (\E outcome : d' = Finish(d, c, outcome)) \/ d' = Disturb(z, cap.run)
  BY DEF Land
<1>2. LiveCap(d, c)
  BY DEF Land, LiveCap
<1>3. joins \in BOOLEAN
  BY DEF Joins
<1> HIDE DEF joins
<1>4. PoseKept(d, y)
  BY <1>3, HistoryKeepsPose
<1> HIDE DEF y
<1>5. PoseInv(y) /\ c \in DOMAIN y.caps /\ LiveCap(y, c)
  BY <1>2, <1>4, PoseKeptKeeps DEF PoseInv, PoseKept, LiveCap
<1>6. PoseInv(z)
  BY <1>5, FinishPose
<1> HIDE DEF z
<1>7. PoseKept(z, Disturb(z, cap.run))
  <2>1. FALSE \in BOOLEAN
    OBVIOUS
  <2>2. QED
    BY <2>1, HistoryKeepsPose
<1>8. PoseInv(Disturb(z, cap.run))
  BY <1>6, <1>7, PoseKeptKeeps DEF PoseInv
<1>9. QED
  BY <1>1, <1>2, <1>8, FinishPose


LEMMA PoseInit == Init => PoseInv(d)
<1> SUFFICES ASSUME Init PROVE PoseInv(d)
  OBVIOUS
<1>1. /\ PoseFields \subseteq DOMAIN d /\ d.queue = NoQueue /\ d.edits = <<>> /\ d.caps = <<>>
      /\ d.marks = [s \in Steps |-> None]
  BY DEF Init, PoseFields
<1>2. QueueOK(d)
  BY <1>1, EmptyIsSeq, NoQueueIs DEF QueueOK
<1>3. MarksOK(d)
  BY <1>1, EmptyIsSeq DEF MarksOK
<1>4. EditsOK(d, 0)
  BY <1>1, EmptyIsSeq, NoQueueIs DEF EditsOK
<1>5. QED
  BY <1>2, <1>3, <1>4 DEF PoseInv, PoseBut

LEMMA PoseStep ==
  ASSUME CaptureInv, PoseInv(d), [Next]_vars
  PROVE  PoseInv(d)'
<1> DEFINE Ok == PoseInv(d')
<1> HIDE DEF Ok
<1>0. ASSUME PoseKept(d, d') PROVE Ok
  BY <1>0, PoseKeptKeeps DEF Ok, PoseInv
<1>1. ASSUME UNCHANGED d \/ Refresh \/ StopRefresh \/ GoToEdit \/ EditPattern PROVE Ok
  <2>1. PoseKept(d, d')
    <3>1. CASE UNCHANGED d
      BY <3>1 DEF PoseKept
    <3>2. CASE Refresh
      BY <3>2 DEF PoseKept, Refresh
    <3>3. CASE StopRefresh
      BY <3>3 DEF PoseKept, StopRefresh
    <3>4. CASE GoToEdit
      BY <3>4 DEF PoseKept, GoToEdit
    <3>5. CASE EditPattern
      BY <3>5 DEF PoseKept, EditPattern
    <3>6. QED
      BY <1>1, <3>1, <3>2, <3>3, <3>4, <3>5
  <2>2. QED
    BY <1>0, <2>1
<1>2. ASSUME NEW r \in DOMAIN d.refreshes, Indexed(r) \/ Confirmed(r) \/ Declined(r) PROVE Ok
  <2> DEFINE over == [d EXCEPT !.refreshes[r].pc = "over"]
             asks == [d EXCEPT !.refreshes[r].pc = "confirm", !.refreshes[r].todo = Stale(d)]
             all == GoOn(d, r, Stale(d))
             rest == GoOn(d, r, d.refreshes[r].todo)
  <2>1. PoseKept(d, over) /\ PoseKept(d, asks)
    BY DEF PoseKept
  <2>2. PoseKept(d, all) /\ PoseKept(d, rest)
    BY RunsKeepPose
  <2>3. Indexed(r) => d' \in {over, asks, all}
    BY DEF Indexed
  <2>4. Confirmed(r) => d' \in {over, rest}
    BY DEF Confirmed
  <2>5. Declined(r) => d' = over
    BY DEF Declined
  <2> HIDE DEF over, asks, all, rest
  <2>6. d' \in {over, asks, all, rest}
    BY <1>2, <2>3, <2>4, <2>5
  <2>7. QED
    BY <1>0, <2>1, <2>2, <2>6
<1>3. ASSUME NEW r \in DOMAIN d.refreshes, Turn(r) \/ WaitedForEdit(r) PROVE Ok
  <2> DEFINE waits == [d EXCEPT !.refreshes[r].pc = "edit"]
  <2>1. PoseKept(d, waits)
    BY DEF PoseKept
  <2>2. Turn(r) => d' \in {waits, TryStep(d, r)}
    BY DEF Turn
  <2>3. WaitedForEdit(r) => d' = TryStep(d, r)
    BY DEF WaitedForEdit
  <2> HIDE DEF waits
  <2>4. d' \in {waits, TryStep(d, r)}
    BY <1>3, <2>2, <2>3
  <2>5. Head(d.refreshes[r].todo) \in Steps
    <3>1. d.refreshes[r].todo \in Seq(Steps) /\ d.refreshes[r].todo # <<>>
      BY <1>3 DEF CaptureInv, Page, RunOK, Turn, WaitedForEdit
    <3>2. QED
      BY <3>1, HeadTailProperties
  <2>6. PoseInv(TryStep(d, r))
    BY <2>5, TryStepPose
  <2>7. QED
    BY <1>0, <2>1, <2>4, <2>6 DEF Ok
<1>4. ASSUME NEW s \in Steps, Verb(s) PROVE Ok
  <2>1. PoseInv(Begun(d, s, 0, 0))
    BY BegunPose DEF PoseInv
  <2>2. QED
    BY <1>4, <2>1 DEF Verb, Ok
<1>5. ASSUME NEW key \in Keys, OfferPose(key) PROVE Ok
  BY <1>5, OfferedPose DEF OfferPose, Ok
<1>6. ASSUME DrainPose PROVE Ok
  BY <1>6, DrainPoseKeeps DEF Ok
<1>7. ASSUME NEW c \in DOMAIN d.caps, Prepared(c) PROVE Ok
  BY <1>7, PreparedPose DEF Ok
<1>8. ASSUME NEW c \in DOMAIN d.caps, Folded(c) \/ FailCapture(c) PROVE Ok
  BY <1>8, FoldedPose DEF Ok
<1>9. ASSUME NEW c \in DOMAIN d.caps, Land(c) PROVE Ok
  BY <1>9, LandPose DEF Ok
<1>10. ASSUME NEW s \in Steps, EditSource(s) PROVE Ok
  <2> DEFINE st == [d.steps EXCEPT ![s] = [rev |-> @.rev + 1, src |-> d.sources + 1, drawn |-> None]]
             no == FALSE
             x == Commit(d, 0, st, no)
             y == [x EXCEPT !.sources = d.sources + 1]
  <2>1. d' = Disturb(y, 0)
    BY <1>10 DEF EditSource
  <2>2. no \in BOOLEAN
    OBVIOUS
  <2> HIDE DEF no, st
  <2>3. PoseKept(d, x)
    BY <2>2, HistoryKeepsPose
  <2> HIDE DEF x
  <2>4. PoseKept(x, y)
    BY DEF PoseKept
  <2> HIDE DEF y
  <2>5. PoseKept(y, Disturb(y, 0))
    BY <2>2, HistoryKeepsPose
  <2>6. QED
    BY <1>0, <2>1, <2>3, <2>4, <2>5 DEF PoseKept
<1>11. ASSUME Undo \/ Redo PROVE Ok
  <2> DEFINE x == SessionsEnded(d)
             no == FALSE
  <2>1. d' = Disturb(Undone(x), 0) \/ d' = Disturb(Redone(x), 0)
    BY <1>11 DEF Undo, Redo
  <2>2. PoseInv(x)
    BY EndedPose
  <2> HIDE DEF x
  <2>3. PoseInv(Undone(x)) /\ PoseInv(Redone(x))
    BY <2>2, TravelPose
  <2>4. no \in BOOLEAN
    OBVIOUS
  <2> HIDE DEF no
  <2>5. PoseInv(Disturb(Undone(x), 0)) /\ PoseInv(Disturb(Redone(x), 0))
    BY <2>3, <2>4, HistoryKeepsPose, PoseKeptKeeps DEF PoseInv
  <2>6. QED
    BY <2>1, <2>5 DEF Ok
<1>12. ASSUME Open PROVE Ok
  BY <1>12, OpenPose DEF Ok
<1>13. ASSUME LoseKernel PROVE Ok
  BY <1>13, LosePose DEF Ok
<1>14. ASSUME EditFold \/ StopAll \/ FoldGoesOn \/ UNCHANGED vars \/ (\E s \in Steps : StopCapture(s)) PROVE Ok
  <2>1. UNCHANGED d
    BY <1>14 DEF EditFold, StopAll, FoldGoesOn, StopCapture, vars
  <2>2. QED
    BY <1>1, <2>1
<1>15. Ok
  <2>1. CASE Next
    BY <1>1, <1>2, <1>3, <1>4, <1>5, <1>6, <1>7, <1>8, <1>9, <1>10, <1>11, <1>12, <1>13, <1>14, <2>1 DEF Next
  <2>2. CASE UNCHANGED vars
    BY <1>14, <2>2
  <2>3. QED
    BY <2>1, <2>2
<1>16. QED
  BY <1>15 DEF Ok

\* Every pose edit finishes, for any number of edits, fields and captures, over undo, stops,
\* failures, a lost engine and files opened meanwhile (stepPoseQueue.ts): one that has not
\* is queued or is being captured, and nothing holds a queue but a capture that goes on.
THEOREM EveryEditIsFinished == Spec => []EveryEditFinishes
<1>1. CaptureInv /\ PoseInv(d) /\ [Next]_vars => PoseInv(d)'
  BY PoseStep
<1>2. PoseInv(d) => EveryEditFinishes
  <2> SUFFICES ASSUME PoseInv(d) PROVE EveryEditFinishes
    OBVIOUS
  <2>1. QueueOK(d) /\ MarksOK(d) /\ EditsOK(d, 0) /\ Posed \in Steps
    BY CaptureAssumption DEF PoseInv, PoseBut
  <2>2. \A e \in DOMAIN d.edits : ~d.edits[e].done => e \in ToSet(d.queue.pending) \/ Writes(d, e)
    BY <2>1, SeqFacts DEF QueueOK, EditsOK
  <2>3. d.marks[Posed] # None => Draws(d, Posed)
    BY <2>1 DEF MarksOK
  <2>4. d.queue.busy # 0 => WritesPosed(d, d.queue.busy)
    BY <2>1 DEF EditsOK
  <2>5. QED
    BY <2>2, <2>3, <2>4 DEF EveryEditFinishes, Writes, WritesPosed, Draws, LiveCap
<1>3. QED
  BY <1>1, <1>2, PoseInit, CaptureInvHolds, PTL DEF Spec
=============================================================================
