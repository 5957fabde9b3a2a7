---------------------- MODULE LayerOrderRuntimeProofs ----------------------
(***************************************************************************)
(* Proofs about LayerOrderRuntime and the LatestWinsChannel through which  *)
(* its previews are asked.  The runtime: for any length of count, number of*)
(* calls, restarts and mishaps, the pump's flags tell what is under way,   *)
(* no wake-up is lost, and a published count is of the session's cursor.   *)
(* The channel: whatever requests and cancels arrive between the engine's  *)
(* answers, one request at most is in the engine, and callers see what     *)
(* LatestWins promises.                                                    *)
(***************************************************************************)
EXTENDS LayerOrderRuntime, LatestWinsChannel, FiniteSetTheorems, SequenceTheorems, TLAPS

----------------------------------------------------------------------------
(* Counting in a queue.                                                    *)

Places(s, T) == {i \in 1..Len(s) : s[i] \in T}

LEMMA CountIsNat ==
  ASSUME NEW S, NEW s \in Seq(S), NEW T
  PROVE  /\ IsFiniteSet(Places(s, T))
         /\ CountIn(s, T) = Cardinality(Places(s, T)) /\ CountIn(s, T) \in Nat
<1>1. IsFiniteSet(1..Len(s))
  BY FS_Interval, LenProperties
<1>2. IsFiniteSet(Places(s, T))
  BY <1>1, FS_Subset DEF Places
<1>3. QED
  BY <1>2, FS_CardinalityType DEF CountIn, Places

LEMMA CountInEmpty ==
  ASSUME NEW T
  PROVE  CountIn(<<>>, T) = 0
<1>1. Places(<<>>, T) = {}
  BY DEF Places
<1>2. QED
  BY <1>1, FS_EmptySet DEF CountIn, Places

LEMMA CountInAppend ==
  ASSUME NEW S, NEW s \in Seq(S), NEW x \in S, NEW T
  PROVE  CountIn(Append(s, x), T) = CountIn(s, T) + (IF x \in T THEN 1 ELSE 0)
<1> DEFINE n == Len(s) + 1
<1>1. /\ Append(s, x) \in Seq(S) /\ Len(Append(s, x)) = n /\ Len(s) \in Nat
      /\ Append(s, x)[n] = x
      /\ \A i \in 1..Len(s) : Append(s, x)[i] = s[i]
  BY LenProperties
<1>2. n \notin Places(s, T)
  BY <1>1 DEF Places
<1> DEFINE old == Places(s, T)
           new == Places(Append(s, x), T)
<1>c. /\ IsFiniteSet(old) /\ CountIn(s, T) = Cardinality(old) /\ CountIn(s, T) \in Nat
      /\ CountIn(Append(s, x), T) = Cardinality(new)
  BY <1>1, CountIsNat
<1>3. CASE x \in T
  <2>1. new = old \cup {n}
    BY <1>1, <1>3 DEF Places
  <2>2. Cardinality(old \cup {n}) = Cardinality(old) + 1
    BY <1>2, <1>c, FS_AddElement
  <2>3. QED
    BY <1>3, <1>c, <2>1, <2>2
<1>4. CASE x \notin T
  <2>1. new = old
    BY <1>1, <1>4 DEF Places
  <2>2. QED
    BY <1>4, <1>c, <2>1
<1>5. QED
  BY <1>3, <1>4

LEMMA CountInTail ==
  ASSUME NEW S, NEW s \in Seq(S), s # <<>>, NEW T
  PROVE  CountIn(s, T) = CountIn(Tail(s), T) + (IF Head(s) \in T THEN 1 ELSE 0)
<1> DEFINE Later == {i \in 2..Len(s) : s[i] \in T}
<1>1. /\ Tail(s) \in Seq(S) /\ Len(Tail(s)) = Len(s) - 1 /\ Len(s) \in Nat \ {0}
      /\ \A i \in 1..Len(Tail(s)) : Tail(s)[i] = s[i + 1]
      /\ Head(s) = s[1]
  BY HeadTailProperties, EmptySeq
<1>2. Cardinality(Later) = CountIn(Tail(s), T) /\ IsFiniteSet(Later)
  <2> DEFINE f == [i \in Places(Tail(s), T) |-> i + 1]
  <2>1. f \in [Places(Tail(s), T) -> Later]
    BY <1>1 DEF Places
  <2>2. \A i, j \in Places(Tail(s), T) : f[i] = f[j] => i = j
    BY DEF Places
  <2>3. ASSUME NEW j \in Later
        PROVE  \E i \in Places(Tail(s), T) : f[i] = j
    <3>1. j - 1 \in Places(Tail(s), T) /\ f[j - 1] = j
      BY <1>1 DEF Places
    <3>2. QED
      BY <3>1
  <2>4. f \in Bijection(Places(Tail(s), T), Later)
    BY <2>1, <2>2, <2>3 DEF Bijection, Injection, Surjection, IsInjective
  <2>5. ExistsBijection(Places(Tail(s), T), Later)
    BY <2>4 DEF ExistsBijection
  <2>6. /\ IsFiniteSet(Places(Tail(s), T))
        /\ CountIn(Tail(s), T) = Cardinality(Places(Tail(s), T))
    BY <1>1, CountIsNat
  <2> HIDE DEF Later
  <2>7. QED
    BY <2>5, <2>6, FS_Bijection
<1>3. 1 \notin Later
  OBVIOUS
<1>c. /\ CountIn(s, T) = Cardinality(Places(s, T))
      /\ CountIn(Tail(s), T) \in Nat
  BY <1>1, CountIsNat
<1> HIDE DEF Later
<1>4. CASE Head(s) \in T
  <2>1. Places(s, T) = Later \cup {1}
    BY <1>1, <1>4 DEF Places, Later
  <2>2. Cardinality(Later \cup {1}) = Cardinality(Later) + 1
    BY <1>2, <1>3, FS_AddElement
  <2>3. QED
    BY <1>2, <1>4, <1>c, <2>1, <2>2
<1>5. CASE Head(s) \notin T
  <2>1. Places(s, T) = Later
    BY <1>1, <1>5 DEF Places, Later
  <2>2. QED
    BY <1>2, <1>5, <1>c, <2>1
<1>6. QED
  BY <1>4, <1>5

----------------------------------------------------------------------------
(* What the queues hold, as calls are posted, served and heard.            *)

LEMMA KindsOfAnswers ==
  ASSUME NEW a \in Answers
  PROVE  /\ a.kind \in Kinds /\ a.result \in Results /\ a.count \in Counts
         /\ (a \in AnswersTo(Calls)) <=> (a.kind \in Calls)
         /\ (a \in AnswersTo({"slice"})) <=> (a.kind = "slice")
BY DEF Kinds, Calls, Answers, AnswersTo

LEMMA Posting ==
  ASSUME TypeOK, NEW k \in Kinds, inbox' = Append(inbox, k), outbox' = outbox
  PROVE  /\ inbox' \in Seq(Kinds)
         /\ Waiting' = Waiting + (IF k \in Calls THEN 1 ELSE 0)
         /\ Slices' = Slices + (IF k = "slice" THEN 1 ELSE 0)
         /\ Waiting \in Nat /\ Slices \in Nat
<1>1. inbox \in Seq(Kinds) /\ outbox \in Seq(Answers)
  BY DEF TypeOK
<1>2. /\ CountIn(inbox', Calls) = CountIn(inbox, Calls) + (IF k \in Calls THEN 1 ELSE 0)
      /\ CountIn(inbox', {"slice"}) = CountIn(inbox, {"slice"}) + (IF k \in {"slice"} THEN 1 ELSE 0)
  BY <1>1, CountInAppend
<1>3. /\ CountIn(inbox, Calls) \in Nat /\ CountIn(inbox, {"slice"}) \in Nat
      /\ CountIn(outbox, AnswersTo(Calls)) \in Nat /\ CountIn(outbox, AnswersTo({"slice"})) \in Nat
  BY <1>1, CountIsNat
<1>4. QED
  BY <1>1, <1>2, <1>3 DEF Waiting, Slices

LEMMA Hearing ==
  ASSUME TypeOK, outbox # <<>>, outbox' = Tail(outbox), inbox' = inbox
  PROVE  /\ outbox' \in Seq(Answers) /\ Head(outbox) \in Answers
         /\ Waiting = Waiting' + (IF Head(outbox).kind \in Calls THEN 1 ELSE 0)
         /\ Slices = Slices' + (IF Head(outbox).kind = "slice" THEN 1 ELSE 0)
         /\ Waiting' \in Nat /\ Slices' \in Nat
<1>1. inbox \in Seq(Kinds) /\ outbox \in Seq(Answers)
  BY DEF TypeOK
<1>2. outbox' \in Seq(Answers) /\ Head(outbox) \in Answers
  BY <1>1, HeadTailProperties
<1>3. /\ CountIn(outbox, AnswersTo(Calls)) = CountIn(outbox', AnswersTo(Calls))
                                             + (IF Head(outbox).kind \in Calls THEN 1 ELSE 0)
      /\ CountIn(outbox, AnswersTo({"slice"})) = CountIn(outbox', AnswersTo({"slice"}))
                                             + (IF Head(outbox).kind = "slice" THEN 1 ELSE 0)
  <2>1. \A T : CountIn(outbox, T) = CountIn(Tail(outbox), T) + (IF Head(outbox) \in T THEN 1 ELSE 0)
    BY <1>1, CountInTail
  <2>2. /\ (Head(outbox) \in AnswersTo(Calls)) <=> (Head(outbox).kind \in Calls)
        /\ (Head(outbox) \in AnswersTo({"slice"})) <=> (Head(outbox).kind = "slice")
    BY <1>2, KindsOfAnswers
  <2>3. QED
    BY <2>1, <2>2
<1>4. /\ CountIn(inbox, Calls) \in Nat /\ CountIn(inbox, {"slice"}) \in Nat
      /\ CountIn(outbox', AnswersTo(Calls)) \in Nat /\ CountIn(outbox', AnswersTo({"slice"})) \in Nat
  <2>1. \A T : CountIn(inbox, T) \in Nat
    BY <1>1, CountIsNat
  <2>2. \A T : CountIn(outbox', T) \in Nat
    BY <1>2, CountIsNat
  <2>3. QED
    BY <2>1, <2>2
<1>5. /\ Waiting = Waiting' + (IF Head(outbox).kind \in Calls THEN 1 ELSE 0)
      /\ Waiting' \in Nat
  BY <1>3, <1>4 DEF Waiting
<1>6. /\ Slices = Slices' + (IF Head(outbox).kind = "slice" THEN 1 ELSE 0)
      /\ Slices' \in Nat
  BY <1>3, <1>4 DEF Slices
<1>7. QED
  BY <1>2, <1>5, <1>6

LEMMA Serving ==
  ASSUME TypeOK, NEW k \in Kinds, NEW r \in Results, NEW of \in Counts, Serve(k, r, of)
  PROVE  /\ inbox' \in Seq(Kinds) /\ outbox' \in Seq(Answers)
         /\ Waiting' = Waiting /\ Slices' = Slices
<1> DEFINE answer == [kind |-> k, result |-> r, count |-> of]
<1>1. inbox \in Seq(Kinds) /\ outbox \in Seq(Answers) /\ answer \in Answers
  BY DEF TypeOK, Answers, AnswersTo
<1>2. inbox # <<>> /\ Head(inbox) = k /\ inbox' = Tail(inbox) /\ outbox' = Append(outbox, answer)
  BY DEF Serve
<1>3. inbox' \in Seq(Kinds) /\ outbox' \in Seq(Answers)
  BY <1>1, <1>2, HeadTailProperties
<1>4. answer.kind = k
  OBVIOUS
<1> HIDE DEF answer
<1>5. /\ CountIn(inbox, Calls) = CountIn(inbox', Calls) + (IF k \in Calls THEN 1 ELSE 0)
      /\ CountIn(inbox, {"slice"}) = CountIn(inbox', {"slice"}) + (IF k \in {"slice"} THEN 1 ELSE 0)
  BY <1>1, <1>2, CountInTail
<1>6. /\ CountIn(outbox', AnswersTo(Calls)) = CountIn(outbox, AnswersTo(Calls))
                                             + (IF k \in Calls THEN 1 ELSE 0)
      /\ CountIn(outbox', AnswersTo({"slice"})) = CountIn(outbox, AnswersTo({"slice"}))
                                             + (IF k = "slice" THEN 1 ELSE 0)
  <2>1. \A T : CountIn(outbox', T) = CountIn(outbox, T) + (IF answer \in T THEN 1 ELSE 0)
    BY <1>1, <1>2, CountInAppend
  <2>2. /\ (answer \in AnswersTo(Calls)) <=> (k \in Calls)
        /\ (answer \in AnswersTo({"slice"})) <=> (k = "slice")
    BY <1>1, <1>4, KindsOfAnswers
  <2>3. QED
    BY <2>1, <2>2
<1>7. /\ CountIn(inbox', Calls) \in Nat /\ CountIn(inbox', {"slice"}) \in Nat
      /\ CountIn(outbox, AnswersTo(Calls)) \in Nat /\ CountIn(outbox, AnswersTo({"slice"})) \in Nat
  <2>1. \A T : CountIn(inbox', T) \in Nat
    BY <1>3, CountIsNat
  <2>2. \A T : CountIn(outbox, T) \in Nat
    BY <1>1, CountIsNat
  <2>3. QED
    BY <2>1, <2>2
<1>8. Waiting' = Waiting
  BY <1>5, <1>6, <1>7 DEF Waiting
<1>9. Slices' = Slices
  BY <1>5, <1>6, <1>7 DEF Slices
<1>10. QED
  BY <1>3, <1>8, <1>9

LEMMA Emptying ==
  ASSUME inbox' = <<>>, outbox' = <<>>
  PROVE  /\ inbox' \in Seq(Kinds) /\ outbox' \in Seq(Answers)
         /\ Waiting' = 0 /\ Slices' = 0
<1>1. CountIn(inbox', Calls) + CountIn(outbox', AnswersTo(Calls)) = 0
  BY CountInEmpty
<1>2. CountIn(inbox', {"slice"}) + CountIn(outbox', AnswersTo({"slice"})) = 0
  BY CountInEmpty
<1>3. QED
  BY <1>1, <1>2 DEF Waiting, Slices

----------------------------------------------------------------------------
(* The pump's flags.                                                       *)

PumpInv == TypeOK /\ PumpKnowsItsQueue /\ PumpIsArmed

LEMMA PumpInvInit == Init => PumpInv
<1> SUFFICES ASSUME Init PROVE PumpInv
  OBVIOUS
<1>1. TypeOK
  <2>1. NoCount \in Counts
    BY BoundsAssumption DEF NoCount, Counts
  <2>2. <<>> \in Seq(Kinds) /\ <<>> \in Seq(Answers)
    BY EmptySeq
  <2>3. 0 \in 0..MaxRestarts /\ 0 \in 0..MaxMishaps
    BY BoundsAssumption
  <2>4. QED
    BY <2>1, <2>2, <2>3 DEF Init, TypeOK
<1>2. PumpKnowsItsQueue
  BY CountInEmpty DEF Init, PumpKnowsItsQueue, Waiting, Slices
<1>3. PumpIsArmed
  BY DEF Init, PumpIsArmed, SliceDue
<1>4. QED
  BY <1>1, <1>2, <1>3 DEF PumpInv

LEMMA PumpKeepsPumpInv == ASSUME PumpInv, Pump PROVE PumpInv'
<1>1. CASE SliceDue
  <2>1. /\ inbox' \in Seq(Kinds) /\ Waiting' = Waiting /\ Slices' = Slices + 1 /\ Slices = 0
    <3>1. inbox' = Append(inbox, "slice") /\ outbox' = outbox /\ ~slicing
      BY <1>1 DEF Pump, SliceDue
    <3>2. "slice" \in Kinds /\ "slice" \notin Calls
      BY DEF Kinds, Calls
    <3>3. QED
      BY <3>1, <3>2, Posting DEF PumpInv, PumpKnowsItsQueue
  <2>2. TypeOK'
    <3>1. /\ timer' = FALSE /\ owed' = FALSE /\ slicing' = TRUE
          /\ UNCHANGED <<live, closed, counting, more, broken, counted, epochSeen, asking,
                         session, cursor, epoch, outbox, restarts, mishaps>>
      BY <1>1 DEF Pump, count, worker, bounds
    <3>2. QED
      BY <2>1, <3>1 DEF PumpInv, TypeOK
  <2>3. PumpKnowsItsQueue'
    BY <1>1, <2>1 DEF Pump, PumpInv, PumpKnowsItsQueue
  <2>4. PumpIsArmed'
    BY <1>1 DEF Pump, PumpIsArmed, SliceDue
  <2>5. QED
    BY <2>2, <2>3, <2>4 DEF PumpInv
<1>2. CASE ~SliceDue
  <2>1. TypeOK'
    BY <1>2 DEF Pump, PumpInv, TypeOK, count, worker, bounds
  <2>2. PumpKnowsItsQueue'
    BY <1>2 DEF Pump, PumpInv, PumpKnowsItsQueue, Waiting, Slices
  <2>3. PumpIsArmed'
    BY <1>2 DEF Pump, PumpIsArmed, SliceDue
  <2>4. QED
    BY <2>1, <2>2, <2>3 DEF PumpInv
<1>3. QED
  BY <1>1, <1>2

\* Whatever takes the worker away settles every call on it.
LEMMA DropSettlesAll ==
  ASSUME PumpInv, Drop, closed' \in BOOLEAN, counting' \in BOOLEAN, timer' \in BOOLEAN,
         restarts' \in 0..MaxRestarts, mishaps' \in 0..MaxMishaps
  PROVE  PumpInv'
<1>1. /\ inbox' \in Seq(Kinds) /\ outbox' \in Seq(Answers) /\ Waiting' = 0 /\ Slices' = 0
  BY Emptying DEF Drop
<1>2. asking' = 0
  BY DEF Drop, PumpInv, PumpKnowsItsQueue, TypeOK
<1>3. NoCount \in Counts
  BY BoundsAssumption DEF NoCount, Counts
<1>4. TypeOK'
  <2>1. /\ live' = FALSE /\ slicing' = FALSE /\ owed' = FALSE /\ more' = FALSE /\ broken' = FALSE
        /\ counted' = NoCount /\ epochSeen' = 0
        /\ session' = FALSE /\ cursor' = NoCount /\ epoch' = 0
    BY DEF Drop
  <2>2. QED
    BY <1>1, <1>2, <1>3, <2>1 DEF TypeOK
<1>5. PumpKnowsItsQueue'
  BY <1>1, <1>2 DEF Drop, PumpKnowsItsQueue
<1>6. PumpIsArmed'
  BY DEF Drop, PumpIsArmed, SliceDue
<1>7. QED
  BY <1>4, <1>5, <1>6 DEF PumpInv

LEMMA LossKeepsPumpInv == ASSUME PumpInv, EngineLost \/ HearTrap PROVE PumpInv'
<1>1. /\ Drop /\ closed' = closed /\ counting' = counting /\ timer' = timer
      /\ restarts' = restarts /\ (mishaps' = mishaps \/ (mishaps < MaxMishaps /\ mishaps' = mishaps + 1))
  BY DEF EngineLost, HearTrap, bounds
<1>2. /\ closed' \in BOOLEAN /\ counting' \in BOOLEAN /\ timer' \in BOOLEAN
      /\ restarts' \in 0..MaxRestarts /\ mishaps \in 0..MaxMishaps
  BY <1>1 DEF PumpInv, TypeOK
<1>3. mishaps' \in 0..MaxMishaps
  BY <1>1, <1>2, BoundsAssumption
<1>4. QED
  BY <1>1, <1>2, <1>3, DropSettlesAll

LEMMA DisposeKeepsPumpInv == ASSUME PumpInv, Dispose PROVE PumpInv'
<1>1. CASE live
  <2>1. Drop /\ closed' = TRUE /\ timer' = FALSE /\ counting' = counting /\ UNCHANGED bounds
    BY <1>1 DEF Dispose
  <2>2. QED
    BY <2>1, DropSettlesAll DEF PumpInv, TypeOK, bounds
<1>2. CASE ~live
  <2>1. TypeOK'
    BY <1>2 DEF Dispose, PumpInv, TypeOK, queues, count, worker, bounds
  <2>2. PumpKnowsItsQueue'
    BY <1>2 DEF Dispose, PumpInv, PumpKnowsItsQueue, Waiting, Slices, queues
  <2>3. PumpIsArmed'
    BY DEF Dispose, PumpIsArmed, SliceDue
  <2>4. QED
    BY <2>1, <2>2, <2>3 DEF PumpInv
<1>3. QED
  BY <1>1, <1>2

LEMMA PostKeepsPumpInv ==
  ASSUME PumpInv, NEW k \in Calls, Post(k), outbox' = outbox, slicing' = slicing,
         closed' \in BOOLEAN, counting' \in BOOLEAN, owed' \in BOOLEAN, more' \in BOOLEAN,
         broken' \in BOOLEAN, timer' \in BOOLEAN, counted' \in Counts, epochSeen' \in Nat,
         UNCHANGED <<worker, mishaps>>
  PROVE  PumpInv'
<1>1. k \in Kinds /\ k # "slice"
  BY DEF Kinds, Calls
<1>2. inbox' \in Seq(Kinds) /\ Waiting' = Waiting + 1 /\ Slices' = Slices
  BY <1>1, Posting DEF Post, PumpInv
<1>3. asking \in Nat /\ asking' = asking + 1 /\ live' = TRUE
  BY DEF Post, PumpInv, TypeOK
<1>4. restarts' \in 0..MaxRestarts
  BY BoundsAssumption DEF Post, PumpInv, TypeOK
<1>5. TypeOK'
  BY <1>2, <1>3, <1>4 DEF PumpInv, TypeOK, worker
<1>6. PumpKnowsItsQueue'
  BY <1>2, <1>3 DEF PumpInv, PumpKnowsItsQueue
<1>7. PumpIsArmed'
  BY <1>3 DEF PumpIsArmed
<1>8. QED
  BY <1>5, <1>6, <1>7 DEF PumpInv

LEMMA AskKeepsPumpInv ==
  ASSUME PumpInv, NEW k \in Calls, Ask(k)
  PROVE  PumpInv'
<1>1. /\ Post(k) /\ outbox' = outbox /\ UNCHANGED <<closed, pump, count, worker, mishaps>>
  BY DEF Ask
<1>2. QED
  BY <1>1, PostKeepsPumpInv DEF PumpInv, TypeOK, pump, count

LEMMA TurnOffTypes ==
  ASSUME TypeOK, TurnOff
  PROVE  /\ counting' = FALSE /\ owed' \in BOOLEAN /\ more' \in BOOLEAN
         /\ timer' \in BOOLEAN /\ counted' \in Counts /\ epochSeen' \in Nat
         /\ slicing' = slicing /\ broken' = broken
<1>1. NoCount \in Counts
  BY BoundsAssumption DEF NoCount, Counts
<1>2. CASE counting
  BY <1>1, <1>2 DEF TurnOff, TypeOK, PublishNull
<1>3. CASE ~counting
  BY <1>3 DEF TurnOff, TypeOK, count
<1>4. QED
  BY <1>2, <1>3

LEMMA OpenKeepsPumpInv == ASSUME PumpInv, Open PROVE PumpInv'
<1>1. Post("open") /\ TurnOff /\ UNCHANGED <<closed, worker, outbox, mishaps>>
  BY DEF Open
<1>2. "open" \in Calls
  BY DEF Calls
<1>3. closed \in BOOLEAN /\ broken \in BOOLEAN /\ TypeOK
  BY DEF PumpInv, TypeOK
<1>4. /\ counting' = FALSE /\ owed' \in BOOLEAN /\ more' \in BOOLEAN
      /\ timer' \in BOOLEAN /\ counted' \in Counts /\ epochSeen' \in Nat
      /\ slicing' = slicing /\ broken' = broken
  BY <1>1, <1>3, TurnOffTypes
<1>5. QED
  BY <1>1, <1>2, <1>3, <1>4, PostKeepsPumpInv

LEMMA StopKeepsPumpInv == ASSUME PumpInv, StopCounting PROVE PumpInv'
<1>1. /\ counting' = FALSE /\ owed' \in BOOLEAN /\ more' \in BOOLEAN
      /\ timer' \in BOOLEAN /\ counted' \in Counts /\ epochSeen' \in Nat
      /\ slicing' = slicing /\ broken' = broken
  BY TurnOffTypes DEF StopCounting, PumpInv
<1>2. TypeOK'
  BY <1>1 DEF StopCounting, PumpInv, TypeOK, worker, queues, bounds
<1>3. PumpKnowsItsQueue'
  BY <1>1 DEF StopCounting, PumpInv, PumpKnowsItsQueue, Waiting, Slices, queues
<1>4. PumpIsArmed'
  BY <1>1 DEF PumpIsArmed, SliceDue
<1>5. QED
  BY <1>2, <1>3, <1>4 DEF PumpInv

LEMMA ScheduleArms ==
  ASSUME Schedule, timer \in BOOLEAN, SliceDue' \in BOOLEAN
  PROVE  timer' \in BOOLEAN /\ PumpIsArmed'
BY DEF Schedule, PumpIsArmed

LEMMA StartKeepsPumpInv == ASSUME PumpInv, StartCounting PROVE PumpInv'
<1>1. SliceDue' \in BOOLEAN
  BY DEF SliceDue
<1>2. timer' \in BOOLEAN /\ PumpIsArmed'
  BY <1>1, ScheduleArms DEF StartCounting, PumpInv, TypeOK
<1>3. TypeOK'
  BY <1>2 DEF StartCounting, PumpInv, TypeOK, count, worker, queues, bounds
<1>4. PumpKnowsItsQueue'
  BY DEF StartCounting, PumpInv, PumpKnowsItsQueue, Waiting, Slices, queues
<1>5. QED
  BY <1>2, <1>3, <1>4 DEF PumpInv

\* What the worker does to its session and cursor, and nothing else.
LEMMA ServeKeepsPumpInv ==
  ASSUME PumpInv, NEW k \in Kinds, NEW r \in Results, NEW of \in Counts, Serve(k, r, of),
         session' \in BOOLEAN, cursor' \in Counts, epoch' \in Nat, mishaps' \in 0..MaxMishaps
  PROVE  PumpInv'
<1>1. /\ inbox' \in Seq(Kinds) /\ outbox' \in Seq(Answers)
      /\ Waiting' = Waiting /\ Slices' = Slices
  BY Serving DEF PumpInv
<1>2. UNCHANGED <<live, closed, counting, slicing, owed, more, broken, timer,
                  counted, epochSeen, asking, restarts>>
  BY DEF Serve, pump, count
<1>3. TypeOK'
  BY <1>1, <1>2 DEF PumpInv, TypeOK
<1>4. PumpKnowsItsQueue'
  BY <1>1, <1>2 DEF PumpInv, PumpKnowsItsQueue
<1>5. PumpIsArmed'
  BY <1>2 DEF PumpInv, PumpIsArmed, SliceDue
<1>6. QED
  BY <1>3, <1>4, <1>5 DEF PumpInv

LEMMA CursorTypes ==
  ASSUME TypeOK, NEW n \in {0, 1}
  PROVE  /\ NoCount \in Counts /\ NextCursor \in Counts /\ Counting(n) \in Counts
         /\ NextCursor.epoch \in Nat /\ Counting(n).epoch = NextCursor.epoch
         /\ Counting(n).left <= NextCursor.left
<1>1. NoCount \in Counts
  BY BoundsAssumption DEF NoCount, Counts
<1>2. NextCursor \in Counts
  BY BoundsAssumption DEF NextCursor, Counts, TypeOK
<1>3. /\ NextCursor.epoch \in Nat /\ NextCursor.left \in 0..CountLength
  BY <1>2 DEF Counts
<1>4. /\ Counting(n).epoch = NextCursor.epoch
      /\ Counting(n).left = IF NextCursor.left > n THEN NextCursor.left - n ELSE 0
  BY <1>2 DEF Counting, Counts
<1>5. Counting(n).left \in 0..CountLength /\ Counting(n).left <= NextCursor.left
  BY <1>3, <1>4, BoundsAssumption
<1>6. Counting(n) \in Counts
  BY <1>2, <1>3, <1>5 DEF Counting, Counts
<1>7. QED
  BY <1>1, <1>2, <1>3, <1>4, <1>5, <1>6

LEMMA StartCursorTypes ==
  ASSUME TypeOK, NEW n \in {0, 1}, StartCursor(n)
  PROVE  cursor' \in Counts /\ epoch' \in Nat
BY CursorTypes DEF StartCursor

LEMMA WorkKeepsPumpInv == ASSUME PumpInv, Work PROVE PumpInv'
<1>1. /\ TypeOK /\ session \in BOOLEAN /\ cursor \in Counts /\ epoch \in Nat
      /\ mishaps \in 0..MaxMishaps /\ NoCount \in Counts
  BY CursorTypes DEF PumpInv, TypeOK
<1>2. /\ Kinds = {"open", "change", "step", "question", "slice"}
      /\ {"answered", "restarted", "nothing", "failed", "trapped"} \subseteq Results
  BY DEF Kinds, Calls, Results
<1>3. CASE ServeOpen
  BY <1>1, <1>2, <1>3, ServeKeepsPumpInv DEF ServeOpen
<1>4. CASE ServeChange
  <2>1. CASE session /\ cursor' \in {cursor, NoCount} /\ Serve("change", "restarted", NoCount)
             /\ UNCHANGED <<session, epoch, mishaps>>
    BY <1>1, <1>2, <2>1, ServeKeepsPumpInv
  <2>2. ASSUME NEW r \in {"answered", "failed"}, Serve("change", r, NoCount), UNCHANGED <<worker, mishaps>>
        PROVE  PumpInv'
    BY <1>1, <1>2, <2>2, ServeKeepsPumpInv DEF worker
  <2>3. QED
    BY <1>4, <2>1, <2>2 DEF ServeChange
<1>5. CASE ServeStep
  <2>1. ASSUME NEW n \in {0, 1}, StartCursor(n), Serve("step", "answered", NoCount),
               UNCHANGED <<session, mishaps>>
        PROVE  PumpInv'
    BY <1>1, <1>2, <2>1, StartCursorTypes, ServeKeepsPumpInv
  <2>2. CASE Serve("step", "failed", NoCount) /\ UNCHANGED <<worker, mishaps>>
    BY <1>1, <1>2, <2>2, ServeKeepsPumpInv DEF worker
  <2>3. QED
    BY <1>5, <2>1, <2>2 DEF ServeStep
<1>6. CASE ServeQuestion
  <2>1. ASSUME NEW r \in {"answered", "failed"}, Serve("question", r, NoCount), UNCHANGED <<worker, mishaps>>
        PROVE  PumpInv'
    BY <1>1, <1>2, <2>1, ServeKeepsPumpInv DEF worker
  <2>2. QED
    BY <1>6, <2>1 DEF ServeQuestion
<1>7. CASE ServeSlice
  <2>1. CASE StartCursor(1) /\ Serve("slice", "answered", Counting(1)) /\ UNCHANGED <<session, mishaps>>
    <3>1. Counting(1) \in Counts /\ cursor' \in Counts /\ epoch' \in Nat
      BY <1>1, <2>1, CursorTypes, StartCursorTypes
    <3>2. QED
      BY <1>1, <1>2, <2>1, <3>1, ServeKeepsPumpInv
  <2>2. CASE Serve("slice", "nothing", NoCount) /\ UNCHANGED <<worker, mishaps>>
    BY <1>1, <1>2, <2>2, ServeKeepsPumpInv DEF worker
  <2>3. QED
    BY <1>7, <2>1, <2>2 DEF ServeSlice
<1>8. CASE ServeBadly
  <2>1. PICK k \in Kinds, r \in {"failed", "trapped"} : Serve(k, r, NoCount)
    BY <1>8 DEF ServeBadly
  <2>2. mishaps' \in 0..MaxMishaps
    BY <1>1, <1>8, BoundsAssumption DEF ServeBadly
  <2>3. session' \in BOOLEAN /\ cursor' \in Counts /\ epoch' \in Nat
    <3>1. Counting(0) \in Counts /\ NextCursor.epoch \in Nat
      BY <1>1, CursorTypes
    <3>2. QED
      BY <1>1, <1>8, <3>1 DEF ServeBadly, worker
  <2>4. QED
    BY <1>2, <2>1, <2>2, <2>3, ServeKeepsPumpInv, CursorTypes, <1>1
<1>9. QED
  BY <1>3, <1>4, <1>5, <1>6, <1>7, <1>8 DEF Work

LEMMA HearCallKeepsPumpInv == ASSUME PumpInv, HearCall PROVE PumpInv'
<1>1. /\ outbox # <<>> /\ Head(outbox).kind \in Calls /\ outbox' = Tail(outbox) /\ inbox' = inbox
      /\ asking' = asking - 1
      /\ UNCHANGED <<live, closed, counting, slicing, more, session, cursor, epoch, restarts, mishaps>>
      /\ Schedule
  BY DEF HearCall, Heard, worker, bounds
<1>2. TypeOK /\ PumpKnowsItsQueue
  BY DEF PumpInv
<1>3. "slice" \notin Calls
  BY DEF Calls
<1>4. /\ outbox' \in Seq(Answers) /\ Waiting = Waiting' + 1 /\ Slices = Slices'
      /\ Waiting' \in Nat /\ Slices' \in Nat
  BY <1>1, <1>2, <1>3, Hearing
<1>5. PumpKnowsItsQueue'
  <2>1. asking = Waiting /\ asking' = asking - 1
    BY <1>1, <1>2 DEF PumpKnowsItsQueue
  <2>2. asking' = Waiting'
    <3>1. Waiting = Waiting' + 1 /\ Waiting' \in Nat
      BY <1>4
    <3>2. QED
      BY <2>1, <3>1 DEF Waiting
  <2>3. slicing' = slicing /\ Slices = IF slicing THEN 1 ELSE 0
    BY <1>1, <1>2 DEF PumpKnowsItsQueue
  <2>4. Slices' = IF slicing' THEN 1 ELSE 0
    BY <1>4, <2>3
  <2>5. QED
    BY <2>2, <2>4 DEF PumpKnowsItsQueue
<1>6. asking' \in Nat
  BY <1>4, <1>5 DEF PumpKnowsItsQueue
<1>7. owed' \in BOOLEAN
  BY <1>2 DEF HearCall, TypeOK
<1>8. broken' \in BOOLEAN /\ counted' \in Counts /\ epochSeen' \in Nat
  BY <1>2, CursorTypes DEF HearCall, Restart, PublishNull, TypeOK, count
<1>9. timer' \in BOOLEAN /\ PumpIsArmed'
  <2>1. SliceDue' \in BOOLEAN
    BY DEF SliceDue
  <2>2. QED
    BY <1>1, <1>2, <2>1, ScheduleArms DEF TypeOK
<1>10. TypeOK'
  <2>1. inbox' \in Seq(Kinds)
    BY <1>1, <1>2 DEF TypeOK
  <2>2. UNCHANGED <<live, closed, counting, slicing, more, session, cursor, epoch, restarts, mishaps>>
    BY <1>1
  <2>3. QED
    BY <1>2, <1>4, <1>6, <1>7, <1>8, <1>9, <2>1, <2>2 DEF TypeOK
<1>11. QED
  BY <1>5, <1>9, <1>10 DEF PumpInv

LEMMA HearSliceKeepsPumpInv == ASSUME PumpInv, HearSlice PROVE PumpInv'
<1>1. /\ outbox # <<>> /\ Head(outbox).kind = "slice" /\ outbox' = Tail(outbox) /\ inbox' = inbox
      /\ slicing' = FALSE
      /\ UNCHANGED <<live, closed, counting, owed, asking, session, cursor, epoch, restarts, mishaps>>
      /\ Schedule
  BY DEF HearSlice, Heard, worker, bounds
<1>2. TypeOK /\ PumpKnowsItsQueue
  BY DEF PumpInv
<1>3. "slice" \notin Calls
  BY DEF Calls
<1>4. /\ outbox' \in Seq(Answers) /\ Head(outbox) \in Answers
      /\ Waiting = Waiting' /\ Slices = Slices' + 1
      /\ Waiting' \in Nat /\ Slices' \in Nat
  BY <1>1, <1>2, <1>3, Hearing
<1>5. PumpKnowsItsQueue'
  <2>1. asking' = asking /\ asking = Waiting
    BY <1>1, <1>2 DEF PumpKnowsItsQueue
  <2>2. asking' = Waiting'
    BY <1>4, <2>1
  <2>3. Slices <= 1
    BY <1>2 DEF PumpKnowsItsQueue
  <2>4. Slices' = 0
    <3>1. Slices = Slices' + 1 /\ Slices' \in Nat
      BY <1>4
    <3>2. QED
      BY <2>3, <3>1 DEF Slices
  <2>5. QED
    BY <1>1, <2>2, <2>4 DEF PumpKnowsItsQueue
<1>6. more' \in BOOLEAN /\ broken' \in BOOLEAN /\ counted' \in Counts /\ epochSeen' \in Nat
  <2>1. Head(outbox).count \in Counts
    BY <1>4, KindsOfAnswers
  <2>2. Head(outbox).count.epoch \in Nat
    BY <2>1 DEF Counts
  <2>3. CASE UNCHANGED <<more, broken, count>>
    BY <1>2, <2>3 DEF TypeOK, count
  <2>4. CASE Publish(Head(outbox).count) /\ more' = (Head(outbox).count.left > 0) /\ UNCHANGED broken
    BY <1>2, <2>1, <2>2, <2>4 DEF TypeOK, Publish, count
  <2>5. CASE PublishNull /\ more' = FALSE /\ broken' = (broken \/ Head(outbox).result = "failed")
    BY <1>2, <2>5, CursorTypes DEF TypeOK, PublishNull
  <2>6. QED
    BY <2>3, <2>4, <2>5 DEF HearSlice
<1>7. timer' \in BOOLEAN /\ PumpIsArmed'
  <2>1. SliceDue' \in BOOLEAN
    BY DEF SliceDue
  <2>2. QED
    BY <1>1, <1>2, <2>1, ScheduleArms DEF TypeOK
<1>8. TypeOK'
  <2>1. inbox' \in Seq(Kinds)
    BY <1>1, <1>2 DEF TypeOK
  <2>2. /\ slicing' = FALSE
        /\ UNCHANGED <<live, closed, counting, owed, asking, session, cursor, epoch, restarts, mishaps>>
    BY <1>1
  <2>3. QED
    BY <1>2, <1>4, <1>6, <1>7, <2>1, <2>2 DEF TypeOK
<1>9. QED
  BY <1>5, <1>7, <1>8 DEF PumpInv

LEMMA StutterKeepsPumpInv == ASSUME PumpInv, UNCHANGED vars PROVE PumpInv'
<1>1. TypeOK'
  BY DEF PumpInv, TypeOK, vars, pump, count, worker, queues, bounds
<1>2. PumpKnowsItsQueue'
  BY DEF PumpInv, PumpKnowsItsQueue, Waiting, Slices, vars, pump, queues
<1>3. PumpIsArmed'
  BY DEF PumpInv, PumpIsArmed, SliceDue, vars, pump
<1>4. QED
  BY <1>1, <1>2, <1>3 DEF PumpInv

THEOREM PumpInvAlways == Spec => []PumpInv
<1>1. ASSUME PumpInv, [Next]_vars PROVE PumpInv'
  <2>1. ASSUME NEW k \in Calls, Ask(k) PROVE PumpInv'
    BY <1>1, <2>1, AskKeepsPumpInv
  <2>2. QED
    BY <1>1, <2>1, OpenKeepsPumpInv, StartKeepsPumpInv, StopKeepsPumpInv, DisposeKeepsPumpInv,
       LossKeepsPumpInv, PumpKeepsPumpInv, WorkKeepsPumpInv, HearCallKeepsPumpInv,
       HearSliceKeepsPumpInv, StutterKeepsPumpInv DEF Next, Hear
<1>2. QED
  BY <1>1, PumpInvInit, PTL DEF Spec

\* The state variables keep to their types.
THEOREM TypeCorrect == Spec => []TypeOK
BY PumpInvAlways, PTL DEF PumpInv

\* `asking` and `slicing` say what is under way, whatever was lost meanwhile
\* (send and drop), and there is one slice at most.
THEOREM FlagsTellTheQueue == Spec => []PumpKnowsItsQueue
BY PumpInvAlways, PTL DEF PumpInv

\* A slice that is due is asked: by the timer, or once a call is answered
\* (schedule).
THEOREM NoLostWakeUp == Spec => []PumpIsArmed
BY PumpInvAlways, PTL DEF PumpInv

----------------------------------------------------------------------------
(* The published count.                                                    *)

\* The dialog has turned the count off before an open is asked.
OpensAreQuiet == Opening => ~counting

\* A slice waiting to be heard is of the cursor, or behind it waits what makes
\* it old news.
Outdated(i) == \E j \in 1..Len(outbox) :
                 j > i /\ (outbox[j].result = "restarted" \/ outbox[j].kind = "open")
SlicesAreFresh ==
  \A i \in 1..Len(outbox) :
    outbox[i].kind = "slice" /\ outbox[i].result = "answered" =>
      /\ outbox[i].count.epoch > 0
      /\ OfItsCursor(outbox[i].count) \/ Poisoned \/ Outdated(i)

\* A cursor's epoch is not NoCount's.
CountStarted == counted # NoCount => counted.epoch > 0
CursorStarted == cursor # NoCount => cursor.epoch > 0

CountInv ==
  /\ OffIsQuiet /\ OpensAreQuiet /\ SlicesAreFresh /\ CountStarted /\ CursorStarted
  /\ CountIsOfItsCursor

LEMMA CountInvInit == Init => CountInv
<1> SUFFICES ASSUME Init PROVE CountInv
  OBVIOUS
<1>1. OffIsQuiet /\ OpensAreQuiet /\ CountStarted /\ CursorStarted /\ CountIsOfItsCursor
  BY DEF Init, OffIsQuiet, OpensAreQuiet, CountStarted, CursorStarted, CountIsOfItsCursor
<1>2. 1..Len(outbox) = {}
  BY DEF Init
<1>3. SlicesAreFresh
  BY <1>2 DEF SlicesAreFresh
<1>4. QED
  BY <1>1, <1>3 DEF CountInv

\* Steps that leave the worker and its answers alone, and the count too unless
\* they clear it.
LEMMA CountInvKept ==
  ASSUME CountInv, UNCHANGED <<worker, outbox>>, counted' = counted \/ counted' = NoCount,
         OffIsQuiet', OpensAreQuiet'
  PROVE  CountInv'
<1>1. SlicesAreFresh'
  BY DEF CountInv, SlicesAreFresh, OfItsCursor, Poisoned, Outdated, worker
<1>2. CountStarted' /\ CursorStarted'
  BY DEF CountInv, CountStarted, CursorStarted, NoCount, worker
<1>3. CountIsOfItsCursor'
  BY DEF CountInv, CountIsOfItsCursor, OfItsCursor, Poisoned, worker, NoCount
<1>4. QED
  BY <1>1, <1>2, <1>3 DEF CountInv

\* Posting anything but an open leaves as many opens under way.
LEMMA PostingNoOpen ==
  ASSUME TypeOK, NEW k \in Kinds, k # "open", inbox' = Append(inbox, k), outbox' = outbox, Opening'
  PROVE  Opening
<1>1. /\ inbox \in Seq(Kinds) /\ Len(inbox') = Len(inbox) + 1 /\ Len(inbox) \in Nat
      /\ inbox'[Len(inbox) + 1] = k
      /\ \A i \in 1..Len(inbox) : inbox'[i] = inbox[i]
  BY LenProperties DEF TypeOK
<1>2. CASE \E i \in 1..Len(inbox') : inbox'[i] = "open"
  <2>1. PICK i \in 1..Len(inbox') : inbox'[i] = "open"
    BY <1>2
  <2>2. i \in 1..Len(inbox)
    BY <1>1, <2>1
  <2>3. QED
    BY <1>1, <2>1, <2>2 DEF Opening
<1>3. CASE \E i \in 1..Len(outbox') : outbox'[i].kind = "open"
  BY <1>3 DEF Opening
<1>4. QED
  BY <1>2, <1>3 DEF Opening

LEMMA PumpKeepsCountInv == ASSUME TypeOK, CountInv, Pump PROVE CountInv'
<1>1. /\ UNCHANGED <<worker, outbox>> /\ counted' = counted /\ counting' = counting /\ timer' = FALSE
  BY DEF Pump, count
<1>2. OffIsQuiet'
  BY <1>1 DEF CountInv, OffIsQuiet
<1>3. OpensAreQuiet'
  <2>1. CASE inbox' = Append(inbox, "slice")
    <3>1. "slice" \in Kinds /\ "slice" # "open"
      BY DEF Kinds
    <3>2. Opening' => Opening
      BY <1>1, <2>1, <3>1, PostingNoOpen
    <3>3. QED
      BY <1>1, <3>2 DEF CountInv, OpensAreQuiet
  <2>2. CASE inbox' = inbox
    BY <1>1, <2>2 DEF CountInv, OpensAreQuiet, Opening
  <2>3. QED
    BY <2>1, <2>2 DEF Pump
<1>4. QED
  BY <1>1, <1>2, <1>3, CountInvKept

LEMMA AskKeepsCountInv ==
  ASSUME TypeOK, CountInv, NEW k \in Calls \ {"open"}, Ask(k)
  PROVE  CountInv'
<1>1. /\ UNCHANGED <<worker, outbox>> /\ counted' = counted /\ counting' = counting /\ timer' = timer
      /\ inbox' = Append(inbox, k)
  BY DEF Ask, Post, count, pump
<1>2. OffIsQuiet'
  BY <1>1 DEF CountInv, OffIsQuiet
<1>3. Opening' => Opening
  BY <1>1, PostingNoOpen DEF Kinds
<1>4. OpensAreQuiet'
  BY <1>1, <1>3 DEF CountInv, OpensAreQuiet
<1>5. QED
  BY <1>1, <1>2, <1>4, CountInvKept

\* Turned off, the count is null and the pump disarmed.
LEMMA OffKeepsCountInv ==
  ASSUME TypeOK, CountInv, Open \/ StopCounting
  PROVE  CountInv'
<1>1. UNCHANGED <<worker, outbox>> /\ TurnOff
  BY DEF Open, StopCounting, queues
<1>2. counting' = FALSE /\ counted' = NoCount /\ timer' = FALSE
  <2>1. CASE counting
    BY <1>1, <2>1 DEF TurnOff, PublishNull
  <2>2. CASE ~counting
    BY <1>1, <2>2 DEF TurnOff, CountInv, OffIsQuiet, TypeOK, count
  <2>3. QED
    BY <2>1, <2>2
<1>3. OffIsQuiet'
  <2>1. NoCount' = NoCount
    BY DEF NoCount
  <2>2. QED
    BY <1>2, <2>1 DEF OffIsQuiet
<1>4. OpensAreQuiet'
  BY <1>2 DEF OpensAreQuiet
<1>5. QED
  BY <1>1, <1>2, <1>3, <1>4, CountInvKept

LEMMA StartKeepsCountInv == ASSUME TypeOK, CountInv, StartCounting PROVE CountInv'
<1>1. /\ UNCHANGED <<worker, queues>> /\ counted' = counted /\ counting' = TRUE /\ ~Opening
  BY DEF StartCounting, count
<1>2. OffIsQuiet'
  BY <1>1 DEF OffIsQuiet
<1>3. OpensAreQuiet'
  BY <1>1 DEF OpensAreQuiet, Opening, queues
<1>4. QED
  BY <1>1, <1>2, <1>3, CountInvKept DEF queues

LEMMA DropClears ==
  ASSUME CountInv, Drop, counting' = counting, timer' = timer \/ timer' = FALSE
  PROVE  CountInv'
<1>1. inbox' = <<>> /\ outbox' = <<>> /\ counted' = NoCount
  BY DEF Drop
<1>2. 1..Len(inbox') = {} /\ 1..Len(outbox') = {}
  BY <1>1
<1>3. OffIsQuiet'
  BY <1>1 DEF CountInv, OffIsQuiet, NoCount
<1>4. OpensAreQuiet' /\ SlicesAreFresh'
  BY <1>2 DEF OpensAreQuiet, Opening, SlicesAreFresh
<1>5. CountStarted' /\ CountIsOfItsCursor'
  BY <1>1 DEF CountStarted, CountIsOfItsCursor, NoCount
<1>6. CursorStarted'
  BY DEF Drop, CursorStarted, NoCount
<1>7. QED
  BY <1>3, <1>4, <1>5, <1>6 DEF CountInv

LEMMA LossKeepsCountInv ==
  ASSUME TypeOK, CountInv, EngineLost \/ HearTrap \/ Dispose
  PROVE  CountInv'
<1>1. CASE EngineLost \/ HearTrap
  BY <1>1, DropClears DEF EngineLost, HearTrap
<1>2. CASE Dispose /\ live
  BY <1>2, DropClears DEF Dispose
<1>3. CASE Dispose /\ ~live
  <2>1. /\ UNCHANGED <<worker, queues>> /\ counted' = counted /\ counting' = counting /\ timer' = FALSE
    BY <1>3 DEF Dispose, count
  <2>2. OffIsQuiet'
    BY <2>1 DEF CountInv, OffIsQuiet
  <2>3. OpensAreQuiet'
    BY <2>1 DEF CountInv, OpensAreQuiet, Opening, queues
  <2>4. QED
    BY <2>1, <2>2, <2>3, CountInvKept DEF queues
<1>4. QED
  BY <1>1, <1>2, <1>3

\* An answer may change the cursor under the published count, and under the
\* slices ahead of it, only if it makes them old news.
LEMMA ServeKeepsCountInv ==
  ASSUME TypeOK, CountInv, NEW k \in Kinds, NEW r \in Results, NEW of \in Counts, Serve(k, r, of),
         \/ r \in {"restarted", "trapped"} \/ k = "open"
         \/ \A c \in Counts : c.epoch > 0 /\ OfItsCursor(c) => OfItsCursor(c)',
         k = "slice" /\ r = "answered" => of.epoch > 0 /\ OfItsCursor(of)',
         CursorStarted'
  PROVE  CountInv'
<1> DEFINE n == Len(outbox) + 1
           answer == [kind |-> k, result |-> r, count |-> of]
<1>1. /\ inbox \in Seq(Kinds) /\ outbox \in Seq(Answers) /\ counted \in Counts
      /\ counted' = counted /\ counting' = counting /\ timer' = timer
      /\ inbox # <<>> /\ Head(inbox) = k /\ inbox' = Tail(inbox) /\ outbox' = Append(outbox, answer)
      /\ ~Poisoned
  BY DEF Serve, pump, count, TypeOK
<1>2. /\ Len(inbox) \in Nat \ {0} /\ inbox[1] = k /\ Len(inbox') = Len(inbox) - 1
      /\ \A i \in 1..Len(inbox') : inbox'[i] = inbox[i + 1]
  BY <1>1, HeadTailProperties, EmptySeq
<1>3. /\ Len(outbox) \in Nat /\ Len(outbox') = n
      /\ \A i \in 1..Len(outbox) : outbox'[i] = outbox[i]
      /\ outbox'[n] = answer
      /\ \A i \in 1..Len(outbox) : outbox[i] \in Answers
  BY <1>1, LenProperties
<1>4. outbox'[n].kind = k /\ outbox'[n].result = r /\ outbox'[n].count = of
  BY <1>3
<1> HIDE DEF answer, n
<1>5. n \in 1..Len(outbox') /\ \A i \in 1..Len(outbox') : i = n \/ i \in 1..Len(outbox)
  BY <1>3 DEF n
<1>6. OffIsQuiet'
  BY <1>1 DEF CountInv, OffIsQuiet, NoCount
<1>7. OpensAreQuiet'
  <2>1. ASSUME Opening' PROVE Opening
    <3>1. CASE \E i \in 1..Len(inbox') : inbox'[i] = "open"
      <4>1. PICK i \in 1..Len(inbox') : inbox'[i] = "open"
        BY <3>1
      <4>2. i + 1 \in 1..Len(inbox) /\ inbox[i + 1] = "open"
        BY <1>2, <4>1
      <4>3. QED
        BY <4>2 DEF Opening
    <3>2. CASE \E i \in 1..Len(outbox') : outbox'[i].kind = "open"
      <4>1. PICK i \in 1..Len(outbox') : outbox'[i].kind = "open"
        BY <3>2
      <4>2. CASE i = n
        <5>1. 1 \in 1..Len(inbox) /\ inbox[1] = "open"
          BY <1>2, <1>4, <4>1, <4>2
        <5>2. QED
          BY <5>1 DEF Opening
      <4>3. CASE i \in 1..Len(outbox)
        BY <1>3, <4>1, <4>3 DEF Opening
      <4>4. QED
        BY <1>5, <4>1, <4>2, <4>3
    <3>3. QED
      BY <2>1, <3>1, <3>2 DEF Opening
  <2>2. QED
    BY <1>1, <2>1 DEF CountInv, OpensAreQuiet
<1>8. SlicesAreFresh'
  <2>1. ASSUME NEW i \in 1..Len(outbox'), outbox'[i].kind = "slice", outbox'[i].result = "answered"
        PROVE  /\ outbox'[i].count.epoch > 0
               /\ OfItsCursor(outbox[i].count)' \/ Poisoned' \/ Outdated(i)'
    <3>1. CASE i = n
      BY <1>4, <2>1, <3>1 DEF OfItsCursor
    <3>2. CASE i \in 1..Len(outbox)
      <4>1. outbox'[i] = outbox[i] /\ outbox[i].count \in Counts
        BY <1>3, <3>2, KindsOfAnswers
      <4>2. outbox[i].count.epoch > 0 /\ (OfItsCursor(outbox[i].count) \/ Outdated(i))
        BY <1>1, <2>1, <3>2, <4>1 DEF CountInv, SlicesAreFresh
      <4>3. CASE Outdated(i)
        <5>1. PICK j \in 1..Len(outbox) : j > i /\ (outbox[j].result = "restarted" \/ outbox[j].kind = "open")
          BY <4>3 DEF Outdated
        <5>2. j \in 1..Len(outbox') /\ outbox'[j] = outbox[j]
          BY <1>3 DEF n
        <5>3. Outdated(i)'
          BY <5>1, <5>2 DEF Outdated
        <5>4. QED
          BY <4>1, <4>2, <5>3
      <4>4. CASE r = "restarted" \/ k = "open"
        <5>1. n > i
          BY <1>3, <3>2 DEF n
        <5>2. Outdated(i)'
          BY <1>4, <1>5, <4>4, <5>1 DEF Outdated
        <5>3. QED
          BY <4>1, <4>2, <5>2
      <4>5. CASE r = "trapped"
        BY <1>4, <1>5, <4>1, <4>2, <4>5 DEF Poisoned
      <4>6. CASE OfItsCursor(outbox[i].count) /\ \A c \in Counts : c.epoch > 0 /\ OfItsCursor(c) => OfItsCursor(c)'
        <5>1. OfItsCursor(outbox[i].count)
          BY <4>6
        <5>2. \A c \in Counts : c.epoch > 0 /\ OfItsCursor(c) => session' /\ c.epoch = cursor'.epoch /\ c.left >= cursor'.left
          BY <4>6 DEF OfItsCursor
        <5>3. session' /\ outbox[i].count.epoch = cursor'.epoch /\ outbox[i].count.left >= cursor'.left
          BY <4>1, <4>2, <5>1, <5>2
        <5>4. QED
          BY <4>1, <4>2, <5>3 DEF OfItsCursor
      <4>7. QED
        BY <4>2, <4>3, <4>4, <4>5, <4>6
    <3>3. QED
      BY <1>5, <2>1, <3>1, <3>2
  <2>2. QED
    BY <2>1 DEF SlicesAreFresh
<1>9. CountStarted'
  BY <1>1 DEF CountInv, CountStarted, NoCount
<1>10. CountIsOfItsCursor'
  <2>1. SUFFICES ASSUME counted # NoCount
                 PROVE  \/ OfItsCursor(counted)'
                        \/ \E i \in 1..Len(outbox') : outbox'[i].result = "restarted"
                        \/ Poisoned'
    BY <1>1 DEF CountIsOfItsCursor, NoCount
  <2>2. /\ counted.epoch > 0 /\ counting
        /\ OfItsCursor(counted) \/ \E i \in 1..Len(outbox) : outbox[i].result = "restarted"
    BY <1>1, <2>1 DEF CountInv, CountStarted, CountIsOfItsCursor, OffIsQuiet
  <2>3. CASE \E i \in 1..Len(outbox) : outbox[i].result = "restarted"
    <3>1. PICK i \in 1..Len(outbox) : outbox[i].result = "restarted"
      BY <2>3
    <3>2. i \in 1..Len(outbox') /\ outbox'[i] = outbox[i]
      BY <1>3 DEF n
    <3>3. QED
      BY <3>1, <3>2
  <2>4. k # "open"
    <3>1. SUFFICES ASSUME k = "open" PROVE FALSE
      OBVIOUS
    <3>2. 1 \in 1..Len(inbox) /\ inbox[1] = "open"
      BY <1>2, <3>1
    <3>3. QED
      BY <2>2, <3>2 DEF CountInv, OpensAreQuiet, Opening
  <2>5. CASE r = "restarted"
    BY <1>4, <1>5, <2>5
  <2>6. CASE r = "trapped"
    BY <1>4, <1>5, <2>6 DEF Poisoned
  <2>7. CASE OfItsCursor(counted) /\ \A c \in Counts : c.epoch > 0 /\ OfItsCursor(c) => OfItsCursor(c)'
    <3>1. \A c \in Counts : c.epoch > 0 /\ OfItsCursor(c) => session' /\ c.epoch = cursor'.epoch /\ c.left >= cursor'.left
      BY <2>7 DEF OfItsCursor
    <3>2. session' /\ counted.epoch = cursor'.epoch /\ counted.left >= cursor'.left
      BY <1>1, <2>2, <2>7, <3>1
    <3>3. QED
      BY <1>1, <3>2 DEF OfItsCursor
  <2>8. QED
    BY <2>2, <2>3, <2>4, <2>5, <2>6, <2>7
<1>11. QED
  BY <1>6, <1>7, <1>8, <1>9, <1>10 DEF CountInv

\* A cursor counts on, or is started; it is never moved back.
LEMMA StartCursorKeeps ==
  ASSUME TypeOK, CursorStarted, session, session' = session, NEW n \in {0, 1}, StartCursor(n)
  PROVE  /\ \A c \in Counts : c.epoch > 0 /\ OfItsCursor(c) => OfItsCursor(c)'
         /\ CursorStarted'
         /\ cursor' = Counting(n) /\ cursor' \in Counts /\ cursor'.epoch > 0 /\ cursor'.left \in Nat
<1>1. /\ cursor' = Counting(n) /\ cursor' \in Counts
      /\ cursor'.epoch = NextCursor.epoch /\ cursor'.left <= NextCursor.left
      /\ NextCursor \in Counts
  BY CursorTypes DEF StartCursor
<1>2. /\ NextCursor.left \in Nat /\ NextCursor.epoch \in Nat
      /\ cursor'.left \in Nat /\ cursor'.epoch \in Nat
  BY <1>1, BoundsAssumption DEF Counts
<1>3. ASSUME NEW c \in Counts, c.epoch > 0, OfItsCursor(c)
      PROVE  OfItsCursor(c)'
  <2>1. cursor # NoCount
    BY <1>3 DEF OfItsCursor, NoCount
  <2>2. NextCursor = cursor
    BY <2>1 DEF NextCursor
  <2>3. c.left \in Nat
    BY BoundsAssumption DEF Counts
  <2>4. c.epoch = cursor'.epoch /\ c.left >= cursor'.left
    BY <1>1, <1>2, <1>3, <2>2, <2>3 DEF OfItsCursor
  <2>5. QED
    BY <2>4 DEF OfItsCursor
<1>4. NextCursor.epoch > 0
  <2>1. CASE cursor = NoCount
    BY <2>1 DEF NextCursor, TypeOK
  <2>2. CASE cursor # NoCount
    BY <2>2 DEF NextCursor, CursorStarted
  <2>3. QED
    BY <2>1, <2>2
<1>5. QED
  BY <1>1, <1>2, <1>3, <1>4 DEF CursorStarted

LEMMA WorkKeepsCountInv == ASSUME TypeOK, CountInv, Work PROVE CountInv'
<1>1. NoCount \in Counts /\ NoCount' = NoCount /\ CursorStarted
  BY CursorTypes DEF NoCount, CountInv
<1>2. /\ Kinds = {"open", "change", "step", "question", "slice"}
      /\ {"answered", "restarted", "nothing", "failed", "trapped"} \subseteq Results
  BY DEF Kinds, Calls, Results
<1>3. CASE ServeOpen
  <2>1. CursorStarted'
    BY <1>1, <1>3 DEF ServeOpen, CursorStarted
  <2>2. Serve("open", "restarted", NoCount)
    BY <1>3 DEF ServeOpen
  <2>3. QED
    BY <1>1, <1>2, <2>1, <2>2, ServeKeepsCountInv
\* An answer that leaves the worker as it was.
<1>4. ASSUME NEW k \in Kinds, NEW r \in Results, Serve(k, r, NoCount), UNCHANGED worker,
             ~(k = "slice" /\ r = "answered")
      PROVE  CountInv'
  <2>1. CursorStarted' /\ \A c \in Counts : c.epoch > 0 /\ OfItsCursor(c) => OfItsCursor(c)'
    BY <1>1, <1>4 DEF CursorStarted, OfItsCursor, worker
  <2>2. QED
    BY <1>1, <1>4, <2>1, ServeKeepsCountInv
<1>5. CASE ServeChange
  <2>1. CASE cursor' \in {cursor, NoCount} /\ Serve("change", "restarted", NoCount)
    <3>1. CursorStarted'
      BY <1>1, <2>1 DEF CursorStarted
    <3>2. QED
      BY <1>1, <1>2, <2>1, <3>1, ServeKeepsCountInv
  <2>2. ASSUME NEW r \in {"answered", "failed"}, Serve("change", r, NoCount), UNCHANGED worker
        PROVE  CountInv'
    BY <1>2, <1>4, <2>2
  <2>3. QED
    BY <1>5, <2>1, <2>2 DEF ServeChange
<1>6. CASE ServeStep
  <2>1. ASSUME NEW n \in {0, 1}, session, session' = session, StartCursor(n),
               Serve("step", "answered", NoCount)
        PROVE  CountInv'
    BY <1>1, <1>2, <2>1, StartCursorKeeps, ServeKeepsCountInv
  <2>2. CASE Serve("step", "failed", NoCount) /\ UNCHANGED worker
    BY <1>2, <1>4, <2>2
  <2>3. QED
    BY <1>6, <2>1, <2>2 DEF ServeStep
<1>7. CASE ServeQuestion
  <2>1. ASSUME NEW r \in {"answered", "failed"}, Serve("question", r, NoCount), UNCHANGED worker
        PROVE  CountInv'
    BY <1>2, <1>4, <2>1
  <2>2. QED
    BY <1>7, <2>1 DEF ServeQuestion
<1>8. CASE ServeSlice
  <2>1. CASE session /\ session' = session /\ StartCursor(1) /\ Serve("slice", "answered", Counting(1))
    <3>1. /\ \A c \in Counts : c.epoch > 0 /\ OfItsCursor(c) => OfItsCursor(c)'
          /\ CursorStarted'
          /\ cursor' = Counting(1) /\ cursor' \in Counts /\ cursor'.epoch > 0 /\ cursor'.left \in Nat
      BY <1>1, <2>1, StartCursorKeeps
    <3>2. PICK of \in Counts : of = Counting(1)
      BY <3>1
    <3>3. of.epoch > 0 /\ OfItsCursor(of)'
      BY <2>1, <3>1, <3>2 DEF OfItsCursor
    <3>4. Serve("slice", "answered", of)
      BY <2>1, <3>2
    <3>5. QED
      BY <1>2, <3>1, <3>3, <3>4, ServeKeepsCountInv
  <2>2. CASE Serve("slice", "nothing", NoCount) /\ UNCHANGED worker
    BY <1>2, <1>4, <2>2
  <2>3. QED
    BY <1>8, <2>1, <2>2 DEF ServeSlice
<1>9. CASE ServeBadly
  <2>1. PICK k \in Kinds, r \in {"failed", "trapped"} : Serve(k, r, NoCount)
    BY <1>9 DEF ServeBadly
  <2>2. k = Head(inbox)
    BY <2>1 DEF Serve
  <2>3. CASE k = "open"
    <3>1. cursor' = NoCount
      BY <1>9, <2>2, <2>3 DEF ServeBadly
    <3>2. CursorStarted'
      BY <1>1, <3>1 DEF CursorStarted
    <3>3. QED
      BY <1>1, <1>2, <2>1, <2>3, <3>2, ServeKeepsCountInv
  <2>4. CASE session /\ session' = session /\ StartCursor(0)
    BY <1>1, <1>2, <2>1, <2>4, StartCursorKeeps, ServeKeepsCountInv
  <2>5. CASE UNCHANGED <<session, cursor>>
    <3>1. CursorStarted' /\ \A c \in Counts : c.epoch > 0 /\ OfItsCursor(c) => OfItsCursor(c)'
      BY <1>1, <2>5 DEF CursorStarted, OfItsCursor
    <3>2. QED
      BY <1>1, <1>2, <2>1, <3>1, ServeKeepsCountInv
  <2>6. CASE k # "open"
    <3>1. \/ session /\ session' = session /\ cursor' \in {cursor, Counting(0)} /\ epoch' = NextCursor.epoch
          \/ UNCHANGED worker
      BY <1>9, <2>2, <2>6 DEF ServeBadly
    <3>2. QED
      BY <2>4, <2>5, <3>1 DEF StartCursor, worker
  <2>7. QED
    BY <2>3, <2>6
<1>10. QED
  BY <1>3, <1>5, <1>6, <1>7, <1>8, <1>9 DEF Work

\* Once an answer is heard, what was behind it is still behind it.
LEMMA HearingKeeps ==
  ASSUME TypeOK, CountInv, outbox # <<>>, outbox' = Tail(outbox), inbox' = inbox,
         UNCHANGED worker, Head(outbox).result # "trapped"
  PROVE  /\ Opening' => Opening
         /\ Poisoned => Poisoned'
         /\ SlicesAreFresh'
         /\ CursorStarted'
         /\ outbox[1] = Head(outbox) /\ 1 \in 1..Len(outbox)
         /\ \A i \in 1..Len(outbox) : i # 1 => i - 1 \in 1..Len(outbox') /\ outbox'[i - 1] = outbox[i]
<1>1. /\ outbox \in Seq(Answers) /\ Len(outbox) \in Nat \ {0} /\ outbox[1] = Head(outbox)
      /\ Len(outbox') = Len(outbox) - 1
      /\ \A i \in 1..Len(outbox') : outbox'[i] = outbox[i + 1]
  BY HeadTailProperties, EmptySeq DEF TypeOK
<1>2. \A i \in 1..Len(outbox) : i # 1 => i - 1 \in 1..Len(outbox') /\ outbox'[i - 1] = outbox[i]
  <2>1. ASSUME NEW i \in 1..Len(outbox), i # 1
        PROVE  i - 1 \in 1..Len(outbox') /\ outbox'[i - 1] = outbox[i]
    <3>1. i - 1 \in 1..Len(outbox') /\ (i - 1) + 1 = i
      BY <1>1, <2>1
    <3>2. QED
      BY <1>1, <3>1
  <2>2. QED
    BY <2>1
<1>3. \A i \in 1..Len(outbox') : i + 1 \in 1..Len(outbox)
  BY <1>1
<1>4. Opening' => Opening
  <2>1. ASSUME NEW i \in 1..Len(outbox'), outbox'[i].kind = "open"
        PROVE  Opening
    <3>1. i + 1 \in 1..Len(outbox) /\ outbox[i + 1].kind = "open"
      BY <1>1, <1>3, <2>1
    <3>2. QED
      BY <3>1 DEF Opening
  <2>2. QED
    BY <2>1 DEF Opening
<1>5. ASSUME Poisoned PROVE Poisoned'
  <2>1. PICK i \in 1..Len(outbox) : outbox[i].result = "trapped"
    BY <1>5 DEF Poisoned
  <2>2. i - 1 \in 1..Len(outbox') /\ outbox'[i - 1].result = "trapped"
    BY <1>1, <1>2, <2>1
  <2>3. QED
    BY <2>2 DEF Poisoned
<1>6. SlicesAreFresh'
  <2>1. ASSUME NEW i \in 1..Len(outbox'), outbox'[i].kind = "slice", outbox'[i].result = "answered"
        PROVE  /\ outbox'[i].count.epoch > 0
               /\ OfItsCursor(outbox[i].count)' \/ Poisoned' \/ Outdated(i)'
    <3>1. i + 1 \in 1..Len(outbox) /\ outbox'[i] = outbox[i + 1]
      BY <1>1, <1>3
    <3>2. /\ outbox[i + 1].count.epoch > 0
          /\ OfItsCursor(outbox[i + 1].count) \/ Poisoned \/ Outdated(i + 1)
      BY <2>1, <3>1 DEF CountInv, SlicesAreFresh
    <3>3. CASE OfItsCursor(outbox[i + 1].count)
      BY <3>1, <3>2, <3>3 DEF OfItsCursor, worker
    <3>4. CASE Outdated(i + 1)
      <4>1. PICK j \in 1..Len(outbox) :
              j > i + 1 /\ (outbox[j].result = "restarted" \/ outbox[j].kind = "open")
        BY <3>4 DEF Outdated
      <4>2. j # 1 /\ j - 1 > i
        BY <4>1
      <4>3. j - 1 \in 1..Len(outbox') /\ outbox'[j - 1] = outbox[j]
        BY <1>2, <4>2
      <4>4. Outdated(i)'
        BY <4>1, <4>2, <4>3 DEF Outdated
      <4>5. QED
        BY <3>1, <3>2, <4>4
    <3>5. QED
      BY <1>5, <3>1, <3>2, <3>3, <3>4
  <2>2. QED
    BY <2>1 DEF SlicesAreFresh
<1>7. CursorStarted'
  BY DEF CountInv, CursorStarted, NoCount, worker
<1>8. QED
  BY <1>1, <1>2, <1>4, <1>5, <1>6, <1>7

\* The timer is armed only for a slice that is due, so only while counting.
LEMMA ScheduleQuiet ==
  ASSUME Schedule, timer \in BOOLEAN, ~timer
  PROVE  timer' => counting'
BY DEF Schedule, SliceDue

LEMMA HearCallKeepsCountInv == ASSUME TypeOK, CountInv, HearCall PROVE CountInv'
<1>1. /\ outbox # <<>> /\ outbox' = Tail(outbox) /\ inbox' = inbox /\ UNCHANGED worker
      /\ Head(outbox).result # "trapped" /\ counting' = counting /\ Schedule
      /\ IF Head(outbox).result = "restarted" THEN counted' = NoCount ELSE counted' = counted
  BY DEF HearCall, Heard, Restart, PublishNull, count
<1>2. /\ Opening' => Opening
      /\ Poisoned => Poisoned'
      /\ SlicesAreFresh' /\ CursorStarted'
      /\ outbox[1] = Head(outbox)
      /\ \A i \in 1..Len(outbox) : i # 1 => i - 1 \in 1..Len(outbox') /\ outbox'[i - 1] = outbox[i]
  BY <1>1, HearingKeeps
<1>3. NoCount' = NoCount
  BY DEF NoCount
<1>4. OffIsQuiet'
  <2>1. ASSUME ~counting PROVE counted' = NoCount /\ ~timer'
    <3>1. counted = NoCount /\ ~timer
      BY <2>1 DEF CountInv, OffIsQuiet
    <3>2. ~timer'
      BY <1>1, <2>1, <3>1, ScheduleQuiet DEF TypeOK
    <3>3. QED
      BY <1>1, <3>1, <3>2
  <2>2. QED
    BY <1>1, <1>3, <2>1 DEF OffIsQuiet
<1>5. OpensAreQuiet'
  BY <1>1, <1>2 DEF CountInv, OpensAreQuiet
<1>6. CountStarted'
  BY <1>1, <1>3 DEF CountInv, CountStarted
<1>7. CountIsOfItsCursor'
  <2>1. CASE Head(outbox).result = "restarted"
    BY <1>1, <1>3, <2>1 DEF CountIsOfItsCursor
  <2>2. CASE Head(outbox).result # "restarted" /\ counted # NoCount
    <3>1. \/ OfItsCursor(counted) \/ Poisoned
          \/ \E i \in 1..Len(outbox) : outbox[i].result = "restarted"
      BY <2>2 DEF CountInv, CountIsOfItsCursor
    <3>2. ASSUME NEW i \in 1..Len(outbox), outbox[i].result = "restarted"
          PROVE  \E j \in 1..Len(outbox') : outbox'[j].result = "restarted"
      <4>1. i # 1
        BY <1>2, <2>2, <3>2
      <4>2. QED
        BY <1>2, <3>2, <4>1
    <3>3. OfItsCursor(counted) => OfItsCursor(counted)'
      BY <1>1, <2>2 DEF OfItsCursor, worker
    <3>4. QED
      BY <1>2, <3>1, <3>2, <3>3 DEF CountIsOfItsCursor
  <2>3. CASE Head(outbox).result # "restarted" /\ counted = NoCount
    BY <1>1, <1>3, <2>3 DEF CountIsOfItsCursor
  <2>4. QED
    BY <2>1, <2>2, <2>3
<1>8. QED
  BY <1>2, <1>4, <1>5, <1>6, <1>7 DEF CountInv

LEMMA HearSliceKeepsCountInv == ASSUME TypeOK, CountInv, HearSlice PROVE CountInv'
<1> DEFINE answer == Head(outbox)
<1>1. /\ outbox # <<>> /\ outbox' = Tail(outbox) /\ inbox' = inbox /\ UNCHANGED worker
      /\ answer.kind = "slice" /\ answer.result # "trapped" /\ counting' = counting /\ Schedule
  BY DEF HearSlice, Heard
<1>2. /\ Opening' => Opening
      /\ Poisoned => Poisoned'
      /\ SlicesAreFresh' /\ CursorStarted'
      /\ outbox[1] = answer /\ 1 \in 1..Len(outbox)
      /\ \A i \in 1..Len(outbox) : i # 1 => i - 1 \in 1..Len(outbox') /\ outbox'[i - 1] = outbox[i]
  BY <1>1, HearingKeeps
<1>3. NoCount' = NoCount
  BY DEF NoCount
<1>4. \/ counted' = counted \/ (counted' = NoCount /\ counting)
      \/ counted' = answer.count /\ answer.result = "answered" /\ counting
  BY DEF HearSlice, IsNews, Publish, PublishNull, count
<1> HIDE DEF answer
<1>5. OffIsQuiet'
  <2>1. ASSUME ~counting PROVE counted' = NoCount /\ ~timer'
    <3>1. counted = NoCount /\ ~timer
      BY <2>1 DEF CountInv, OffIsQuiet
    <3>2. ~timer'
      BY <1>1, <2>1, <3>1, ScheduleQuiet DEF TypeOK
    <3>3. QED
      BY <1>4, <2>1, <3>1, <3>2
  <2>2. QED
    BY <1>1, <1>3, <2>1 DEF OffIsQuiet
<1>6. OpensAreQuiet'
  BY <1>1, <1>2 DEF CountInv, OpensAreQuiet
<1>7. CASE counted' = counted
  <2>1. CountStarted'
    BY <1>3, <1>7 DEF CountInv, CountStarted
  <2>2. CountIsOfItsCursor'
    <3>1. CASE counted # NoCount
      <4>1. \/ OfItsCursor(counted) \/ Poisoned
            \/ \E i \in 1..Len(outbox) : outbox[i].result = "restarted"
        BY <3>1 DEF CountInv, CountIsOfItsCursor
      <4>2. ASSUME NEW i \in 1..Len(outbox), outbox[i].result = "restarted"
            PROVE  \E j \in 1..Len(outbox') : outbox'[j].result = "restarted"
        <5>1. answer.result # "restarted"
          BY DEF HearSlice, answer, Heard
        <5>2. i # 1
          BY <1>2, <4>2, <5>1
        <5>3. QED
          BY <1>2, <4>2, <5>2
      <4>3. OfItsCursor(counted) => OfItsCursor(counted)'
        BY <1>1, <1>7 DEF OfItsCursor, worker
      <4>4. QED
        BY <1>2, <4>1, <4>2, <4>3 DEF CountIsOfItsCursor
    <3>2. CASE counted = NoCount
      BY <1>3, <1>7, <3>2 DEF CountIsOfItsCursor
    <3>3. QED
      BY <3>1, <3>2
  <2>3. QED
    BY <1>2, <1>5, <1>6, <2>1, <2>2 DEF CountInv
<1>8. CASE counted' = NoCount
  <2>1. CountStarted' /\ CountIsOfItsCursor'
    BY <1>3, <1>8 DEF CountStarted, CountIsOfItsCursor
  <2>2. QED
    BY <1>2, <1>5, <1>6, <2>1 DEF CountInv
<1>9. CASE counted' = answer.count /\ answer.result = "answered" /\ counting
  <2>1. answer.count.epoch > 0 /\ (OfItsCursor(answer.count) \/ Poisoned \/ Outdated(1))
    BY <1>1, <1>2, <1>9 DEF CountInv, SlicesAreFresh
  <2>2. CountStarted'
    BY <1>9, <2>1 DEF CountStarted
  <2>3. ASSUME Outdated(1)
        PROVE  \E j \in 1..Len(outbox') : outbox'[j].result = "restarted"
    <3>1. PICK j \in 1..Len(outbox) : j > 1 /\ (outbox[j].result = "restarted" \/ outbox[j].kind = "open")
      BY <2>3 DEF Outdated
    <3>2. outbox[j].kind # "open"
      BY <1>9 DEF CountInv, OpensAreQuiet, Opening
    <3>3. j - 1 \in 1..Len(outbox') /\ outbox'[j - 1].result = "restarted"
      BY <1>2, <3>1, <3>2
    <3>4. QED
      BY <3>3
  <2>4. OfItsCursor(answer.count) => OfItsCursor(counted)'
    BY <1>1, <1>9 DEF OfItsCursor, worker
  <2>5. CountIsOfItsCursor'
    BY <1>2, <2>1, <2>3, <2>4 DEF CountIsOfItsCursor
  <2>6. QED
    BY <1>2, <1>5, <1>6, <2>2, <2>5 DEF CountInv
<1>10. QED
  BY <1>4, <1>7, <1>8, <1>9

LEMMA StutterKeepsCountInv == ASSUME CountInv, UNCHANGED vars PROVE CountInv'
<1>1. UNCHANGED <<worker, outbox, inbox, counting, timer>> /\ counted' = counted
  BY DEF vars, pump, count, queues
<1>2. OffIsQuiet' /\ OpensAreQuiet'
  BY <1>1 DEF CountInv, OffIsQuiet, OpensAreQuiet, Opening
<1>3. QED
  BY <1>1, <1>2, CountInvKept

THEOREM CountInvAlways == Spec => []CountInv
<1>1. ASSUME TypeOK, CountInv, [Next]_vars PROVE CountInv'
  <2>1. ASSUME NEW k \in Calls \ {"open"}, Ask(k) PROVE CountInv'
    BY <1>1, <2>1, AskKeepsCountInv
  <2>2. QED
    BY <1>1, <2>1, OffKeepsCountInv, StartKeepsCountInv, LossKeepsCountInv, PumpKeepsCountInv,
       WorkKeepsCountInv, HearCallKeepsCountInv, HearSliceKeepsCountInv, StutterKeepsCountInv
       DEF Next, Hear
<1>2. QED
  BY <1>1, CountInvInit, TypeCorrect, PTL DEF Spec

\* Off, the count reads null and nothing is armed to ask for a slice
\* (setCounting).
THEOREM OffStaysQuiet == Spec => []OffIsQuiet
BY CountInvAlways, PTL DEF CountInv

\* A published count is of the open session's present constraints, or the
\* answer that clears it is on its way (publish, restarting).
THEOREM CountOfTheSession == Spec => []CountIsOfItsCursor
BY CountInvAlways, PTL DEF CountInv

----------------------------------------------------------------------------
(* The channel: what its flag and its tickets tell.                        *)

\* Tickets are handed out in order, each to one request.
TicketsOrdered ==
  /\ \A r \in Requests : ticket[r] <= latest
  /\ \A r \in Requests : outcome[r] # "unasked" => ticket[r] > 0
  /\ \A r, q \in Requests :
       outcome[r] # "unasked" /\ outcome[q] # "unasked" /\ ticket[r] = ticket[q] => r = q

ChannelInv == ChannelTypeOK /\ OneInFlight /\ WaitingIsNewest /\ NothingForgotten /\ TicketsOrdered

\* `next` sends what waits, since nothing newer can have come (`run` finds
\* its ticket the latest): it never ends a request.
LEMMA GoOnSends ==
  ASSUME ChannelInv, NEW r \in engine, NEW o, GoOn(r, o)
  PROVE  /\ outcome' = o /\ waiting' = NoRequest
         /\ engine' = IF waiting = NoRequest THEN {} ELSE {waiting}
         /\ busy' = (waiting # NoRequest)
<1>1. engine = {r}
  BY DEF ChannelInv, OneInFlight
<1>2. CASE waiting = NoRequest
  BY <1>1, <1>2 DEF GoOn
<1>3. CASE waiting # NoRequest
  <2>1. ticket[waiting] = latest
    BY <1>3 DEF ChannelInv, WaitingIsNewest
  <2>2. QED
    BY <1>1, <1>3, <2>1 DEF GoOn
<1>4. QED
  BY <1>2, <1>3

LEMMA SettleKeepsChannelInv ==
  ASSUME ChannelInv, NEW r \in Requests, NEW how \in {"answered", "rejected"}, Settle(r, how)
  PROVE  ChannelInv'
<1> DEFINE o == [outcome EXCEPT ![r] = IF ticket[r] = latest THEN how ELSE "superseded"]
<1>1. r \in engine /\ GoOn(r, o) /\ latest' = latest /\ ticket' = ticket
  BY DEF Settle
<1>2. /\ outcome' = o /\ waiting' = NoRequest
      /\ engine' = IF waiting = NoRequest THEN {} ELSE {waiting}
      /\ busy' = (waiting # NoRequest)
  BY <1>1, GoOnSends
<1>3. outcome[r] = "pending" /\ r # waiting /\ engine = {r}
  BY <1>1, NoRequestAssumption DEF ChannelInv, NothingForgotten, WaitingIsNewest, OneInFlight
<1>4. ChannelTypeOK'
  BY <1>1, <1>2 DEF ChannelInv, ChannelTypeOK, Outcomes
<1>5. OneInFlight' /\ WaitingIsNewest'
  BY <1>2 DEF OneInFlight, WaitingIsNewest
<1>6. outcome'[r] # "pending" /\ outcome'[r] # "unasked"
  BY <1>2 DEF ChannelInv, ChannelTypeOK
<1>7. \A q \in Requests : q # r => outcome'[q] = outcome[q]
  BY <1>2 DEF ChannelInv, ChannelTypeOK
<1>8. NothingForgotten'
  <2>1. waiting = NoRequest => waiting \notin Requests
    BY NoRequestAssumption
  <2>2. ASSUME NEW q \in Requests
        PROVE  outcome'[q] = "pending" <=> q \in engine'
    BY <1>2, <1>3, <1>6, <1>7, <2>1 DEF ChannelInv, NothingForgotten
  <2>3. QED
    BY <1>2, <2>2, NoRequestAssumption DEF NothingForgotten
<1>9. TicketsOrdered'
  BY <1>1, <1>3, <1>6, <1>7 DEF ChannelInv, TicketsOrdered
<1>10. QED
  BY <1>4, <1>5, <1>8, <1>9 DEF ChannelInv

LEMMA RequestKeepsChannelInv ==
  ASSUME ChannelInv, NEW r \in Requests, Request(r)
  PROVE  ChannelInv'
<1>1. /\ outcome[r] = "unasked" /\ latest' = latest + 1
      /\ r \notin engine /\ r # waiting
  BY DEF Request, ChannelInv, NothingForgotten
<1>2. /\ ticket'[r] = latest + 1
      /\ \A q \in Requests : q # r => ticket'[q] = ticket[q]
  BY DEF Request, ChannelInv, ChannelTypeOK
<1>3. /\ outcome'[r] = "pending"
      /\ \A q \in Requests : q # r =>
           outcome'[q] = IF q = waiting THEN "superseded" ELSE outcome[q]
  BY DEF Request, WaitingSuperseded
<1>4. ChannelTypeOK'
  <2>1. outcome' \in [Requests -> Outcomes]
    <3>1. [WaitingSuperseded(outcome) EXCEPT ![r] = "pending"] \in [Requests -> Outcomes]
      BY DEF WaitingSuperseded, ChannelInv, ChannelTypeOK, Outcomes
    <3>2. QED
      BY <3>1 DEF Request
  <2>2. latest' \in Nat /\ ticket' \in [Requests -> Nat] /\ engine' \in SUBSET Requests
    BY DEF Request, ChannelInv, ChannelTypeOK
  <2>3. busy' \in BOOLEAN /\ waiting' \in Requests \cup {NoRequest}
    BY DEF Request, ChannelInv, ChannelTypeOK
  <2>4. QED
    BY <2>1, <2>2, <2>3 DEF ChannelTypeOK
<1>5. ASSUME busy, waiting' = r, UNCHANGED <<busy, engine>>
      PROVE  OneInFlight' /\ WaitingIsNewest' /\ NothingForgotten'
  <2>1. OneInFlight'
    BY <1>5 DEF ChannelInv, OneInFlight
  <2>2. WaitingIsNewest'
    BY <1>1, <1>2, <1>3, <1>5 DEF WaitingIsNewest
  <2>3. NothingForgotten'
    <3>1. \A q \in Requests : q = waiting => q \notin engine
      BY NoRequestAssumption DEF ChannelInv, WaitingIsNewest
    <3>2. ASSUME NEW q \in Requests
          PROVE  outcome'[q] = "pending" <=> q \in engine \/ q = r
      BY <1>1, <1>3, <3>1 DEF ChannelInv, NothingForgotten
    <3>3. QED
      BY <1>5, <3>2 DEF NothingForgotten
  <2>4. QED
    BY <2>1, <2>2, <2>3
<1>6. ASSUME ~ busy, waiting' = NoRequest, busy' = TRUE, engine' = engine \cup {r}
      PROVE  OneInFlight' /\ WaitingIsNewest' /\ NothingForgotten'
  <2>1. engine = {} /\ waiting = NoRequest
    BY <1>6 DEF ChannelInv, OneInFlight, WaitingIsNewest
  <2>2. OneInFlight' /\ WaitingIsNewest'
    BY <1>6, <2>1 DEF OneInFlight, WaitingIsNewest
  <2>3. NothingForgotten'
    BY <1>1, <1>3, <1>6, <2>1, NoRequestAssumption DEF ChannelInv, NothingForgotten
  <2>4. QED
    BY <2>2, <2>3
<1>7. TicketsOrdered'
  <2>1. \A q \in Requests : ticket[q] \in Nat /\ ticket[q] <= latest /\ latest \in Nat
    BY DEF ChannelInv, ChannelTypeOK, TicketsOrdered
  <2>2. \A q \in Requests : ticket'[q] <= latest'
    BY <1>1, <1>2, <2>1
  <2>3. \A q \in Requests : q # r /\ outcome'[q] # "unasked" => outcome[q] # "unasked"
    BY <1>3, NoRequestAssumption DEF ChannelInv, WaitingIsNewest
  <2>4. \A q \in Requests : outcome'[q] # "unasked" => ticket'[q] > 0
    BY <1>2, <2>1, <2>3 DEF ChannelInv, TicketsOrdered
  <2>5. \A q \in Requests : q # r => ticket'[q] # ticket'[r]
    BY <1>2, <2>1
  <2>6. \A q, p \in Requests :
          outcome'[q] # "unasked" /\ outcome'[p] # "unasked" /\ ticket'[q] = ticket'[p] => q = p
    BY <1>2, <2>3, <2>5 DEF ChannelInv, TicketsOrdered
  <2>7. QED
    BY <2>2, <2>4, <2>6 DEF TicketsOrdered
<1>8. QED
  BY <1>4, <1>5, <1>6, <1>7 DEF ChannelInv, Request

LEMMA CancelKeepsChannelInv ==
  ASSUME ChannelInv, Cancel
  PROVE  ChannelInv'
<1>1. /\ latest' = latest + 1 /\ waiting' = NoRequest
      /\ UNCHANGED <<busy, ticket, engine>>
      /\ \A q \in Requests : outcome'[q] = IF q = waiting THEN "superseded" ELSE outcome[q]
  BY DEF Cancel, WaitingSuperseded
<1>2. ChannelTypeOK'
  BY DEF Cancel, WaitingSuperseded, ChannelInv, ChannelTypeOK, Outcomes
<1>3. OneInFlight' /\ WaitingIsNewest'
  BY <1>1 DEF ChannelInv, OneInFlight, WaitingIsNewest
<1>4. NothingForgotten'
  <2>1. \A q \in Requests : q = waiting => q \notin engine
    BY NoRequestAssumption DEF ChannelInv, WaitingIsNewest
  <2>2. ASSUME NEW q \in Requests
        PROVE  outcome'[q] = "pending" <=> q \in engine
    BY <1>1, <2>1 DEF ChannelInv, NothingForgotten
  <2>3. QED
    BY <1>1, <2>2, NoRequestAssumption DEF NothingForgotten
<1>5. TicketsOrdered'
  <2>1. \A q \in Requests : ticket[q] \in Nat /\ ticket[q] <= latest /\ latest \in Nat
    BY DEF ChannelInv, ChannelTypeOK, TicketsOrdered
  <2>2. \A q \in Requests : outcome'[q] # "unasked" => outcome[q] # "unasked"
    BY <1>1, NoRequestAssumption DEF ChannelInv, WaitingIsNewest
  <2>3. \A q \in Requests : ticket'[q] = ticket[q] /\ ticket'[q] <= latest'
    BY <1>1, <2>1
  <2>4. QED
    BY <2>2, <2>3 DEF ChannelInv, TicketsOrdered
<1>6. QED
  BY <1>2, <1>3, <1>4, <1>5 DEF ChannelInv

LEMMA ChannelInvHolds == ChannelSpec => []ChannelInv
<1>1. ChannelInit => ChannelInv
  <2> SUFFICES ASSUME ChannelInit PROVE ChannelInv
    OBVIOUS
  <2>1. ChannelTypeOK
    BY DEF ChannelInit, ChannelTypeOK, Outcomes
  <2>2. OneInFlight /\ WaitingIsNewest
    BY DEF ChannelInit, OneInFlight, WaitingIsNewest
  <2>3. NothingForgotten
    BY NoRequestAssumption DEF ChannelInit, NothingForgotten
  <2>4. TicketsOrdered
    BY DEF ChannelInit, TicketsOrdered
  <2>5. QED
    BY <2>1, <2>2, <2>3, <2>4 DEF ChannelInv
<1>2. ChannelInv /\ [ChannelNext]_channelVars => ChannelInv'
  <2> SUFFICES ASSUME ChannelInv, [ChannelNext]_channelVars PROVE ChannelInv'
    OBVIOUS
  <2>1. ASSUME NEW r \in Requests, Answer(r) \/ Reject(r) PROVE ChannelInv'
    BY <2>1, SettleKeepsChannelInv DEF Answer, Reject
  <2>2. CASE UNCHANGED channelVars
    BY <2>2 DEF channelVars, ChannelInv, ChannelTypeOK, OneInFlight, WaitingIsNewest, NothingForgotten, TicketsOrdered
  <2>3. QED
    BY <2>1, <2>2, RequestKeepsChannelInv, CancelKeepsChannelInv DEF ChannelNext
<1>3. QED
  BY <1>1, <1>2, PTL DEF ChannelSpec

\* Every variable of the channel keeps its type.
THEOREM ChannelTypeCorrect == ChannelSpec => []ChannelTypeOK
<1>1. ChannelInv => ChannelTypeOK
  BY DEF ChannelInv
<1>2. QED
  BY <1>1, ChannelInvHolds, PTL

\* At most one request is in the engine at any time, however requests, cancels
\* and answers interleave (`run` and `next`, the `busy` flag).
THEOREM OneRequestInFlight == ChannelSpec => []OneInFlight
<1>1. ChannelInv => OneInFlight
  BY DEF ChannelInv
<1>2. QED
  BY <1>1, ChannelInvHolds, PTL

\* The request that waits is always the newest one, so the ticket check that
\* `run` makes before sending never fails.
THEOREM WaitingStaysNewest == ChannelSpec => []WaitingIsNewest
<1>1. ChannelInv => WaitingIsNewest
  BY DEF ChannelInv
<1>2. QED
  BY <1>1, ChannelInvHolds, PTL

\* A request is awaited exactly while the channel holds it: no promise is left
\* pending with nobody to settle it.
THEOREM NoRequestForgotten == ChannelSpec => []NothingForgotten
<1>1. ChannelInv => NothingForgotten
  BY DEF ChannelInv
<1>2. QED
  BY <1>1, ChannelInvHolds, PTL

-----------------------------------------------------------------------------
(* The channel implements LatestWins.                                      *)

LEMMA RequestAsks ==
  ASSUME ChannelInv, NEW r \in Requests, Request(r)
  PROVE  Promise!Ask(r)
<1>1. outcome[r] = "unasked" /\ latest' = latest + 1 /\ r # waiting
  BY DEF Request, ChannelInv, NothingForgotten
<1>2. /\ ticket'[r] = latest + 1
      /\ \A q \in Requests : q # r => ticket'[q] = ticket[q]
  BY DEF Request, ChannelInv, ChannelTypeOK
<1>3. outcome' = [x \in Requests |-> IF x = r THEN "pending"
                                     ELSE IF x = waiting THEN "superseded" ELSE outcome[x]]
  BY DEF Request, WaitingSuperseded
<1>4. Current' = {r}
  <2>1. \A q \in Requests : ticket[q] \in Nat /\ ticket[q] <= latest /\ latest \in Nat
    BY DEF ChannelInv, ChannelTypeOK, TicketsOrdered
  <2>2. \A q \in Requests : q # r => ticket'[q] # latest'
    BY <1>1, <1>2, <2>1
  <2>3. QED
    BY <1>1, <1>2, <1>3, <2>2 DEF Current
<1> DEFINE ended == {x \in Requests : x = waiting}
<1>5. ended \in SUBSET Promise!Outdated({r})
  BY <1>1, NoRequestAssumption DEF Promise!Outdated, ChannelInv, WaitingIsNewest
<1>6. outcome' = [x \in Requests |-> IF x = r THEN "pending"
                                     ELSE IF x \in ended THEN "superseded" ELSE outcome[x]]
  BY <1>3
<1> HIDE DEF ended
<1>7. QED
  BY <1>1, <1>4, <1>5, <1>6 DEF Promise!Ask

LEMMA CancelCancels ==
  ASSUME ChannelInv, Cancel
  PROVE  Promise!Cancel
<1>1. latest' = latest + 1 /\ ticket' = ticket
  BY DEF Cancel
<1>2. Current' = {}
  <2>1. \A q \in Requests : ticket[q] \in Nat /\ ticket[q] <= latest /\ latest \in Nat
    BY DEF ChannelInv, ChannelTypeOK, TicketsOrdered
  <2>2. \A q \in Requests : ticket'[q] # latest'
    BY <1>1, <2>1
  <2>3. QED
    BY <2>2 DEF Current
<1> DEFINE ended == {x \in Requests : x = waiting}
<1>3. ended \in SUBSET Promise!Outdated({})
  BY NoRequestAssumption DEF Promise!Outdated, ChannelInv, WaitingIsNewest
<1>4. outcome' = [x \in Requests |-> IF x \in ended THEN "superseded" ELSE outcome[x]]
  BY DEF Cancel, WaitingSuperseded
<1> HIDE DEF ended
<1>5. QED
  BY <1>2, <1>3, <1>4 DEF Promise!Cancel

LEMMA SettleSettles ==
  ASSUME ChannelInv, NEW r \in Requests, NEW how \in {"answered", "rejected"}, Settle(r, how)
  PROVE  Promise!Settle(r) \/ Promise!Supersede(r)
<1> DEFINE o == [outcome EXCEPT ![r] = IF ticket[r] = latest THEN how ELSE "superseded"]
<1>1. r \in engine /\ GoOn(r, o) /\ latest' = latest /\ ticket' = ticket
  BY DEF Settle
<1>2. outcome' = o
  BY <1>1, GoOnSends
<1>3. outcome[r] = "pending"
  BY <1>1 DEF ChannelInv, NothingForgotten
<1>4. \A q \in Requests : outcome'[q] = "unasked" <=> outcome[q] = "unasked"
  BY <1>2, <1>3 DEF ChannelInv, ChannelTypeOK
<1>5. Current' = Current
  BY <1>1, <1>4 DEF Current
<1>6. CASE ticket[r] = latest
  <2>1. r \in Current /\ outcome' = [outcome EXCEPT ![r] = how]
    BY <1>2, <1>3, <1>6 DEF Current
  <2>2. QED
    BY <1>3, <1>5, <2>1 DEF Promise!Settle
<1>7. CASE ticket[r] # latest
  <2>1. r \in Promise!Outdated(Current) /\ outcome' = [outcome EXCEPT ![r] = "superseded"]
    BY <1>2, <1>3, <1>7 DEF Promise!Outdated, Current
  <2>2. QED
    BY <1>5, <2>1 DEF Promise!Supersede
<1>8. QED
  BY <1>6, <1>7

\* The channel keeps its promise to its callers, for any requests and any
\* cancels: only the newest request is answered or rejected, and a request
\* that has ended stays ended.
THEOREM ChannelImplements == ChannelSpec => Implements
<1>1. ChannelInit => Promise!Init
  BY DEF ChannelInit, Promise!Init, Current
<1>2. ChannelInv /\ [ChannelNext]_channelVars => [Promise!Next]_<<Current, outcome>>
  <2> SUFFICES ASSUME ChannelInv, [ChannelNext]_channelVars PROVE [Promise!Next]_<<Current, outcome>>
    OBVIOUS
  <2>1. ASSUME NEW r \in Requests, Request(r) PROVE Promise!Next
    BY <2>1, RequestAsks DEF Promise!Next
  <2>2. ASSUME NEW r \in Requests, Answer(r) \/ Reject(r) PROVE Promise!Next
    BY <2>2, SettleSettles DEF Answer, Reject, Promise!Next
  <2>3. CASE Cancel
    BY <2>3, CancelCancels DEF Promise!Next
  <2>4. CASE UNCHANGED channelVars
    BY <2>4 DEF channelVars, Current
  <2>5. QED
    BY <2>1, <2>2, <2>3, <2>4 DEF ChannelNext
<1>3. QED
  BY <1>1, <1>2, ChannelInvHolds, PTL DEF ChannelSpec, Implements, Promise!Spec
============================================================================
