----------------------- MODULE DocumentRegistryProofs -----------------------
(***************************************************************************)
(* Proofs about DocumentRegistry: for any number of documents, engines,    *)
(* concurrent calls and engine losses, no handle ever has two owners, so   *)
(* none is freed twice and no free reaches another document's slot.        *)
(***************************************************************************)
EXTENDS DocumentRegistry, FiniteSetTheorems, TLAPS

Queues == [Engines -> Seq(Calls)]

(* The building blocks of an action keep the types of what they write.     *)

Tables == [Engines -> [Slots -> {Free} \cup [doc : Documents, edits : SUBSET Calls]]]
HotType == [Documents -> Slots \cup {Cold}]
TouchedType == [Documents -> Nat]
Texts == [Documents -> {NoText} \cup SUBSET Calls]
PinType == [Documents -> Int]
Edits == [Documents -> SUBSET Calls]

LEMMA AskType ==
  ASSUME TypeOK, NEW c \in Calls, NEW r \in CallRecord, NEW q \in Queues, Ask(c, r, q)
  PROVE  call' \in [Calls -> CallRecord] /\ queue' \in Queues
<1>1. EngineOf[r.subject] \in Engines
  BY EngineOfAssumption DEF CallRecord
<1>2. Append(q[EngineOf[r.subject]], c) \in Seq(Calls)
  BY <1>1 DEF Queues
<1>3. QED
  BY <1>1, <1>2 DEF Ask, TypeOK, Queues

LEMMA FinishType ==
  ASSUME TypeOK, NEW c \in Calls, NEW r \in CallRecord, NEW q \in Queues,
         NEW how \in Ended, Finish(c, r, q, how)
  PROVE  call' \in [Calls -> CallRecord] /\ queue' \in Queues
BY DEF Finish, TypeOK, CallRecord, Ended, Queues

LEMMA ReturnHandleType ==
  ASSUME TypeOK, NEW c \in Calls, NEW r \in CallRecord, NEW q \in Queues,
         ReturnHandle(c, r, q)
  PROVE  call' \in [Calls -> CallRecord] /\ queue' \in Queues
<1>1. CASE r.op \in {"edit", "optimize"}
           /\ Ask(c, [r EXCEPT !.at = "edit", !.subject = r.doc, !.target = r.handle], q)
  <2>1. [r EXCEPT !.at = "edit", !.subject = r.doc, !.target = r.handle] \in CallRecord
    BY DEF CallRecord, Pending
  <2>2. QED
    BY <1>1, <2>1, AskType
<1>2. CASE Finish(c, r, q, "done")
  BY <1>2, FinishType DEF Ended
<1>3. QED
  BY <1>1, <1>2 DEF ReturnHandle

LEMMA BeginParkType ==
  ASSUME TypeOK, NEW c \in Calls, NEW r \in CallRecord, NEW v \in Documents,
         NEW h \in HotType, NEW t \in TouchedType, NEW q \in Queues,
         BeginPark(c, r, v, h, t, q)
  PROVE  /\ call' \in [Calls -> CallRecord] /\ queue' \in Queues
         /\ hot' \in HotType /\ touched' \in TouchedType
<1>1. [r EXCEPT !.at = "parkText", !.subject = v, !.target = h[v]] \in CallRecord
  BY DEF CallRecord, Pending, HotType
<1>2. call' \in [Calls -> CallRecord] /\ queue' \in Queues
  BY <1>1, AskType DEF BeginPark
<1>3. hot' \in HotType /\ touched' \in TouchedType
  BY DEF BeginPark, HotType, TouchedType
<1>4. QED
  BY <1>2, <1>3

LEMMA EvictType ==
  ASSUME TypeOK, NEW c \in Calls, NEW r \in CallRecord,
         NEW h \in HotType, NEW t \in TouchedType, NEW p, NEW q \in Queues,
         EvictIfNeeded(c, r, h, t, p, q)
  PROVE  /\ call' \in [Calls -> CallRecord] /\ queue' \in Queues
         /\ hot' \in HotType /\ touched' \in TouchedType
<1>1. CASE \E v \in Documents : BeginPark(c, r, v, h, t, q)
  BY <1>1, BeginParkType
<1>2. CASE hot' = h /\ touched' = t /\ ReturnHandle(c, r, q)
  BY <1>2, ReturnHandleType
<1>3. QED
  BY <1>1, <1>2 DEF EvictIfNeeded

LEMMA QueueAfterType ==
  ASSUME TypeOK, NEW c \in Calls, NEW at, Answered(c, at)
  PROVE  QueueAfter(c) \in Queues
<1> DEFINE e == EngineOf[call[c].subject]
<1>1. e \in Engines
  BY EngineOfAssumption DEF TypeOK, CallRecord
<1>2. queue[e] \in Seq(Calls) /\ queue[e] # << >>
  BY <1>1 DEF TypeOK, Answered
<1>3. Tail(queue[e]) \in Seq(Calls)
  BY <1>2
<1>4. QED
  BY <1>1, <1>3 DEF QueueAfter, TypeOK, Queues

-----------------------------------------------------------------------------
(* Type correctness, one lemma per kind of step.                           *)

LEMMA StartedType ==
  ASSUME TypeOK, NEW c \in Calls, NEW op \in AllOps, NEW d \in Documents
  PROVE  Started(c, op, d) \in CallRecord
<1>1. call[c] \in CallRecord
  BY DEF TypeOK
<1>2. QED
  BY <1>1 DEF Started, CallRecord

\* What the clock, the pins and the texts are left as.
LEMMA RestType ==
  ASSUME TypeOK
  PROVE  /\ queue \in Queues /\ hot \in HotType /\ touched \in TouchedType
         /\ slots \in Tables /\ clock \in Nat /\ losses \in Nat
         /\ parked \in Texts /\ pins \in PinType /\ made \in Edits
         /\ call \in [Calls -> CallRecord]
BY DEF TypeOK, Queues, HotType, TouchedType, Tables, Texts, PinType, Edits

LEMMA RestTypeNext ==
  ASSUME queue' \in Queues, hot' \in HotType, touched' \in TouchedType,
         slots' \in Tables, clock' \in Nat, losses' \in Nat,
         parked' \in Texts, pins' \in PinType, made' \in Edits,
         call' \in [Calls -> CallRecord]
  PROVE  TypeOK'
BY DEF TypeOK, Queues, HotType, TouchedType, Tables, Texts, PinType, Edits

LEMMA AcquireKeepsTypes ==
  ASSUME TypeOK, NEW c \in Calls, NEW d \in Documents,
         NEW op \in {"open", "edit", "optimize"}, Acquire(c, op, d)
  PROVE  TypeOK'
<1> DEFINE r == Started(c, op, d)
           asked == [r EXCEPT !.at = IF parked[d] = NoText THEN "create" ELSE "hydrate",
                              !.text = IF parked[d] = NoText THEN {} ELSE parked[d]]
<1>1. r \in CallRecord
  BY StartedType DEF AllOps
<1>2. call' \in [Calls -> CallRecord] /\ queue' \in Queues
  <2>1. CASE ReturnHandle(c, [r EXCEPT !.handle = hot[d]], queue)
    <3>1. hot[d] \in Slots \cup {Cold}
      BY RestType DEF HotType
    <3>2. [r EXCEPT !.handle = hot[d]] \in CallRecord
      BY <1>1, <3>1 DEF CallRecord
    <3>3. QED
      BY <2>1, <3>2, RestType, ReturnHandleType
  <2>2. CASE Ask(c, asked, queue)
    <3>1. parked[d] \in {NoText} \cup SUBSET Calls
      BY RestType DEF Texts
    <3>2. asked \in CallRecord
      BY <1>1, <3>1 DEF CallRecord, Pending
    <3>3. QED
      BY <2>2, <3>2, RestType, AskType
  <2>3. QED
    BY <2>1, <2>2 DEF Acquire
<1>3. pins' \in PinType
  BY RestType DEF Acquire, PinType
<1>4. touched' \in TouchedType /\ clock' \in Nat
  BY RestType DEF Acquire, TouchedType
<1>5. UNCHANGED <<slots, hot, parked, made, losses>>
  BY DEF Acquire
<1>6. QED
  BY <1>2, <1>3, <1>4, <1>5, RestType, RestTypeNext

LEMMA ParkKeepsTypes ==
  ASSUME TypeOK, NEW c \in Calls, NEW d \in Documents, Park(c, d)
  PROVE  TypeOK'
<1>1. Started(c, "park", d) \in CallRecord
  BY StartedType DEF AllOps
<1>2. /\ call' \in [Calls -> CallRecord] /\ queue' \in Queues
      /\ hot' \in HotType /\ touched' \in TouchedType
  <2>1. CASE BeginPark(c, Started(c, "park", d), d, hot, touched, queue)
    BY <1>1, <2>1, RestType, BeginParkType
  <2>2. CASE Finish(c, Started(c, "park", d), queue, "done") /\ UNCHANGED <<hot, touched>>
    BY <1>1, <2>2, RestType, FinishType DEF Ended
  <2>3. QED
    BY <2>1, <2>2 DEF Park
<1>3. UNCHANGED <<slots, clock, parked, pins, made, losses>>
  BY DEF Park
<1>4. QED
  BY <1>2, <1>3, RestType, RestTypeNext

LEMMA SaveKeepsTypes ==
  ASSUME TypeOK, NEW c \in Calls, NEW d \in Documents, Save(c, d)
  PROVE  TypeOK'
<1> DEFINE r == Started(c, "save", d)
           asked == [r EXCEPT !.at = "saveText", !.target = hot[d]]
<1>1. r \in CallRecord /\ hot[d] \in Slots \cup {Cold}
  BY StartedType, RestType DEF AllOps, HotType
<1>2. asked \in CallRecord
  BY <1>1 DEF CallRecord, Pending
<1>3. call' \in [Calls -> CallRecord] /\ queue' \in Queues
  <2>1. CASE Ask(c, asked, queue)
    BY <1>2, <2>1, RestType, AskType
  <2>2. CASE Finish(c, r, queue, ColdSave(d))
    BY <1>1, <2>2, RestType, FinishType DEF Ended, ColdSave
  <2>3. QED
    BY <2>1, <2>2 DEF Save
<1>4. UNCHANGED <<slots, hot, touched, clock, parked, pins, made, losses>>
  BY DEF Save
<1>5. QED
  BY <1>3, <1>4, RestType, RestTypeNext

LEMMA ForgottenType ==
  ASSUME TypeOK, NEW r, Forgotten(r)
  PROVE  parked' \in Texts /\ made' \in Edits
BY RestType DEF Forgotten, Texts, Edits, TextAfterForget

LEMMA ForgetKeepsTypes ==
  ASSUME TypeOK, NEW c \in Calls, NEW d \in Documents,
         NEW op \in {"close", "load"}, Forget(c, op, d)
  PROVE  TypeOK'
<1> DEFINE r == Started(c, op, d)
           asked == [r EXCEPT !.at = "closeFree", !.target = hot[d]]
<1>1. r \in CallRecord /\ hot[d] \in Slots \cup {Cold}
  BY StartedType, RestType DEF AllOps, HotType
<1>2. asked \in CallRecord
  BY <1>1 DEF CallRecord, Pending
<1>3. UNCHANGED <<slots, clock, pins, losses>>
  BY DEF Forget
<1>4. CASE /\ hot' = [hot EXCEPT ![d] = Cold]
           /\ touched' = [touched EXCEPT ![d] = 0]
           /\ Ask(c, asked, queue)
           /\ UNCHANGED <<parked, made>>
  <2>1. call' \in [Calls -> CallRecord] /\ queue' \in Queues
    BY <1>2, <1>4, RestType, AskType
  <2>2. hot' \in HotType /\ touched' \in TouchedType
    BY <1>4, RestType DEF HotType, TouchedType
  <2>3. QED
    BY <1>3, <1>4, <2>1, <2>2, RestType, RestTypeNext
<1>5. CASE /\ Forgotten(r)
           /\ Finish(c, r, queue, "done")
           /\ UNCHANGED <<hot, touched>>
  <2>1. call' \in [Calls -> CallRecord] /\ queue' \in Queues
    BY <1>1, <1>5, RestType, FinishType DEF Ended
  <2>2. parked' \in Texts /\ made' \in Edits
    BY <1>5, ForgottenType
  <2>3. QED
    BY <1>3, <1>5, <2>1, <2>2, RestType, RestTypeNext
<1>6. QED
  BY <1>4, <1>5 DEF Forget

LEMMA NewKeepsTypes ==
  ASSUME TypeOK, NEW c \in Calls, NEW d \in Documents, New(c, d)
  PROVE  TypeOK'
<1>1. Started(c, "new", d) \in CallRecord
  BY StartedType DEF AllOps
<1>2. [Started(c, "new", d) EXCEPT !.at = "new"] \in CallRecord
  BY <1>1 DEF CallRecord, Pending
<1>3. call' \in [Calls -> CallRecord] /\ queue' \in Queues
  BY <1>2, RestType, AskType DEF New
<1>4. UNCHANGED <<slots, hot, touched, clock, parked, pins, made, losses>>
  BY DEF New
<1>5. QED
  BY <1>3, <1>4, RestType, RestTypeNext

LEMMA FreeSlotType ==
  ASSUME TypeOK, NEW c \in Calls, FreeSlot(c)
  PROVE  slots' \in Tables
BY DEF FreeSlot, TypeOK, Tables

LEMMA AllocateType ==
  ASSUME TypeOK, NEW e \in Engines, NEW s \in Slots, NEW d \in Documents,
         NEW content \in SUBSET Calls,
         slots' = [slots EXCEPT ![e][s] = [doc |-> d, edits |-> content]]
  PROVE  slots' \in Tables
BY DEF TypeOK, Tables

\* Everything an answer reads of its call.
LEMMA CallFields ==
  ASSUME TypeOK, NEW c \in Calls
  PROVE  /\ call[c] \in CallRecord
         /\ call[c].doc \in Documents /\ EngineOf[call[c].doc] \in Engines
         /\ call[c].subject \in Documents /\ EngineOf[call[c].subject] \in Engines
         /\ call[c].target \in Slots \cup {Cold} /\ call[c].text \in SUBSET Calls
BY EngineOfAssumption DEF TypeOK, CallRecord

LEMMA AnswerAcquireKeepsTypes ==
  ASSUME TypeOK, NEW c \in Calls, AnswerAcquire(c)
  PROVE  TypeOK'
<1> DEFINE r == call[c]
           e == EngineOf[r.doc]
<1>1. QueueAfter(c) \in Queues
  BY QueueAfterType DEF AnswerAcquire
<1>2. PICK s \in FirstFree(slots[e]) :
        /\ slots' = [slots EXCEPT ![e][s] = [doc |-> r.doc, edits |-> r.text]]
        /\ EvictIfNeeded(c, [r EXCEPT !.handle = s, !.text = {}],
                         [hot EXCEPT ![r.doc] = s],
                         [touched EXCEPT ![r.doc] = clock + 1], pins, QueueAfter(c))
  BY DEF AnswerAcquire
<1>3. s \in Slots /\ r \in CallRecord /\ r.doc \in Documents /\ e \in Engines /\ r.text \in SUBSET Calls
  BY CallFields DEF FirstFree
<1>4. [r EXCEPT !.handle = s, !.text = {}] \in CallRecord
  BY <1>3 DEF CallRecord
<1>5. hot \in HotType /\ touched \in TouchedType /\ clock \in Nat
  BY RestType
<1>6. [hot EXCEPT ![r.doc] = s] \in HotType /\ [touched EXCEPT ![r.doc] = clock + 1] \in TouchedType
  BY <1>3, <1>5 DEF HotType, TouchedType
<1>7. /\ call' \in [Calls -> CallRecord] /\ queue' \in Queues
      /\ hot' \in HotType /\ touched' \in TouchedType
  BY <1>1, <1>2, <1>4, <1>6, EvictType
<1>8. slots' \in Tables
  BY <1>2, <1>3, AllocateType
<1>9. clock' \in Nat /\ UNCHANGED <<parked, pins, made, losses>>
  BY <1>5 DEF AnswerAcquire
<1>10. QED
  BY <1>7, <1>8, <1>9, RestType, RestTypeNext

LEMMA UnpinType ==
  ASSUME TypeOK, NEW c \in Calls, Unpin(call[c])
  PROVE  pins' \in PinType
<1>1. call[c].doc \in Documents /\ pins \in PinType
  BY CallFields, RestType
<1>2. QED
  BY <1>1 DEF Unpin, PinType

LEMMA RefuseCallKeepsTypes ==
  ASSUME TypeOK, NEW c \in Calls, RefuseCall(c)
  PROVE  TypeOK'
<1>1. QueueAfter(c) \in Queues
  BY QueueAfterType DEF RefuseCall
<1>2. call' \in [Calls -> CallRecord] /\ queue' \in Queues
  BY <1>1, CallFields, FinishType DEF RefuseCall, Ended
<1>3. pins' \in PinType
  BY UnpinType DEF RefuseCall
<1>4. UNCHANGED <<slots, hot, touched, clock, parked, made, losses>>
  BY DEF RefuseCall
<1>5. QED
  BY <1>2, <1>3, <1>4, RestType, RestTypeNext

LEMMA AnswerNewKeepsTypes ==
  ASSUME TypeOK, NEW c \in Calls, AnswerNew(c)
  PROVE  TypeOK'
<1> DEFINE r == call[c]
           e == EngineOf[r.doc]
           old == hot[r.doc]
           q == QueueAfter(c)
<1>1. q \in Queues
  BY QueueAfterType DEF AnswerNew
<1>2. PICK s \in FirstFree(slots[e]) :
        LET h == [hot EXCEPT ![r.doc] = s]
            t == [touched EXCEPT ![r.doc] = clock + 1]
            adopted == [r EXCEPT !.handle = s]
        IN /\ slots' = [slots EXCEPT ![e][s] = [doc |-> r.doc, edits |-> {}]]
           /\ \/ /\ hot' = h
                 /\ touched' = t
                 /\ Ask(c, [adopted EXCEPT !.at = "adoptFree", !.subject = r.doc,
                                           !.target = old], q)
              \/ EvictIfNeeded(c, adopted, h, t, pins, q)
  BY DEF AnswerNew
<1> DEFINE h == [hot EXCEPT ![r.doc] = s]
           t == [touched EXCEPT ![r.doc] = clock + 1]
           adopted == [r EXCEPT !.handle = s]
           freeing == [adopted EXCEPT !.at = "adoptFree", !.subject = r.doc, !.target = old]
<1>3. s \in Slots /\ r \in CallRecord /\ r.doc \in Documents /\ e \in Engines
  BY CallFields DEF FirstFree
<1>4. hot \in HotType /\ touched \in TouchedType /\ clock \in Nat
  BY RestType
<1>5. h \in HotType /\ t \in TouchedType /\ old \in Slots \cup {Cold}
  BY <1>3, <1>4 DEF HotType, TouchedType
<1>6. adopted \in CallRecord
  BY <1>3 DEF CallRecord
<1>7. freeing \in CallRecord
  BY <1>3, <1>5, <1>6 DEF CallRecord, Pending
<1>8. /\ call' \in [Calls -> CallRecord] /\ queue' \in Queues
      /\ hot' \in HotType /\ touched' \in TouchedType
  <2>1. CASE hot' = h /\ touched' = t /\ Ask(c, freeing, q)
    <3> HIDE DEF freeing, h, t, q
    <3>1. QED
      BY <1>1, <1>5, <1>7, <2>1, AskType
  <2>2. CASE EvictIfNeeded(c, adopted, h, t, pins, q)
    <3> HIDE DEF adopted, h, t, q
    <3>1. QED
      BY <1>1, <1>5, <1>6, <2>2, EvictType
  <2>3. QED
    BY <1>2, <2>1, <2>2
<1>9. slots' \in Tables
  <2>1. slots' = [slots EXCEPT ![e][s] = [doc |-> r.doc, edits |-> {}]] /\ {} \in SUBSET Calls
    BY <1>2
  <2>2. QED
    BY <1>3, <2>1, AllocateType
<1>10. clock' \in Nat /\ UNCHANGED <<pins, losses>>
  BY <1>4 DEF AnswerNew
<1>11. parked' \in Texts /\ made' \in Edits
  BY RestType, <1>3 DEF AnswerNew, Texts, Edits
<1>12. QED
  BY <1>8, <1>9, <1>10, <1>11, RestType, RestTypeNext

LEMMA AnswerParkTextKeepsTypes ==
  ASSUME TypeOK, NEW c \in Calls, AnswerParkText(c)
  PROVE  TypeOK'
<1> DEFINE r == call[c]
<1>1. QueueAfter(c) \in Queues
  BY QueueAfterType DEF AnswerParkText
<1>2. r \in CallRecord /\ r.subject \in Documents
  BY CallFields
<1>3. [r EXCEPT !.at = "parkFree"] \in CallRecord
  BY <1>2 DEF CallRecord, Pending
<1>4. call' \in [Calls -> CallRecord] /\ queue' \in Queues
  BY <1>1, <1>3, AskType DEF AnswerParkText
<1>5. parked' \in Texts
  <2>1. CASE UNCHANGED parked
    BY <2>1, RestType
  <2>2. CASE Valid(c) /\ parked' = [parked EXCEPT ![r.subject] = SlotsOf(c)[r.target].edits]
    <3>1. r.target \in Slots /\ SlotsOf(c)[r.target] # Free
      BY <2>2 DEF Valid
    <3>2. SlotsOf(c)[r.target].edits \in SUBSET Calls
      BY <3>1, CallFields, RestType DEF SlotsOf, Tables
    <3>3. QED
      BY <1>2, <2>2, <3>2, RestType DEF Texts
  <2>3. QED
    BY <2>1, <2>2 DEF AnswerParkText
<1>6. UNCHANGED <<slots, hot, touched, clock, pins, made, losses>>
  BY DEF AnswerParkText
<1>7. QED
  BY <1>4, <1>5, <1>6, RestType, RestTypeNext

LEMMA AnswerParkFreeKeepsTypes ==
  ASSUME TypeOK, NEW c \in Calls, AnswerParkFree(c)
  PROVE  TypeOK'
<1> DEFINE r == call[c]
           parkedOne == [r EXCEPT !.subject = r.doc, !.target = Cold]
<1>1. QueueAfter(c) \in Queues
  BY QueueAfterType DEF AnswerParkFree
<1>2. r \in CallRecord
  BY CallFields
<1>3. parkedOne \in CallRecord
  BY <1>2 DEF CallRecord
<1>4. /\ call' \in [Calls -> CallRecord] /\ queue' \in Queues
      /\ hot' \in HotType /\ touched' \in TouchedType
  <2>1. CASE Finish(c, r, QueueAfter(c), "done") /\ UNCHANGED <<hot, touched>>
    BY <1>1, <1>2, <2>1, RestType, FinishType DEF Ended
  <2>2. CASE EvictIfNeeded(c, parkedOne, hot, touched, pins, QueueAfter(c))
    BY <1>1, <1>3, <2>2, RestType, EvictType
  <2>3. QED
    BY <2>1, <2>2 DEF AnswerParkFree
<1>5. slots' \in Tables /\ UNCHANGED <<clock, parked, pins, made, losses>>
  BY FreeSlotType DEF AnswerParkFree
<1>6. QED
  BY <1>4, <1>5, RestType, RestTypeNext

LEMMA AnswerAdoptFreeKeepsTypes ==
  ASSUME TypeOK, NEW c \in Calls, AnswerAdoptFree(c)
  PROVE  TypeOK'
<1>1. QueueAfter(c) \in Queues
  BY QueueAfterType DEF AnswerAdoptFree
<1>2. call[c] \in CallRecord
  BY CallFields
<1>3. [call[c] EXCEPT !.target = Cold] \in CallRecord
  BY <1>2 DEF CallRecord
<1>4. /\ call' \in [Calls -> CallRecord] /\ queue' \in Queues
      /\ hot' \in HotType /\ touched' \in TouchedType
  BY <1>1, <1>3, RestType, EvictType DEF AnswerAdoptFree
<1>5. slots' \in Tables /\ UNCHANGED <<clock, parked, pins, made, losses>>
  BY FreeSlotType DEF AnswerAdoptFree
<1>6. QED
  BY <1>4, <1>5, RestType, RestTypeNext

LEMMA AnswerCloseFreeKeepsTypes ==
  ASSUME TypeOK, NEW c \in Calls, AnswerCloseFree(c)
  PROVE  TypeOK'
<1>1. QueueAfter(c) \in Queues
  BY QueueAfterType DEF AnswerCloseFree
<1>2. call' \in [Calls -> CallRecord] /\ queue' \in Queues
  BY <1>1, CallFields, FinishType DEF AnswerCloseFree, Ended
<1>3. slots' \in Tables /\ UNCHANGED <<hot, touched, clock, pins, losses>>
  BY FreeSlotType DEF AnswerCloseFree
<1>4. parked' \in Texts /\ made' \in Edits
  BY CallFields, ForgottenType DEF AnswerCloseFree
<1>5. QED
  BY <1>2, <1>3, <1>4, RestType, RestTypeNext

\* A document with one edit more.
LEMMA OneEditMore ==
  ASSUME NEW x \in [doc : Documents, edits : SUBSET Calls], NEW c \in Calls
  PROVE  LET y == [x EXCEPT !.edits = @ \cup {c}] IN
         /\ y \in [doc : Documents, edits : SUBSET Calls] /\ y # Free
         /\ y.doc = x.doc /\ y.edits = x.edits \cup {c}
<1> DEFINE more == x.edits \cup {c}
           y == [x EXCEPT !.edits = more]
<1>1. more \in SUBSET Calls
  OBVIOUS
<1> HIDE DEF more
<1>2. y \in [doc : Documents, edits : SUBSET Calls] /\ y.doc = x.doc /\ y.edits = more
  BY <1>1
<1>3. y # Free
  BY <1>2, SentinelAssumption
<1> QED
  BY <1>2, <1>3 DEF more

LEMMA AnswerEditKeepsTypes ==
  ASSUME TypeOK, NEW c \in Calls, AnswerEdit(c)
  PROVE  TypeOK'
<1> DEFINE e == EngineOf[call[c].subject]
           t == call[c].target
<1>1. QueueAfter(c) \in Queues
  BY QueueAfterType DEF AnswerEdit
<1>2. call' \in [Calls -> CallRecord] /\ queue' \in Queues
  BY <1>1, CallFields, FinishType DEF AnswerEdit, Ended
<1>3. slots' \in Tables
  <2>1. t \in Slots /\ slots[e][t] # Free /\ e \in Engines
    BY CallFields DEF AnswerEdit, Valid, SlotsOf
  <2>2. slots \in Tables
    BY RestType
  <2>3. slots[e][t] \in [doc : Documents, edits : SUBSET Calls]
    BY <2>1, <2>2 DEF Tables
  <2> DEFINE written == [slots[e][t] EXCEPT !.edits = @ \cup {c}]
  <2>4. written \in [doc : Documents, edits : SUBSET Calls]
    BY <2>3, OneEditMore
  <2>5. slots' = [slots EXCEPT ![e] = [slots[e] EXCEPT ![t] = written]]
    BY DEF AnswerEdit
  <2> HIDE DEF written
  <2>6. QED
    BY <2>1, <2>2, <2>4, <2>5 DEF Tables
<1>4. made' \in Edits
  BY RestType DEF AnswerEdit, Edits
<1>5. pins' \in PinType
  BY UnpinType DEF AnswerEdit
<1>6. UNCHANGED <<hot, touched, clock, parked, losses>>
  BY Zenon DEF AnswerEdit
<1>7. QED
  BY <1>2, <1>3, <1>4, <1>5, <1>6, RestType, RestTypeNext

LEMMA AnswerSaveKeepsTypes ==
  ASSUME TypeOK, NEW c \in Calls, AnswerSave(c)
  PROVE  TypeOK'
<1>1. QueueAfter(c) \in Queues
  BY QueueAfterType DEF AnswerSave
<1>2. call' \in [Calls -> CallRecord] /\ queue' \in Queues
  BY <1>1, CallFields, FinishType DEF AnswerSave, Ended
<1>3. UNCHANGED <<slots, hot, touched, clock, parked, pins, made, losses>>
  BY DEF AnswerSave
<1>4. QED
  BY <1>2, <1>3, RestType, RestTypeNext

LEMMA EngineLostKeepsTypes ==
  ASSUME TypeOK, NEW e \in Engines, EngineLost(e)
  PROVE  TypeOK'
<1>1. slots' \in Tables /\ queue' \in Queues
  BY RestType DEF EngineLost, Tables, Queues
<1>2. hot' \in HotType /\ touched' \in TouchedType
  BY RestType DEF EngineLost, WithoutEngine, HotType, TouchedType
<1>3. call' \in [Calls -> CallRecord]
  <2>1. ASSUME NEW c \in Calls
        PROVE  [call[c] EXCEPT !.at = "hung"] \in CallRecord /\ call[c] \in CallRecord
    <3>1. call[c] \in CallRecord
      BY CallFields
    <3>2. QED
      BY <3>1 DEF CallRecord, Ended
  <2>2. QED
    BY <2>1 DEF EngineLost
<1>4. losses' \in Nat /\ UNCHANGED <<clock, parked, pins, made>>
  BY RestType DEF EngineLost
<1>5. QED
  BY <1>1, <1>2, <1>3, <1>4, RestType, RestTypeNext

-----------------------------------------------------------------------------
LEMMA InitTypes == Init => TypeOK
<1> SUFFICES ASSUME Init PROVE TypeOK
  OBVIOUS
<1>1. (CHOOSE d \in Documents : TRUE) \in Documents
  BY DocumentsAssumption
<1>2. Unused \in CallRecord
  BY <1>1 DEF Unused, CallRecord
<1>3. call \in [Calls -> CallRecord]
  BY <1>2 DEF Init
<1>4. QED
  BY <1>3 DEF Init, TypeOK

LEMMA NextKeepsTypes == TypeOK /\ [Next]_vars => TypeOK'
<1> SUFFICES ASSUME TypeOK, [Next]_vars PROVE TypeOK'
  OBVIOUS
<1>1. ASSUME NEW c \in Calls, NEW d \in Documents, Begin(c, d) PROVE TypeOK'
  BY <1>1, AcquireKeepsTypes, ParkKeepsTypes, SaveKeepsTypes, ForgetKeepsTypes,
     NewKeepsTypes DEF Begin
<1>2. ASSUME NEW c \in Calls, Answer(c) PROVE TypeOK'
  BY <1>2, AnswerAcquireKeepsTypes, RefuseCallKeepsTypes, AnswerNewKeepsTypes,
     AnswerParkTextKeepsTypes, AnswerParkFreeKeepsTypes, AnswerAdoptFreeKeepsTypes,
     AnswerCloseFreeKeepsTypes, AnswerEditKeepsTypes, AnswerSaveKeepsTypes DEF Answer
<1>3. CASE UNCHANGED vars
  BY <1>3 DEF vars, TypeOK
<1>4. QED
  BY <1>1, <1>2, <1>3, EngineLostKeepsTypes DEF Next

\* Every variable keeps its type, whatever the interleaving of calls, answers
\* and engine losses (documentRegistry.ts, engineHost.ts).
THEOREM TypeCorrect == Spec => []TypeOK
BY InitTypes, NextKeepsTypes, PTL DEF Spec

----------------------------------------------------------------------------
(***************************************************************************)
(* Who owns a handle: for any number of documents, engines, concurrent     *)
(* calls and engine losses, every handle the registry holds or is about to *)
(* free is a live slot of its own document, and belongs to one owner.      *)
(*                                                                         *)
(* An action of a call first lets go of what the call was freeing (the     *)
(* slot is freed, or it was freeing nothing), may allocate a slot, and     *)
(* ends by awaiting something or returning.  OwnedBut(c, s, h) is what     *)
(* holds between those two halves: ownership in the slot tables s and the  *)
(* hot set h, with c freeing nothing.                                      *)
(***************************************************************************)

\* Handle i of document d is live in the tables s.
Live(s, d, i) == s[EngineOf[d]][i] # Free /\ s[EngineOf[d]][i].doc = d

OwnedBut(c, s, h) ==
  /\ \A d \in Documents : h[d] # Cold => Live(s, d, h[d])
  /\ \A k \in Calls : k # c /\ Dying(k) =>
       /\ call[k].target # Cold
       /\ Live(s, call[k].subject, call[k].target)
  /\ \A k \in Calls, d \in Documents :
       k # c /\ Dying(k) /\ EngineOf[d] = EngineOf[call[k].subject] => h[d] # call[k].target
  /\ \A k1, k2 \in Calls :
       k1 # c /\ k2 # c /\ k1 # k2 /\ Dying(k1) /\ Dying(k2)
         /\ EngineOf[call[k1].subject] = EngineOf[call[k2].subject]
           => call[k1].target # call[k2].target

Ownership == OwnedHandlesLive /\ HandlesOwnedOnce
OwnershipInv == TypeOK /\ Ownership

DyingAt == {"parkText", "parkFree", "adoptFree", "closeFree"}

(* The two halves.                                                         *)

LEMMA LetGo ==
  ASSUME OwnershipInv, NEW c \in Calls
  PROVE  OwnedBut(c, slots, hot)
<1>1. \A d \in Documents : hot[d] # Cold => Live(slots, d, hot[d])
  BY DEF OwnershipInv, Ownership, OwnedHandlesLive, Live
<1>2. \A k \in Calls : Dying(k) =>
        call[k].target # Cold /\ Live(slots, call[k].subject, call[k].target)
  BY DEF OwnershipInv, Ownership, OwnedHandlesLive, Live, SlotsOf
<1>3. QED
  BY <1>1, <1>2 DEF OwnershipInv, Ownership, HandlesOwnedOnce, OwnedBut

\* The call goes on to await something it will not free, or returns.
LEMMA EndNotFreeing ==
  ASSUME TypeOK, NEW c \in Calls, NEW r, OwnedBut(c, slots', hot'),
         call' = [call EXCEPT ![c] = r], r.at \notin DyingAt
  PROVE  Ownership'
<1>1. ~ Dying(c)'
  BY DEF TypeOK, Dying, DyingAt
<1>2. \A k \in Calls : k # c => call'[k] = call[k]
  BY DEF TypeOK
<1>3. \A k \in Calls : Dying(k)' => k # c /\ Dying(k) /\ call'[k] = call[k]
  BY <1>1, <1>2 DEF Dying
<1>4. OwnedHandlesLive'
  BY <1>3 DEF OwnedBut, OwnedHandlesLive, Live, SlotsOf
<1>5. HandlesOwnedOnce'
  BY <1>3 DEF OwnedBut, HandlesOwnedOnce
<1>6. QED
  BY <1>4, <1>5 DEF Ownership

\* Or it takes a handle that is live and that nothing else owns, to free it.
LEMMA EndFreeing ==
  ASSUME TypeOK, NEW c \in Calls, NEW r, r.subject \in Documents,
         OwnedBut(c, slots', hot'), r.target # Cold, Live(slots', r.subject, r.target),
         \A d \in Documents : EngineOf[d] = EngineOf[r.subject] => hot'[d] # r.target,
         \A k \in Calls : k # c /\ Dying(k) /\ EngineOf[call[k].subject] = EngineOf[r.subject]
                            => call[k].target # r.target,
         call' = [call EXCEPT ![c] = r], r.at \in DyingAt
  PROVE  Ownership'
<1>1. call'[c] = r /\ \A k \in Calls : k # c => call'[k] = call[k]
  BY DEF TypeOK
<1>2. \A k \in Calls : k # c => (Dying(k)' <=> Dying(k))
  BY <1>1 DEF Dying
<1>3. OwnedHandlesLive'
  <2>1. \A k \in Calls : Dying(k)' =>
          call'[k].target # Cold /\ Live(slots', call'[k].subject, call'[k].target)
    BY <1>1, <1>2 DEF OwnedBut
  <2>2. QED
    BY <2>1, Zenon DEF OwnedBut, OwnedHandlesLive, Live, SlotsOf
<1>4. HandlesOwnedOnce'
  <2>1. ASSUME NEW k \in Calls, NEW d \in Documents, Dying(k)',
               EngineOf[d] = EngineOf[call'[k].subject]
        PROVE  hot'[d] # call'[k].target
    BY <1>1, <1>2, <2>1 DEF OwnedBut
  <2>2. ASSUME NEW k1 \in Calls, NEW k2 \in Calls, k1 # k2, Dying(k1)', Dying(k2)',
               EngineOf[call'[k1].subject] = EngineOf[call'[k2].subject]
        PROVE  call'[k1].target # call'[k2].target
    <3>1. CASE k1 # c /\ k2 # c
      BY <1>1, <1>2, <2>2, <3>1 DEF OwnedBut
    <3>2. CASE k1 = c \/ k2 = c
      BY <1>1, <1>2, <2>2, <3>2
    <3>3. QED
      BY <3>1, <3>2
  <2>3. QED
    BY <2>1, <2>2 DEF HandlesOwnedOnce
<1>5. QED
  BY <1>3, <1>4 DEF Ownership

\* The handle of a hot document, taken out of the registry, is such a handle.
LEMMA TakeHot ==
  ASSUME TypeOK, NEW c \in Calls, NEW s, NEW v \in Documents, NEW h \in HotType,
         OwnedBut(c, s, h), h[v] # Cold
  PROVE  /\ OwnedBut(c, s, [h EXCEPT ![v] = Cold])
         /\ Live(s, v, h[v])
         /\ \A d \in Documents : d # v /\ EngineOf[d] = EngineOf[v] => h[d] # h[v]
         /\ \A k \in Calls : k # c /\ Dying(k) /\ EngineOf[call[k].subject] = EngineOf[v]
                               => call[k].target # h[v]
<1> DEFINE n == [h EXCEPT ![v] = Cold]
<1>1. n[v] = Cold /\ \A d \in Documents : d # v => n[d] = h[d]
  BY DEF HotType
<1>2. OwnedBut(c, s, n)
  <2> HIDE DEF n
  <2>1. QED
    BY <1>1 DEF OwnedBut
<1>3. Live(s, v, h[v]) /\ \A d \in Documents : h[d] # Cold => Live(s, d, h[d])
  BY DEF OwnedBut
<1>4. \A d \in Documents : d # v /\ EngineOf[d] = EngineOf[v] => h[d] # h[v]
  BY <1>3 DEF Live
<1>5. QED
  BY <1>2, <1>3, <1>4 DEF OwnedBut

LEMMA EndFreeingHot ==
  ASSUME TypeOK, NEW c \in Calls, NEW r, NEW v \in Documents, NEW h \in HotType,
         OwnedBut(c, slots', h), h[v] # Cold,
         hot' = [h EXCEPT ![v] = Cold],
         call' = [call EXCEPT ![c] = r],
         r.at \in DyingAt, r.subject = v, r.target = h[v]
  PROVE  Ownership'
<1>1. hot'[v] = Cold /\ \A d \in Documents : d # v => hot'[d] = h[d]
  BY DEF HotType
<1>2. \A d \in Documents : EngineOf[d] = EngineOf[v] => hot'[d] # h[v]
  BY <1>1, TakeHot
<1>3. /\ OwnedBut(c, slots', hot')
      /\ Live(slots', v, h[v])
      /\ \A k \in Calls : k # c /\ Dying(k) /\ EngineOf[call[k].subject] = EngineOf[v]
                            => call[k].target # h[v]
  BY TakeHot
<1>4. /\ Live(slots', r.subject, r.target) /\ r.target # Cold /\ r.subject \in Documents
      /\ \A d \in Documents : EngineOf[d] = EngineOf[r.subject] => hot'[d] # r.target
      /\ \A k \in Calls : k # c /\ Dying(k) /\ EngineOf[call[k].subject] = EngineOf[r.subject]
                            => call[k].target # r.target
  BY <1>2, <1>3
<1>5. QED
  BY <1>3, <1>4, EndFreeing

(* How an action ends.                                                     *)

LEMMA AskNotFreeing ==
  ASSUME TypeOK, NEW c \in Calls, NEW r, NEW q, OwnedBut(c, slots', hot'),
         Ask(c, r, q), r.at \notin DyingAt
  PROVE  Ownership'
BY EndNotFreeing DEF Ask

LEMMA FinishFrees ==
  ASSUME TypeOK, NEW c \in Calls, NEW r \in CallRecord, NEW q, NEW how \in Ended,
         OwnedBut(c, slots', hot'), Finish(c, r, q, how)
  PROVE  Ownership'
<1> DEFINE settled == [r EXCEPT !.at = how, !.handle = Cold, !.subject = r.doc,
                               !.target = Cold, !.text = {}]
<1>1. settled.at = how
  BY DEF CallRecord
<1>2. settled.at \notin DyingAt
  BY <1>1 DEF Ended, DyingAt
<1>3. call' = [call EXCEPT ![c] = settled]
  BY DEF Finish
<1> HIDE DEF settled
<1>4. QED
  BY <1>2, <1>3, EndNotFreeing

LEMMA ReturnFrees ==
  ASSUME TypeOK, NEW c \in Calls, NEW r \in CallRecord, NEW q,
         OwnedBut(c, slots', hot'), ReturnHandle(c, r, q)
  PROVE  Ownership'
<1> DEFINE working == [r EXCEPT !.at = "edit", !.subject = r.doc, !.target = r.handle]
<1>1. CASE Ask(c, working, q)
  <2>1. working.at = "edit"
    BY DEF CallRecord
  <2>2. working.at \notin DyingAt
    BY <2>1 DEF DyingAt
  <2> HIDE DEF working
  <2>3. QED
    BY <1>1, <2>2, AskNotFreeing
<1>2. CASE Finish(c, r, q, "done")
  BY <1>2, FinishFrees DEF Ended
<1>3. QED
  BY <1>1, <1>2 DEF ReturnHandle

LEMMA BeginParkFrees ==
  ASSUME TypeOK, NEW c \in Calls, NEW r \in CallRecord, NEW v \in Documents,
         NEW h \in HotType, NEW t, NEW q,
         OwnedBut(c, slots', h), h[v] # Cold, BeginPark(c, r, v, h, t, q)
  PROVE  Ownership'
<1> DEFINE parking == [r EXCEPT !.at = "parkText", !.subject = v, !.target = h[v]]
<1>1. parking.at = "parkText" /\ parking.subject = v /\ parking.target = h[v]
  BY DEF CallRecord
<1>2. parking.at \in DyingAt
  BY <1>1 DEF DyingAt
<1>3. hot' = [h EXCEPT ![v] = Cold] /\ call' = [call EXCEPT ![c] = parking]
  BY DEF BeginPark, Ask
<1> HIDE DEF parking
<1>4. QED
  BY <1>1, <1>2, <1>3, EndFreeingHot

LEMMA EvictFrees ==
  ASSUME TypeOK, NEW c \in Calls, NEW r \in CallRecord, NEW h \in HotType,
         NEW t, NEW p, NEW q, OwnedBut(c, slots', h), EvictIfNeeded(c, r, h, t, p, q)
  PROVE  Ownership'
<1>1. ASSUME NEW v \in Documents, LeastRecent(v, Evictable(h, p, r.doc), t),
             BeginPark(c, r, v, h, t, q)
      PROVE  Ownership'
  <2>1. h[v] # Cold
    BY <1>1 DEF LeastRecent, Evictable
  <2>2. QED
    BY <1>1, <2>1, BeginParkFrees
<1>2. CASE hot' = h /\ ReturnHandle(c, r, q)
  BY <1>2, ReturnFrees
<1>3. QED
  BY <1>1, <1>2 DEF EvictIfNeeded

(* What an action did to the slots before it ended.                        *)

LEMMA AllocateOwns ==
  ASSUME TypeOK, NEW c \in Calls, NEW d \in Documents, NEW i \in FirstFree(slots[EngineOf[d]]),
         NEW content \in SUBSET Calls, NEW h \in HotType,
         OwnedBut(c, slots, h),
         slots' = [slots EXCEPT ![EngineOf[d]][i] = [doc |-> d, edits |-> content]]
  PROVE  OwnedBut(c, slots', [h EXCEPT ![d] = i])
<1> DEFINE n == [h EXCEPT ![d] = i]
           e == EngineOf[d]
<1>1. i \in Slots /\ slots[e][i] = Free /\ i # Cold /\ e \in Engines
  BY SentinelAssumption, EngineOfAssumption DEF FirstFree
<1>2. /\ slots'[e][i] = [doc |-> d, edits |-> content]
      /\ \A x \in Engines, j \in Slots : x # e \/ j # i => slots'[x][j] = slots[x][j]
  BY <1>1 DEF TypeOK
<1>3. [doc |-> d, edits |-> content] # Free
  BY SentinelAssumption
<1>4. Live(slots', d, i)
  BY <1>2, <1>3 DEF Live
<1>5. ASSUME NEW x \in Documents, NEW j \in Slots, Live(slots, x, j)
      PROVE  Live(slots', x, j) /\ (EngineOf[x] # e \/ j # i)
  BY <1>1, <1>2, <1>5, EngineOfAssumption DEF Live
<1>6. n[d] = i /\ \A x \in Documents : x # d => n[x] = h[x]
  BY DEF HotType
<1>7. \A x \in Documents : n[x] # Cold => Live(slots', x, n[x])
  BY <1>4, <1>5, <1>6 DEF OwnedBut, HotType
<1>8. \A k \in Calls : k # c /\ Dying(k) =>
        /\ call[k].target # Cold
        /\ Live(slots', call[k].subject, call[k].target)
        /\ EngineOf[call[k].subject] # e \/ call[k].target # i
  BY <1>5, CallFields DEF OwnedBut
<1>9. \A k \in Calls, x \in Documents :
        k # c /\ Dying(k) /\ EngineOf[x] = EngineOf[call[k].subject] => n[x] # call[k].target
  BY <1>6, <1>8 DEF OwnedBut
<1> HIDE DEF n
<1>10. QED
  BY <1>7, <1>8, <1>9 DEF OwnedBut, n

LEMMA FreeOwns ==
  ASSUME OwnershipInv, NEW c \in Calls, Dying(c), FreeSlot(c)
  PROVE  OwnedBut(c, slots', hot)
<1> DEFINE e == EngineOf[call[c].subject]
           i == call[c].target
<1>1. TypeOK /\ OwnedBut(c, slots, hot)
  BY LetGo DEF OwnershipInv
<1>2. \A x \in Engines, j \in Slots : x # e \/ j # i => slots'[x][j] = slots[x][j]
  BY <1>1, CallFields DEF FreeSlot, TypeOK
<1>3. ASSUME NEW d \in Documents, hot[d] # Cold
      PROVE  Live(slots', d, hot[d])
  <2>1. EngineOf[d] # e \/ hot[d] # i
    BY DEF OwnershipInv, Ownership, HandlesOwnedOnce
  <2>2. Live(slots, d, hot[d]) /\ hot[d] \in Slots /\ EngineOf[d] \in Engines
    BY <1>1, <1>3, EngineOfAssumption DEF OwnedBut, TypeOK
  <2>3. QED
    BY <1>2, <2>1, <2>2 DEF Live
<1>4. ASSUME NEW k \in Calls, k # c, Dying(k)
      PROVE  call[k].target # Cold /\ Live(slots', call[k].subject, call[k].target)
  <2>1. EngineOf[call[k].subject] # e \/ call[k].target # i
    BY <1>4 DEF OwnershipInv, Ownership, HandlesOwnedOnce
  <2>2. call[k].target # Cold /\ Live(slots, call[k].subject, call[k].target)
    BY <1>1, <1>4 DEF OwnedBut
  <2>3. call[k].target \in Slots /\ EngineOf[call[k].subject] \in Engines
    BY <1>1, <2>2, CallFields
  <2>4. QED
    BY <1>2, <2>1, <2>2, <2>3 DEF Live
<1>5. QED
  BY <1>1, <1>3, <1>4 DEF OwnedBut

-----------------------------------------------------------------------------
(* Every step keeps ownership.                                             *)

\* Starting a call keeps the slots and what the other calls own.
LEMMA BeginKeepsOwnership ==
  ASSUME OwnershipInv, NEW c \in Calls, NEW d \in Documents, Begin(c, d)
  PROVE  Ownership'
<1>0. TypeOK /\ OwnedBut(c, slots, hot) /\ hot \in HotType
  BY LetGo, RestType DEF OwnershipInv
<1>1. ASSUME NEW op \in {"open", "edit", "optimize"}, Acquire(c, op, d)
      PROVE  Ownership'
  <2> DEFINE r == Started(c, op, d)
             asked == [r EXCEPT !.at = IF parked[d] = NoText THEN "create" ELSE "hydrate",
                                !.text = IF parked[d] = NoText THEN {} ELSE parked[d]]
  <2>1. OwnedBut(c, slots', hot')
    BY <1>0, <1>1 DEF Acquire
  <2>2. r \in CallRecord
    BY <1>0, StartedType DEF AllOps
  <2>3. CASE ReturnHandle(c, [r EXCEPT !.handle = hot[d]], queue)
    <3>1. hot[d] \in Slots \cup {Cold}
      BY <1>0 DEF HotType
    <3>2. [r EXCEPT !.handle = hot[d]] \in CallRecord
      BY <2>2, <3>1 DEF CallRecord
    <3>3. QED
      BY <1>0, <2>1, <2>3, <3>2, ReturnFrees
  <2>4. CASE Ask(c, asked, queue)
    <3>1. asked.at \in {"create", "hydrate"}
      BY <2>2 DEF CallRecord
    <3>2. asked.at \notin DyingAt
      BY <3>1 DEF DyingAt
    <3> HIDE DEF asked
    <3>3. QED
      BY <1>0, <2>1, <2>4, <3>2, AskNotFreeing
  <2>5. QED
    BY <1>1, <2>3, <2>4 DEF Acquire
<1>2. CASE Park(c, d)
  <2>1. Started(c, "park", d) \in CallRecord /\ slots' = slots
    BY <1>0, <1>2, StartedType DEF AllOps, Park
  <2>2. CASE hot[d] # Cold /\ BeginPark(c, Started(c, "park", d), d, hot, touched, queue)
    BY <1>0, <2>1, <2>2, BeginParkFrees
  <2>3. CASE Finish(c, Started(c, "park", d), queue, "done") /\ UNCHANGED <<hot, touched>>
    BY <1>0, <2>1, <2>3, FinishFrees DEF Ended
  <2>4. QED
    BY <1>2, <2>2, <2>3 DEF Park
<1>3. CASE Save(c, d)
  <2> DEFINE r == Started(c, "save", d)
             asked == [r EXCEPT !.at = "saveText", !.target = hot[d]]
  <2>1. OwnedBut(c, slots', hot')
    BY <1>0, <1>3 DEF Save
  <2>2. r \in CallRecord
    BY <1>0, StartedType DEF AllOps
  <2>3. CASE Ask(c, asked, queue)
    <3>1. asked.at = "saveText"
      BY <2>2 DEF CallRecord
    <3>2. asked.at \notin DyingAt
      BY <3>1 DEF DyingAt
    <3> HIDE DEF asked
    <3>3. QED
      BY <1>0, <2>1, <2>3, <3>2, AskNotFreeing
  <2>4. CASE Finish(c, r, queue, ColdSave(d))
    BY <1>0, <2>1, <2>2, <2>4, FinishFrees DEF Ended, ColdSave
  <2>5. QED
    BY <1>3, <2>3, <2>4 DEF Save
<1>4. ASSUME NEW op \in {"close", "load"}, Forget(c, op, d)
      PROVE  Ownership'
  <2> DEFINE r == Started(c, op, d)
             asked == [r EXCEPT !.at = "closeFree", !.target = hot[d]]
  <2>1. r \in CallRecord /\ slots' = slots
    BY <1>0, <1>4, StartedType DEF AllOps, Forget
  <2>2. CASE hot[d] # Cold /\ hot' = [hot EXCEPT ![d] = Cold] /\ Ask(c, asked, queue)
    <3>1. asked.at = "closeFree" /\ asked.subject = d /\ asked.target = hot[d]
      BY <1>0, <2>1 DEF CallRecord, Started, TypeOK
    <3>2. asked.at \in DyingAt /\ call' = [call EXCEPT ![c] = asked]
      BY <2>2, <3>1 DEF DyingAt, Ask
    <3> HIDE DEF asked
    <3>3. QED
      BY <1>0, <2>1, <2>2, <3>1, <3>2, EndFreeingHot
  <2>3. CASE Finish(c, r, queue, "done") /\ UNCHANGED <<hot, touched>>
    BY <1>0, <2>1, <2>3, FinishFrees DEF Ended
  <2>4. QED
    BY <1>4, <2>2, <2>3 DEF Forget
<1>5. CASE New(c, d)
  <2> DEFINE asked == [Started(c, "new", d) EXCEPT !.at = "new"]
  <2>1. OwnedBut(c, slots', hot') /\ Ask(c, asked, queue)
    BY <1>0, <1>5 DEF New
  <2>2. Started(c, "new", d) \in CallRecord
    BY <1>0, StartedType DEF AllOps
  <2>3. asked.at = "new"
    BY <2>2 DEF CallRecord
  <2>4. asked.at \notin DyingAt
    BY <2>3 DEF DyingAt
  <2> HIDE DEF asked
  <2>5. QED
    BY <1>0, <2>1, <2>4, AskNotFreeing
<1>6. QED
  BY <1>1, <1>2, <1>3, <1>4, <1>5 DEF Begin

\* Every way an answer resumes its call: the slots may change, and then the
\* call evicts, returns or awaits something it does not free.
LEMMA AllocatingAnswersKeepOwnership ==
  ASSUME OwnershipInv, NEW c \in Calls, AnswerAcquire(c) \/ AnswerNew(c)
  PROVE  Ownership'
<1> DEFINE r == call[c]
           e == EngineOf[r.doc]
           old == hot[r.doc]
<1>1. TypeOK /\ OwnedBut(c, slots, hot) /\ hot \in HotType
  BY LetGo, RestType DEF OwnershipInv
<1>2. r \in CallRecord /\ r.doc \in Documents /\ r.text \in SUBSET Calls /\ e \in Engines
  BY <1>1, CallFields
<1>3. CASE AnswerAcquire(c)
  <2>1. PICK s \in FirstFree(slots[e]) :
          /\ slots' = [slots EXCEPT ![e][s] = [doc |-> r.doc, edits |-> r.text]]
          /\ EvictIfNeeded(c, [r EXCEPT !.handle = s, !.text = {}],
                           [hot EXCEPT ![r.doc] = s],
                           [touched EXCEPT ![r.doc] = clock + 1], pins, QueueAfter(c))
    BY <1>3, Zenon DEF AnswerAcquire
  <2>2. s \in Slots
    BY DEF FirstFree
  <2>3. [r EXCEPT !.handle = s, !.text = {}] \in CallRecord
    BY <1>2, <2>2 DEF CallRecord
  <2>4. [hot EXCEPT ![r.doc] = s] \in HotType
    BY <1>1, <2>2 DEF HotType
  <2>5. OwnedBut(c, slots', [hot EXCEPT ![r.doc] = s])
    BY <1>1, <1>2, <2>1, AllocateOwns
  <2>6. QED
    BY <1>1, <2>1, <2>3, <2>4, <2>5, EvictFrees, Zenon
<1>4. CASE AnswerNew(c)
  <2>1. PICK s \in FirstFree(slots[e]) :
          LET h == [hot EXCEPT ![r.doc] = s]
              t == [touched EXCEPT ![r.doc] = clock + 1]
              adopted == [r EXCEPT !.handle = s]
          IN /\ slots' = [slots EXCEPT ![e][s] = [doc |-> r.doc, edits |-> {}]]
             /\ \/ /\ old # Cold
                   /\ hot' = h
                   /\ Ask(c, [adopted EXCEPT !.at = "adoptFree", !.subject = r.doc,
                                             !.target = old], QueueAfter(c))
                \/ EvictIfNeeded(c, adopted, h, t, pins, QueueAfter(c))
    BY <1>4, Zenon DEF AnswerNew
  <2> DEFINE h == [hot EXCEPT ![r.doc] = s]
             adopted == [r EXCEPT !.handle = s]
             freeing == [adopted EXCEPT !.at = "adoptFree", !.subject = r.doc, !.target = old]
  <2>2. s \in Slots /\ slots[e][s] = Free
    BY DEF FirstFree
  <2>3. h \in HotType
    BY <1>1, <2>2 DEF HotType
  <2>4. adopted \in CallRecord
    BY <1>2, <2>2 DEF CallRecord
  <2>5. slots' = [slots EXCEPT ![e][s] = [doc |-> r.doc, edits |-> {}]] /\ {} \in SUBSET Calls
    BY <2>1
  <2>6. OwnedBut(c, slots', h)
    BY <1>1, <1>2, <2>5, AllocateOwns
  <2>7. ASSUME old # Cold, hot' = h, Ask(c, freeing, QueueAfter(c))
        PROVE  Ownership'
    <3>1. PICK w : /\ w.at = "adoptFree" /\ w.subject = r.doc /\ w.target = old
                   /\ call' = [call EXCEPT ![c] = w]
      BY <2>4, <2>7 DEF CallRecord, Ask
    <3>2. w.at \in DyingAt
      BY <3>1 DEF DyingAt
    <3>3. /\ Live(slots, r.doc, old)
          /\ \A d \in Documents : d # r.doc /\ EngineOf[d] = e => hot[d] # old
          /\ \A k \in Calls : k # c /\ Dying(k) /\ EngineOf[call[k].subject] = e
                                => call[k].target # old
      BY <1>1, <1>2, <2>7, TakeHot
    <3>4. old \in Slots /\ old # s
      BY <1>1, <1>2, <2>2, <2>7, <3>3 DEF Live, HotType
    <3>5. slots'[e][old] = slots[e][old]
      BY <1>1, <1>2, <2>2, <2>5, <3>4 DEF TypeOK
    <3>6. Live(slots', r.doc, old)
      BY <3>3, <3>5 DEF Live
    <3>7. \A d \in Documents : EngineOf[d] = e => hot'[d] # old
      BY <1>1, <2>7, <3>3, <3>4 DEF HotType
    <3>8. OwnedBut(c, slots', hot')
      BY <2>6, <2>7
    <3>9. /\ Live(slots', w.subject, w.target) /\ w.target # Cold /\ w.subject \in Documents
          /\ \A d \in Documents : EngineOf[d] = EngineOf[w.subject] => hot'[d] # w.target
          /\ \A k \in Calls : k # c /\ Dying(k) /\ EngineOf[call[k].subject] = EngineOf[w.subject]
                                => call[k].target # w.target
      BY <1>2, <2>7, <3>1, <3>3, <3>6, <3>7
    <3>10. QED
      BY <1>1, <3>1, <3>2, <3>8, <3>9, EndFreeing
  <2>8. ASSUME NEW t, EvictIfNeeded(c, adopted, h, t, pins, QueueAfter(c))
        PROVE  Ownership'
    <3> HIDE DEF adopted, h
    <3>1. QED
      BY <1>1, <2>3, <2>4, <2>6, <2>8, EvictFrees
  <2>9. QED
    BY <2>1, <2>7, <2>8, Zenon
<1>5. QED
  BY <1>3, <1>4

LEMMA FreeingAnswersKeepOwnership ==
  ASSUME OwnershipInv, NEW c \in Calls,
         AnswerParkFree(c) \/ AnswerAdoptFree(c) \/ AnswerCloseFree(c)
  PROVE  Ownership'
<1>1. TypeOK /\ call[c] \in CallRecord /\ hot \in HotType
  BY CallFields, RestType DEF OwnershipInv
<1>2. Dying(c) /\ FreeSlot(c)
  BY DEF AnswerParkFree, AnswerAdoptFree, AnswerCloseFree, Answered, Dying
<1>3. OwnedBut(c, slots', hot)
  BY <1>2, FreeOwns
<1>4. CASE AnswerParkFree(c)
  <2> DEFINE parkedOne == [call[c] EXCEPT !.subject = call[c].doc, !.target = Cold]
  <2>1. parkedOne \in CallRecord
    BY <1>1 DEF CallRecord
  <2>2. CASE Finish(c, call[c], QueueAfter(c), "done") /\ UNCHANGED <<hot, touched>>
    BY <1>1, <1>3, <2>2, FinishFrees DEF Ended
  <2>3. CASE EvictIfNeeded(c, parkedOne, hot, touched, pins, QueueAfter(c))
    BY <1>1, <1>3, <2>1, <2>3, EvictFrees
  <2>4. QED
    BY <1>4, <2>2, <2>3 DEF AnswerParkFree
<1>5. CASE AnswerAdoptFree(c)
  <2>1. [call[c] EXCEPT !.target = Cold] \in CallRecord
    BY <1>1 DEF CallRecord
  <2>2. QED
    BY <1>1, <1>3, <1>5, <2>1, EvictFrees DEF AnswerAdoptFree
<1>6. CASE AnswerCloseFree(c)
  <2>1. hot' = hot /\ Finish(c, call[c], QueueAfter(c), "done")
    BY <1>6 DEF AnswerCloseFree
  <2>2. QED
    BY <1>1, <1>3, <2>1, FinishFrees DEF Ended
<1>7. QED
  BY <1>4, <1>5, <1>6

\* An edit changes what a slot holds, never whose it is.
LEMMA EditOwns ==
  ASSUME TypeOK, NEW c \in Calls, OwnedBut(c, slots, hot), AnswerEdit(c)
  PROVE  OwnedBut(c, slots', hot')
<1> DEFINE e == EngineOf[call[c].subject]
           t == call[c].target
<1>1. t \in Slots /\ slots[e][t] # Free /\ e \in Engines /\ hot' = hot
  BY CallFields DEF AnswerEdit, Valid, SlotsOf
<1>2. slots \in Tables /\ hot \in HotType
  BY RestType
<1>3. slots[e][t] \in [doc : Documents, edits : SUBSET Calls]
  BY <1>1, <1>2 DEF Tables
<1> DEFINE written == [slots[e][t] EXCEPT !.edits = @ \cup {c}]
<1>4. written \in [doc : Documents, edits : SUBSET Calls] /\ written.doc = slots[e][t].doc
  BY <1>3, OneEditMore, Zenon
<1>5. written # Free
  BY <1>3, OneEditMore
<1>6. slots' = [slots EXCEPT ![e] = [slots[e] EXCEPT ![t] = written]]
  BY DEF AnswerEdit
<1> HIDE DEF written
<1>7. \A x \in Engines, j \in Slots :
        slots[x][j] # Free => slots'[x][j] # Free /\ slots'[x][j].doc = slots[x][j].doc
  BY <1>1, <1>2, <1>4, <1>5, <1>6 DEF Tables
<1>8. \A d \in Documents, j \in Slots : Live(slots, d, j) => Live(slots', d, j)
  BY <1>7, EngineOfAssumption DEF Live
<1>9. \A d \in Documents : hot[d] # Cold => Live(slots', d, hot[d])
  BY <1>2, <1>8 DEF OwnedBut, HotType
<1>10. \A k \in Calls : k # c /\ Dying(k) =>
         call[k].target # Cold /\ Live(slots', call[k].subject, call[k].target)
  BY <1>8, CallFields DEF OwnedBut
<1>11. QED
  BY <1>1, <1>9, <1>10 DEF OwnedBut

LEMMA OtherAnswersKeepOwnership ==
  ASSUME OwnershipInv, NEW c \in Calls,
         RefuseCall(c) \/ AnswerParkText(c) \/ AnswerEdit(c) \/ AnswerSave(c)
  PROVE  Ownership'
<1>1. TypeOK /\ OwnedBut(c, slots, hot) /\ call[c] \in CallRecord
  BY LetGo, CallFields DEF OwnershipInv
<1>2. CASE RefuseCall(c)
  <2>1. OwnedBut(c, slots', hot') /\ Finish(c, call[c], QueueAfter(c), "done")
    BY <1>1, <1>2 DEF RefuseCall
  <2>2. QED
    BY <1>1, <2>1, FinishFrees DEF Ended
<1>3. CASE AnswerEdit(c)
  <2>1. OwnedBut(c, slots', hot') /\ Finish(c, call[c], QueueAfter(c), "done")
    BY <1>1, <1>3, EditOwns, Zenon DEF AnswerEdit
  <2>2. QED
    BY <1>1, <2>1, FinishFrees DEF Ended
<1>4. CASE AnswerSave(c)
  <2>1. OwnedBut(c, slots', hot')
    BY <1>1, <1>4 DEF AnswerSave
  <2>2. PICK how \in {"done", "skipped"} : Finish(c, call[c], QueueAfter(c), how)
    BY <1>4 DEF AnswerSave
  <2>3. QED
    BY <1>1, <2>1, <2>2, FinishFrees DEF Ended
<1>5. CASE AnswerParkText(c)
  <2>1. PICK w : /\ w.at = "parkFree" /\ w.subject = call[c].subject /\ w.target = call[c].target
                 /\ call' = [call EXCEPT ![c] = w]
    BY <1>1, <1>5 DEF AnswerParkText, Ask, CallRecord
  <2>2. Dying(c) /\ w.at \in DyingAt
    BY <1>5, <2>1 DEF AnswerParkText, Answered, Dying, DyingAt
  <2>3. OwnedBut(c, slots', hot') /\ slots' = slots /\ hot' = hot
    BY <1>1, <1>5 DEF AnswerParkText
  <2>4. w.target # Cold /\ Live(slots', w.subject, w.target) /\ w.subject \in Documents
    BY <1>1, <2>1, <2>2, <2>3 DEF OwnershipInv, Ownership, OwnedHandlesLive, Live, SlotsOf, CallRecord
  <2>5. /\ \A d \in Documents : EngineOf[d] = EngineOf[w.subject] => hot'[d] # w.target
        /\ \A k \in Calls : k # c /\ Dying(k) /\ EngineOf[call[k].subject] = EngineOf[w.subject]
                              => call[k].target # w.target
    BY <2>1, <2>2, <2>3 DEF OwnershipInv, Ownership, HandlesOwnedOnce
  <2>6. QED
    BY <1>1, <2>1, <2>2, <2>3, <2>4, <2>5, EndFreeing
<1>6. QED
  BY <1>2, <1>3, <1>4, <1>5

\* Losing an engine takes its documents out of the registry and never answers
\* the calls that were freeing its handles; the other engines keep theirs.
LEMMA EngineLostKeepsOwnership ==
  ASSUME OwnershipInv, NEW e \in Engines, EngineLost(e)
  PROVE  Ownership'
<1>1. TypeOK
  BY DEF OwnershipInv
<1>2. \A x \in Engines : x # e => slots'[x] = slots[x]
  BY <1>1 DEF EngineLost, TypeOK
<1>3. ASSUME NEW d \in Documents, hot'[d] # Cold
      PROVE  hot'[d] = hot[d] /\ EngineOf[d] # e
  BY <1>3 DEF EngineLost, WithoutEngine
<1>4. ASSUME NEW k \in Calls, Dying(k)'
      PROVE  Dying(k) /\ call'[k] = call[k] /\ EngineOf[call[k].subject] # e
  <2>1. call[k] \in CallRecord
    BY <1>1, CallFields
  <2>2. call'[k] = IF call[k].at \in Pending /\ EngineOf[call[k].subject] = e
                     THEN [call[k] EXCEPT !.at = "hung"] ELSE call[k]
    BY DEF EngineLost
  <2>3. CASE call[k].at \in Pending /\ EngineOf[call[k].subject] = e
    <3>1. call'[k].at = "hung"
      BY <2>1, <2>2, <2>3 DEF CallRecord
    <3>2. QED
      BY <1>4, <3>1 DEF Dying
  <2>4. CASE ~ (call[k].at \in Pending /\ EngineOf[call[k].subject] = e)
    BY <1>4, <2>2, <2>4 DEF Dying, Pending
  <2>5. QED
    BY <2>3, <2>4
<1>5. OwnedHandlesLive'
  <2>1. \A d \in Documents : hot'[d] # Cold => Live(slots', d, hot'[d])
    BY <1>2, <1>3, EngineOfAssumption DEF OwnershipInv, Ownership, OwnedHandlesLive, Live
  <2>2. \A k \in Calls : Dying(k)' =>
          call'[k].target # Cold /\ Live(slots', call'[k].subject, call'[k].target)
    BY <1>1, <1>2, <1>4, CallFields DEF OwnershipInv, Ownership, OwnedHandlesLive, Live, SlotsOf
  <2>3. QED
    BY <2>1, <2>2 DEF OwnedHandlesLive, Live, SlotsOf
<1>6. HandlesOwnedOnce'
  <2>1. ASSUME NEW c \in Calls, NEW d \in Documents, Dying(c)',
               EngineOf[d] = EngineOf[call'[c].subject]
        PROVE  hot'[d] # call'[c].target
    <3>1. Dying(c) /\ call'[c] = call[c] /\ call[c].target # Cold /\ hot[d] # call[c].target
      BY <1>4, <2>1 DEF OwnershipInv, Ownership, OwnedHandlesLive, HandlesOwnedOnce
    <3>2. QED
      BY <1>3, <3>1
  <2>2. \A c1, c2 \in Calls :
          Dying(c1)' /\ Dying(c2)' /\ c1 # c2
            /\ EngineOf[call'[c1].subject] = EngineOf[call'[c2].subject]
              => call'[c1].target # call'[c2].target
    BY <1>4 DEF OwnershipInv, Ownership, HandlesOwnedOnce
  <2>3. QED
    BY <2>1, <2>2 DEF HandlesOwnedOnce
<1>7. QED
  BY <1>5, <1>6 DEF Ownership

-----------------------------------------------------------------------------
LEMMA InitOwnership == Init => Ownership
BY DEF Init, Unused, Ownership, OwnedHandlesLive, HandlesOwnedOnce, Dying

LEMMA NextKeepsOwnership == OwnershipInv /\ [Next]_vars => OwnershipInv'
<1> SUFFICES ASSUME OwnershipInv, [Next]_vars PROVE OwnershipInv'
  OBVIOUS
<1>1. TypeOK'
  BY NextKeepsTypes DEF OwnershipInv
<1>2. ASSUME NEW c \in Calls, Answer(c) PROVE Ownership'
  BY <1>2, AllocatingAnswersKeepOwnership, FreeingAnswersKeepOwnership,
     OtherAnswersKeepOwnership DEF Answer
<1>3. ASSUME UNCHANGED vars PROVE Ownership'
  <2>1. slots' = slots /\ hot' = hot /\ call' = call
    BY <1>3 DEF vars
  <2>2. \A k \in Calls : Dying(k)' <=> Dying(k)
    BY <2>1 DEF Dying
  <2>3. OwnedHandlesLive'
    BY <2>1, <2>2 DEF OwnershipInv, Ownership, OwnedHandlesLive, SlotsOf
  <2>4. HandlesOwnedOnce'
    BY <2>1, <2>2 DEF OwnershipInv, Ownership, HandlesOwnedOnce
  <2>5. QED
    BY <2>3, <2>4 DEF Ownership
<1>4. ASSUME NEW c \in Calls, NEW d \in Documents, Begin(c, d) PROVE Ownership'
  BY <1>4, BeginKeepsOwnership
<1>5. ASSUME NEW e \in Engines, EngineLost(e) PROVE Ownership'
  BY <1>5, EngineLostKeepsOwnership
<1>6. Ownership'
  BY <1>2, <1>3, <1>4, <1>5 DEF Next
<1>7. QED
  BY <1>1, <1>6 DEF OwnershipInv

LEMMA OwnershipHolds == Spec => []OwnershipInv
<1>1. Init => OwnershipInv
  BY InitTypes, InitOwnership DEF OwnershipInv
<1>2. QED
  BY <1>1, NextKeepsOwnership, PTL DEF Spec

\* Every handle the registry holds, or has taken out to free, is a live slot
\* holding its own document (documentRegistry.ts `acquire`, `park`, `forget`,
\* `adoptHandle`, `handleEngineLost`): no free ever reaches a slot that was
\* handed to another document meanwhile.
THEOREM HandlesStayLive == Spec => []OwnedHandlesLive
<1>1. OwnershipInv => OwnedHandlesLive
  BY DEF OwnershipInv, Ownership
<1>2. QED
  BY <1>1, OwnershipHolds, PTL

\* A handle has one owner, so it is freed at most once, however many parks,
\* evictions, closes and adoptions of documents interleave.
THEOREM HandlesFreedOnce == Spec => []HandlesOwnedOnce
<1>1. OwnershipInv => HandlesOwnedOnce
  BY DEF OwnershipInv, Ownership
<1>2. QED
  BY <1>1, OwnershipHolds, PTL

-----------------------------------------------------------------------------
(***************************************************************************)
(* What a step of a call makes of its record, and of the registry with it. *)
(* The theorems after it rest on this, each with an invariant of its own.  *)
(***************************************************************************)

\* Where a call stands says what it is for, and which handle it has in hand.
RecordOK(r) ==
  /\ r.at = "ready" => r.op = "none" /\ r.handle = Cold
  /\ r.at # "ready" => r.op \in Ops
  /\ r.at \in {"create", "hydrate"} =>
       r.op \in {"open", "edit", "optimize"} /\ r.subject = r.doc /\ r.handle = Cold
  /\ r.at = "new" => r.op = "new" /\ r.subject = r.doc /\ r.handle = Cold
  /\ r.at = "adoptFree" => r.op = "new" /\ r.subject = r.doc /\ r.handle # Cold
  /\ r.at \in {"parkText", "parkFree"} =>
       \/ r.op = "park" /\ r.subject = r.doc /\ r.handle = Cold
       \/ r.op \in {"open", "edit", "optimize", "new"} /\ r.handle # Cold
  /\ r.at = "closeFree" => r.op \in {"close", "load"} /\ r.subject = r.doc /\ r.handle = Cold
  /\ r.at = "edit" =>
       r.op \in {"edit", "optimize"} /\ r.subject = r.doc /\ r.target = r.handle /\ r.handle # Cold
  /\ r.at = "saveText" => r.op = "save" /\ r.handle = Cold

RecordsInv == \A c \in Calls : RecordOK(call[c])

Stored(d) == IF parked[d] = NoText THEN {} ELSE parked[d]
HotSet(h) == {d \in Documents : h[d] # Cold}
Idle == UNCHANGED <<slots, hot, parked, made>>

\* What record w becomes when the hot set is h and the call has handle i in hand.
GoesOn(w, h, i) ==
  \/ /\ w.at = "parkText" /\ w.handle = i
     /\ h[w.subject] # Cold /\ pins[w.subject] = 0 /\ w.subject # w.doc
     /\ w.target = h[w.subject] /\ hot' = [h EXCEPT ![w.subject] = Cold]
  \/ /\ hot' = h /\ (~ OverLimit(h) \/ Evictable(h, pins, w.doc) = {})
     /\ \/ w.at = "edit" /\ w.handle = i
        \/ w.at = "done" /\ w.op # "optimize"

\* A call starts, with record w.
Opened(w) ==
  /\ w.op \in {"open", "edit", "optimize"} /\ Idle
  /\ pins' = IF w.op = "optimize" THEN [pins EXCEPT ![w.doc] = @ + 1] ELSE pins
  /\ \/ /\ hot[w.doc] # Cold
        /\ \/ w.at = "edit" /\ w.handle = hot[w.doc]
           \/ w.at = "done" /\ w.op # "optimize"
     \/ /\ hot[w.doc] = Cold /\ w.at \in {"create", "hydrate"} /\ w.text = Stored(w.doc)
ParkBegun(w) ==
  /\ w.op = "park" /\ w.at = "parkText" /\ hot[w.doc] # Cold /\ pins[w.doc] = 0
  /\ w.subject = w.doc /\ w.target = hot[w.doc] /\ hot' = [hot EXCEPT ![w.doc] = Cold]
  /\ UNCHANGED <<slots, parked, made, pins>>
Waits(w) ==
  /\ w.op \in {"park", "save", "new"} /\ w.at \in {"done", "skipped", "saveText", "new"}
  /\ Idle /\ UNCHANGED pins
CloseBegun(w) ==
  /\ w.at = "closeFree" /\ hot[w.doc] # Cold /\ w.target = hot[w.doc]
  /\ hot' = [hot EXCEPT ![w.doc] = Cold] /\ UNCHANGED <<slots, parked, made, pins>>
ClosedCold(w) ==
  /\ w.op \in {"close", "load"} /\ w.at = "done" /\ hot[w.doc] = Cold
  /\ Forgotten(w) /\ UNCHANGED <<slots, hot, pins>>

Begun(w) == Opened(w) \/ ParkBegun(w) \/ Waits(w) \/ CloseBegun(w) \/ ClosedCold(w)

\* A call goes on from record r, with record w.
Acquired(r, w) ==
  /\ r.at \in {"create", "hydrate"} /\ UNCHANGED <<parked, made, pins>>
  /\ \E s \in FirstFree(slots[EngineOf[r.doc]]) :
       /\ slots' = [slots EXCEPT ![EngineOf[r.doc]][s] = [doc |-> r.doc, edits |-> r.text]]
       /\ GoesOn(w, [hot EXCEPT ![r.doc] = s], s)
Adopted(r, w) ==
  /\ r.at = "new" /\ UNCHANGED pins
  /\ parked' = [parked EXCEPT ![r.doc] = NoText] /\ made' = [made EXCEPT ![r.doc] = {}]
  /\ \E s \in FirstFree(slots[EngineOf[r.doc]]) :
       /\ slots' = [slots EXCEPT ![EngineOf[r.doc]][s] = [doc |-> r.doc, edits |-> {}]]
       /\ \/ /\ hot[r.doc] # Cold /\ hot' = [hot EXCEPT ![r.doc] = s]
             /\ w.at = "adoptFree" /\ w.handle = s /\ w.target = hot[r.doc]
          \/ hot[r.doc] = Cold /\ GoesOn(w, [hot EXCEPT ![r.doc] = s], s)
Refuses(r, w) ==
  /\ r.at \in {"create", "hydrate", "new", "edit"} /\ w.at = "done"
  /\ Idle /\ Unpin(r)
Texted(c, w) ==
  /\ call[c].at = "parkText" /\ w.at = "parkFree" /\ UNCHANGED <<slots, hot, made, pins>>
  /\ w.subject = call[c].subject /\ w.target = call[c].target /\ w.handle = call[c].handle
  /\ \/ Valid(c) /\ parked' = [parked EXCEPT ![call[c].subject] = SlotsOf(c)[call[c].target].edits]
     \/ (~ Valid(c) \/ MayRefuse("parkText")) /\ UNCHANGED parked
Freed(c, w) ==
  /\ call[c].at \in {"parkFree", "adoptFree"} /\ FreeSlot(c) /\ UNCHANGED <<parked, made, pins>>
  /\ \/ call[c].op = "park" /\ w.at = "done" /\ hot' = hot
     \/ call[c].op # "park" /\ GoesOn(w, hot, call[c].handle)
Closed(c, w) ==
  /\ call[c].at = "closeFree" /\ w.at = "done" /\ FreeSlot(c) /\ Forgotten(call[c])
  /\ UNCHANGED <<hot, pins>>
Edited(c, w) ==
  /\ call[c].at = "edit" /\ w.at = "done" /\ Valid(c) /\ Unpin(call[c])
  /\ slots' = [slots EXCEPT ![EngineOf[call[c].subject]][call[c].target].edits = @ \cup {c}]
  /\ made' = [made EXCEPT ![call[c].doc] = @ \cup {c}] /\ UNCHANGED <<hot, parked>>
Saved(r, w) == r.at = "saveText" /\ w.at \in {"done", "skipped"} /\ Idle /\ UNCHANGED pins

Continued(c, w) ==
  \/ Acquired(call[c], w) \/ Adopted(call[c], w) \/ Refuses(call[c], w) \/ Texted(c, w)
  \/ Freed(c, w) \/ Closed(c, w) \/ Edited(c, w) \/ Saved(call[c], w)

\* The step of call c that makes its record w.
StepTo(c, w) ==
  /\ w \in CallRecord /\ RecordOK(w) /\ w.at # "ready" /\ w.at # "hung"
  /\ call' = [call EXCEPT ![c] = w] /\ losses' = losses
  /\ \/ call[c].at = "ready" /\ Cardinality(InFlight) < MaxInFlight /\ Begun(w)
     \/ /\ call[c].at \in Pending /\ w.op = call[c].op /\ w.doc = call[c].doc
        /\ Continued(c, w)


(* The steps are these.                                                    *)

LEMMA ReturnIs ==
  ASSUME TypeOK, NEW c \in Calls, NEW r \in CallRecord, NEW q, ReturnHandle(c, r, q),
         r.op \in Ops, r.handle # Cold
  PROVE  \E w \in CallRecord :
           /\ RecordOK(w) /\ call' = [call EXCEPT ![c] = w] /\ w.op = r.op /\ w.doc = r.doc
           /\ w.op \in {"open", "edit", "optimize", "new"}
           /\ \/ w.at = "edit" /\ w.handle = r.handle
              \/ w.at = "done" /\ w.op # "optimize"
<1>1. CASE r.op \in {"edit", "optimize"} /\ Ask(c, [r EXCEPT !.at = "edit", !.subject = r.doc, !.target = r.handle], q)
  <2> DEFINE w == [r EXCEPT !.at = "edit", !.subject = r.doc, !.target = r.handle]
  <2>1. /\ w \in CallRecord /\ w.op = r.op /\ w.doc = r.doc /\ w.at = "edit"
        /\ w.handle = r.handle /\ w.target = r.handle /\ w.subject = r.doc
    BY DEF CallRecord, Pending
  <2>2. call' = [call EXCEPT ![c] = w]
    BY <1>1 DEF Ask
  <2> HIDE DEF w
  <2>3. RecordOK(w)
    BY <1>1, <2>1 DEF RecordOK
  <2> QED
    BY <1>1, <2>1, <2>2, <2>3
<1>2. CASE r.op \in {"open", "new"} /\ Finish(c, r, q, "done")
  <2> DEFINE w == [r EXCEPT !.at = "done", !.handle = Cold, !.subject = r.doc, !.target = Cold, !.text = {}]
  <2>1. w \in CallRecord /\ w.op = r.op /\ w.doc = r.doc /\ w.at = "done"
    BY DEF CallRecord, Ended
  <2>2. call' = [call EXCEPT ![c] = w]
    BY <1>2 DEF Finish
  <2> HIDE DEF w
  <2>3. RecordOK(w)
    BY <1>2, <2>1 DEF RecordOK
  <2> QED
    BY <1>2, <2>1, <2>2, <2>3
<1> QED
  BY <1>1, <1>2 DEF ReturnHandle

LEMMA EvictIs ==
  ASSUME TypeOK, NEW c \in Calls, NEW r \in CallRecord, NEW h, NEW t, NEW q,
         EvictIfNeeded(c, r, h, t, pins, q),
         r.op \in Ops, r.op \in {"open", "edit", "optimize", "new"}, r.handle # Cold,
         \A v \in Documents : h[v] \in Slots \cup {Cold}
  PROVE  \E w \in CallRecord :
           /\ RecordOK(w) /\ call' = [call EXCEPT ![c] = w] /\ w.op = r.op /\ w.doc = r.doc
           /\ w.at \in {"parkText", "edit", "done"}
           /\ GoesOn(w, h, r.handle)
<1>1. ASSUME NEW v \in Documents, LeastRecent(v, Evictable(h, pins, r.doc), t),
             BeginPark(c, r, v, h, t, q)
      PROVE  \E w \in CallRecord :
               /\ RecordOK(w) /\ call' = [call EXCEPT ![c] = w] /\ w.op = r.op /\ w.doc = r.doc
               /\ w.at \in {"parkText", "edit", "done"}
               /\ GoesOn(w, h, r.handle)
  <2> DEFINE w == [r EXCEPT !.at = "parkText", !.subject = v, !.target = h[v]]
  <2>1. h[v] # Cold /\ pins[v] = 0 /\ v # r.doc
    BY <1>1 DEF LeastRecent, Evictable
  <2>2. /\ w \in CallRecord /\ w.op = r.op /\ w.doc = r.doc /\ w.at = "parkText"
        /\ w.handle = r.handle /\ w.target = h[v] /\ w.subject = v
    BY DEF CallRecord, Pending
  <2>3. call' = [call EXCEPT ![c] = w] /\ hot' = [h EXCEPT ![v] = Cold]
    BY <1>1 DEF BeginPark, Ask
  <2> HIDE DEF w
  <2>4. RecordOK(w) /\ GoesOn(w, h, r.handle)
    BY <2>1, <2>2, <2>3 DEF RecordOK, GoesOn
  <2> QED
    BY <2>2, <2>3, <2>4
<1>2. ASSUME ~ OverLimit(h) \/ Evictable(h, pins, r.doc) = {}, hot' = h, ReturnHandle(c, r, q)
      PROVE  \E w \in CallRecord :
               /\ RecordOK(w) /\ call' = [call EXCEPT ![c] = w] /\ w.op = r.op /\ w.doc = r.doc
               /\ w.at \in {"parkText", "edit", "done"}
               /\ GoesOn(w, h, r.handle)
  BY <1>2, ReturnIs DEF GoesOn
<1> QED
  BY <1>1, <1>2 DEF EvictIfNeeded

LEMMA FinishIs ==
  ASSUME TypeOK, NEW c \in Calls, NEW r \in CallRecord, NEW q, NEW how \in {"done", "skipped"},
         Finish(c, r, q, how), r.op \in Ops
  PROVE  \E w \in CallRecord :
           /\ RecordOK(w) /\ call' = [call EXCEPT ![c] = w] /\ w.op = r.op /\ w.doc = r.doc
           /\ w.at = how
<1> DEFINE w == [r EXCEPT !.at = how, !.handle = Cold, !.subject = r.doc, !.target = Cold, !.text = {}]
<1>1. w \in CallRecord /\ w.op = r.op /\ w.doc = r.doc /\ w.at = how
  BY DEF CallRecord, Ended
<1>2. call' = [call EXCEPT ![c] = w]
  BY DEF Finish
<1> HIDE DEF w
<1>3. RecordOK(w)
  BY <1>1 DEF RecordOK
<1> QED
  BY <1>1, <1>2, <1>3

LEMMA StartedIs ==
  ASSUME TypeOK, RecordsInv, NEW c \in Calls, NEW op, NEW d \in Documents, Starts(c, op), op \in AllOps
  PROVE  LET r == Started(c, op, d) IN
         /\ r \in CallRecord /\ r.op = op /\ r.doc = d /\ r.subject = d /\ r.handle = Cold
         /\ op \in Ops /\ call[c].at = "ready" /\ Cardinality(InFlight) < MaxInFlight
<1>1. call[c] \in CallRecord /\ call[c].at = "ready"
  BY DEF TypeOK, Starts
<1>2. call[c].handle = Cold
  BY <1>1 DEF RecordsInv, RecordOK
<1> QED
  BY <1>1, <1>2, StartedType DEF Starts, Started, CallRecord

LEMMA BeginIs ==
  ASSUME TypeOK, RecordsInv, NEW c \in Calls, NEW d \in Documents, Begin(c, d)
  PROVE  \E w : StepTo(c, w)
<1>1. ASSUME NEW op \in {"open", "edit", "optimize"}, Acquire(c, op, d)
      PROVE  \E w : StepTo(c, w)
  <2> DEFINE r == Started(c, op, d)
             held == [r EXCEPT !.handle = hot[d]]
             asked == [r EXCEPT !.at = IF parked[d] = NoText THEN "create" ELSE "hydrate",
                                !.text = IF parked[d] = NoText THEN {} ELSE parked[d]]
  <2>1. Starts(c, op) /\ op \in AllOps
    BY <1>1 DEF Acquire, AllOps
  <2>2. /\ r \in CallRecord /\ r.op = op /\ r.doc = d /\ r.subject = d /\ r.handle = Cold
        /\ op \in Ops /\ call[c].at = "ready" /\ Cardinality(InFlight) < MaxInFlight
    BY <2>1, StartedIs
  <2>3. /\ UNCHANGED <<slots, hot, parked, made, losses>>
        /\ pins' = IF op = "optimize" THEN [pins EXCEPT ![d] = @ + 1] ELSE pins
    BY <1>1 DEF Acquire
  <2>4. ASSUME hot[d] # Cold, ReturnHandle(c, held, queue)
        PROVE  \E w : StepTo(c, w)
    <3>1. hot[d] \in Slots \cup {Cold}
      BY RestType DEF HotType
    <3>2. held \in CallRecord /\ held.op = op /\ held.doc = d /\ held.handle = hot[d]
      BY <2>2, <3>1 DEF CallRecord
    <3> HIDE DEF held
    <3>3. PICK w \in CallRecord :
           /\ RecordOK(w) /\ call' = [call EXCEPT ![c] = w] /\ w.op = held.op /\ w.doc = held.doc
           /\ w.op \in {"open", "edit", "optimize", "new"}
           /\ \/ w.at = "edit" /\ w.handle = held.handle
              \/ w.at = "done" /\ w.op # "optimize"
      BY <2>2, <2>4, <3>2, ReturnIs
    <3>4. Opened(w)
      BY <2>3, <2>4, <3>2, <3>3 DEF Opened, Idle
    <3> QED
      BY <2>2, <2>3, <3>3, <3>4 DEF StepTo, Begun
  <2>5. ASSUME hot[d] = Cold, Ask(c, asked, queue)
        PROVE  \E w : StepTo(c, w)
    <3>1. parked[d] \in {NoText} \cup SUBSET Calls
      BY RestType DEF Texts
    <3>2. /\ asked \in CallRecord /\ asked.op = op /\ asked.doc = d /\ asked.handle = Cold
          /\ asked.subject = d /\ asked.at \in {"create", "hydrate"} /\ asked.text = Stored(d)
      BY <2>2, <3>1 DEF CallRecord, Pending, Stored
    <3>3. call' = [call EXCEPT ![c] = asked]
      BY <2>5 DEF Ask
    <3> HIDE DEF asked
    <3>4. RecordOK(asked)
      BY <2>2, <3>2 DEF RecordOK
    <3>5. Opened(asked)
      BY <2>3, <2>5, <3>2 DEF Opened, Idle
    <3> QED
      BY <2>2, <2>3, <3>2, <3>3, <3>4, <3>5 DEF StepTo, Begun
  <2> QED
    BY <1>1, <2>4, <2>5 DEF Acquire
<1>2. CASE Park(c, d)
  <2> DEFINE r == Started(c, "park", d)
  <2>1. Starts(c, "park") /\ "park" \in AllOps /\ UNCHANGED <<slots, parked, pins, made, losses>>
    BY <1>2 DEF Park, AllOps
  <2>2. /\ r \in CallRecord /\ r.op = "park" /\ r.doc = d /\ r.subject = d /\ r.handle = Cold
        /\ "park" \in Ops /\ call[c].at = "ready" /\ Cardinality(InFlight) < MaxInFlight
    BY <2>1, StartedIs
  <2>3. ASSUME hot[d] # Cold, pins[d] = 0, BeginPark(c, r, d, hot, touched, queue)
        PROVE  \E w : StepTo(c, w)
    <3> DEFINE w == [r EXCEPT !.at = "parkText", !.subject = d, !.target = hot[d]]
    <3>1. hot[d] \in Slots \cup {Cold}
      BY RestType DEF HotType
    <3>2. /\ w \in CallRecord /\ w.op = "park" /\ w.doc = d /\ w.handle = Cold
          /\ w.subject = d /\ w.at = "parkText" /\ w.target = hot[d]
      BY <2>2, <3>1 DEF CallRecord, Pending
    <3>3. call' = [call EXCEPT ![c] = w] /\ hot' = [hot EXCEPT ![d] = Cold]
      BY <2>3 DEF BeginPark, Ask
    <3> HIDE DEF w
    <3>4. RecordOK(w) /\ ParkBegun(w)
      BY <2>1, <2>2, <2>3, <3>2, <3>3 DEF RecordOK, ParkBegun
    <3> QED
      BY <2>1, <2>2, <3>2, <3>3, <3>4 DEF StepTo, Begun
  <2>4. ASSUME Finish(c, r, queue, "done"), UNCHANGED <<hot, touched>>
        PROVE  \E w : StepTo(c, w)
    <3> HIDE DEF r
    <3>1. PICK w \in CallRecord :
            /\ RecordOK(w) /\ call' = [call EXCEPT ![c] = w] /\ w.op = r.op /\ w.doc = r.doc
            /\ w.at = "done"
      BY <2>2, <2>4, FinishIs
    <3>2. Waits(w)
      BY <2>1, <2>2, <2>4, <3>1 DEF Waits, Idle
    <3> QED
      BY <2>1, <2>2, <3>1, <3>2 DEF StepTo, Begun
  <2> QED
    BY <1>2, <2>3, <2>4 DEF Park
<1>3. CASE Save(c, d)
  <2> DEFINE r == Started(c, "save", d)
             asked == [r EXCEPT !.at = "saveText", !.target = hot[d]]
  <2>1. Starts(c, "save") /\ "save" \in AllOps /\ UNCHANGED <<slots, hot, parked, pins, made, losses>>
    BY <1>3 DEF Save, AllOps
  <2>2. /\ r \in CallRecord /\ r.op = "save" /\ r.doc = d /\ r.subject = d /\ r.handle = Cold
        /\ "save" \in Ops /\ call[c].at = "ready" /\ Cardinality(InFlight) < MaxInFlight
    BY <2>1, StartedIs
  <2>3. ASSUME Ask(c, asked, queue)
        PROVE  \E w : StepTo(c, w)
    <3>1. hot[d] \in Slots \cup {Cold}
      BY RestType DEF HotType
    <3>2. /\ asked \in CallRecord /\ asked.op = "save" /\ asked.handle = Cold /\ asked.at = "saveText"
      BY <2>2, <3>1 DEF CallRecord, Pending
    <3>3. call' = [call EXCEPT ![c] = asked]
      BY <2>3 DEF Ask
    <3> HIDE DEF asked
    <3>4. RecordOK(asked) /\ Waits(asked)
      BY <2>1, <2>2, <3>2 DEF RecordOK, Waits, Idle
    <3> QED
      BY <2>1, <2>2, <3>2, <3>3, <3>4 DEF StepTo, Begun
  <2>4. ASSUME Finish(c, r, queue, ColdSave(d))
        PROVE  \E w : StepTo(c, w)
    <3> HIDE DEF r
    <3>0. ColdSave(d) \in {"done", "skipped"}
      BY DEF ColdSave
    <3>1. PICK w \in CallRecord :
            /\ RecordOK(w) /\ call' = [call EXCEPT ![c] = w] /\ w.op = r.op /\ w.doc = r.doc
            /\ w.at = ColdSave(d)
      BY <2>2, <2>4, <3>0, FinishIs
    <3>2. Waits(w)
      BY <2>1, <2>2, <3>0, <3>1 DEF Waits, Idle
    <3> QED
      BY <2>1, <2>2, <3>0, <3>1, <3>2 DEF StepTo, Begun
  <2> QED
    BY <1>3, <2>3, <2>4 DEF Save
<1>4. ASSUME NEW op \in {"close", "load"}, Forget(c, op, d)
      PROVE  \E w : StepTo(c, w)
  <2> DEFINE r == Started(c, op, d)
             asked == [r EXCEPT !.at = "closeFree", !.target = hot[d]]
  <2>1. Starts(c, op) /\ op \in AllOps /\ UNCHANGED <<slots, pins, losses>>
    BY <1>4 DEF Forget, AllOps
  <2>2. /\ r \in CallRecord /\ r.op = op /\ r.doc = d /\ r.subject = d /\ r.handle = Cold
        /\ op \in Ops /\ call[c].at = "ready" /\ Cardinality(InFlight) < MaxInFlight
    BY <2>1, StartedIs
  <2>3. ASSUME hot[d] # Cold, hot' = [hot EXCEPT ![d] = Cold], Ask(c, asked, queue),
               UNCHANGED <<parked, made>>
        PROVE  \E w : StepTo(c, w)
    <3>1. hot[d] \in Slots \cup {Cold}
      BY RestType DEF HotType
    <3>2. /\ asked \in CallRecord /\ asked.op = op /\ asked.handle = Cold /\ asked.at = "closeFree"
          /\ asked.doc = d /\ asked.subject = d /\ asked.target = hot[d]
      BY <2>2, <3>1 DEF CallRecord, Pending
    <3>3. call' = [call EXCEPT ![c] = asked]
      BY <2>3 DEF Ask
    <3> HIDE DEF asked
    <3>4. RecordOK(asked) /\ CloseBegun(asked)
      BY <2>1, <2>2, <2>3, <3>2 DEF RecordOK, CloseBegun
    <3> QED
      BY <2>1, <2>2, <3>2, <3>3, <3>4 DEF StepTo, Begun
  <2>4. ASSUME hot[d] = Cold, Forgotten(r), Finish(c, r, queue, "done"), UNCHANGED <<hot, touched>>
        PROVE  \E w : StepTo(c, w)
    <3> HIDE DEF r
    <3>1. PICK w \in CallRecord :
            /\ RecordOK(w) /\ call' = [call EXCEPT ![c] = w] /\ w.op = r.op /\ w.doc = r.doc
            /\ w.at = "done"
      BY <2>2, <2>4, FinishIs
    <3>2. ClosedCold(w)
      BY <2>1, <2>2, <2>4, <3>1 DEF ClosedCold, Forgotten
    <3> QED
      BY <2>1, <2>2, <3>1, <3>2 DEF StepTo, Begun
  <2> QED
    BY <1>4, <2>3, <2>4 DEF Forget
<1>5. CASE New(c, d)
  <2> DEFINE asked == [Started(c, "new", d) EXCEPT !.at = "new"]
  <2>1. /\ Starts(c, "new") /\ "new" \in AllOps /\ Ask(c, asked, queue)
        /\ UNCHANGED <<slots, hot, parked, pins, made, losses>>
    BY <1>5 DEF New, AllOps
  <2>2. LET r == Started(c, "new", d) IN
        /\ r \in CallRecord /\ r.op = "new" /\ r.doc = d /\ r.subject = d /\ r.handle = Cold
        /\ "new" \in Ops /\ call[c].at = "ready" /\ Cardinality(InFlight) < MaxInFlight
    BY <2>1, StartedIs
  <2>3. /\ asked \in CallRecord /\ asked.op = "new" /\ asked.handle = Cold /\ asked.at = "new"
        /\ asked.doc = d /\ asked.subject = d
    BY <2>2 DEF CallRecord, Pending
  <2>4. call' = [call EXCEPT ![c] = asked]
    BY <2>1 DEF Ask
  <2> HIDE DEF asked
  <2>5. RecordOK(asked) /\ Waits(asked)
    BY <2>1, <2>2, <2>3 DEF RecordOK, Waits, Idle
  <2> QED
    BY <2>1, <2>2, <2>3, <2>4, <2>5 DEF StepTo, Begun
<1> QED
  BY <1>1, <1>2, <1>3, <1>4, <1>5 DEF Begin

LEMMA AnswerAcquireIs ==
  ASSUME TypeOK, RecordsInv, NEW c \in Calls, AnswerAcquire(c)
  PROVE  \E w : StepTo(c, w)
<1> DEFINE r == call[c]
           e == EngineOf[r.doc]
<1>1. r \in CallRecord /\ r.at \in {"create", "hydrate"} /\ RecordOK(r) /\ r.at \in Pending
  BY CallFields DEF AnswerAcquire, Answered, RecordsInv, Pending
<1>2. r.op \in Ops /\ r.op \in {"open", "edit", "optimize"}
  BY <1>1 DEF RecordOK
<1>3. PICK s \in FirstFree(slots[e]) :
        /\ slots' = [slots EXCEPT ![e][s] = [doc |-> r.doc, edits |-> r.text]]
        /\ EvictIfNeeded(c, [r EXCEPT !.handle = s, !.text = {}], [hot EXCEPT ![r.doc] = s],
                         [touched EXCEPT ![r.doc] = clock + 1], pins, QueueAfter(c))
  BY DEF AnswerAcquire
<1> DEFINE x == [r EXCEPT !.handle = s, !.text = {}]
           h == [hot EXCEPT ![r.doc] = s]
           t == [touched EXCEPT ![r.doc] = clock + 1]
<1>4. s \in Slots /\ s # Cold
  BY SentinelAssumption DEF FirstFree
<1>5. x \in CallRecord /\ x.op = r.op /\ x.doc = r.doc /\ x.handle = s
  BY <1>1, <1>4 DEF CallRecord
<1>6. \A v \in Documents : h[v] \in Slots \cup {Cold}
  BY <1>4 DEF TypeOK
<1>7. PICK w \in CallRecord :
         /\ RecordOK(w) /\ call' = [call EXCEPT ![c] = w] /\ w.op = x.op /\ w.doc = x.doc
         /\ w.at \in {"parkText", "edit", "done"}
         /\ GoesOn(w, h, x.handle)
  <2>1. EvictIfNeeded(c, x, h, t, pins, QueueAfter(c))
    BY <1>3
  <2> HIDE DEF x, h, t
  <2> QED
    BY <1>2, <1>4, <1>5, <1>6, <2>1, EvictIs
<1>8. UNCHANGED <<parked, pins, made, losses>>
  BY DEF AnswerAcquire
<1>9. Acquired(r, w)
  BY <1>1, <1>3, <1>5, <1>7, <1>8 DEF Acquired
<1> QED
  BY <1>1, <1>5, <1>7, <1>8, <1>9 DEF StepTo, Continued

LEMMA AnswerNewIs ==
  ASSUME TypeOK, RecordsInv, NEW c \in Calls, AnswerNew(c)
  PROVE  \E w : StepTo(c, w)
<1> DEFINE r == call[c]
           e == EngineOf[r.doc]
           old == hot[r.doc]
<1>1. r \in CallRecord /\ r.at = "new" /\ RecordOK(r) /\ r.at \in Pending /\ r.doc \in Documents
  BY CallFields DEF AnswerNew, Answered, RecordsInv, Pending
<1>2. r.op \in Ops /\ r.op = "new"
  BY <1>1 DEF RecordOK
<1>3. PICK s \in FirstFree(slots[e]) :
        LET h == [hot EXCEPT ![r.doc] = s]
            t == [touched EXCEPT ![r.doc] = clock + 1]
            adopted == [r EXCEPT !.handle = s]
        IN /\ slots' = [slots EXCEPT ![e][s] = [doc |-> r.doc, edits |-> {}]]
           /\ \/ /\ old # Cold
                 /\ hot' = h
                 /\ touched' = t
                 /\ Ask(c, [adopted EXCEPT !.at = "adoptFree", !.subject = r.doc,
                                           !.target = old], QueueAfter(c))
              \/ /\ old = Cold
                 /\ EvictIfNeeded(c, adopted, h, t, pins, QueueAfter(c))
  BY Zenon DEF AnswerNew
<1> DEFINE x == [r EXCEPT !.handle = s]
           h == [hot EXCEPT ![r.doc] = s]
           t == [touched EXCEPT ![r.doc] = clock + 1]
<1>4. s \in Slots /\ s # Cold /\ old \in Slots \cup {Cold}
  BY <1>1, SentinelAssumption DEF FirstFree, TypeOK
<1>5. x \in CallRecord /\ x.op = r.op /\ x.doc = r.doc /\ x.handle = s
  BY <1>1, <1>4 DEF CallRecord
<1>6. \A v \in Documents : h[v] \in Slots \cup {Cold}
  BY <1>4 DEF TypeOK
<1>7. /\ UNCHANGED <<pins, losses>> /\ slots' = [slots EXCEPT ![e][s] = [doc |-> r.doc, edits |-> {}]]
      /\ parked' = [parked EXCEPT ![r.doc] = NoText] /\ made' = [made EXCEPT ![r.doc] = {}]
  BY <1>3 DEF AnswerNew
<1>8. ASSUME old # Cold, hot' = h,
             Ask(c, [x EXCEPT !.at = "adoptFree", !.subject = r.doc, !.target = old], QueueAfter(c))
      PROVE  \E w : StepTo(c, w)
  <2> DEFINE w == [x EXCEPT !.at = "adoptFree", !.subject = r.doc, !.target = old]
  <2>1. /\ w \in CallRecord /\ w.op = r.op /\ w.doc = r.doc /\ w.handle = s /\ w.at = "adoptFree"
        /\ w.subject = r.doc /\ w.target = old
    <3> HIDE DEF x
    <3> QED
      BY <1>1, <1>4, <1>5 DEF CallRecord, Pending
  <2>2. call' = [call EXCEPT ![c] = w]
    BY <1>8 DEF Ask
  <2> HIDE DEF w, x
  <2>3. RecordOK(w) /\ Adopted(r, w)
    BY <1>1, <1>2, <1>4, <1>7, <1>8, <2>1 DEF RecordOK, Adopted
  <2> QED
    BY <1>1, <1>7, <2>1, <2>2, <2>3 DEF StepTo, Continued
<1>9. ASSUME old = Cold, EvictIfNeeded(c, x, h, t, pins, QueueAfter(c))
      PROVE  \E w : StepTo(c, w)
  <2>1. PICK w \in CallRecord :
           /\ RecordOK(w) /\ call' = [call EXCEPT ![c] = w] /\ w.op = x.op /\ w.doc = x.doc
           /\ w.at \in {"parkText", "edit", "done"}
           /\ GoesOn(w, h, x.handle)
    <3> HIDE DEF x, h, t
    <3> QED
      BY <1>2, <1>4, <1>5, <1>6, <1>9, EvictIs
  <2>2. Adopted(r, w)
    BY <1>1, <1>5, <1>7, <1>9, <2>1 DEF Adopted
  <2> QED
    BY <1>1, <1>5, <1>7, <2>1, <2>2 DEF StepTo, Continued
<1> QED
  BY <1>3, <1>8, <1>9

LEMMA FreeingIs ==
  ASSUME TypeOK, RecordsInv, NEW c \in Calls,
         AnswerParkFree(c) \/ AnswerAdoptFree(c) \/ AnswerCloseFree(c)
  PROVE  \E w : StepTo(c, w)
<1> DEFINE r == call[c]
<1>1. r \in CallRecord /\ RecordOK(r) /\ r.at \in Pending /\ r.at # "ready"
  BY CallFields DEF AnswerParkFree, AnswerAdoptFree, AnswerCloseFree, Answered, RecordsInv, Pending
<1>2. r.op \in Ops /\ \A v \in Documents : hot[v] \in Slots \cup {Cold}
  BY <1>1 DEF RecordOK, TypeOK
<1>3. CASE AnswerCloseFree(c)
  <2>1. PICK w \in CallRecord :
          /\ RecordOK(w) /\ call' = [call EXCEPT ![c] = w] /\ w.op = r.op /\ w.doc = r.doc
          /\ w.at = "done"
    BY <1>1, <1>2, <1>3, FinishIs DEF AnswerCloseFree
  <2>2. Closed(c, w) /\ losses' = losses
    BY <1>3, <2>1 DEF AnswerCloseFree, Answered, Closed
  <2> QED
    BY <1>1, <2>1, <2>2 DEF StepTo, Continued
<1>4. ASSUME AnswerParkFree(c), r.op = "park"
      PROVE  \E w : StepTo(c, w)
  <2>1. PICK w \in CallRecord :
          /\ RecordOK(w) /\ call' = [call EXCEPT ![c] = w] /\ w.op = r.op /\ w.doc = r.doc
          /\ w.at = "done"
    BY <1>1, <1>2, <1>4, FinishIs DEF AnswerParkFree
  <2>2. Freed(c, w) /\ losses' = losses
    BY <1>4, <2>1 DEF AnswerParkFree, Answered, Freed
  <2> QED
    BY <1>1, <2>1, <2>2 DEF StepTo, Continued
<1>5. ASSUME NEW x \in CallRecord, EvictIfNeeded(c, x, hot, touched, pins, QueueAfter(c)),
             x.op = r.op, x.doc = r.doc, x.handle = r.handle, r.handle # Cold,
             r.op \in {"open", "edit", "optimize", "new"}, r.at \in {"parkFree", "adoptFree"},
             FreeSlot(c), UNCHANGED <<parked, pins, made, losses>>
      PROVE  \E w : StepTo(c, w)
  <2>1. PICK w \in CallRecord :
           /\ RecordOK(w) /\ call' = [call EXCEPT ![c] = w] /\ w.op = x.op /\ w.doc = x.doc
           /\ w.at \in {"parkText", "edit", "done"}
           /\ GoesOn(w, hot, x.handle)
    BY <1>2, <1>5, EvictIs
  <2>2. Freed(c, w)
    BY <1>5, <2>1 DEF Freed
  <2> QED
    BY <1>1, <1>5, <2>1, <2>2 DEF StepTo, Continued
<1>6. ASSUME AnswerParkFree(c), r.op # "park"
      PROVE  \E w : StepTo(c, w)
  <2> DEFINE x == [r EXCEPT !.subject = r.doc, !.target = Cold]
  <2>1. x \in CallRecord /\ x.op = r.op /\ x.doc = r.doc /\ x.handle = r.handle
    BY <1>1 DEF CallRecord
  <2>2. /\ r.at = "parkFree" /\ FreeSlot(c) /\ UNCHANGED <<parked, pins, made, losses>>
        /\ EvictIfNeeded(c, x, hot, touched, pins, QueueAfter(c))
    BY <1>6 DEF AnswerParkFree, Answered
  <2>3. r.handle # Cold /\ r.op \in {"open", "edit", "optimize", "new"}
    BY <1>1, <1>6, <2>2 DEF RecordOK
  <2> HIDE DEF x
  <2> QED
    BY <1>5, <2>1, <2>2, <2>3
<1>7. CASE AnswerAdoptFree(c)
  <2> DEFINE x == [r EXCEPT !.target = Cold]
  <2>1. x \in CallRecord /\ x.op = r.op /\ x.doc = r.doc /\ x.handle = r.handle
    BY <1>1 DEF CallRecord
  <2>2. /\ r.at = "adoptFree" /\ FreeSlot(c) /\ UNCHANGED <<parked, pins, made, losses>>
        /\ EvictIfNeeded(c, x, hot, touched, pins, QueueAfter(c))
    BY <1>7 DEF AnswerAdoptFree, Answered
  <2>3. r.handle # Cold /\ r.op \in {"open", "edit", "optimize", "new"}
    BY <1>1, <2>2 DEF RecordOK
  <2> HIDE DEF x
  <2> QED
    BY <1>5, <2>1, <2>2, <2>3
<1> QED
  BY <1>3, <1>4, <1>6, <1>7

LEMMA OtherAnswersAre ==
  ASSUME TypeOK, RecordsInv, NEW c \in Calls,
         RefuseCall(c) \/ AnswerParkText(c) \/ AnswerEdit(c) \/ AnswerSave(c)
  PROVE  \E w : StepTo(c, w)
<1> DEFINE r == call[c]
<1>1. r \in CallRecord /\ RecordOK(r) /\ r.at \in Pending /\ r.at # "ready"
  BY CallFields, Zenon DEF RefuseCall, AnswerParkText, AnswerEdit, AnswerSave, Answered, RecordsInv, Pending
<1>2. r.op \in Ops
  BY <1>1 DEF RecordOK
<1>3. CASE RefuseCall(c)
  <2>1. PICK w \in CallRecord :
          /\ RecordOK(w) /\ call' = [call EXCEPT ![c] = w] /\ w.op = r.op /\ w.doc = r.doc
          /\ w.at = "done"
    BY <1>1, <1>2, <1>3, FinishIs DEF RefuseCall
  <2>2. Refuses(r, w) /\ losses' = losses
    BY <1>3, <2>1 DEF RefuseCall, Answered, Refuses, Idle
  <2> QED
    BY <1>1, <2>1, <2>2 DEF StepTo, Continued
<1>4. CASE AnswerEdit(c)
  <2>1. PICK w \in CallRecord :
          /\ RecordOK(w) /\ call' = [call EXCEPT ![c] = w] /\ w.op = r.op /\ w.doc = r.doc
          /\ w.at = "done"
    BY <1>1, <1>2, <1>4, FinishIs DEF AnswerEdit
  <2>2. Edited(c, w) /\ losses' = losses
    BY <1>4, <2>1, Zenon DEF AnswerEdit, Answered, Edited
  <2> QED
    BY <1>1, <2>1, <2>2 DEF StepTo, Continued
<1>5. CASE AnswerSave(c)
  <2>1. PICK how \in {"done", "skipped"} : Finish(c, r, QueueAfter(c), how)
    BY <1>5 DEF AnswerSave
  <2>2. PICK w \in CallRecord :
          /\ RecordOK(w) /\ call' = [call EXCEPT ![c] = w] /\ w.op = r.op /\ w.doc = r.doc
          /\ w.at = how
    BY <1>1, <1>2, <2>1, FinishIs
  <2>3. Saved(r, w) /\ losses' = losses
    BY <1>5, <2>2 DEF AnswerSave, Answered, Saved, Idle
  <2> QED
    BY <1>1, <2>2, <2>3 DEF StepTo, Continued
<1>6. CASE AnswerParkText(c)
  <2> DEFINE w == [r EXCEPT !.at = "parkFree"]
  <2>0. r.at = "parkText" /\ call' = [call EXCEPT ![c] = w]
    BY <1>6 DEF AnswerParkText, Answered, Ask
  <2>1. /\ w \in CallRecord /\ w.op = r.op /\ w.doc = r.doc /\ w.at = "parkFree"
        /\ w.subject = r.subject /\ w.target = r.target /\ w.handle = r.handle
    BY <1>1 DEF CallRecord, Pending
  <2> HIDE DEF w
  <2>2. RecordOK(w)
    BY <1>1, <2>0, <2>1 DEF RecordOK
  <2>3. Texted(c, w) /\ losses' = losses
    BY <1>6, <2>0, <2>1 DEF AnswerParkText, Texted
  <2> QED
    BY <1>1, <2>0, <2>1, <2>2, <2>3 DEF StepTo, Continued
<1> QED
  BY <1>3, <1>4, <1>5, <1>6

\* A step is a step of one call, or the loss of an engine.
LEMMA NextIs ==
  ASSUME TypeOK, RecordsInv, Next
  PROVE  (\E c \in Calls : \E w : StepTo(c, w)) \/ (\E e \in Engines : EngineLost(e))
<1>1. ASSUME NEW c \in Calls, Answer(c)
      PROVE  \E w : StepTo(c, w)
  BY <1>1, AnswerAcquireIs, AnswerNewIs, FreeingIs, OtherAnswersAre DEF Answer
<1> QED
  BY <1>1, BeginIs DEF Next

\* The calls of an engine that is lost hang, and its slots and handles go.
LEMMA LossIs ==
  ASSUME TypeOK, NEW e \in Engines, EngineLost(e)
  PROVE  /\ \A k \in Calls :
              \/ call'[k] = call[k] /\ (call[k].at \in Pending => EngineOf[call[k].subject] # e)
              \/ /\ call'[k].at = "hung" /\ call[k].at \in Pending /\ EngineOf[call[k].subject] = e
                 /\ call'[k].op = call[k].op /\ call'[k].doc = call[k].doc
         /\ \A x \in Engines : x # e => slots'[x] = slots[x]
         /\ \A s \in Slots : slots'[e][s] = Free
         /\ \A d \in Documents : hot'[d] = IF EngineOf[d] = e THEN Cold ELSE hot[d]
         /\ losses < MaxLosses /\ losses' = losses + 1 /\ UNCHANGED <<parked, pins, made>>
<1>1. ASSUME NEW k \in Calls
      PROVE  \/ call'[k] = call[k] /\ (call[k].at \in Pending => EngineOf[call[k].subject] # e)
             \/ /\ call'[k].at = "hung" /\ call[k].at \in Pending /\ EngineOf[call[k].subject] = e
                /\ call'[k].op = call[k].op /\ call'[k].doc = call[k].doc
  <2>1. call[k] \in CallRecord
    BY CallFields
  <2>2. call'[k] = IF call[k].at \in Pending /\ EngineOf[call[k].subject] = e
                     THEN [call[k] EXCEPT !.at = "hung"] ELSE call[k]
    BY DEF EngineLost
  <2> QED
    BY <2>1, <2>2 DEF CallRecord
<1>2. \A x \in Engines : x # e => slots'[x] = slots[x]
  BY DEF EngineLost, TypeOK
<1>3. \A s \in Slots : slots'[e][s] = Free
  BY DEF EngineLost, TypeOK
<1> QED
  BY <1>1, <1>2, <1>3 DEF EngineLost, WithoutEngine

LEMMA StepCalls ==
  ASSUME TypeOK, NEW c \in Calls, NEW w, StepTo(c, w)
  PROVE  call'[c] = w /\ \A k \in Calls : k # c => call'[k] = call[k]
BY DEF StepTo, TypeOK

LEMMA StepIs ==
  ASSUME TypeOK, RecordsInv, NEW c \in Calls, NEW w, StepTo(c, w)
  PROVE  /\ w \in CallRecord /\ RecordOK(w) /\ w.at # "ready" /\ w.at # "hung"
         /\ RecordOK(call[c]) /\ call[c] \in CallRecord
         /\ call[c].at \in Pending => w.op = call[c].op /\ w.doc = call[c].doc
         /\ (call[c].at = "ready" /\ Begun(w)) \/ (call[c].at \in Pending /\ Continued(c, w))
<1>1. "ready" \notin Pending
  BY DEF Pending
<1>2. RecordOK(call[c]) /\ call[c] \in CallRecord
  BY DEF RecordsInv, TypeOK
<1> QED
  BY <1>1, <1>2 DEF StepTo

LEMMA StepKeepsRecords ==
  ASSUME TypeOK, RecordsInv, NEW c \in Calls, NEW w, StepTo(c, w)
  PROVE  RecordsInv'
BY StepCalls DEF StepTo, RecordsInv

LEMMA LossKeepsRecords ==
  ASSUME TypeOK, RecordsInv, NEW e \in Engines, EngineLost(e)
  PROVE  RecordsInv'
<1> SUFFICES ASSUME NEW k \in Calls
             PROVE  RecordOK(call'[k])
  BY DEF RecordsInv
<1>1. RecordOK(call[k])
  BY DEF RecordsInv
<1>2. call'[k].at = "hung" /\ call[k].at \in Pending /\ call'[k].op = call[k].op => RecordOK(call'[k])
  BY <1>1 DEF RecordOK, Pending
<1> QED
  BY <1>1, <1>2, LossIs

LEMMA InitRecords == Init => RecordsInv
BY DEF Init, Unused, RecordsInv, RecordOK

Base == OwnershipInv /\ RecordsInv

LEMMA NextKeepsBase == Base /\ [Next]_vars => Base'
<1> SUFFICES ASSUME Base, [Next]_vars PROVE Base'
  OBVIOUS
<1>1. OwnershipInv'
  BY NextKeepsOwnership DEF Base
<1>2. TypeOK /\ RecordsInv
  BY DEF Base, OwnershipInv
<1>3. CASE Next
  BY <1>1, <1>2, <1>3, NextIs, StepKeepsRecords, LossKeepsRecords DEF Base
<1>4. CASE UNCHANGED vars
  BY <1>1, <1>2, <1>4 DEF Base, vars, RecordsInv
<1> QED
  BY <1>3, <1>4

LEMMA BaseHolds == Spec => []Base
<1>1. Init => Base
  BY InitTypes, InitOwnership, InitRecords DEF Base, OwnershipInv
<1> QED
  BY <1>1, NextKeepsBase, PTL DEF Spec

-----------------------------------------------------------------------------
(* The limit: while the hot set is over it, some call is still evicting.   *)

Evicting(r) == r.at = "adoptFree" \/ (r.at \in {"parkText", "parkFree"} /\ r.op # "park")
NothingPinned == \A c \in Calls : call[c].op # "optimize"

LimitInv ==
  /\ \A d \in Documents : pins[d] # 0 => ~ NothingPinned
  /\ OverLimit(hot) /\ NothingPinned =>
       \E c \in Calls : Evicting(call[c]) \/ call[c].at = "hung"

LEMMA FewerHot ==
  ASSUME NEW g, NEW h, HotSet(g) \subseteq HotSet(h), OverLimit(g)
  PROVE  OverLimit(h)
<1>1. IsFiniteSet(HotSet(h)) /\ HotSet(h) \subseteq Documents
  BY DocumentsAssumption, FS_Subset DEF HotSet
<1>2. /\ Cardinality(HotSet(g)) <= Cardinality(HotSet(h))
      /\ Cardinality(HotSet(g)) \in Nat /\ Cardinality(HotSet(h)) \in Nat
  BY <1>1, FS_Subset, FS_CardinalityType
<1> QED
  BY <1>2, LimitAssumption DEF OverLimit, HotSet

\* An eviction stops short of the limit only for a pin.
LEMMA GoesOnWithin ==
  ASSUME NEW w \in CallRecord, NEW h, NEW i, GoesOn(w, h, i), w.op # "park",
         \A d \in Documents : pins[d] = 0
  PROVE  Evicting(w) \/ ~ OverLimit(hot')
<1>1. CASE w.at = "parkText"
  BY <1>1 DEF Evicting
<1>2. ASSUME hot' = h, Evictable(h, pins, w.doc) = {}
      PROVE  ~ OverLimit(hot')
  <2>1. HotSet(h) \subseteq {w.doc}
    BY <1>2 DEF Evictable, HotSet
  <2>0. IsFiniteSet({w.doc}) /\ Cardinality({w.doc}) = 1
    BY FS_Singleton
  <2>2. Cardinality(HotSet(h)) <= 1 /\ Cardinality(HotSet(h)) \in Nat
    BY <2>0, <2>1, FS_Subset, FS_CardinalityType
  <2> QED
    BY <1>2, <2>2, LimitAssumption DEF OverLimit, HotSet
<1> QED
  BY <1>1, <1>2 DEF GoesOn

LEMMA StepKeepsLimit ==
  ASSUME Base, LimitInv, NEW c \in Calls, NEW w, StepTo(c, w)
  PROVE  LimitInv'
<1> DEFINE r == call[c]
<1>0. TypeOK /\ RecordsInv
  BY DEF Base, OwnershipInv
<1>1. call'[c] = w /\ \A k \in Calls : k # c => call'[k] = call[k]
  BY <1>0, StepCalls
<1>2. /\ w \in CallRecord /\ RecordOK(w) /\ w.at # "ready" /\ RecordOK(r) /\ r \in CallRecord
      /\ r.at \in Pending => w.op = r.op /\ w.doc = r.doc
      /\ (r.at = "ready" /\ Begun(w)) \/ (r.at \in Pending /\ Continued(c, w))
  BY <1>0, StepIs
<1>3. NothingPinned' => NothingPinned /\ w.op # "optimize"
  BY <1>1, <1>2 DEF NothingPinned, RecordOK
<1>4. ASSUME NEW d \in Documents, pins'[d] # 0
      PROVE  ~ NothingPinned'
  <2>1. UNCHANGED pins \/ w.op = "optimize"
    BY <1>2, Zenon DEF Begun, Continued, Opened, ParkBegun, Waits, CloseBegun, ClosedCold, Acquired, Adopted,
       Refuses, Texted, Freed, Closed, Edited, Saved, Unpin, RecordOK
  <2> QED
    BY <1>3, <1>4, <2>1 DEF LimitInv
<1>5. ASSUME OverLimit(hot'), NothingPinned'
      PROVE  \E k \in Calls : Evicting(call'[k]) \/ call'[k].at = "hung"
  <2>1. \A d \in Documents : pins[d] = 0
    BY <1>3, <1>5 DEF LimitInv
  <2>2. CASE r.at \in {"create", "hydrate", "new", "adoptFree"} \/ (r.at = "parkFree" /\ r.op # "park")
    <3>0. Continued(c, w)
      BY <1>2, <2>2
    <3>1. w.at = "adoptFree" \/ (w.at = "done" /\ Idle) \/ (\E h, i : GoesOn(w, h, i))
      <4>1. CASE Acquired(r, w)
        BY <4>1 DEF Acquired
      <4>2. CASE Adopted(r, w)
        <5>1. PICK s \in FirstFree(slots[EngineOf[r.doc]]) :
                w.at = "adoptFree" \/ GoesOn(w, [hot EXCEPT ![r.doc] = s], s)
          BY <4>2 DEF Adopted
        <5> QED
          BY <5>1
      <4>3. CASE Refuses(r, w)
        BY <4>3 DEF Refuses
      <4>4. CASE Freed(c, w)
        BY <1>2, <2>2, <4>4 DEF Freed, RecordOK
      <4>5. ~ Texted(c, w) /\ ~ Closed(c, w) /\ ~ Edited(c, w) /\ ~ Saved(r, w)
        BY <2>2 DEF Texted, Closed, Edited, Saved
      <4> QED
        BY <3>0, <4>1, <4>2, <4>3, <4>4, <4>5 DEF Continued
    <3>2. w.op # "park"
      BY <1>2, <2>2 DEF RecordOK, Pending
    <3>3. CASE w.at = "adoptFree" \/ (\E h, i : GoesOn(w, h, i))
      BY <1>1, <1>2, <1>5, <2>1, <3>2, <3>3, GoesOnWithin DEF Evicting
    <3>4. CASE w.at = "done" /\ Idle
      <4>1. r.at \in {"create", "hydrate", "new"} \/ \E h, i : GoesOn(w, h, i)
        BY <1>2, <2>2, Zenon DEF Begun, Continued, Acquired, Adopted, Refuses, Texted, Freed, Closed, Edited, Saved, RecordOK
      <4>2. CASE r.at \in {"create", "hydrate", "new"}
        <5>1. PICK k \in Calls : Evicting(call[k]) \/ call[k].at = "hung"
          BY <1>3, <1>5, <3>4 DEF LimitInv, Idle
        <5>2. k # c
          BY <4>2, <5>1 DEF Evicting
        <5> QED
          BY <1>1, <5>1, <5>2
      <4> QED
        BY <3>3, <4>1, <4>2
    <3> QED
      BY <3>1, <3>3, <3>4
  <2>3. CASE ~ (r.at \in {"create", "hydrate", "new", "adoptFree"} \/ (r.at = "parkFree" /\ r.op # "park"))
    <3>1. hot' = hot \/ \E d \in Documents : hot' = [hot EXCEPT ![d] = Cold]
      BY <1>2, <2>3, Zenon DEF Begun, Continued, Opened, ParkBegun, Waits, CloseBegun, ClosedCold,
         Acquired, Adopted, Refuses, Texted, Freed, Closed, Edited, Saved, Idle, CallRecord
    <3>2. HotSet(hot') \subseteq HotSet(hot)
      BY <1>0, <3>1 DEF HotSet, TypeOK
    <3>3. PICK k \in Calls : Evicting(call[k]) \/ call[k].at = "hung"
      BY <1>3, <1>5, <3>2, FewerHot DEF LimitInv
    <3>4. CASE k # c
      BY <1>1, <3>3, <3>4
    <3>5. CASE k = c
      <4>1. r.at = "parkText" /\ r.op # "park"
        BY <1>2, <2>3, <3>3, <3>5 DEF Evicting, Pending
      <4>2. Texted(c, w)
        BY <1>2, <4>1 DEF Continued, Acquired, Adopted, Refuses, Freed, Closed, Edited, Saved
      <4>3. Evicting(w)
        BY <1>2, <4>1, <4>2 DEF Texted, Evicting, Pending
      <4> QED
        BY <1>1, <4>3
    <3> QED
      BY <3>4, <3>5
  <2> QED
    BY <2>2, <2>3
<1> QED
  BY <1>4, <1>5 DEF LimitInv

LEMMA LossKeepsLimit ==
  ASSUME Base, LimitInv, NEW e \in Engines, EngineLost(e)
  PROVE  LimitInv'
<1>0. TypeOK
  BY DEF Base, OwnershipInv
<1>1. /\ \A k \in Calls : call'[k] = call[k] \/ call'[k].at = "hung"
      /\ \A k \in Calls : call'[k].op = call[k].op
  BY <1>0, LossIs
<1>2. NothingPinned' <=> NothingPinned
  BY <1>1 DEF NothingPinned
<1>3. HotSet(hot') \subseteq HotSet(hot) /\ pins' = pins
  BY <1>0, LossIs DEF HotSet
<1> QED
  BY <1>1, <1>2, <1>3, FewerHot DEF LimitInv

\* With nothing in progress and no pinned work ever done, the hot set is within its limit:
\* however the eviction loops of concurrent calls race, none stops short of it
\* (documentRegistry.ts `evictIfNeeded`).
THEOREM EvictionReachesLimit == Spec => []WithinLimit
<1>1. Init => LimitInv
  <2> SUFFICES ASSUME Init PROVE LimitInv
    OBVIOUS
  <2>1. HotSet(hot) = {}
    BY DEF Init, HotSet
  <2>2. ~ OverLimit(hot)
    BY <2>1, FS_EmptySet, LimitAssumption DEF OverLimit, HotSet
  <2> QED
    BY <2>2 DEF LimitInv, Init
<1>2. Base /\ LimitInv /\ [Next]_vars => LimitInv'
  <2> SUFFICES ASSUME Base, LimitInv, [Next]_vars PROVE LimitInv'
    OBVIOUS
  <2>1. CASE Next
    BY <2>1, NextIs, StepKeepsLimit, LossKeepsLimit DEF Base, OwnershipInv
  <2>2. CASE UNCHANGED vars
    BY <2>2 DEF vars, LimitInv, NothingPinned, OverLimit
  <2> QED
    BY <2>1, <2>2
<1>3. Base /\ LimitInv => WithinLimit
  <2> SUFFICES ASSUME Base, LimitInv, Quiet, NothingPinned
               PROVE  Cardinality(HotSet(hot)) <= HotLimit
    BY DEF WithinLimit, NothingPinned, HotSet
  <2>1. ~ OverLimit(hot)
    BY DEF LimitInv, Quiet, Evicting
  <2>2. Cardinality(HotSet(hot)) \in Nat
    BY DocumentsAssumption, FS_Subset, FS_CardinalityType DEF HotSet
  <2> QED
    BY <2>1, <2>2, LimitAssumption DEF OverLimit, HotSet
<1> QED
  BY <1>1, <1>2, <1>3, BaseHolds, PTL DEF Spec

-----------------------------------------------------------------------------
(***************************************************************************)
(* Pinned work: a document's pins count the calls that pin it, so no park  *)
(* takes its handle, and the handle a pinning call has in hand stays a     *)
(* live slot that no call will free.                                       *)
(***************************************************************************)

Pinned(d) == {c \in Calls : call[c].op = "optimize" /\ call[c].doc = d /\ call[c].at \in Pending}
HasHandle(r) == r.op = "optimize" /\ r.at \in {"parkText", "parkFree", "edit"}

PinsCount == \A d \in Documents : IsFiniteSet(Pinned(d)) /\ pins[d] = Cardinality(Pinned(d))

Kept(r) ==
  /\ Live(slots, r.doc, r.handle)
  /\ \A k \in Calls : Dying(k) /\ EngineOf[call[k].subject] = EngineOf[r.doc] =>
       call[k].target # r.handle

PinInv == losses = 0 => PinsCount /\ \A c \in Calls : HasHandle(call[c]) => Kept(call[c])

LEMMA StepKeepsPins ==
  ASSUME Base, PinsCount, NEW c \in Calls, NEW w, StepTo(c, w)
  PROVE  PinsCount'
<1> DEFINE r == call[c]
<1>0. TypeOK /\ RecordsInv
  BY DEF Base, OwnershipInv
<1>1. call'[c] = w /\ \A k \in Calls : k # c => call'[k] = call[k]
  BY <1>0, StepCalls
<1>2. /\ w \in CallRecord /\ RecordOK(w) /\ w.at # "ready" /\ RecordOK(r) /\ r \in CallRecord
      /\ r.at \in Pending => w.op = r.op /\ w.doc = r.doc
      /\ (r.at = "ready" /\ Begun(w)) \/ (r.at \in Pending /\ Continued(c, w))
  BY <1>0, StepIs
<1>3. SUFFICES ASSUME NEW d \in Documents
               PROVE  IsFiniteSet(Pinned(d)') /\ pins'[d] = Cardinality(Pinned(d)')
  BY DEF PinsCount
<1>4. IsFiniteSet(Pinned(d)) /\ pins[d] = Cardinality(Pinned(d)) /\ pins \in [Documents -> Int]
  BY <1>0 DEF PinsCount, TypeOK
<1>5. ASSUME c \in Pinned(d) <=> w.op = "optimize" /\ w.doc = d /\ w.at \in Pending, pins'[d] = pins[d]
      PROVE  IsFiniteSet(Pinned(d)') /\ pins'[d] = Cardinality(Pinned(d)')
  <2>1. Pinned(d)' = Pinned(d)
    BY <1>1, <1>5 DEF Pinned
  <2> QED
    BY <1>4, <1>5, <2>1
<1>6. ASSUME Begun(w), r.at = "ready", w.op = "optimize", w.doc = d
      PROVE  IsFiniteSet(Pinned(d)') /\ pins'[d] = Cardinality(Pinned(d)')
  <2>1. pins'[d] = pins[d] + 1 /\ w.at \in Pending
    <3>1. Opened(w)
      BY <1>2, <1>6 DEF Begun, ParkBegun, Waits, CloseBegun, ClosedCold, RecordOK
    <3> QED
      BY <1>4, <1>6, <3>1 DEF Opened, Pending
  <2>2. c \notin Pinned(d) /\ Pinned(d)' = Pinned(d) \cup {c}
    BY <1>1, <1>6, <2>1 DEF Pinned, Pending
  <2> QED
    BY <1>4, <2>1, <2>2, FS_AddElement
<1>7. ASSUME Begun(w), r.at = "ready", w.op # "optimize" \/ w.doc # d
      PROVE  IsFiniteSet(Pinned(d)') /\ pins'[d] = Cardinality(Pinned(d)')
  <2>1. pins'[d] = pins[d]
    BY <1>2, <1>4, <1>7 DEF Begun, Opened, ParkBegun, Waits, CloseBegun, ClosedCold, CallRecord
  <2>2. c \notin Pinned(d)
    BY <1>7 DEF Pinned, Pending
  <2> QED
    BY <1>5, <1>7, <2>1, <2>2
<1>8. ASSUME r.at \in Pending, Refuses(r, w) \/ Edited(c, w)
      PROVE  IsFiniteSet(Pinned(d)') /\ pins'[d] = Cardinality(Pinned(d)')
  <2>1. w.at = "done" /\ Unpin(r)
    BY <1>8, Zenon DEF Refuses, Edited
  <2>2. CASE r.op = "optimize" /\ r.doc = d
    <3>1. pins'[d] = pins[d] - 1
      BY <1>4, <2>1, <2>2 DEF Unpin
    <3>2. c \in Pinned(d) /\ Pinned(d)' = Pinned(d) \ {c}
      BY <1>1, <1>8, <2>1, <2>2 DEF Pinned, Pending
    <3> QED
      BY <1>4, <3>1, <3>2, FS_RemoveElement
  <2>3. CASE ~ (r.op = "optimize" /\ r.doc = d)
    <3>1. pins'[d] = pins[d]
      BY <1>4, <2>1, <2>3 DEF Unpin
    <3>2. c \notin Pinned(d)
      BY <2>3 DEF Pinned
    <3> QED
      BY <1>2, <1>5, <1>8, <2>3, <3>1, <3>2
  <2> QED
    BY <2>2, <2>3
<1>9. ASSUME r.at \in Pending, Continued(c, w), ~ Refuses(r, w), ~ Edited(c, w)
      PROVE  IsFiniteSet(Pinned(d)') /\ pins'[d] = Cardinality(Pinned(d)')
  <2>1. pins'[d] = pins[d]
    BY <1>9, Zenon DEF Continued, Acquired, Adopted, Texted, Freed, Closed, Saved
  <2>2. w.op = "optimize" => w.at \in Pending
    <3>1. \A h, i : GoesOn(w, h, i) => (w.op = "optimize" => w.at \in Pending)
      BY DEF GoesOn, Pending
    <3> QED
      BY <1>2, <1>9, <3>1, Zenon DEF Continued, Acquired, Adopted, Texted, Freed, Closed, Saved, RecordOK, Pending
  <2> QED
    BY <1>2, <1>5, <1>9, <2>1, <2>2 DEF Pinned
<1> QED
  BY <1>2, <1>6, <1>7, <1>8, <1>9

LEMMA PinnedHasPin ==
  ASSUME PinsCount, TypeOK, NEW c \in Calls, call[c].op = "optimize", call[c].at \in Pending
  PROVE  pins[call[c].doc] # 0
<1>1. call[c].doc \in Documents
  BY CallFields
<1>2. c \in Pinned(call[c].doc)
  BY DEF Pinned
<1> QED
  BY <1>1, <1>2, FS_EmptySet DEF PinsCount

\* A call that goes on to free a handle took it from a document without pins.
LEMMA NewlyDying ==
  ASSUME TypeOK, RecordsInv, Ops \cap {"close", "load", "new"} = {},
         NEW c \in Calls, NEW w, StepTo(c, w), w.at \in DyingAt
  PROVE  \/ /\ Dying(c) /\ w.subject = call[c].subject /\ w.target = call[c].target
            /\ w.handle = call[c].handle
         \/ /\ w.at = "parkText" /\ w.subject \in Documents /\ pins[w.subject] = 0
            /\ hot[w.subject] # Cold /\ w.target = hot[w.subject]
            /\ w.op = "optimize" => w.subject # w.doc
<1> DEFINE r == call[c]
<1>1. /\ w \in CallRecord /\ RecordOK(w) /\ RecordOK(r) /\ r \in CallRecord
      /\ r.at \in Pending => w.op = r.op /\ w.doc = r.doc
      /\ (r.at = "ready" /\ Begun(w)) \/ (r.at \in Pending /\ Continued(c, w))
  BY StepIs
<1>2. w.at \in {"parkText", "parkFree"} /\ w.subject \in Documents /\ w.op \in Ops
  BY <1>1 DEF RecordOK, DyingAt, CallRecord
<1>3. ASSUME NEW h, NEW i, GoesOn(w, h, i), h = hot \/ \E s : h = [hot EXCEPT ![w.doc] = s]
      PROVE  /\ w.at = "parkText" /\ w.subject \in Documents /\ pins[w.subject] = 0
             /\ hot[w.subject] # Cold /\ w.target = hot[w.subject] /\ w.subject # w.doc
  BY <1>2, <1>3 DEF GoesOn, TypeOK
<1>4. CASE Begun(w)
  <2>1. ParkBegun(w)
    BY <1>2, <1>4 DEF Begun, Opened, Waits, CloseBegun, ClosedCold
  <2> QED
    BY <1>1, <2>1 DEF ParkBegun, CallRecord
<1>5. CASE Acquired(r, w) /\ r.at \in Pending
  BY <1>1, <1>3, <1>5 DEF Acquired
<1>6. CASE Freed(c, w) /\ r.at \in Pending
  BY <1>2, <1>3, <1>6 DEF Freed
<1>7. CASE Texted(c, w)
  BY <1>7 DEF Texted, Dying
<1>8. ~ Adopted(r, w) /\ ~ Refuses(r, w) /\ ~ Closed(c, w) /\ ~ Edited(c, w) /\ ~ Saved(r, w)
  BY <1>1, <1>2, Zenon DEF Adopted, Refuses, Closed, Edited, Saved, RecordOK
<1> QED
  BY <1>1, <1>4, <1>5, <1>6, <1>7, <1>8 DEF Continued

\* Where a pinning call's handle comes from.
LEMMA HandleInHand ==
  ASSUME TypeOK, RecordsInv, NEW c \in Calls, NEW w, StepTo(c, w), HasHandle(w)
  PROVE  \/ HasHandle(call[c]) /\ w.handle = call[c].handle /\ w.doc = call[c].doc
         \/ /\ w.at = "edit" /\ slots' = slots /\ w.doc \in Documents /\ ~ Dying(c)
            /\ hot[w.doc] # Cold /\ w.handle = hot[w.doc]
         \/ /\ w.handle \in FirstFree(slots[EngineOf[w.doc]]) /\ w.doc \in Documents /\ ~ Dying(c)
            /\ \E t \in SUBSET Calls : slots' =
                 [slots EXCEPT ![EngineOf[w.doc]][w.handle] = [doc |-> w.doc, edits |-> t]]
<1> DEFINE r == call[c]
<1>1. /\ w \in CallRecord /\ RecordOK(w) /\ RecordOK(r) /\ r \in CallRecord
      /\ r.at \in Pending => w.op = r.op /\ w.doc = r.doc
      /\ (r.at = "ready" /\ Begun(w)) \/ (r.at \in Pending /\ Continued(c, w))
  BY StepIs
<1>2. w.op = "optimize" /\ w.at \in {"parkText", "parkFree", "edit"} /\ w.doc \in Documents
  BY <1>1 DEF HasHandle, CallRecord
<1>3. CASE Begun(w) /\ r.at = "ready"
  <2>1. Opened(w)
    BY <1>2, <1>3 DEF Begun, ParkBegun, Waits, CloseBegun, ClosedCold, RecordOK
  <2> QED
    BY <1>2, <1>3, <2>1 DEF Opened, Idle, Dying
<1>4. CASE Acquired(r, w) /\ r.at \in Pending
  <2>1. PICK s \in FirstFree(slots[EngineOf[r.doc]]) :
          /\ slots' = [slots EXCEPT ![EngineOf[r.doc]][s] = [doc |-> r.doc, edits |-> r.text]]
          /\ GoesOn(w, [hot EXCEPT ![r.doc] = s], s)
    BY <1>4 DEF Acquired
  <2>2. w.handle = s /\ ~ Dying(c) /\ r.text \in SUBSET Calls
    BY <1>1, <1>2, <1>4, <2>1 DEF GoesOn, Acquired, Dying, CallRecord
  <2> QED
    BY <1>1, <1>2, <1>4, <2>1, <2>2
<1>5. CASE Freed(c, w) /\ r.at \in Pending
  <2>1. r.at = "parkFree" /\ w.handle = r.handle
    BY <1>1, <1>2, <1>5 DEF Freed, GoesOn, RecordOK
  <2> QED
    BY <1>1, <1>2, <1>5, <2>1 DEF HasHandle
<1>6. CASE Texted(c, w) /\ r.at \in Pending
  BY <1>1, <1>2, <1>6 DEF Texted, HasHandle
<1>7. r.at \in Pending => ~ Adopted(r, w)
  BY <1>1, <1>2 DEF Adopted, RecordOK
<1>8. ~ Refuses(r, w) /\ ~ Closed(c, w) /\ ~ Edited(c, w) /\ ~ Saved(r, w)
  BY <1>2 DEF Refuses, Closed, Edited, Saved
<1> QED
  BY <1>1, <1>3, <1>4, <1>5, <1>6, <1>7, <1>8 DEF Continued

\* The document of a call that goes on is as it was.
LEMMA GoesOnDocument ==
  ASSUME NEW w \in CallRecord, NEW h \in [Documents -> Slots \cup {Cold}], NEW i, GoesOn(w, h, i)
  PROVE  /\ w.at \in {"parkText", "edit", "done"} /\ hot'[w.doc] = h[w.doc]
         /\ w.at \in Pending => w.handle = i
BY DEF GoesOn, Pending, CallRecord

\* What the step of call c to record w does to slot i of engine e: it allocates it, frees
\* it, or edits it.
Fills(c, w, e, i) ==
  /\ slots[e][i] = Free /\ e = EngineOf[call[c].doc] /\ hot'[call[c].doc] = i
  /\ \/ Acquired(call[c], w) /\ slots'[e][i] = [doc |-> call[c].doc, edits |-> call[c].text]
     \/ Adopted(call[c], w) /\ slots'[e][i] = [doc |-> call[c].doc, edits |-> {}]
Frees(c, e, i) ==
  e = EngineOf[call[c].subject] /\ i = call[c].target /\ Dying(c) /\ slots'[e][i] = Free
EditsSlot(c, w, e, i) ==
  /\ Edited(c, w) /\ e = EngineOf[call[c].subject] /\ i = call[c].target /\ slots[e][i] # Free
  /\ slots'[e][i] # Free /\ slots'[e][i].doc = slots[e][i].doc
  /\ slots'[e][i].edits = slots[e][i].edits \cup {c}

LEMMA SlotsMove ==
  ASSUME TypeOK, RecordsInv, NEW c \in Calls, NEW w, StepTo(c, w),
         NEW e \in Engines, NEW i \in Slots
  PROVE  \/ slots'[e][i] = slots[e][i]
         \/ Fills(c, w, e, i) \/ Frees(c, e, i) \/ EditsSlot(c, w, e, i)
<1> DEFINE r == call[c]
<1>1. /\ r \in CallRecord /\ r.subject \in Documents /\ EngineOf[r.subject] \in Engines
      /\ slots \in [Engines -> [Slots -> {Free} \cup [doc : Documents, edits : SUBSET Calls]]]
  BY CallFields, EngineOfAssumption DEF TypeOK, CallRecord
<1>2. Begun(w) \/ (Continued(c, w) /\ w.doc = r.doc)
  <2>1. /\ r.at \in Pending => w.op = r.op /\ w.doc = r.doc
        /\ (r.at = "ready" /\ Begun(w)) \/ (r.at \in Pending /\ Continued(c, w))
    BY StepIs
  <2> QED
    BY <2>1
<1>3. ASSUME NEW s \in FirstFree(slots[EngineOf[r.doc]]), NEW t, w.doc = r.doc,
             slots' = [slots EXCEPT ![EngineOf[r.doc]][s] = [doc |-> r.doc, edits |-> t]],
             \/ hot' = [hot EXCEPT ![r.doc] = s]
             \/ GoesOn(w, [hot EXCEPT ![r.doc] = s], s)
      PROVE  \/ slots'[e][i] = slots[e][i]
             \/ /\ slots[e][i] = Free /\ e = EngineOf[r.doc] /\ hot'[r.doc] = i
                /\ slots'[e][i] = [doc |-> r.doc, edits |-> t]
  <2> DEFINE h == [hot EXCEPT ![r.doc] = s]
  <2>1. r.doc \in Documents /\ EngineOf[r.doc] \in Engines /\ w \in CallRecord
    BY CallFields, StepIs, EngineOfAssumption
  <2>2. s \in Slots /\ slots[EngineOf[r.doc]][s] = Free
    BY <1>3 DEF FirstFree
  <2>3. h \in [Documents -> Slots \cup {Cold}] /\ h[r.doc] = s
    BY <2>1, <2>2 DEF TypeOK
  <2>4. hot'[r.doc] = s
    BY <1>3, <2>1, <2>3, GoesOnDocument
  <2> QED
    BY <1>1, <1>3, <2>1, <2>2, <2>4
<1>4. CASE UNCHANGED slots
  BY <1>4
<1>5. CASE FreeSlot(c) /\ Dying(c)
  BY <1>1, <1>5 DEF FreeSlot, Frees
<1>6. CASE Edited(c, w)
  <2>1. /\ slots' = [slots EXCEPT ![EngineOf[r.subject]][r.target].edits = @ \cup {c}]
        /\ r.target \in Slots /\ slots[EngineOf[r.subject]][r.target] # Free
    BY <1>6 DEF Edited, Valid, SlotsOf
  <2>2. CASE e = EngineOf[r.subject] /\ i = r.target
    <3>1. slots[e][i] \in [doc : Documents, edits : SUBSET Calls]
      BY <1>1, <2>1, <2>2, Zenon
    <3>2. slots'[e][i] = [slots[e][i] EXCEPT !.edits = @ \cup {c}]
      BY <1>1, <2>1, <2>2, Zenon
    <3>3. /\ slots'[e][i].doc = slots[e][i].doc /\ slots'[e][i].edits = slots[e][i].edits \cup {c}
          /\ slots'[e][i] # Free
      BY <3>1, <3>2, OneEditMore
    <3> QED
      BY <1>6, <2>1, <2>2, <3>3, Zenon DEF EditsSlot
  <2>3. CASE ~ (e = EngineOf[r.subject] /\ i = r.target)
    BY <1>1, <2>1, <2>3, Zenon
  <2> QED
    BY <2>2, <2>3
<1>7. CASE Begun(w)
  BY <1>4, <1>7 DEF Begun, Opened, ParkBegun, Waits, CloseBegun, ClosedCold, Idle
<1>8. CASE Continued(c, w) /\ w.doc = r.doc
  <2>1. CASE Acquired(r, w)
    <3>1. PICK s \in FirstFree(slots[EngineOf[r.doc]]) :
            /\ slots' = [slots EXCEPT ![EngineOf[r.doc]][s] = [doc |-> r.doc, edits |-> r.text]]
            /\ GoesOn(w, [hot EXCEPT ![r.doc] = s], s)
      BY <2>1, Zenon DEF Acquired
    <3> QED
      BY <1>3, <1>8, <2>1, <3>1, Zenon DEF Fills
  <2>2. CASE Adopted(r, w)
    <3>1. PICK s \in FirstFree(slots[EngineOf[r.doc]]) :
            /\ slots' = [slots EXCEPT ![EngineOf[r.doc]][s] = [doc |-> r.doc, edits |-> {}]]
            /\ hot' = [hot EXCEPT ![r.doc] = s] \/ GoesOn(w, [hot EXCEPT ![r.doc] = s], s)
      BY <2>2 DEF Adopted
    <3> QED
      BY <1>3, <1>8, <2>2, <3>1, Zenon DEF Fills
  <2>3. CASE Refuses(r, w) \/ Texted(c, w) \/ Saved(r, w)
    BY <1>4, <2>3 DEF Refuses, Texted, Saved, Idle
  <2>4. CASE Freed(c, w) \/ Closed(c, w)
    BY <1>5, <2>4 DEF Freed, Closed, Dying
  <2> QED
    BY <1>6, <1>8, <2>1, <2>2, <2>3, <2>4 DEF Continued
<1> QED
  BY <1>2, <1>7, <1>8

LEMMA StepKeepsHandles ==
  ASSUME Base, PinsCount, Ops \cap {"close", "load", "new"} = {},
         \A k \in Calls : HasHandle(call[k]) => Kept(call[k]),
         NEW c \in Calls, NEW w, StepTo(c, w), NEW p \in Calls, HasHandle(call'[p])
  PROVE  Kept(call[p])'
<1> DEFINE x == call'[p]
           e == EngineOf[x.doc]
<1>0. TypeOK /\ RecordsInv
  BY DEF Base, OwnershipInv
<1>1. call'[c] = w /\ \A k \in Calls : k # c => call'[k] = call[k]
  BY <1>0, StepCalls
<1>2. /\ x \in CallRecord /\ x.doc \in Documents /\ e \in Engines
      /\ \A d \in Documents : hot[d] # Cold => Live(slots, d, hot[d]) /\ hot[d] \in Slots
      /\ \A k \in Calls : Dying(k) => Live(slots, call[k].subject, call[k].target)
      /\ slots \in [Engines -> [Slots -> {Free} \cup [doc : Documents, edits : SUBSET Calls]]]
  <2>1. x \in CallRecord
    BY <1>0, <1>1, StepIs DEF TypeOK
  <2>2. x.doc \in Documents /\ e \in Engines
    BY <2>1, EngineOfAssumption DEF CallRecord
  <2>3. OwnedHandlesLive /\ hot \in [Documents -> Slots \cup {Cold}]
    BY <1>0 DEF Base, OwnershipInv, Ownership, TypeOK
  <2> QED
    BY <1>0, <2>1, <2>2, <2>3 DEF OwnedHandlesLive, Live, SlotsOf, TypeOK
\* The calls that will free a handle after the step are those that would before it, and
\* the call of the step, which may have taken one from a document without pins.
<1>3. ASSUME NEW k \in Calls, Dying(k)'
      PROVE  \/ Dying(k) /\ call'[k].subject = call[k].subject /\ call'[k].target = call[k].target
             \/ /\ k = c /\ w.subject \in Documents /\ pins[w.subject] = 0 /\ hot[w.subject] # Cold
                /\ w.target = hot[w.subject] /\ (w.op = "optimize" => w.subject # w.doc)
  <2>1. k # c => call'[k] = call[k]
    BY <1>1
  <2>2. k = c => w.at \in DyingAt
    BY <1>1, <1>3 DEF Dying, DyingAt
  <2> QED
    BY <1>0, <1>1, <1>3, <2>1, <2>2, NewlyDying DEF Dying
<1>4. CASE HasHandle(call[p]) /\ x.handle = call[p].handle /\ x.doc = call[p].doc
  <2>1. /\ Live(slots, x.doc, x.handle)
        /\ \A k \in Calls : Dying(k) /\ EngineOf[call[k].subject] = e => call[k].target # x.handle
    BY <1>4 DEF Kept
  <2>2. x.handle \in Slots
    BY <1>0, <1>2, <1>4 DEF RecordsInv, RecordOK, HasHandle, CallRecord
  <2>3. Live(slots', x.doc, x.handle)
    <3>1. slots[e][x.handle] # Free /\ slots[e][x.handle].doc = x.doc
      BY <2>1 DEF Live
    <3>2. \/ slots'[e][x.handle] = slots[e][x.handle]
          \/ e = EngineOf[call[c].subject] /\ x.handle = call[c].target /\ Dying(c)
          \/ slots'[e][x.handle].doc = slots[e][x.handle].doc /\ slots'[e][x.handle] # Free
      <4> DEFINE i == x.handle
      <4>1. e \in Engines /\ i \in Slots /\ slots[e][i] # Free
        BY <1>2, <2>2, <3>1
      <4> HIDE DEF e, i
      <4>2. \/ slots'[e][i] = slots[e][i]
            \/ e = EngineOf[call[c].subject] /\ i = call[c].target /\ Dying(c)
            \/ slots'[e][i].doc = slots[e][i].doc /\ slots'[e][i] # Free
        <5>1. slots'[e][i] = slots[e][i] \/ Fills(c, w, e, i) \/ Frees(c, e, i) \/ EditsSlot(c, w, e, i)
          BY <1>0, <4>1, SlotsMove
        <5> QED
          BY <4>1, <5>1 DEF Fills, Frees, EditsSlot
      <4> QED
        BY <4>2 DEF i
    <3> QED
      BY <2>1, <3>1, <3>2 DEF Live
  <2>4. ASSUME NEW k \in Calls, Dying(k)', EngineOf[call'[k].subject] = e
        PROVE  call'[k].target # x.handle
    <3>1. CASE Dying(k) /\ call'[k].subject = call[k].subject /\ call'[k].target = call[k].target
      BY <2>1, <2>4, <3>1
    <3>2. ASSUME k = c, w.subject \in Documents, pins[w.subject] = 0, hot[w.subject] # Cold,
                 w.target = hot[w.subject], w.op = "optimize" => w.subject # w.doc
          PROVE  call'[k].target # x.handle
      <4>1. w.subject # x.doc
        <5>1. CASE p = c
          BY <1>1, <3>2, <5>1 DEF HasHandle
        <5>2. CASE p # c
          BY <1>0, <1>4, <3>2, PinnedHasPin DEF HasHandle, Pending
        <5> QED
          BY <5>1, <5>2
      <4> QED
        BY <1>1, <1>2, <2>1, <2>4, <3>2, <4>1 DEF Live
    <3> QED
      BY <1>3, <2>4, <3>1, <3>2
  <2> QED
    BY <2>3, <2>4 DEF Kept
<1>5. ASSUME p = c, ~ Dying(c), x.at = "edit", slots' = slots, hot[x.doc] # Cold, x.handle = hot[x.doc]
      PROVE  Kept(call[p])'
  <2>1. Live(slots', x.doc, x.handle)
    BY <1>2, <1>5
  <2>2. ASSUME NEW k \in Calls, Dying(k)', EngineOf[call'[k].subject] = e
        PROVE  call'[k].target # x.handle
    <3>1. k # c
      BY <1>5, <2>2 DEF Dying
    <3>2. Dying(k) /\ call'[k] = call[k]
      BY <1>1, <2>2, <3>1 DEF Dying
    <3> QED
      BY <1>2, <1>5, <2>2, <3>2 DEF Base, OwnershipInv, Ownership, HandlesOwnedOnce
  <2> QED
    BY <2>1, <2>2 DEF Kept
<1>6. ASSUME p = c, ~ Dying(c), x.handle \in FirstFree(slots[e]),
             NEW t \in SUBSET Calls, slots' = [slots EXCEPT ![e][x.handle] = [doc |-> x.doc, edits |-> t]]
      PROVE  Kept(call[p])'
  <2>1. x.handle \in Slots /\ slots[e][x.handle] = Free
    BY <1>6 DEF FirstFree
  <2>2. slots'[e][x.handle] = [doc |-> x.doc, edits |-> t]
    BY <1>2, <1>6, <2>1
  <2>3. slots'[e][x.handle] # Free
    <3>1. [doc |-> x.doc, edits |-> t] \in [doc : Documents, edits : SUBSET Calls]
      BY <1>2, <1>6
    <3> HIDE DEF x
    <3> QED
      BY <2>2, <3>1, SentinelAssumption
  <2>4. ASSUME NEW k \in Calls, Dying(k)', EngineOf[call'[k].subject] = e
        PROVE  call'[k].target # x.handle
    <3>1. CASE Dying(k) /\ call'[k].subject = call[k].subject /\ call'[k].target = call[k].target
      BY <1>2, <2>1, <2>4, <3>1 DEF Live
    <3>2. CASE k = c /\ w.subject \in Documents /\ hot[w.subject] # Cold /\ w.target = hot[w.subject]
      BY <1>1, <1>2, <2>1, <2>4, <3>2 DEF Live
    <3> QED
      BY <1>3, <2>4, <3>1, <3>2
  <2> QED
    BY <2>2, <2>3, <2>4 DEF Kept, Live
<1>7. CASE p # c
  BY <1>1, <1>4, <1>7
<1>8. CASE p = c
  <2>1. w = x /\ HasHandle(w)
    BY <1>1, <1>8
  <2> QED
    BY <1>0, <1>4, <1>5, <1>6, <1>8, <2>1, HandleInHand
<1> QED
  BY <1>7, <1>8

\* While pinned work runs, the handle it works on stays a live slot of its document, as
\* long as no engine is lost and nobody closes, reopens or replaces a document: no park and
\* no eviction pulls it away (documentRegistry.ts `pinned`, `park`, `evictIfNeeded`).
THEOREM PinsHold ==
  ASSUME Ops \cap {"close", "load", "new"} = {}
  PROVE  Spec => [](losses = 0 => PinnedWorkKeepsItsHandle)
<1>1. Init => PinInv
  <2> SUFFICES ASSUME Init PROVE PinsCount /\ \A c \in Calls : ~ HasHandle(call[c])
    BY DEF PinInv
  <2>1. \A d \in Documents : Pinned(d) = {} /\ pins[d] = 0
    BY DEF Init, Unused, Pinned
  <2> QED
    BY <2>1, FS_EmptySet DEF PinsCount, Init, Unused, HasHandle
<1>2. Base /\ PinInv /\ [Next]_vars => PinInv'
  <2> SUFFICES ASSUME Base, PinInv, [Next]_vars, losses' = 0
               PROVE  PinsCount' /\ \A p \in Calls : HasHandle(call'[p]) => Kept(call[p])'
    BY DEF PinInv
  <2>1. TypeOK /\ RecordsInv
    BY DEF Base, OwnershipInv
  <2>2. ASSUME NEW c \in Calls, NEW w, StepTo(c, w)
        PROVE  PinsCount' /\ \A p \in Calls : HasHandle(call'[p]) => Kept(call[p])'
    <3>1. losses = 0
      BY <2>2 DEF StepTo
    <3>2. PinsCount /\ \A k \in Calls : HasHandle(call[k]) => Kept(call[k])
      BY <3>1 DEF PinInv
    <3> QED
      BY <2>2, <3>2, StepKeepsPins, StepKeepsHandles
  <2>3. ~ \E e \in Engines : EngineLost(e)
    BY <2>1 DEF EngineLost, TypeOK
  <2>4. CASE UNCHANGED vars
    BY <2>4 DEF vars, PinInv, PinsCount, Pinned, Kept, Dying
  <2> QED
    BY <2>1, <2>2, <2>3, <2>4, NextIs
<1>3. Base /\ PinInv => (losses = 0 => PinnedWorkKeepsItsHandle)
  <2> SUFFICES ASSUME Base, PinInv, losses = 0,
                      NEW c \in Calls, call[c].op = "optimize", call[c].at = "edit"
               PROVE  Valid(c) /\ SlotsOf(c)[call[c].target].doc = call[c].doc
    BY DEF PinnedWorkKeepsItsHandle
  <2>1. call[c] \in CallRecord /\ RecordOK(call[c])
    BY DEF Base, OwnershipInv, TypeOK, RecordsInv
  <2>2. Kept(call[c])
    BY DEF PinInv, HasHandle
  <2> QED
    BY <2>1, <2>2 DEF RecordOK, Kept, Live, Valid, SlotsOf, CallRecord
<1> QED
  BY <1>1, <1>2, <1>3, BaseHolds, PTL DEF Spec

-----------------------------------------------------------------------------
(***************************************************************************)
(* Calls in turn: when the registry's callers wait for each call to end    *)
(* before the next, the document a call works on is as that call left it,  *)
(* whatever engines are lost meanwhile.                                    *)
(***************************************************************************)

TurnInv ==
  /\ \A c1, c2 \in InFlight : c1 = c2
  /\ \A c \in Calls : call[c].at \in {"create", "hydrate", "closeFree"} => hot[call[c].doc] = Cold
  /\ \A c \in Calls : call[c].at \in Pending /\ call[c].handle # Cold =>
       \/ hot[call[c].doc] = call[c].handle
       \/ slots[EngineOf[call[c].doc]][call[c].handle] = Free

LEMMA AloneInTurn ==
  ASSUME TypeOK, TurnInv, MaxInFlight = 1, NEW c \in Calls, NEW w, StepTo(c, w)
  PROVE  \A k \in Calls : k # c => call[k].at \notin Pending /\ call'[k] = call[k] /\ ~ Dying(k)
<1>1. ASSUME NEW k \in Calls, k # c, call[k].at \in Pending
      PROVE  FALSE
  <2>1. k \in InFlight /\ InFlight = {k}
    BY <1>1 DEF InFlight, TurnInv
  <2>2. Cardinality(InFlight) = 1
    BY <2>1, FS_Singleton
  <2>3. call[c].at \notin Pending
    BY <1>1, <2>1 DEF InFlight
  <2> QED
    BY <2>2, <2>3 DEF StepTo
<1> QED
  BY <1>1, StepCalls DEF Dying, Pending

LEMMA StepKeepsTurn ==
  ASSUME Base, TurnInv, MaxInFlight = 1, NEW c \in Calls, NEW w, StepTo(c, w)
  PROVE  TurnInv'
<1> DEFINE r == call[c]
           e == EngineOf[w.doc]
<1>0. TypeOK /\ RecordsInv
  BY DEF Base, OwnershipInv
<1>1. call'[c] = w /\ \A k \in Calls : k # c => call'[k].at \notin Pending
  BY <1>0, StepCalls, AloneInTurn
<1>2. /\ w \in CallRecord /\ RecordOK(w) /\ w.at # "ready" /\ RecordOK(r) /\ r \in CallRecord
      /\ r.at \in Pending => w.op = r.op /\ w.doc = r.doc
      /\ (r.at = "ready" /\ Begun(w)) \/ (r.at \in Pending /\ Continued(c, w))
      /\ w.doc \in Documents /\ e \in Engines /\ w.subject \in Documents
  BY <1>0, StepIs, EngineOfAssumption DEF CallRecord
<1>3. \A c1, c2 \in InFlight' : c1 = c2
  BY <1>1 DEF InFlight
<1>4. w.at \in {"create", "hydrate", "closeFree"} => hot'[w.doc] = Cold
  <2>1. CASE Begun(w)
    BY <1>0, <1>2, <2>1 DEF Begun, Opened, ParkBegun, Waits, CloseBegun, ClosedCold, Idle, TypeOK
  <2>2. CASE Continued(c, w)
    BY <2>2, Zenon DEF Continued, Acquired, Adopted, Refuses, Texted, Freed, Closed, Edited, Saved, GoesOn
  <2> QED
    BY <1>2, <2>1, <2>2
<1>5. ASSUME w.at \in Pending, w.handle # Cold
      PROVE  hot'[w.doc] = w.handle \/ slots'[e][w.handle] = Free
  <2>1. ASSUME NEW s \in Slots, NEW h, h = [hot EXCEPT ![w.doc] = s], GoesOn(w, h, s)
        PROVE  hot'[w.doc] = w.handle
    <3>1. h \in [Documents -> Slots \cup {Cold}] /\ h[w.doc] = s
      BY <1>0, <1>2, <2>1 DEF TypeOK
    <3>2. w \in CallRecord /\ GoesOn(w, h, s)
      BY <1>2, <2>1
    <3>3. hot'[w.doc] = h[w.doc] /\ w.handle = s
      BY <1>5, <3>1, <3>2, GoesOnDocument
    <3> QED
      BY <3>1, <3>3
  <2>2. CASE Begun(w)
    BY <1>2, <1>5, <2>2
       DEF Begun, Opened, ParkBegun, Waits, CloseBegun, ClosedCold, Idle, RecordOK, Pending
  <2>3. CASE r.at \in Pending /\ Acquired(r, w)
    BY <1>2, <2>1, <2>3 DEF Acquired, FirstFree
  <2>4. CASE r.at \in Pending /\ Adopted(r, w)
    BY <1>0, <1>2, <2>1, <2>4 DEF Adopted, FirstFree, TypeOK
  <2>5. CASE Texted(c, w)
    BY <1>2, <1>5, <2>5 DEF Texted, TurnInv, Pending
  <2>6. CASE Freed(c, w)
    <3>1. r.at \in Pending /\ w.doc = r.doc /\ FreeSlot(c)
      BY <1>2, <2>6 DEF Freed, Pending
    <3>2. GoesOn(w, hot, r.handle)
      BY <1>5, <2>6 DEF Freed, Pending
    <3>0. hot \in [Documents -> Slots \cup {Cold}] /\ w \in CallRecord
      BY <1>0, <1>2 DEF TypeOK
    <3>3. hot'[w.doc] = hot[w.doc] /\ w.handle = r.handle
      BY <1>5, <3>0, <3>2, GoesOnDocument
    <3>4. hot[w.doc] = w.handle \/ slots[e][w.handle] = Free
      BY <1>5, <3>1, <3>3 DEF TurnInv
    <3>5. w.handle \in Slots
      BY <1>2, <1>5 DEF CallRecord
    <3>6. slots[e][w.handle] = Free => slots'[e][w.handle] = Free
      BY <1>0, <1>2, <3>1, <3>5 DEF FreeSlot, TypeOK
    <3> QED
      BY <3>3, <3>4, <3>6
  <2>7. ~ Refuses(r, w) /\ ~ Closed(c, w) /\ ~ Edited(c, w) /\ ~ Saved(r, w)
    BY <1>5 DEF Refuses, Closed, Edited, Saved, Pending
  <2> QED
    BY <1>2, <2>2, <2>3, <2>4, <2>5, <2>6, <2>7 DEF Continued
<1>6. \A k \in Calls : call'[k].at \in Pending => k = c
  BY <1>1
<1>7. {"create", "hydrate", "closeFree"} \subseteq Pending
  BY DEF Pending
<1> QED
  BY <1>1, <1>3, <1>4, <1>5, <1>6, <1>7 DEF TurnInv

\* The slot an edit reaches is its document's: no other call came between.
LEMMA EditInTurn ==
  ASSUME Base, TurnInv, NEW c \in Calls, NEW w, StepTo(c, w), Edited(c, w)
  PROVE  LET r == call[c] IN
         /\ r.at = "edit" /\ w.doc = r.doc /\ r.subject = r.doc /\ r.target = hot[r.doc]
         /\ hot[r.doc] # Cold /\ Live(slots, r.doc, hot[r.doc])
<1> DEFINE r == call[c]
<1>1. r.at = "edit" /\ r.at \in Pending /\ Valid(c)
  BY DEF Edited, Pending
<1>2. w.doc = r.doc /\ RecordOK(r) /\ r.doc \in Documents
  BY <1>1, StepIs DEF Base, OwnershipInv, CallRecord
<1>3. r.subject = r.doc /\ r.target = r.handle /\ r.handle # Cold
  BY <1>1, <1>2 DEF RecordOK
<1>4. hot[r.doc] = r.handle
  BY <1>1, <1>3 DEF TurnInv, Valid, SlotsOf
<1> QED
  BY <1>1, <1>2, <1>3, <1>4 DEF Base, OwnershipInv, Ownership, OwnedHandlesLive, Live

LEMMA LossKeepsTurn ==
  ASSUME Base, TurnInv, NEW e \in Engines, EngineLost(e)
  PROVE  TurnInv'
<1>0. TypeOK
  BY DEF Base, OwnershipInv
<1>1. \A k \in Calls : call'[k].at \in Pending => call'[k] = call[k]
  BY <1>0, LossIs DEF Pending
<1>2. \A c1, c2 \in InFlight' : c1 = c2
  BY <1>1 DEF InFlight, TurnInv
<1>3. ASSUME NEW k \in Calls, call'[k].at \in Pending
      PROVE  /\ call[k].doc \in Documents /\ EngineOf[call[k].doc] \in Engines
             /\ call[k].at \in {"create", "hydrate", "closeFree"} => hot'[call[k].doc] = Cold
             /\ call[k].handle # Cold =>
                  \/ hot'[call[k].doc] = call[k].handle
                  \/ slots'[EngineOf[call[k].doc]][call[k].handle] = Free
  <2>1. /\ call[k].doc \in Documents /\ EngineOf[call[k].doc] \in Engines
        /\ call[k].handle \in Slots \cup {Cold}
    BY <1>0, EngineOfAssumption DEF TypeOK, CallRecord
  <2>2. call[k].at \in Pending
    BY <1>1, <1>3
  <2> QED
    BY <1>0, <2>1, <2>2, LossIs DEF TurnInv
<1>4. {"create", "hydrate", "closeFree"} \subseteq Pending
  BY DEF Pending
<1> QED
  BY <1>1, <1>2, <1>3, <1>4 DEF TurnInv

LEMMA TurnHolds ==
  ASSUME MaxInFlight = 1
  PROVE  Spec => [](Base /\ TurnInv)
<1>1. Init => TurnInv
  BY DEF Init, Unused, TurnInv, InFlight, Pending
<1>2. Base /\ TurnInv /\ [Next]_vars => TurnInv'
  <2> SUFFICES ASSUME Base, TurnInv, [Next]_vars PROVE TurnInv'
    OBVIOUS
  <2>1. CASE Next
    BY <2>1, NextIs, StepKeepsTurn, LossKeepsTurn DEF Base, OwnershipInv
  <2>2. CASE UNCHANGED vars
    BY <2>2 DEF vars, TurnInv, InFlight
  <2> QED
    BY <2>1, <2>2
<1> QED
  BY <1>1, <1>2, BaseHolds, PTL DEF Spec

-----------------------------------------------------------------------------
(* Where the edits are: a document holds edits of its own calls only.      *)

\* The calls made on d, in the call table f.
Mine(f, d) == {c \in Calls : f[c].doc = d /\ f[c].at # "ready"}

EditsInv ==
  /\ \A e \in Engines, i \in Slots : slots[e][i] # Free =>
       slots[e][i].edits \subseteq Mine(call, slots[e][i].doc)
  /\ \A d \in Documents : Stored(d) \subseteq Mine(call, d) /\ made[d] \subseteq Mine(call, d)
  /\ \A c \in Calls : call[c].at \in {"create", "hydrate"} => call[c].text \subseteq Mine(call, call[c].doc)

LEMMA StepKeepsEdits ==
  ASSUME Base, TurnInv, EditsInv, MaxInFlight = 1, NEW c \in Calls, NEW w, StepTo(c, w)
  PROVE  EditsInv'
<1> DEFINE r == call[c]
<1>0. TypeOK /\ RecordsInv
  BY DEF Base, OwnershipInv
<1>1. call'[c] = w /\ \A k \in Calls : k # c => call'[k] = call[k]
  BY <1>0, StepCalls
<1>2. /\ w \in CallRecord /\ RecordOK(w) /\ w.at # "ready" /\ RecordOK(r) /\ r \in CallRecord
      /\ r.at \in Pending => w.op = r.op /\ w.doc = r.doc
      /\ (r.at = "ready" /\ Begun(w)) \/ (r.at \in Pending /\ Continued(c, w))
      /\ r.doc \in Documents /\ w.doc \in Documents /\ r.subject \in Documents
  BY <1>0, StepIs DEF CallRecord
<1>3. \A d : Mine(call, d) \subseteq Mine(call', d)
  <2>1. r.at # "ready" => w.doc = r.doc
    BY <1>2
  <2> QED
    BY <1>1, <1>2, <2>1 DEF Mine
<1>4. c \in Mine(call', w.doc)
  BY <1>1, <1>2 DEF Mine
<1>5. ASSUME Edited(c, w)
      PROVE  /\ r.at = "edit" /\ w.doc = r.doc /\ r.subject = r.doc /\ r.target = hot[r.doc]
             /\ hot[r.doc] # Cold /\ Live(slots, r.doc, hot[r.doc])
  BY <1>5, EditInTurn
<1>6. ASSUME NEW e \in Engines, NEW i \in Slots, slots'[e][i] # Free
      PROVE  slots'[e][i].edits \subseteq Mine(call', slots'[e][i].doc)
  <2>1. CASE slots'[e][i] = slots[e][i]
    BY <1>3, <1>6, <2>1 DEF EditsInv
  <2>2. CASE Acquired(r, w) /\ slots'[e][i] = [doc |-> r.doc, edits |-> r.text]
    <3>1. r.text \subseteq Mine(call, r.doc)
      BY <2>2 DEF Acquired, EditsInv
    <3> QED
      BY <1>3, <2>2, <3>1
  <2>3. CASE slots'[e][i] = [doc |-> r.doc, edits |-> {}]
    BY <2>3
  <2>4. ASSUME Edited(c, w), e = EngineOf[r.subject], i = r.target, slots[e][i] # Free,
               slots'[e][i].doc = slots[e][i].doc, slots'[e][i].edits = slots[e][i].edits \cup {c}
        PROVE  slots'[e][i].edits \subseteq Mine(call', slots'[e][i].doc)
    <3>1. slots[e][i].doc = w.doc
      BY <1>5, <2>4, Zenon DEF Live
    <3> QED
      BY <1>3, <1>4, <2>4, <3>1, Zenon DEF EditsInv
  <2> QED
    <3>1. slots'[e][i] = slots[e][i] \/ Fills(c, w, e, i) \/ Frees(c, e, i) \/ EditsSlot(c, w, e, i)
      BY <1>0, SlotsMove
    <3> QED
      BY <1>6, <2>1, <2>2, <2>3, <2>4, <3>1 DEF Fills, Frees, EditsSlot
<1>7. ASSUME NEW d \in Documents
      PROVE  Stored(d)' \subseteq Mine(call', d)
  <2>0. /\ Stored(d) \subseteq Mine(call', d) /\ parked \in [Documents -> {NoText} \cup SUBSET Calls]
    BY <1>0, <1>3 DEF EditsInv, TypeOK
  <2>1. CASE UNCHANGED parked
    BY <2>0, <2>1 DEF Stored
  <2>2. ASSUME NEW x \in Documents, parked' = [parked EXCEPT ![x] = NoText] \/ parked' = [parked EXCEPT ![x] = {}]
        PROVE  Stored(d)' \subseteq Mine(call', d)
    BY <2>0, <2>2 DEF Stored
  <2>3. ASSUME Valid(c), Dying(c), parked' = [parked EXCEPT ![r.subject] = SlotsOf(c)[r.target].edits]
        PROVE  Stored(d)' \subseteq Mine(call', d)
    <3>1. SlotsOf(c)[r.target].doc = r.subject
      BY <2>3 DEF Base, OwnershipInv, Ownership, OwnedHandlesLive
    <3>2. SlotsOf(c)[r.target].edits \subseteq Mine(call', r.subject)
      BY <1>2, <1>3, <2>3, <3>1, EngineOfAssumption DEF Valid, SlotsOf, EditsInv
    <3> QED
      BY <1>2, <2>0, <2>3, <3>2 DEF Stored
  <2>4. \A x : TextAfterForget(x) \in {NoText, {}}
    BY DEF TextAfterForget
  <2>5. CASE Begun(w)
    BY <1>2, <2>1, <2>2, <2>4, <2>5
       DEF Begun, Opened, ParkBegun, Waits, CloseBegun, ClosedCold, Idle, Forgotten
  <2>6. CASE Texted(c, w)
    BY <2>1, <2>3, <2>6 DEF Texted, Dying
  <2>7. CASE Continued(c, w) /\ ~ Texted(c, w)
    BY <1>2, <2>1, <2>2, <2>4, <2>7, Zenon
       DEF Continued, Acquired, Adopted, Refuses, Freed, Closed, Edited, Saved, Idle, Forgotten
  <2> QED
    BY <1>2, <2>5, <2>6, <2>7
<1>8. ASSUME NEW d \in Documents
      PROVE  made'[d] \subseteq Mine(call', d)
  <2>0. /\ made[d] \subseteq Mine(call', d) /\ made \in [Documents -> SUBSET Calls]
    BY <1>0, <1>3 DEF EditsInv, TypeOK
  <2>1. CASE UNCHANGED made
    BY <2>0, <2>1
  <2>2. ASSUME NEW x \in Documents, made' = [made EXCEPT ![x] = {}]
        PROVE  made'[d] \subseteq Mine(call', d)
    BY <2>0, <2>2
  <2>3. CASE Edited(c, w)
    <3>1. made' = [made EXCEPT ![r.doc] = @ \cup {c}] /\ w.doc = r.doc
      BY <1>5, <2>3, Zenon DEF Edited
    <3> QED
      BY <1>2, <1>4, <2>0, <3>1
  <2>4. CASE Begun(w)
    BY <1>2, <2>1, <2>2, <2>4
       DEF Begun, Opened, ParkBegun, Waits, CloseBegun, ClosedCold, Idle, Forgotten
  <2>5. CASE Continued(c, w) /\ ~ Edited(c, w)
    BY <1>2, <2>1, <2>2, <2>5, Zenon
       DEF Continued, Acquired, Adopted, Refuses, Texted, Freed, Closed, Saved, Idle, Forgotten
  <2> QED
    BY <1>2, <2>3, <2>4, <2>5
<1>9. ASSUME NEW k \in Calls, call'[k].at \in {"create", "hydrate"}
      PROVE  call'[k].text \subseteq Mine(call', call'[k].doc)
  <2>1. CASE k # c
    BY <1>1, <1>3, <1>9, <2>1 DEF EditsInv
  <2>2. CASE k = c
    <3>1. ~ Continued(c, w)
      BY <1>1, <1>9, <2>2, Zenon
         DEF Continued, Acquired, Adopted, Refuses, Texted, Freed, Closed, Edited, Saved, GoesOn
    <3>2. Opened(w)
      BY <1>1, <1>2, <1>9, <2>2, <3>1 DEF Begun, ParkBegun, Waits, CloseBegun, ClosedCold
    <3>3. w.text = Stored(w.doc)
      BY <1>1, <1>9, <2>2, <3>2 DEF Opened
    <3> QED
      BY <1>1, <1>2, <1>3, <2>2, <3>3 DEF EditsInv
  <2> QED
    BY <2>1, <2>2
<1> QED
  BY <1>6, <1>7, <1>8, <1>9 DEF EditsInv

LEMMA LossKeepsEdits ==
  ASSUME Base, EditsInv, NEW e \in Engines, EngineLost(e)
  PROVE  EditsInv'
<1>0. TypeOK
  BY DEF Base, OwnershipInv
<1>1. \A k \in Calls : call'[k] = call[k] \/ (call'[k].at = "hung" /\ call'[k].doc = call[k].doc)
  BY <1>0, LossIs
<1>2. \A d : Mine(call, d) \subseteq Mine(call', d)
  BY <1>1 DEF Mine
<1>3. \A x \in Engines, i \in Slots : slots'[x][i] = Free \/ slots'[x][i] = slots[x][i]
  BY <1>0, LossIs
<1>4. UNCHANGED <<parked, made>>
  BY <1>0, LossIs
<1> QED
  BY <1>1, <1>2, <1>3, <1>4 DEF EditsInv, Stored

\* When the registry's callers wait for each call to end before the next, an edit it
\* acknowledged went into the document the caller asked to edit, whatever was parked, evicted
\* or lost before it (documentRegistry.ts `acquire`, `park`; the engines' slot tables).
THEOREM EditsInTurnLand ==
  ASSUME MaxInFlight = 1
  PROVE  Spec => []EditsLandOnTheirDocument
<1>1. Init => EditsInv
  BY DEF Init, Unused, EditsInv, Stored
<1>2. Base /\ TurnInv /\ EditsInv /\ [Next]_vars => EditsInv'
  <2> SUFFICES ASSUME Base, TurnInv, EditsInv, [Next]_vars PROVE EditsInv'
    OBVIOUS
  <2>1. CASE Next
    BY <2>1, NextIs, StepKeepsEdits, LossKeepsEdits DEF Base, OwnershipInv
  <2>2. CASE UNCHANGED vars
    BY <2>2 DEF vars, EditsInv, Mine, Stored
  <2> QED
    BY <2>1, <2>2
<1>3. Base /\ EditsInv => EditsLandOnTheirDocument
  BY DEF EditsInv, EditsLandOnTheirDocument, Mine
<1> QED
  BY <1>1, <1>2, <1>3, TurnHolds, PTL DEF Spec

-----------------------------------------------------------------------------
(***************************************************************************)
(* What a step does to the handle of document d: it leaves it, gives the   *)
(* document the slot it allocates, or takes it out to park or to close.    *)
(***************************************************************************)

HotStays(d) == hot'[d] = hot[d]
HotFilled(c, w, d) ==
  /\ d = call[c].doc /\ d = w.doc /\ hot'[d] \in Slots /\ Fills(c, w, EngineOf[d], hot'[d])
  /\ hot[d] # Cold => w.at = "adoptFree" /\ w.subject = d /\ w.target = hot[d]
HotLeaves(w, d) ==
  /\ hot[d] # Cold /\ hot'[d] = Cold /\ w.subject = d /\ w.target = hot[d]
  /\ \/ w.at = "parkText" /\ (d # w.doc \/ w.op = "park")
     \/ w.at = "closeFree" /\ d = w.doc

LEMMA GoesOnHot ==
  ASSUME NEW w \in CallRecord, NEW h \in [Documents -> Slots \cup {Cold}], NEW i,
         GoesOn(w, h, i), NEW d \in Documents
  PROVE  \/ hot'[d] = h[d]
         \/ /\ w.at = "parkText" /\ w.subject = d /\ d # w.doc /\ h[d] # Cold /\ w.target = h[d]
            /\ hot'[d] = Cold
BY DEF GoesOn, CallRecord

\* A call that asks for a text to park has taken the document's handle.
LEMMA ParkTextLeaves ==
  ASSUME TypeOK, RecordsInv, NEW c \in Calls, NEW w, StepTo(c, w), w.at = "parkText"
  PROVE  HotLeaves(w, w.subject)
<1> DEFINE r == call[c]
<1>1. /\ w \in CallRecord /\ w.subject \in Documents /\ w.doc \in Documents
      /\ r.at \in Pending => w.op = r.op /\ w.doc = r.doc
      /\ (r.at = "ready" /\ Begun(w)) \/ (r.at \in Pending /\ Continued(c, w))
      /\ hot \in [Documents -> Slots \cup {Cold}]
  BY StepIs DEF CallRecord, TypeOK
<1>2. ASSUME NEW h, NEW i, GoesOn(w, h, i), h = hot \/ \E s : h = [hot EXCEPT ![w.doc] = s]
      PROVE  HotLeaves(w, w.subject)
  <2>1. /\ h[w.subject] # Cold /\ w.subject # w.doc /\ w.target = h[w.subject]
        /\ hot' = [h EXCEPT ![w.subject] = Cold]
    BY <1>2 DEF GoesOn
  <2>2. h[w.subject] = hot[w.subject] /\ DOMAIN h = Documents
    BY <1>1, <1>2, <2>1
  <2> QED
    BY <1>1, <2>1, <2>2 DEF HotLeaves
<1>3. CASE Begun(w)
  <2>1. ParkBegun(w)
    BY <1>3 DEF Begun, Opened, Waits, CloseBegun, ClosedCold
  <2> QED
    BY <1>1, <2>1 DEF ParkBegun, HotLeaves
<1>4. CASE Acquired(r, w) /\ r.at \in Pending
  BY <1>1, <1>2, <1>4 DEF Acquired
<1>5. CASE Adopted(r, w) /\ r.at \in Pending
  <2>1. \E s : GoesOn(w, [hot EXCEPT ![r.doc] = s], s)
    BY <1>5 DEF Adopted
  <2> QED
    BY <1>1, <1>2, <1>5, <2>1
<1>6. CASE Freed(c, w)
  BY <1>2, <1>6 DEF Freed
<1>7. ~ Refuses(r, w) /\ ~ Texted(c, w) /\ ~ Closed(c, w) /\ ~ Edited(c, w) /\ ~ Saved(r, w)
  BY DEF Refuses, Texted, Closed, Edited, Saved
<1> QED
  BY <1>1, <1>3, <1>4, <1>5, <1>6, <1>7 DEF Continued

LEMMA HotMove ==
  ASSUME TypeOK, RecordsInv, TurnInv, NEW c \in Calls, NEW w, StepTo(c, w), NEW d \in Documents
  PROVE  HotStays(d) \/ HotFilled(c, w, d) \/ HotLeaves(w, d)
<1> DEFINE r == call[c]
<1>1. /\ w \in CallRecord /\ RecordOK(w) /\ RecordOK(r) /\ r \in CallRecord
      /\ r.at \in Pending => w.op = r.op /\ w.doc = r.doc
      /\ (r.at = "ready" /\ Begun(w)) \/ (r.at \in Pending /\ Continued(c, w))
      /\ r.doc \in Documents /\ w.doc \in Documents /\ EngineOf[r.doc] \in Engines
  BY StepIs, EngineOfAssumption DEF CallRecord
<1>2. /\ hot \in [Documents -> Slots \cup {Cold}]
      /\ slots \in [Engines -> [Slots -> {Free} \cup [doc : Documents, edits : SUBSET Calls]]]
  BY DEF TypeOK
<1>3. ASSUME GoesOn(w, hot, r.handle)
      PROVE  HotStays(d) \/ HotLeaves(w, d)
  BY <1>1, <1>2, <1>3, GoesOnHot DEF HotStays, HotLeaves
<1>4. ASSUME NEW s \in Slots, NEW h, h = [hot EXCEPT ![r.doc] = s], w.doc = r.doc,
             \/ GoesOn(w, h, s) /\ hot[r.doc] = Cold
             \/ hot' = h /\ (hot[r.doc] # Cold =>
                  w.at = "adoptFree" /\ w.subject = r.doc /\ w.target = hot[r.doc]),
             Fills(c, w, EngineOf[r.doc], s)
      PROVE  HotStays(d) \/ HotFilled(c, w, d) \/ HotLeaves(w, d)
  <2>1. h \in [Documents -> Slots \cup {Cold}] /\ h[r.doc] = s
        /\ \A v \in Documents : v # r.doc => h[v] = hot[v]
    BY <1>1, <1>2, <1>4
  <2>2. CASE d = r.doc
    <3>1. hot'[r.doc] = s
      <4>1. CASE hot' = h
        BY <2>1, <4>1
      <4>2. CASE GoesOn(w, h, s)
        <5>1. hot'[w.doc] = h[w.doc]
          BY <1>1, <2>1, <4>2, GoesOnDocument
        <5> QED
          BY <1>4, <2>1, <5>1
      <4> QED
        BY <1>4, <4>1, <4>2
    <3> QED
      BY <1>4, <2>2, <3>1 DEF HotFilled
  <2>3. CASE d # r.doc
    <3>1. CASE hot' = h
      BY <2>1, <2>3, <3>1 DEF HotStays
    <3>2. CASE GoesOn(w, h, s)
      BY <1>1, <2>1, <2>3, <3>2, GoesOnHot DEF HotStays, HotLeaves
    <3> QED
      BY <1>4, <3>1, <3>2
  <2> QED
    BY <2>2, <2>3
<1>5. CASE Begun(w)
  BY <1>1, <1>2, <1>5 DEF Begun, Opened, ParkBegun, Waits, CloseBegun, ClosedCold, Idle,
     HotStays, HotLeaves, RecordOK
<1>6. CASE r.at \in Pending /\ Acquired(r, w)
  <2>1. PICK s \in FirstFree(slots[EngineOf[r.doc]]) :
          /\ slots' = [slots EXCEPT ![EngineOf[r.doc]][s] = [doc |-> r.doc, edits |-> r.text]]
          /\ GoesOn(w, [hot EXCEPT ![r.doc] = s], s)
    BY <1>6 DEF Acquired
  <2>2. s \in Slots /\ slots[EngineOf[r.doc]][s] = Free /\ w.doc = r.doc /\ hot[r.doc] = Cold
    BY <1>1, <1>6, <2>1 DEF FirstFree, Acquired, TurnInv
  <2>3. hot'[r.doc] = s
    <3> DEFINE h == [hot EXCEPT ![r.doc] = s]
    <3>1. h \in [Documents -> Slots \cup {Cold}] /\ h[r.doc] = s /\ (GoesOn(w, h, s))
      BY <1>1, <1>2, <2>1, <2>2
    <3> HIDE DEF h
    <3>2. GoesOn(w, h, s) => hot'[w.doc] = h[w.doc]
      BY <1>1, <3>1, GoesOnDocument
    <3> QED
      BY <2>2, <3>1, <3>2
  <2>4. slots'[EngineOf[r.doc]][s] = [doc |-> r.doc, edits |-> r.text]
    BY <1>1, <1>2, <2>1, <2>2
  <2>5. Fills(c, w, EngineOf[r.doc], s)
    BY <1>6, <2>2, <2>3, <2>4 DEF Fills
  <2> QED
    BY <1>4, <2>1, <2>2, <2>5
<1>7. CASE r.at \in Pending /\ Adopted(r, w)
  <2>1. PICK s \in FirstFree(slots[EngineOf[r.doc]]) :
          /\ slots' = [slots EXCEPT ![EngineOf[r.doc]][s] = [doc |-> r.doc, edits |-> {}]]
          /\ \/ /\ hot[r.doc] # Cold /\ hot' = [hot EXCEPT ![r.doc] = s]
                /\ w.at = "adoptFree" /\ w.handle = s /\ w.target = hot[r.doc]
             \/ hot[r.doc] = Cold /\ GoesOn(w, [hot EXCEPT ![r.doc] = s], s)
    BY <1>7 DEF Adopted
  <2>2. s \in Slots /\ slots[EngineOf[r.doc]][s] = Free /\ w.doc = r.doc
    BY <1>1, <1>7, <2>1 DEF FirstFree
  <2>3. hot'[r.doc] = s
    <3> DEFINE h == [hot EXCEPT ![r.doc] = s]
    <3>1. h \in [Documents -> Slots \cup {Cold}] /\ h[r.doc] = s /\ (hot' = h \/ GoesOn(w, h, s))
      BY <1>1, <1>2, <2>1, <2>2
    <3> HIDE DEF h
    <3>2. GoesOn(w, h, s) => hot'[w.doc] = h[w.doc]
      BY <1>1, <3>1, GoesOnDocument
    <3> QED
      BY <2>2, <3>1, <3>2
  <2>4. slots'[EngineOf[r.doc]][s] = [doc |-> r.doc, edits |-> {}]
    BY <1>1, <1>2, <2>1, <2>2
  <2>5. Fills(c, w, EngineOf[r.doc], s)
    BY <1>7, <2>2, <2>3, <2>4 DEF Fills
  <2>6. w.at = "adoptFree" => w.subject = r.doc
    BY <1>1, <2>2 DEF RecordOK
  <2> QED
    BY <1>4, <2>1, <2>2, <2>5, <2>6
<1>8. CASE Freed(c, w)
  BY <1>3, <1>8 DEF Freed, HotStays
<1>9. CASE Refuses(r, w) \/ Texted(c, w) \/ Closed(c, w) \/ Edited(c, w) \/ Saved(r, w)
  BY <1>9, Zenon DEF Refuses, Texted, Closed, Edited, Saved, Idle, HotStays
<1> QED
  BY <1>1, <1>5, <1>6, <1>7, <1>8, <1>9 DEF Continued

-----------------------------------------------------------------------------
(* Leaks: each slot in use is a document's, or about to be freed.          *)

LeakInv ==
  \A e \in Engines, i \in Slots : slots[e][i] # Free =>
    \/ \E d \in Documents : EngineOf[d] = e /\ hot[d] = i
    \/ \E k \in Calls : Dying(k) /\ EngineOf[call[k].subject] = e /\ call[k].target = i

LEMMA StepKeepsLeaks ==
  ASSUME Base, TurnInv, LeakInv, NEW c \in Calls, NEW w, StepTo(c, w)
  PROVE  LeakInv'
<1> DEFINE r == call[c]
<1>0. TypeOK /\ RecordsInv
  BY DEF Base, OwnershipInv
<1>1. call'[c] = w /\ \A k \in Calls : k # c => call'[k] = call[k]
  BY <1>0, StepCalls
<1>2. /\ r \in CallRecord /\ r.doc \in Documents
      /\ (r.at = "ready" /\ Begun(w)) \/ (r.at \in Pending /\ Continued(c, w))
  BY <1>0, StepIs DEF CallRecord
<1>3. SUFFICES ASSUME NEW e \in Engines, NEW i \in Slots, slots'[e][i] # Free
               PROVE  \/ \E d \in Documents : EngineOf[d] = e /\ hot'[d] = i
                      \/ \E k \in Calls : Dying(k)' /\ EngineOf[call'[k].subject] = e /\ call'[k].target = i
  BY DEF LeakInv
<1>4. CASE Fills(c, w, e, i)
  BY <1>2, <1>4 DEF Fills
<1>5. ASSUME slots[e][i] # Free, NEW d \in Documents, EngineOf[d] = e, hot[d] = i
      PROVE  \/ hot'[d] = i
             \/ Dying(c)' /\ EngineOf[call'[c].subject] = e /\ call'[c].target = i
  <2>1. i # Cold
    BY SentinelAssumption
  <2>2. CASE HotFilled(c, w, d) \/ HotLeaves(w, d)
    BY <1>1, <1>5, <2>1, <2>2 DEF HotFilled, HotLeaves, Dying
  <2> QED
    BY <1>0, <1>5, <2>2, HotMove DEF HotStays
<1>6. ASSUME slots[e][i] # Free, NEW k \in Calls, Dying(k), EngineOf[call[k].subject] = e, call[k].target = i
      PROVE  Dying(k)' /\ EngineOf[call'[k].subject] = e /\ call'[k].target = i
  <2>1. CASE k # c
    BY <1>1, <1>6, <2>1 DEF Dying
  <2>2. CASE k = c
    <3>1. r.at \in DyingAt /\ Continued(c, w)
      BY <1>2, <1>6, <2>2 DEF Dying, DyingAt
    <3>2. ~ FreeSlot(c)
      <4>1. slots \in [Engines -> [Slots -> {Free} \cup [doc : Documents, edits : SUBSET Calls]]]
        BY <1>0 DEF TypeOK
      <4> QED
        BY <1>3, <1>6, <2>2, <4>1 DEF FreeSlot
    <3>3. Texted(c, w)
      BY <3>1, <3>2, Zenon DEF DyingAt, Continued, Acquired, Adopted, Refuses, Freed, Closed, Edited, Saved
    <3> QED
      BY <1>1, <1>6, <2>2, <3>3 DEF Texted, Dying
  <2> QED
    BY <2>1, <2>2
<1>7. slots'[e][i] = slots[e][i] \/ Fills(c, w, e, i) \/ Frees(c, e, i) \/ EditsSlot(c, w, e, i)
  BY <1>0, SlotsMove
<1>8. CASE slots[e][i] # Free
  BY <1>5, <1>6, <1>8 DEF LeakInv
<1> QED
  BY <1>3, <1>4, <1>7, <1>8 DEF Frees, EditsSlot

LEMMA LossKeepsLeaks ==
  ASSUME Base, LeakInv, NEW e \in Engines, EngineLost(e)
  PROVE  LeakInv'
<1>0. TypeOK
  BY DEF Base, OwnershipInv
<1> SUFFICES ASSUME NEW x \in Engines, NEW i \in Slots, slots'[x][i] # Free
             PROVE  \/ \E d \in Documents : EngineOf[d] = x /\ hot'[d] = i
                    \/ \E k \in Calls : Dying(k)' /\ EngineOf[call'[k].subject] = x /\ call'[k].target = i
  BY DEF LeakInv
<1>1. x # e /\ slots[x][i] # Free
  BY <1>0, LossIs
<1>2. \A d \in Documents : EngineOf[d] = x => hot'[d] = hot[d]
  BY <1>0, <1>1, LossIs
<1>3. \A k \in Calls : EngineOf[call[k].subject] = x => call'[k] = call[k]
  BY <1>0, <1>1, LossIs
<1> QED
  BY <1>1, <1>2, <1>3 DEF LeakInv, Dying

\* When the registry's callers wait for each call to end before the next, the engines hold no
\* document the registry has lost track of, whatever engines are lost: a handle is in the
\* registry or on its way to be freed (documentRegistry.ts `acquire`, `adoptHandle`, `park`).
THEOREM NothingLeaksInTurn ==
  ASSUME MaxInFlight = 1
  PROVE  Spec => []NoLeakedHandle
<1>1. Init => LeakInv
  BY DEF Init, LeakInv
<1>2. Base /\ TurnInv /\ LeakInv /\ [Next]_vars => LeakInv'
  <2> SUFFICES ASSUME Base, TurnInv, LeakInv, [Next]_vars PROVE LeakInv'
    OBVIOUS
  <2>1. CASE Next
    BY <2>1, NextIs, StepKeepsLeaks, LossKeepsLeaks DEF Base, OwnershipInv
  <2>2. CASE UNCHANGED vars
    BY <2>2 DEF vars, LeakInv, Dying
  <2> QED
    BY <2>1, <2>2
<1>3. LeakInv => NoLeakedHandle
  BY DEF LeakInv, NoLeakedHandle, Quiet, Dying
<1> QED
  BY <1>1, <1>2, <1>3, TurnHolds, PTL DEF Spec

-----------------------------------------------------------------------------
(***************************************************************************)
(* Lost work: the edits acknowledged for a document are in its live        *)
(* handle, or in the slot whose text is being asked for, or in its parked  *)
(* text, unless it is being closed.                                        *)
(***************************************************************************)

HandleText(d) == slots[EngineOf[d]][hot[d]].edits

WorkKept ==
  /\ \A d \in Documents : hot[d] # Cold => HandleText(d) = made[d]
  /\ \A d \in Documents : hot[d] = Cold =>
       \/ Stored(d) = made[d]
       \/ \E k \in Calls : call[k].at \in {"parkText", "closeFree"} /\ call[k].subject = d
  /\ \A k \in Calls : call[k].at \in {"create", "hydrate"} => call[k].text = made[call[k].doc]
  /\ \A k \in Calls : call[k].at = "parkText" =>
       SlotsOf(k)[call[k].target].edits = made[call[k].subject]

\* What a step does to the edits acknowledged for d.
LEMMA MadeMove ==
  ASSUME Base, TurnInv, NEW c \in Calls, NEW w, StepTo(c, w), NEW d \in Documents
  PROVE  \/ made'[d] = made[d] /\ ~ (Edited(c, w) /\ d = w.doc) /\ ~ (Adopted(call[c], w) /\ d = w.doc)
         \/ made'[d] = made[d] \cup {c} /\ Edited(c, w) /\ d = w.doc
         \/ made'[d] = {} /\ Adopted(call[c], w) /\ d = w.doc /\ parked'[d] = NoText
         \/ made'[d] = {} /\ hot'[d] = Cold /\ hot[d] = Cold /\ parked'[d] \in {NoText, {}}
<1> DEFINE r == call[c]
<1>0. TypeOK /\ RecordsInv
  BY DEF Base, OwnershipInv
<1>1. /\ w \in CallRecord /\ RecordOK(w) /\ RecordOK(r) /\ r \in CallRecord
      /\ r.at \in Pending => w.op = r.op /\ w.doc = r.doc
      /\ (r.at = "ready" /\ Begun(w)) \/ (r.at \in Pending /\ Continued(c, w))
      /\ r.doc \in Documents /\ w.doc \in Documents
  BY <1>0, StepIs DEF CallRecord
<1>2. /\ made \in [Documents -> SUBSET Calls]
      /\ parked \in [Documents -> {NoText} \cup SUBSET Calls]
      /\ \A x : TextAfterForget(x) \in {NoText, {}}
  BY <1>0 DEF TypeOK, TextAfterForget
<1>3. CASE ClosedCold(w) /\ r.at = "ready"
  <2>1. ~ Edited(c, w) /\ ~ Adopted(r, w)
    BY <1>3 DEF Edited, Adopted
  <2> QED
    BY <1>1, <1>2, <1>3, <2>1 DEF ClosedCold, Forgotten
<1>4. CASE Begun(w) /\ ~ ClosedCold(w) /\ r.at = "ready"
  BY <1>4 DEF Begun, Opened, ParkBegun, Waits, CloseBegun, Idle, Edited, Adopted
<1>5. CASE r.at \in Pending /\ Closed(c, w)
  <2>1. hot[r.doc] = Cold /\ hot' = hot /\ w.doc = r.doc /\ ~ Edited(c, w) /\ ~ Adopted(r, w)
    BY <1>1, <1>5 DEF Closed, TurnInv, Edited, Adopted
  <2> QED
    BY <1>1, <1>2, <1>5, <2>1 DEF Closed, Forgotten
<1>6. CASE r.at \in Pending /\ Adopted(r, w)
  <2>1. w.doc = r.doc /\ ~ Edited(c, w)
    BY <1>1, <1>6 DEF Adopted, Edited
  <2> QED
    BY <1>1, <1>2, <1>6, <2>1 DEF Adopted
<1>7. CASE r.at \in Pending /\ Edited(c, w)
  <2>1. w.doc = r.doc /\ ~ Adopted(r, w)
    BY <1>1, <1>7, Zenon DEF Adopted, Edited
  <2> QED
    BY <1>1, <1>2, <1>7, <2>1, Zenon DEF Edited
<1>8. ASSUME Acquired(r, w) \/ Refuses(r, w) \/ Texted(c, w) \/ Freed(c, w) \/ Saved(r, w),
             ~ Edited(c, w), ~ Adopted(r, w)
      PROVE  made'[d] = made[d] /\ ~ (Edited(c, w) /\ d = w.doc) /\ ~ (Adopted(r, w) /\ d = w.doc)
  BY <1>8 DEF Acquired, Refuses, Texted, Freed, Saved, Idle
<1> QED
  BY <1>1, <1>3, <1>4, <1>5, <1>6, <1>7, <1>8 DEF Continued

\* The handle of a document holds its acknowledged edits after the step too, even when the
\* step takes it out of the registry.
LEMMA HandleTextKept ==
  ASSUME Base, TurnInv, WorkKept, NEW c \in Calls, NEW w, StepTo(c, w), NEW d \in Documents,
         hot[d] # Cold, ~ (Adopted(call[c], w) /\ d = w.doc)
  PROVE  slots'[EngineOf[d]][hot[d]].edits = made'[d]
<1> DEFINE e == EngineOf[d]
           i == hot[d]
<1>0. TypeOK /\ RecordsInv
  BY DEF Base, OwnershipInv
<1>1. /\ e \in Engines /\ i \in Slots /\ slots[e][i] # Free /\ slots[e][i].doc = d
      /\ slots[e][i].edits = made[d]
  BY <1>0, EngineOfAssumption DEF Base, OwnershipInv, Ownership, OwnedHandlesLive, WorkKept, HandleText, TypeOK
<1>2. ~ Frees(c, e, i)
  BY DEF Base, OwnershipInv, Ownership, HandlesOwnedOnce, Frees
<1>3. ~ Fills(c, w, e, i)
  BY <1>1 DEF Fills
<1>4. CASE Edited(c, w) /\ d = w.doc
  <2>1. call[c].subject = d /\ call[c].target = i
    BY <1>4, EditInTurn
  <2>2. slots' = [slots EXCEPT ![e][i].edits = @ \cup {c}]
    BY <1>4, <2>1 DEF Edited
  <2>3. slots'[e][i].edits = slots[e][i].edits \cup {c}
    <3>1. /\ slots \in [Engines -> [Slots -> {Free} \cup [doc : Documents, edits : SUBSET Calls]]]
          /\ slots[e][i] \in [doc : Documents, edits : SUBSET Calls]
      BY <1>0, <1>1 DEF TypeOK
    <3>2. slots'[e][i] = [slots[e][i] EXCEPT !.edits = @ \cup {c}]
      BY <1>1, <2>2, <3>1
    <3> QED
      BY <3>1, <3>2
  <2>4. made'[d] = made[d] \cup {c}
    BY <1>4, MadeMove
  <2> QED
    BY <1>1, <2>3, <2>4
<1>5. CASE ~ (Edited(c, w) /\ d = w.doc)
  <2>1. made'[d] = made[d]
    BY <1>5, MadeMove
  <2>2. ~ EditsSlot(c, w, e, i)
    <3>1. ASSUME Edited(c, w), e = EngineOf[call[c].subject], i = call[c].target
          PROVE  FALSE
      BY <1>1, <1>5, <3>1, EditInTurn, Zenon DEF Live
    <3> QED
      BY <3>1 DEF EditsSlot
  <2>3. slots'[e][i] = slots[e][i]
    <3>1. e \in Engines /\ i \in Slots
      BY <1>1
    <3> HIDE DEF e, i
    <3> QED
      BY <1>0, <1>2, <1>3, <2>2, <3>1, SlotsMove
  <2> QED
    BY <1>1, <2>1, <2>3
<1> QED
  BY <1>4, <1>5

\* The parked text a step leaves for d.
LEMMA ParkedMove ==
  ASSUME TypeOK, RecordsInv, NEW c \in Calls, NEW w, StepTo(c, w), NEW d \in Documents
  PROVE  \/ parked'[d] = parked[d]
         \/ Texted(c, w) /\ call[c].subject = d
         \/ made'[d] = {} /\ parked'[d] \in {NoText, {}}
<1> DEFINE r == call[c]
<1>1. /\ r \in CallRecord /\ (Begun(w) \/ Continued(c, w))
      /\ r.doc \in Documents /\ w.doc \in Documents /\ r.subject \in Documents
  BY StepIs DEF CallRecord
<1>2. /\ parked \in [Documents -> {NoText} \cup SUBSET Calls] /\ made \in [Documents -> SUBSET Calls]
      /\ \A x : TextAfterForget(x) \in {NoText, {}}
  BY DEF TypeOK, TextAfterForget
<1>3. CASE Begun(w)
  BY <1>1, <1>2, <1>3
     DEF Begun, Opened, ParkBegun, Waits, CloseBegun, ClosedCold, Idle, Forgotten
<1>4. CASE Texted(c, w)
  BY <1>1, <1>2, <1>4 DEF Texted
<1>5. CASE Closed(c, w) \/ Adopted(r, w)
  BY <1>1, <1>2, <1>5 DEF Closed, Adopted, Forgotten
<1>6. CASE Acquired(r, w) \/ Refuses(r, w) \/ Freed(c, w) \/ Edited(c, w) \/ Saved(r, w)
  BY <1>6, Zenon DEF Acquired, Refuses, Freed, Edited, Saved, Idle
<1> QED
  BY <1>1, <1>3, <1>4, <1>5, <1>6 DEF Continued

LEMMA StepKeepsWork ==
  ASSUME Base, TurnInv, WorkKept, MaxInFlight = 1, "parkText" \notin Refusable,
         NEW c \in Calls, NEW w, StepTo(c, w)
  PROVE  WorkKept'
<1> DEFINE r == call[c]
<1>0. TypeOK /\ RecordsInv
  BY DEF Base, OwnershipInv
<1>1. call'[c] = w /\ \A k \in Calls : k # c => call[k].at \notin Pending /\ call'[k] = call[k]
  BY <1>0, StepCalls, AloneInTurn
<1>2. /\ w \in CallRecord /\ RecordOK(w) /\ w.at # "ready" /\ RecordOK(r) /\ r \in CallRecord
      /\ r.at \in Pending => w.op = r.op /\ w.doc = r.doc
      /\ (r.at = "ready" /\ Begun(w)) \/ (r.at \in Pending /\ Continued(c, w))
      /\ r.doc \in Documents /\ w.doc \in Documents /\ w.subject \in Documents /\ r.subject \in Documents
  BY <1>0, StepIs DEF CallRecord
<1>3. {"create", "hydrate", "parkText", "closeFree"} \subseteq Pending
  BY DEF Pending
<1>4. ASSUME NEW d \in Documents, hot'[d] # Cold
      PROVE  HandleText(d)' = made'[d]
  <2>1. CASE HotStays(d)
    <3>1. ~ (Adopted(r, w) /\ d = w.doc)
      <4>1. ASSUME Adopted(r, w), d = w.doc
            PROVE  FALSE
        <5>1. d = r.doc /\ hot[d] \in Slots /\ Live(slots, d, hot[d]) /\ hot \in [Documents -> Slots \cup {Cold}]
          BY <1>0, <1>2, <1>4, <2>1, <4>1
             DEF HotStays, TypeOK, Base, OwnershipInv, Ownership, OwnedHandlesLive, Live, Begun, Adopted, Pending
        <5>2. PICK s \in FirstFree(slots[EngineOf[d]]) : hot' = [hot EXCEPT ![d] = s]
          BY <1>4, <2>1, <4>1, <5>1 DEF Adopted, HotStays
        <5> QED
          BY <2>1, <5>1, <5>2 DEF FirstFree, HotStays, Live
      <4> QED
        BY <4>1
    <3>2. hot[d] # Cold
      BY <1>4, <2>1 DEF HotStays
    <3> QED
      BY <2>1, <3>1, <3>2, HandleTextKept DEF HandleText, HotStays
  <2>2. CASE HotFilled(c, w, d)
    <3>1. d = r.doc /\ d = w.doc /\ Fills(c, w, EngineOf[d], hot'[d])
      BY <2>2 DEF HotFilled
    <3>2. CASE Acquired(r, w)
      <4>1. r.text = made[d] /\ made'[d] = made[d]
        BY <3>1, <3>2 DEF WorkKept, Acquired
      <4>2. HandleText(d)' = r.text
        <5>1. ~ Adopted(r, w)
          BY <3>2 DEF Acquired, Adopted
        <5>2. slots'[EngineOf[d]][hot'[d]] = [doc |-> d, edits |-> r.text]
          BY <3>1, <3>2, <5>1 DEF Fills
        <5> QED
          BY <5>2 DEF HandleText
      <4> QED
        BY <4>1, <4>2
    <3>3. CASE Adopted(r, w)
      <4>1. made'[d] = {}
        BY <1>0, <1>2, <3>1, <3>3 DEF Adopted, TypeOK
      <4>2. HandleText(d)' = {}
        <5>1. ~ Acquired(r, w)
          BY <3>3 DEF Acquired, Adopted
        <5>2. slots'[EngineOf[d]][hot'[d]] = [doc |-> d, edits |-> {}]
          BY <3>1, <3>3, <5>1 DEF Fills
        <5> QED
          BY <5>2 DEF HandleText
      <4> QED
        BY <4>1, <4>2
    <3> QED
      BY <3>1, <3>2, <3>3 DEF Fills
  <2>3. ~ HotLeaves(w, d)
    BY <1>4 DEF HotLeaves
  <2> QED
    BY <1>0, <2>1, <2>2, <2>3, HotMove
<1>5. ASSUME NEW d \in Documents, hot'[d] = Cold
      PROVE  \/ Stored(d)' = made'[d]
             \/ \E k \in Calls : call'[k].at \in {"parkText", "closeFree"} /\ call'[k].subject = d
  <2>1. CASE hot[d] # Cold
    <3>1. HotLeaves(w, d)
      BY <1>0, <1>5, <2>1, HotMove, SentinelAssumption DEF HotStays, HotFilled
    <3> QED
      BY <1>1, <3>1 DEF HotLeaves
  <2>2. CASE hot[d] = Cold
    <3>1. CASE made'[d] = {} /\ parked'[d] \in {NoText, {}}
      BY <3>1 DEF Stored
    <3>2. CASE Texted(c, w) /\ r.subject = d
      <4>1. /\ r.at = "parkText" /\ r.target \in Slots /\ SlotsOf(c)[r.target] # Free
            /\ SlotsOf(c)[r.target].edits = made[d]
        BY <1>0, <1>2, <3>2
           DEF Texted, Base, OwnershipInv, Ownership, OwnedHandlesLive, Dying, WorkKept, CallRecord
      <4>2. parked' = [parked EXCEPT ![d] = SlotsOf(c)[r.target].edits] /\ made' = made
        BY <3>2, <4>1 DEF Texted, Valid, MayRefuse
      <4>3. parked'[d] = made[d] /\ made[d] \in SUBSET Calls
        BY <1>0, <4>1, <4>2 DEF TypeOK
      <4> QED
        BY <4>2, <4>3, SentinelAssumption DEF Stored
    <3>3. ASSUME parked'[d] = parked[d], ~ (Texted(c, w) /\ r.subject = d), ~ (made'[d] = {} /\ parked'[d] \in {NoText, {}})
          PROVE  Stored(d)' = made'[d]
      <4>1. made'[d] = made[d]
        <5>1. ~ (Edited(c, w) /\ d = w.doc)
          BY <2>2, EditInTurn
        <5> QED
          BY <3>3, <5>1, MadeMove
      <4>2. ~ \E k \in Calls : call[k].at \in {"parkText", "closeFree"} /\ call[k].subject = d
        <5>1. SUFFICES ASSUME r.at \in {"parkText", "closeFree"}, r.subject = d
                       PROVE  FALSE
          BY <1>1, <1>3
        <5>2. Continued(c, w)
          BY <1>2, <5>1
        <5>3. Texted(c, w) \/ Closed(c, w)
          BY <5>1, <5>2, Zenon DEF Continued, Acquired, Adopted, Refuses, Freed, Edited, Saved
        <5>4. ASSUME Closed(c, w)
              PROVE  made'[d] = {} /\ parked'[d] \in {NoText, {}}
          <6>1. r.doc = d
            BY <1>2, <5>1, <5>4 DEF Closed, RecordOK
          <6> QED
            BY <1>0, <1>2, <5>4, <6>1 DEF Closed, Forgotten, TextAfterForget, TypeOK
        <5> QED
          BY <3>3, <5>1, <5>3, <5>4
      <4>3. Stored(d) = made[d]
        BY <2>2, <4>2 DEF WorkKept
      <4> QED
        BY <3>3, <4>1, <4>3 DEF Stored
    <3> QED
      BY <1>0, <3>1, <3>2, <3>3, ParkedMove
  <2> QED
    BY <2>1, <2>2
<1>6. ASSUME w.at \in {"create", "hydrate"}
      PROVE  w.text = made'[w.doc]
  <2>1. Opened(w) /\ r.at = "ready"
    BY <1>2, <1>6, Zenon DEF Begun, ParkBegun, Waits, CloseBegun, ClosedCold,
       Continued, Acquired, Adopted, Refuses, Texted, Freed, Closed, Edited, Saved, GoesOn
  <2>2. hot[w.doc] = Cold /\ w.text = Stored(w.doc) /\ made' = made
    BY <1>6, <2>1 DEF Opened, Idle
  <2>3. ~ \E k \in Calls : call[k].at \in {"parkText", "closeFree"}
    BY <1>1, <1>3, <2>1
  <2> QED
    BY <1>2, <2>2, <2>3 DEF WorkKept
<1>7. ASSUME w.at = "parkText"
      PROVE  slots'[EngineOf[w.subject]][w.target].edits = made'[w.subject]
  <2> DEFINE d == w.subject
  <2>1. hot[d] # Cold /\ w.target = hot[d] /\ (d # w.doc \/ w.op = "park")
    BY <1>0, <1>7, ParkTextLeaves DEF HotLeaves
  <2>2. ~ (Adopted(r, w) /\ d = w.doc)
    BY <1>2, <2>1 DEF Adopted, Pending, RecordOK
  <2> QED
    BY <1>2, <2>1, <2>2, HandleTextKept
<1> QED
  BY <1>1, <1>3, <1>4, <1>5, <1>6, <1>7 DEF WorkKept, SlotsOf

\* When the registry's callers wait for each call to end before the next, no engine is lost and
\* no engine refuses the text of a document it holds, every acknowledged edit is in what the
\* registry would give out next (documentRegistry.ts `acquire`, `park`, `evictIfNeeded`).
THEOREM NoWorkLostInTurn ==
  ASSUME MaxInFlight = 1, "parkText" \notin Refusable
  PROVE  Spec => [](losses = 0 => NoLostWork)
<1> DEFINE WorkInv == losses = 0 => WorkKept
<1>1. Init => WorkInv
  BY DEF Init, Unused, WorkKept, Stored
<1>2. Base /\ TurnInv /\ WorkInv /\ [Next]_vars => WorkInv'
  <2> SUFFICES ASSUME Base, TurnInv, WorkInv, [Next]_vars, losses' = 0 PROVE WorkKept'
    OBVIOUS
  <2>1. TypeOK /\ RecordsInv
    BY DEF Base, OwnershipInv
  <2>2. ASSUME NEW c \in Calls, NEW w, StepTo(c, w)
        PROVE  WorkKept'
    <3>1. losses = 0
      BY <2>2 DEF StepTo
    <3> QED
      BY <2>2, <3>1, StepKeepsWork
  <2>3. ~ \E e \in Engines : EngineLost(e)
    BY <2>1 DEF EngineLost, TypeOK
  <2>4. CASE UNCHANGED vars
    BY <2>4 DEF vars, WorkKept, HandleText, Stored, SlotsOf
  <2> QED
    BY <2>1, <2>2, <2>3, <2>4, NextIs
<1>3. Base /\ WorkInv => (losses = 0 => NoLostWork)
  BY DEF WorkKept, NoLostWork, Quiet, Content, HandleText, Stored
<1> QED
  BY <1>1, <1>2, <1>3, TurnHolds, PTL DEF Spec
=============================================================================
