-------------------------- MODULE DocumentRegistry --------------------------
(***************************************************************************)
(* The owner of design-document engine handles                             *)
(* (apps/web/src/engines/documentRegistry.ts) together with the engine     *)
(* host that spawns and loses engines (engines/engineHost.ts) and the      *)
(* slot table the engines keep their documents in                          *)
(* (crates/treemaker-wasm/src/lib.rs, crates/oristudio-bp-wasm).           *)
(*                                                                         *)
(* One call of the registry is one element of Calls and runs from one      *)
(* await to the next as one atomic step, as it does on the single          *)
(* JavaScript thread.  A request it awaits waits in the queue of its       *)
(* engine, which answers in order.  A document's content is the set of     *)
(* the edit calls it holds, so that lost and misplaced work can be told    *)
(* from the rest.                                                          *)
(*                                                                         *)
(* A definition marked "Fault" is no part of the specification: it is a    *)
(* plausible bug, put in place of the definition after it to see that a    *)
(* property notices.                                                       *)
(***************************************************************************)
EXTENDS Integers, Sequences, FiniteSets

CONSTANTS
  Documents,    \* document ids (design tabs)
  Engines,      \* worker-backed engines
  EngineOf,     \* the engine behind each document's kind
  Calls,        \* the calls that may be made, each at most once (a bound)
  Ops,          \* the operations a call may be
  HotLimit,     \* handles kept live before evicting
  MaxSlots,     \* slots in an engine's table (a bound)
  MaxInFlight,  \* calls in progress at once (a bound)
  MaxLosses,    \* engine losses considered (a bound)
  Refusable,    \* requests an engine may refuse although they are valid
  Cold,         \* the handle of a document that has none
  NoText,       \* the parked text of a document that has none
  Free          \* an empty slot

Slots == 0 .. MaxSlots - 1

AllOps == {"open", "edit", "optimize", "park", "save", "close", "load", "new"}

ASSUME DocumentsAssumption == Documents # {} /\ IsFiniteSet(Documents)
ASSUME EngineOfAssumption == EngineOf \in [Documents -> Engines]
ASSUME OpsAssumption == Ops \subseteq AllOps
ASSUME LimitAssumption ==
  HotLimit \in Nat \ {0} /\ MaxSlots \in Nat /\ MaxInFlight \in Nat /\ MaxLosses \in Nat
ASSUME SentinelAssumption ==
  /\ Cold \notin Slots
  /\ \A t \in SUBSET Calls : t # NoText
  /\ Free \notin [doc : Documents, edits : SUBSET Calls]

VARIABLES
  slots,    \* per engine, the document each slot holds
  queue,    \* per engine, the calls whose request it has not answered yet
  hot,      \* per document, its live handle
  touched,  \* per hot document, when it was last acquired
  clock,    \* the registry's recency counter
  parked,   \* per document, the last serialized text
  pins,     \* per document, the outstanding pins
  call,     \* per call, where it is
  made,     \* per document, the edits acknowledged since it was created or replaced
  losses    \* engines lost so far

vars == <<slots, queue, hot, touched, clock, parked, pins, call, made, losses>>

(* Where a call that awaits an engine stands, named after the request.     *)
Pending == {"create", "hydrate", "new", "parkText", "parkFree",
            "adoptFree", "closeFree", "edit", "saveText"}
Ended == {"done", "skipped", "hung"}

CallRecord == [op : AllOps \cup {"none"}, doc : Documents, at : Pending \cup Ended \cup {"ready"},
               handle : Slots \cup {Cold}, subject : Documents, target : Slots \cup {Cold},
               text : SUBSET Calls]

TypeOK ==
  /\ slots \in [Engines -> [Slots -> {Free} \cup [doc : Documents, edits : SUBSET Calls]]]
  /\ queue \in [Engines -> Seq(Calls)]
  /\ hot \in [Documents -> Slots \cup {Cold}]
  /\ touched \in [Documents -> Nat]
  /\ clock \in Nat
  /\ parked \in [Documents -> {NoText} \cup SUBSET Calls]
  /\ pins \in [Documents -> Int]
  /\ call \in [Calls -> CallRecord]
  /\ made \in [Documents -> SUBSET Calls]
  /\ losses \in Nat

Unused == LET d == CHOOSE d \in Documents : TRUE
          IN [op |-> "none", doc |-> d, at |-> "ready", handle |-> Cold,
              subject |-> d, target |-> Cold, text |-> {}]

Init ==
  /\ slots = [e \in Engines |-> [s \in Slots |-> Free]]
  /\ queue = [e \in Engines |-> << >>]
  /\ hot = [d \in Documents |-> Cold]
  /\ touched = [d \in Documents |-> 0]
  /\ clock = 0
  /\ parked = [d \in Documents |-> NoText]
  /\ pins = [d \in Documents |-> 0]
  /\ call = [c \in Calls |-> Unused]
  /\ made = [d \in Documents |-> {}]
  /\ losses = 0

-----------------------------------------------------------------------------
(* How a step of a call ends: it awaits another request, or it returns.    *)

\* Post the request of record r on its subject's engine, and await the answer.
Ask(c, r, q) ==
  /\ call' = [call EXCEPT ![c] = r]
  /\ queue' = [q EXCEPT ![EngineOf[r.subject]] = Append(@, c)]

\* The call settles.  What only a call in progress needs is forgotten.
Finish(c, r, q, how) ==
  /\ call' = [call EXCEPT ![c] = [r EXCEPT !.at = how, !.handle = Cold,
                                           !.subject = r.doc, !.target = Cold, !.text = {}]]
  /\ queue' = q

\* `pinned` runs its `finally` when the work it wraps settles, either way.
Unpin(r) == pins' = IF r.op = "optimize" THEN [pins EXCEPT ![r.doc] = @ - 1] ELSE pins

\* `acquire` or `adoptHandle` has returned: its caller works on the handle.
ReturnHandle(c, r, q) ==
  \/ /\ r.op \in {"edit", "optimize"}
     /\ Ask(c, [r EXCEPT !.at = "edit", !.subject = r.doc, !.target = r.handle], q)
  \/ /\ r.op \in {"open", "new"}
     /\ Finish(c, r, q, "done")

\* Fault: an eviction that ignores pins.
EvictableThoughPinned(h, p, protect) == {d \in Documents : h[d] # Cold /\ d # protect}
Evictable(h, p, protect) == {d \in Documents : h[d] # Cold /\ p[d] = 0 /\ d # protect}

\* Fault: one handle too many.
OverLimitByOne(h) == Cardinality({d \in Documents : h[d] # Cold}) > HotLimit + 1
OverLimit(h) == Cardinality({d \in Documents : h[d] # Cold}) > HotLimit
LeastRecent(v, candidates, t) == v \in candidates /\ \A d \in candidates : t[v] <= t[d]

\* Fault: parking leaves the document in the registry until it is freed.
BeginParkKeepingHot(c, r, v, h, t, q) ==
  /\ hot' = h
  /\ touched' = t
  /\ Ask(c, [r EXCEPT !.at = "parkText", !.subject = v, !.target = h[v]], q)

\* Take a hot document out of the registry and ask for its text.
BeginPark(c, r, v, h, t, q) ==
  /\ hot' = [h EXCEPT ![v] = Cold]
  /\ touched' = [t EXCEPT ![v] = 0]
  /\ Ask(c, [r EXCEPT !.at = "parkText", !.subject = v, !.target = h[v]], q)

\* Fault: an eviction that waits for a pinned document.
EvictOrWait(c, r, h, t, p, q) ==
  \/ /\ OverLimit(h)
     /\ \E v \in Documents :
          /\ LeastRecent(v, Evictable(h, p, r.doc), t)
          /\ BeginPark(c, r, v, h, t, q)
  \/ /\ ~ OverLimit(h)
     /\ hot' = h
     /\ touched' = t
     /\ ReturnHandle(c, r, q)

\* The head of the eviction loop: park one more document, or return.
EvictIfNeeded(c, r, h, t, p, q) ==
  \/ /\ OverLimit(h)
     /\ \E v \in Documents :
          /\ LeastRecent(v, Evictable(h, p, r.doc), t)
          /\ BeginPark(c, r, v, h, t, q)
  \/ /\ ~ OverLimit(h) \/ Evictable(h, p, r.doc) = {}
     /\ hot' = h
     /\ touched' = t
     /\ ReturnHandle(c, r, q)

-----------------------------------------------------------------------------
(* The calls.                                                              *)

InFlight == {c \in Calls : call[c].at \in Pending}

Starts(c, op) ==
  /\ op \in Ops
  /\ call[c].at = "ready"
  /\ Cardinality(InFlight) < MaxInFlight

Started(c, op, d) == [call[c] EXCEPT !.op = op, !.doc = d, !.subject = d]

\* `acquire`, called by a hydration ("open"), an edit, or inside `pinned`,
\* which counts its pin before it acquires.
Acquire(c, op, d) ==
  LET r == Started(c, op, d)
  IN /\ Starts(c, op)
     /\ op \in {"open", "edit", "optimize"}
     /\ pins' = IF op = "optimize" THEN [pins EXCEPT ![d] = @ + 1] ELSE pins
     /\ \/ /\ hot[d] # Cold
           /\ clock' = clock + 1
           /\ touched' = [touched EXCEPT ![d] = clock + 1]
           /\ ReturnHandle(c, [r EXCEPT !.handle = hot[d]], queue)
        \/ /\ hot[d] = Cold
           /\ Ask(c, [r EXCEPT !.at = IF parked[d] = NoText THEN "create" ELSE "hydrate",
                               !.text = IF parked[d] = NoText THEN {} ELSE parked[d]], queue)
           /\ UNCHANGED <<touched, clock>>
     /\ UNCHANGED <<slots, hot, parked, made, losses>>

\* `park`, on a tab switch.  Nothing for a document that is not hot or is pinned.
Park(c, d) ==
  /\ Starts(c, "park")
  /\ \/ /\ hot[d] # Cold /\ pins[d] = 0
        /\ BeginPark(c, Started(c, "park", d), d, hot, touched, queue)
     \/ /\ hot[d] = Cold \/ pins[d] # 0
        /\ Finish(c, Started(c, "park", d), queue, "done")
        /\ UNCHANGED <<hot, touched>>
  /\ UNCHANGED <<slots, clock, parked, pins, made, losses>>

ColdSave(d) == IF parked[d] = NoText THEN "skipped" ELSE "done"

\* `serialize`, on a save: the live handle's text, else the parked text, else
\* the save writes no such document.
Save(c, d) ==
  LET r == Started(c, "save", d)
  IN /\ Starts(c, "save")
     /\ \/ /\ hot[d] # Cold
           /\ Ask(c, [r EXCEPT !.at = "saveText", !.target = hot[d]], queue)
        \/ /\ hot[d] = Cold
           /\ Finish(c, r, queue, ColdSave(d))
     /\ UNCHANGED <<slots, hot, touched, clock, parked, pins, made, losses>>

\* What `forget` leaves, and `adopt` after it when a file is being opened.
TextAfterForget(op) == IF op = "load" THEN {} ELSE NoText

Forgotten(r) ==
  /\ parked' = [parked EXCEPT ![r.doc] = TextAfterForget(r.op)]
  /\ made' = [made EXCEPT ![r.doc] = {}]

\* `forget`: closing a tab, or opening a file over it.
Forget(c, op, d) ==
  LET r == Started(c, op, d)
  IN /\ Starts(c, op)
     /\ op \in {"close", "load"}
     /\ \/ /\ hot[d] # Cold
           /\ hot' = [hot EXCEPT ![d] = Cold]
           /\ touched' = [touched EXCEPT ![d] = 0]
           /\ Ask(c, [r EXCEPT !.at = "closeFree", !.target = hot[d]], queue)
           /\ UNCHANGED <<parked, made>>
        \/ /\ hot[d] = Cold
           /\ Forgotten(r)
           /\ Finish(c, r, queue, "done")
           /\ UNCHANGED <<hot, touched>>
     /\ UNCHANGED <<slots, clock, pins, losses>>

\* A caller builds a document in the engine itself, to adopt its handle.
New(c, d) ==
  /\ Starts(c, "new")
  /\ Ask(c, [Started(c, "new", d) EXCEPT !.at = "new"], queue)
  /\ UNCHANGED <<slots, hot, touched, clock, parked, pins, made, losses>>

-----------------------------------------------------------------------------
(* The engine answers the request at the head of its queue, and the call   *)
(* runs on to its next await.                                              *)

Answered(c, at) ==
  LET e == EngineOf[call[c].subject]
  IN call[c].at = at /\ queue[e] # << >> /\ Head(queue[e]) = c

QueueAfter(c) ==
  LET e == EngineOf[call[c].subject] IN [queue EXCEPT ![e] = Tail(@)]

SlotsOf(c) == slots[EngineOf[call[c].subject]]

\* An engine refuses a handle that is no slot, or whose slot is empty.
Valid(c) == call[c].target \in Slots /\ SlotsOf(c)[call[c].target] # Free
MayRefuse(at) == at \in Refusable

\* The first empty slot, which is how both engines hand out handles.
FirstFree(s) == {i \in Slots : s[i] = Free /\ \A j \in 0 .. i - 1 : s[j] # Free}

\* `create` or `hydrate` answers: the handle becomes the document's, whatever
\* the registry held for it, and the hot set is brought within its limit.
AnswerAcquire(c) ==
  LET r == call[c]
      e == EngineOf[r.doc]
  IN /\ Answered(c, "create") \/ Answered(c, "hydrate")
     /\ \E s \in FirstFree(slots[e]) :
          /\ slots' = [slots EXCEPT ![e][s] =
                         [doc |-> r.doc, edits |-> r.text]]
          /\ EvictIfNeeded(c, [r EXCEPT !.handle = s, !.text = {}],
                           [hot EXCEPT ![r.doc] = s],
                           [touched EXCEPT ![r.doc] = clock + 1], pins, QueueAfter(c))
     /\ clock' = clock + 1
     /\ UNCHANGED <<parked, pins, made, losses>>

\* Fault: the pin is released on success only.
RefuseCallKeepingPin(c) ==
  LET r == call[c]
  IN /\ \/ \E at \in {"create", "hydrate", "new", "edit"} : Answered(c, at) /\ MayRefuse(at)
        \/ Answered(c, "edit") /\ ~ Valid(c)
     /\ Finish(c, r, QueueAfter(c), "done")
     /\ UNCHANGED <<slots, hot, touched, clock, parked, pins, made, losses>>

\* `create`, `hydrate`, `new` or the work on the handle is refused: the call
\* rejects.
RefuseCall(c) ==
  LET r == call[c]
  IN /\ \/ \E at \in {"create", "hydrate", "new", "edit"} : Answered(c, at) /\ MayRefuse(at)
        \/ Answered(c, "edit") /\ ~ Valid(c)
     /\ Finish(c, r, QueueAfter(c), "done")
     /\ Unpin(r)
     /\ UNCHANGED <<slots, hot, touched, clock, parked, made, losses>>

\* `adoptHandle`, once the engine has built the caller's document.
AnswerNew(c) ==
  LET r == call[c]
      e == EngineOf[r.doc]
      old == hot[r.doc]
  IN /\ Answered(c, "new")
     /\ \E s \in FirstFree(slots[e]) :
          LET h == [hot EXCEPT ![r.doc] = s]
              t == [touched EXCEPT ![r.doc] = clock + 1]
              adopted == [r EXCEPT !.handle = s]
          IN /\ slots' = [slots EXCEPT ![e][s] = [doc |-> r.doc, edits |-> {}]]
             /\ \/ /\ old # Cold
                   /\ hot' = h
                   /\ touched' = t
                   /\ Ask(c, [adopted EXCEPT !.at = "adoptFree", !.subject = r.doc,
                                          !.target = old], QueueAfter(c))
                \/ /\ old = Cold
                   /\ EvictIfNeeded(c, adopted, h, t, pins, QueueAfter(c))
     /\ clock' = clock + 1
     /\ parked' = [parked EXCEPT ![r.doc] = NoText]
     /\ made' = [made EXCEPT ![r.doc] = {}]
     /\ UNCHANGED <<pins, losses>>

\* Fault: the first text is never replaced.
AnswerParkTextKeepingFirst(c) ==
  LET r == call[c]
  IN /\ Answered(c, "parkText")
     /\ parked' = IF parked[r.subject] = NoText
                    THEN [parked EXCEPT ![r.subject] = SlotsOf(c)[r.target].edits]
                    ELSE parked
     /\ Ask(c, [r EXCEPT !.at = "parkFree"], QueueAfter(c))
     /\ UNCHANGED <<slots, hot, touched, clock, pins, made, losses>>

\* The text of a document being parked is stored, or the last one kept when
\* the engine refused; either way its handle is freed next.
AnswerParkText(c) ==
  LET r == call[c]
  IN /\ Answered(c, "parkText")
     /\ \/ /\ Valid(c)
           /\ parked' = [parked EXCEPT ![r.subject] = SlotsOf(c)[r.target].edits]
        \/ /\ ~ Valid(c) \/ MayRefuse("parkText")
           /\ UNCHANGED parked
     /\ Ask(c, [r EXCEPT !.at = "parkFree"], QueueAfter(c))
     /\ UNCHANGED <<slots, hot, touched, clock, pins, made, losses>>

\* Fault: the free is never sent.
FreeSlotForgotten(c) == UNCHANGED slots

\* Fault: the handle to free is read again after the await.
FreeSlotRereadingHot(c) ==
  slots' = [slots EXCEPT ![EngineOf[call[c].subject]][hot[call[c].subject]] = Free]

FreeSlot(c) ==
  slots' = [slots EXCEPT ![EngineOf[call[c].subject]][call[c].target] = Free]

\* A parked document's handle is freed.  An eviction looks at the limit again.
AnswerParkFree(c) ==
  LET r == call[c]
      parkedOne == [r EXCEPT !.subject = r.doc, !.target = Cold]
  IN /\ Answered(c, "parkFree")
     /\ FreeSlot(c)
     /\ \/ /\ r.op = "park"
           /\ Finish(c, r, QueueAfter(c), "done")
           /\ UNCHANGED <<hot, touched>>
        \/ /\ r.op # "park"
           /\ EvictIfNeeded(c, parkedOne, hot, touched, pins, QueueAfter(c))
     /\ UNCHANGED <<clock, parked, pins, made, losses>>

\* The handle an adopted one replaced is freed.
AnswerAdoptFree(c) ==
  LET adopted == [call[c] EXCEPT !.target = Cold]
  IN /\ Answered(c, "adoptFree")
     /\ FreeSlot(c)
     /\ EvictIfNeeded(c, adopted, hot, touched, pins, QueueAfter(c))
     /\ UNCHANGED <<clock, parked, pins, made, losses>>

\* A closed document's handle is freed, and only then its text dropped.
AnswerCloseFree(c) ==
  LET r == call[c]
  IN /\ Answered(c, "closeFree")
     /\ FreeSlot(c)
     /\ Forgotten(r)
     /\ Finish(c, r, QueueAfter(c), "done")
     /\ UNCHANGED <<hot, touched, clock, pins, losses>>

\* The caller's work on the handle it acquired: an edit to whatever document
\* the slot holds by now.
AnswerEdit(c) ==
  LET r == call[c]
  IN /\ Answered(c, "edit")
     /\ Valid(c)
     /\ slots' = [slots EXCEPT ![EngineOf[r.subject]][r.target].edits = @ \cup {c}]
     /\ made' = [made EXCEPT ![r.doc] = @ \cup {c}]
     /\ Finish(c, r, QueueAfter(c), "done")
     /\ Unpin(r)
     /\ UNCHANGED <<hot, touched, clock, parked, losses>>

\* A save has its text.  `serializeDesign` turns every failure into "no text".
AnswerSave(c) ==
  LET r == call[c]
  IN /\ Answered(c, "saveText")
     /\ \/ /\ Valid(c)
           /\ Finish(c, r, QueueAfter(c), "done")
        \/ /\ ~ Valid(c) \/ MayRefuse("saveText")
           /\ Finish(c, r, QueueAfter(c), "skipped")
     /\ UNCHANGED <<slots, hot, touched, clock, parked, pins, made, losses>>

\* A table of the documents, with `none` for those of engine e.
WithoutEngine(e, table, none) ==
  [d \in Documents |-> IF EngineOf[d] = e THEN none ELSE table[d]]

\* A worker crashes or is reset: the host drops its client, the registry drops
\* every handle it held, and whatever awaits it is never answered.
EngineLost(e) ==
  /\ losses < MaxLosses
  /\ losses' = losses + 1
  /\ slots' = [slots EXCEPT ![e] = [s \in Slots |-> Free]]
  /\ queue' = [queue EXCEPT ![e] = << >>]
  /\ hot' = WithoutEngine(e, hot, Cold)
  /\ touched' = WithoutEngine(e, touched, 0)
  /\ call' = [c \in Calls |-> IF call[c].at \in Pending /\ EngineOf[call[c].subject] = e
                                THEN [call[c] EXCEPT !.at = "hung"] ELSE call[c]]
  /\ UNCHANGED <<clock, parked, pins, made>>

-----------------------------------------------------------------------------
Answer(c) ==
  \/ AnswerAcquire(c)
  \/ RefuseCall(c)
  \/ AnswerNew(c)
  \/ AnswerParkText(c)
  \/ AnswerParkFree(c)
  \/ AnswerAdoptFree(c)
  \/ AnswerCloseFree(c)
  \/ AnswerEdit(c)
  \/ AnswerSave(c)

Begin(c, d) ==
  \/ \E op \in {"open", "edit", "optimize"} : Acquire(c, op, d)
  \/ Park(c, d)
  \/ Save(c, d)
  \/ \E op \in {"close", "load"} : Forget(c, op, d)
  \/ New(c, d)

Next ==
  \/ \E c \in Calls, d \in Documents : Begin(c, d)
  \/ \E c \in Calls : Answer(c)
  \/ \E e \in Engines : EngineLost(e)

(* A worker that is alive answers what it was asked: each answer is fair.  *)
(* Nobody has to make a call and no engine has to die.                     *)
Fairness == \A c \in Calls : WF_vars(Answer(c))

Spec == Init /\ [][Next]_vars
FairSpec == Spec /\ Fairness

-----------------------------------------------------------------------------
(* Safety.                                                                 *)

\* The handles a call has taken out of the registry and will free.
Dying(c) == call[c].at \in {"parkText", "parkFree", "adoptFree", "closeFree"}

\* Every handle the registry holds for a document, or has taken out to free,
\* is a live slot of that document's engine holding that document: a free
\* never reaches a slot that was handed to another document meanwhile.
OwnedHandlesLive ==
  /\ \A d \in Documents : hot[d] # Cold =>
       /\ slots[EngineOf[d]][hot[d]] # Free
       /\ slots[EngineOf[d]][hot[d]].doc = d
  /\ \A c \in Calls : Dying(c) =>
       /\ call[c].target # Cold
       /\ SlotsOf(c)[call[c].target] # Free
       /\ SlotsOf(c)[call[c].target].doc = call[c].subject

\* No handle has two owners: it belongs to one document, or to one call that
\* will free it, never to both (documentRegistry.ts `park`, `forget`,
\* `adoptHandle`: a handle is freed at most once).
HandlesOwnedOnce ==
  /\ \A c \in Calls, d \in Documents :
       Dying(c) /\ EngineOf[d] = EngineOf[call[c].subject] => hot[d] # call[c].target
  /\ \A c1, c2 \in Calls :
       Dying(c1) /\ Dying(c2) /\ c1 # c2
         /\ EngineOf[call[c1].subject] = EngineOf[call[c2].subject]
           => call[c1].target # call[c2].target

\* While pinned work runs, the handle it works on stays its document's: no
\* park and no eviction pulls it away (documentRegistry.ts `pinned`).
PinnedWorkKeepsItsHandle ==
  \A c \in Calls : call[c].op = "optimize" /\ call[c].at = "edit" =>
    /\ Valid(c)
    /\ SlotsOf(c)[call[c].target].doc = call[c].doc

\* With nothing in progress, every acknowledged edit is in the document that
\* the registry would give out next: its live handle, or its parked text.
Quiet == \A c \in Calls : call[c].at \in {"ready", "done", "skipped"}

Content(d) ==
  IF hot[d] # Cold THEN slots[EngineOf[d]][hot[d]].edits
  ELSE IF parked[d] # NoText THEN parked[d] ELSE {}

NoLostWork == Quiet => \A d \in Documents : Content(d) = made[d]

\* An acknowledged edit went into the document the caller asked to edit.
EditsLandOnTheirDocument ==
  \A e \in Engines, s \in Slots :
    slots[e][s] # Free =>
      \A c \in slots[e][s].edits : \A d \in Documents : c \in made[d] => slots[e][s].doc = d

\* With nothing in progress, the engines hold no document the registry has
\* lost track of.
NoLeakedHandle ==
  Quiet => \A e \in Engines, s \in Slots :
             slots[e][s] # Free => \E d \in Documents : EngineOf[d] = e /\ hot[d] = s

\* With nothing in progress and no pinned work ever done, the hot set is within
\* its limit: racing eviction loops do not stop short.
WithinLimit ==
  Quiet /\ (\A c \in Calls : call[c].op # "optimize") =>
    Cardinality({d \in Documents : hot[d] # Cold}) <= HotLimit

(* Liveness.                                                               *)

\* Every call settles, or its engine died under it.
CallsSettle == \A c \in Calls : call[c].at \in Pending ~> call[c].at \in Ended

\* Every pin is released in the end, unless an engine died.
PinsReleased == \A d \in Documents : pins[d] > 0 ~> pins[d] = 0 \/ losses > 0
=============================================================================
