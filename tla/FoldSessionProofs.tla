-------------------------- MODULE FoldSessionProofs --------------------------
(***************************************************************************)
(* Proofs about FoldSession, for any operations, documents, surfaces,      *)
(* failures and crashes: an engine that goes on crashing is restarted at   *)
(* most MAX_RESTARTS times, a commit or a preview never waits for a replay *)
(* that is not coming, and every state an engine holds has one owner.      *)
(*                                                                         *)
(* The session is one record and the code's functions are operators on     *)
(* records, so a lemma says of an operator which fields it may touch, and  *)
(* an action's proof composes those of the operators it is made of.        *)
(***************************************************************************)
EXTENDS FoldSession, SequenceTheorems, FiniteSetTheorems, WellFoundedInduction, TLAPS

----------------------------------------------------------------------------
(* The fields an operator touches.                                         *)

\* The fields these proofs read.
Fields == {"load", "steps", "ids", "cursor", "tip", "holders", "lingering", "ready", "starting",
           "scheduled", "run", "restarts", "halted", "error", "commit", "hover", "snap", "ahead"}

\* A sequence, of anything.
IsSeq(q) == q \in Seq({q[i] : i \in DOMAIN q})

\* A run under way stands at a node of its order.
RunShape(run) ==
  /\ "on" \in DOMAIN run
  /\ run.on => {"order", "at"} \subseteq DOMAIN run /\ IsSeq(run.order) /\ run.at \in DOMAIN run.order

Shape(m) ==
  /\ Fields \subseteq DOMAIN m
  /\ RunShape(m.run) /\ "pc" \in DOMAIN m.commit /\ "pc" \in DOMAIN m.hover

\* From x to y only the fields of T may have changed.
Only(x, y, T) == DOMAIN y = DOMAIN x /\ \A f \in DOMAIN x \ T : y[f] = x[f]

\* And nobody waits who did not wait before.
Keeps(x, y, T) ==
  /\ Only(x, y, T)
  /\ Shape(x) => /\ Shape(y)
                 /\ y.commit.pc = "waiting" => x.commit.pc = "waiting"
                 /\ y.hover.pc = "waiting" => x.hover.pc = "waiting"

LEMMA OnlyKeeps ==
  ASSUME NEW x, NEW y, NEW T, Only(x, y, T), "run" \notin T, "commit" \notin T, "hover" \notin T
  PROVE  Keeps(x, y, T)
<1>1. ASSUME Shape(x)
      PROVE  y.run = x.run /\ y.commit = x.commit /\ y.hover = x.hover /\ Fields \subseteq DOMAIN y
  BY <1>1 DEF Only, Shape, Fields
<1> QED
  BY <1>1 DEF Keeps, Shape

LEMMA KeepsSame == \A x : Keeps(x, x, {})
  BY DEF Keeps, Only

LEMMA KeepsThen ==
  ASSUME NEW x, NEW y, NEW z, NEW A, NEW B, NEW C, Keeps(x, y, A), Keeps(y, z, B), A \cup B \subseteq C
  PROVE  Keeps(x, z, C)
<1>1. Only(x, z, C)
  BY DEF Keeps, Only
<1> QED
  BY <1>1 DEF Keeps

LEMMA KeepsMore ==
  ASSUME NEW x, NEW y, NEW A, NEW B, Keeps(x, y, A), A \subseteq B
  PROVE  Keeps(x, y, B)
  BY DEF Keeps, Only

\* A field that is read and not touched is the same.
LEMMA Kept ==
  ASSUME NEW x, NEW y, NEW T, Keeps(x, y, T), Shape(x), NEW f \in Fields \ T
  PROVE  y[f] = x[f]
  BY DEF Keeps, Only, Shape

----------------------------------------------------------------------------
(* The worker, and letting go.                                             *)

LEMMA AskKeeps ==
  ASSUME NEW m, NEW kind, NEW on, NEW op, NEW path
  PROVE  Keeps(m, Ask(m, kind, on, op, path), {"up", "inbox"})
<1>1. Only(m, Ask(m, kind, on, op, path), {"up", "inbox"})
  BY DEF Ask, Only
<1> QED
  BY <1>1, OnlyKeeps

LEMMA ReleaseAllKeeps ==
  ASSUME NEW m, NEW sts
  PROVE  Keeps(m, ReleaseAll(m, sts), {"table", "inbox"})
<1>1. Only(m, ReleaseAll(m, sts), {"table", "inbox"})
  <2> DEFINE held == {st \in sts : Landed(st) /\ st.gen = m.gen}
             letting == [i \in DOMAIN SetToSeq(held) |->
                          [kind |-> "release", on |-> SetToSeq(held)[i], op |-> "none", path |-> <<>>, wanted |-> FALSE]]
  <2>1. ReleaseAll(m, sts) = IF m.inbox = <<>> THEN [m EXCEPT !.table = @ \ held] ELSE [m EXCEPT !.inbox = @ \o letting]
    BY DEF ReleaseAll
  <2> HIDE DEF held, letting
  <2> QED
    BY <2>1 DEF Only
<1> QED
  BY <1>1, OnlyKeeps

LEMMA ReleaseKeeps ==
  ASSUME NEW m, NEW st
  PROVE  Keeps(m, Release(m, st), {"table", "inbox"})
  BY ReleaseAllKeeps DEF Release

LEMMA UnwantedKeeps ==
  ASSUME NEW m, NEW kind
  PROVE  Keeps(m, Unwanted(m, kind), {"inbox"})
<1>1. Only(m, Unwanted(m, kind), {"inbox"})
  <2> DEFINE inbox == [i \in DOMAIN m.inbox |-> IF m.inbox[i].kind = kind THEN [m.inbox[i] EXCEPT !.wanted = FALSE] ELSE m.inbox[i]]
  <2>1. Unwanted(m, kind) = [m EXCEPT !.inbox = inbox]
    BY DEF Unwanted
  <2> HIDE DEF inbox
  <2> QED
    BY <2>1 DEF Only
<1> QED
  BY <1>1, OnlyKeeps

PendingSlots == {"table", "inbox", "pending", "print", "queued", "hover", "commit"}

\* What a commit does when the preview it awaits is dropped.
LEMMA DroppedKeeps ==
  ASSUME NEW m
  PROVE  Keeps(m, [m EXCEPT !.pending = Idle, !.print = "none", !.queued = NoRequest, !.hover = NoHover,
                            !.commit.pc = IF @ = "queued" THEN "answered" ELSE @], PendingSlots)
<1> DEFINE c == [m.commit EXCEPT !.pc = IF @ = "queued" THEN "answered" ELSE @]
           y == [m EXCEPT !.pending = Idle, !.print = "none", !.queued = NoRequest, !.hover = NoHover, !.commit = c]
<1>1. [m EXCEPT !.pending = Idle, !.print = "none", !.queued = NoRequest, !.hover = NoHover,
                !.commit.pc = IF @ = "queued" THEN "answered" ELSE @] = y
  OBVIOUS
<1>2. "pc" \in DOMAIN m.commit => "pc" \in DOMAIN c /\ (c.pc = "waiting" => m.commit.pc = "waiting")
  OBVIOUS
<1> HIDE DEF c
<1>3. Only(m, y, PendingSlots)
  BY DEF Only, PendingSlots
<1>4. ASSUME Shape(m)
      PROVE  y.commit = c /\ y.hover = NoHover /\ y.run = m.run /\ Fields \subseteq DOMAIN y
  BY <1>4 DEF Shape, Fields
<1> HIDE DEF y
<1>5. NoHover.pc = "none" /\ "pc" \in DOMAIN NoHover
  BY DEF NoHover
<1>6. Keeps(m, y, PendingSlots)
  BY <1>2, <1>3, <1>4, <1>5 DEF Keeps, Shape
<1> QED
  BY <1>1, <1>6

LEMMA DropPendingKeeps ==
  ASSUME NEW m
  PROVE  Keeps(m, DropPending(m), PendingSlots)
<1> DEFINE a == IF m.pending.status = "landed" /\ m.pending.state # m.taken THEN Release(m, m.pending.state) ELSE m
           b == Unwanted(a, "preview")
<1>1. Keeps(m, a, {"table", "inbox"})
  BY ReleaseKeeps, KeepsSame, KeepsMore
<1>2. Keeps(a, b, {"inbox"})
  BY UnwantedKeeps
<1>3. DropPending(m) = [b EXCEPT !.pending = Idle, !.print = "none", !.queued = NoRequest, !.hover = NoHover,
                                 !.commit.pc = IF @ = "queued" THEN "answered" ELSE @]
  BY DEF DropPending
<1> HIDE DEF a, b
<1>4. Keeps(m, b, PendingSlots)
  BY <1>1, <1>2, KeepsThen DEF PendingSlots
<1>5. Keeps(b, DropPending(m), PendingSlots)
  BY <1>3, DroppedKeeps
<1> QED
  BY <1>4, <1>5, KeepsThen

LEMMA DropOfferKeeps ==
  ASSUME NEW m
  PROVE  Keeps(m, DropOffer(m), {"table", "inbox", "offer"})
<1> DEFINE a == Release(m, m.offer.state)
<1>1. Keeps(m, a, {"table", "inbox"})
  BY ReleaseKeeps
<1>2. DropOffer(m) = [a EXCEPT !.offer = Idle]
  BY DEF DropOffer
<1> HIDE DEF a
<1>3. Only(a, DropOffer(m), {"offer"})
  BY <1>2 DEF Only
<1>4. Keeps(a, DropOffer(m), {"offer"})
  BY <1>3, OnlyKeeps
<1> QED
  BY <1>1, <1>4, KeepsThen

----------------------------------------------------------------------------
(* Publishing.                                                             *)

OfferSlots == PendingSlots \cup {"offer"}
RenderSlots == OfferSlots \cup {"snap"}

Waits(m) == m.commit.pc = "waiting" \/ m.hover.pc = "waiting"

\* Something that will end in a publish is under way, or the session gave up.
Going(m) == m.run.on \/ m.scheduled \/ m.starting \/ m.halted

\* Who waits waits for the step that was published as pending.
Await(m) == Waits(m) => m.snap.live /\ m.snap.shown[m.snap.cursor] = NoState

\* And not for nothing.
Heard(m) == Await(m) /\ (Waits(m) => Going(m))

\* What was published of these is what they are.
Current(m) == m.snap.live = (m.holders > 0) /\ m.snap.replaying = m.run.on /\ m.snap.error = m.error

LEMMA StillCurrent ==
  ASSUME NEW x, NEW y, NEW T, Keeps(x, y, T), Shape(x), T \cap {"snap", "holders", "run", "error"} = {}
  PROVE  Current(x) <=> Current(y)
<1>1. y.snap = x.snap /\ y.holders = x.holders /\ y.run = x.run /\ y.error = x.error
  BY Kept DEF Fields
<1> QED
  BY <1>1 DEF Current

LEMMA StillAwait ==
  ASSUME NEW x, NEW y, NEW T, Keeps(x, y, T), Shape(x), "snap" \notin T, Await(x)
  PROVE  Await(y)
<1>1. y.snap = x.snap
  BY Kept DEF Fields
<1>2. Waits(y) => Waits(x)
  BY DEF Waits, Keeps
<1> QED
  BY <1>1, <1>2 DEF Await

LEMMA StillHeard ==
  ASSUME NEW x, NEW y, NEW T, Keeps(x, y, T), Shape(x), Heard(x),
         T \cap {"snap", "run", "scheduled", "starting", "halted"} = {}
  PROVE  Heard(y)
<1>1. y.run = x.run /\ y.scheduled = x.scheduled /\ y.starting = x.starting /\ y.halted = x.halted
  BY Kept DEF Fields
<1>2. Waits(y) => Waits(x)
  BY DEF Waits, Keeps
<1>3. Await(y)
  BY StillAwait DEF Heard
<1> QED
  BY <1>1, <1>2, <1>3 DEF Heard, Going

\* What a waiter is told, if it may go on.
Wake(m, w) == IF w.pc = "waiting" /\ ReadyToFold(m)
                THEN [w EXCEPT !.pc = "woken", !.from = FoldingFrom(m).from] ELSE w

LEMMA WakeTells ==
  ASSUME NEW m, NEW w, "pc" \in DOMAIN w
  PROVE  /\ "pc" \in DOMAIN Wake(m, w)
         /\ Wake(m, w).pc = "waiting" => w.pc = "waiting" /\ ~ReadyToFold(m)
  BY DEF Wake

LEMMA WakeWaitersKeeps ==
  ASSUME NEW m
  PROVE  /\ Keeps(m, WakeWaiters(m), {"commit", "hover"})
         /\ Shape(m) /\ ReadyToFold(m) => ~Waits(WakeWaiters(m))
<1> DEFINE c == Wake(m, m.commit)
           h == Wake(m, m.hover)
<1>1. WakeWaiters(m) = [m EXCEPT !.commit = c, !.hover = h]
  BY DEF WakeWaiters, Wake
<1>2. "pc" \in DOMAIN m.commit => "pc" \in DOMAIN c /\ (c.pc = "waiting" => m.commit.pc = "waiting" /\ ~ReadyToFold(m))
  BY WakeTells
<1>3. "pc" \in DOMAIN m.hover => "pc" \in DOMAIN h /\ (h.pc = "waiting" => m.hover.pc = "waiting" /\ ~ReadyToFold(m))
  BY WakeTells
<1> HIDE DEF c, h
<1>4. Only(m, WakeWaiters(m), {"commit", "hover"})
  BY <1>1 DEF Only
<1>5. ASSUME Shape(m)
      PROVE  /\ WakeWaiters(m).commit = c /\ WakeWaiters(m).hover = h /\ WakeWaiters(m).run = m.run
             /\ Fields \subseteq DOMAIN WakeWaiters(m)
  BY <1>1, <1>5 DEF Shape, Fields
<1>6. Keeps(m, WakeWaiters(m), {"commit", "hover"})
  BY <1>2, <1>3, <1>4, <1>5 DEF Keeps, Shape
<1>7. Shape(m) /\ ReadyToFold(m) => ~Waits(WakeWaiters(m))
  BY <1>2, <1>3, <1>5 DEF Waits, Shape
<1> QED
  BY <1>6, <1>7

\* Whoever still waits after a publish waits for what it said, and for something to come.
LEMMA AnnounceHears ==
  ASSUME NEW m
  PROVE  /\ Keeps(m, Announce(m), {"commit", "hover", "snap"})
         /\ Shape(m) => Heard(Announce(m)) /\ Current(Announce(m))
<1> DEFINE snap == SnapshotOf(m)
           a == [m EXCEPT !.snap = snap]
<1>1. Announce(m) = WakeWaiters(a)
  BY DEF Announce
<1>2. snap.live = (m.holders > 0) /\ snap.replaying = m.run.on /\ snap.error = m.error
  BY DEF SnapshotOf
<1> HIDE DEF snap
<1>3. Keeps(m, a, {"snap"})
  <2>1. Only(m, a, {"snap"})
    BY DEF Only
  <2> QED
    BY <2>1, OnlyKeeps
<1>4. Shape(m) => a.snap = snap
  BY DEF Shape, Fields
<1> HIDE DEF a
<1>5. Keeps(a, WakeWaiters(a), {"commit", "hover"}) /\ (Shape(a) /\ ReadyToFold(a) => ~Waits(WakeWaiters(a)))
  BY WakeWaitersKeeps
<1>6. Keeps(m, Announce(m), {"commit", "hover", "snap"})
  BY <1>1, <1>3, <1>5, KeepsThen
<1>7. ASSUME Shape(m)
      PROVE  Heard(Announce(m)) /\ Current(Announce(m))
  <2>1. Shape(a)
    BY <1>3, <1>7 DEF Keeps
  <2> DEFINE y == WakeWaiters(a)
  <2>2. /\ y.snap = a.snap /\ y.holders = a.holders /\ y.run = a.run /\ y.error = a.error
        /\ y.scheduled = a.scheduled /\ y.starting = a.starting /\ y.halted = a.halted
    BY <1>5, <2>1, Kept DEF Fields
  <2>3. a.holders = m.holders /\ a.run = m.run /\ a.error = m.error
    BY <1>3, <1>7, Kept DEF Fields
  <2>4. Current(y)
    BY <1>2, <1>4, <1>7, <2>2, <2>3 DEF Current
  <2>5. ASSUME ~ReadyToFold(a)
        PROVE  a.snap.live /\ a.snap.shown[a.snap.cursor] = NoState /\ (a.run.on \/ a.scheduled \/ a.starting)
    BY <2>5 DEF ReadyToFold, FoldingFrom, Landing
  <2>6. Heard(y)
    BY <1>5, <2>1, <2>2, <2>5 DEF Heard, Await, Going
  <2> QED
    BY <1>1, <2>4, <2>6
<1> QED
  BY <1>6, <1>7

\* A publish leaves nobody waiting for nothing, if none did or if there is news.
LEMMA PublishHears ==
  ASSUME NEW m
  PROVE  /\ Keeps(m, Publish(m), {"commit", "hover", "snap"})
         /\ Shape(m) /\ (Current(m) => Heard(m)) => Heard(Publish(m)) /\ Current(Publish(m))
<1>1. CASE SnapshotOf(m) = m.snap
  <2>1. Publish(m) = m
    BY <1>1 DEF Publish
  <2>2. Current(m)
    BY <1>1 DEF Current, SnapshotOf
  <2> QED
    BY <2>1, <2>2, KeepsSame, KeepsMore
<1>2. CASE SnapshotOf(m) # m.snap
  <2>1. Publish(m) = Announce(m)
    BY <1>2 DEF Publish
  <2> QED
    BY <2>1, AnnounceHears
<1> QED
  BY <1>1, <1>2

LEMMA WithoutOldKeeps ==
  ASSUME NEW m
  PROVE  Keeps(m, WithoutPending(WithoutOffer(m)), OfferSlots)
<1> DEFINE a == WithoutOffer(m)
<1>1. Keeps(m, a, {"table", "inbox", "offer"})
  BY DropOfferKeeps, KeepsSame, KeepsMore DEF WithoutOffer
<1>3. a = WithoutOffer(m)
  OBVIOUS
<1> HIDE DEF a
<1>2. Keeps(a, WithoutPending(a), PendingSlots)
  BY DropPendingKeeps, KeepsSame, KeepsMore DEF WithoutPending
<1> QED
  BY <1>1, <1>2, <1>3, KeepsThen DEF OfferSlots, PendingSlots

LEMMA RenderHears ==
  ASSUME NEW m
  PROVE  /\ Keeps(m, Render(m), RenderSlots)
         /\ Shape(m) /\ (Current(m) => Heard(m)) => Heard(Render(m)) /\ Current(Render(m))
<1> DEFINE a == WithoutPending(WithoutOffer(m))
<1>1. Keeps(m, a, OfferSlots)
  BY WithoutOldKeeps
<1>2. Render(m) = Publish(a)
  BY DEF Render
<1> HIDE DEF a
<1>3. Keeps(a, Publish(a), {"commit", "hover", "snap"})
  BY PublishHears
<1>4. Keeps(m, Render(m), RenderSlots)
  BY <1>1, <1>2, <1>3, KeepsThen DEF RenderSlots, OfferSlots, PendingSlots
<1>5. ASSUME Shape(m), Current(m) => Heard(m)
      PROVE  Heard(Render(m)) /\ Current(Render(m))
  <2>1. Shape(a)
    BY <1>1, <1>5 DEF Keeps
  <2>2. Current(m) <=> Current(a)
    BY <1>1, <1>5, StillCurrent DEF OfferSlots, PendingSlots
  <2>3. Heard(m) => Heard(a)
    BY <1>1, <1>5, StillHeard DEF OfferSlots, PendingSlots
  <2> QED
    BY <1>2, <1>5, <2>1, <2>2, <2>3, PublishHears
<1> QED
  BY <1>4, <1>5

LEMMA RenderEditedHears ==
  ASSUME NEW m
  PROVE  /\ Keeps(m, RenderEdited(m), RenderSlots)
         /\ Shape(m) => Heard(RenderEdited(m)) /\ Current(RenderEdited(m))
<1> DEFINE a == WithoutPending(WithoutOffer(m))
<1>1. Keeps(m, a, OfferSlots)
  BY WithoutOldKeeps
<1>2. RenderEdited(m) = Announce(a)
  BY DEF RenderEdited
<1> HIDE DEF a
<1>3. Keeps(a, Announce(a), {"commit", "hover", "snap"}) /\ (Shape(a) => Heard(Announce(a)) /\ Current(Announce(a)))
  BY AnnounceHears
<1>4. Keeps(m, RenderEdited(m), RenderSlots)
  BY <1>1, <1>2, <1>3, KeepsThen DEF RenderSlots, OfferSlots, PendingSlots
<1> QED
  BY <1>1, <1>2, <1>3, <1>4 DEF Keeps

----------------------------------------------------------------------------
(* A run of the replay.                                                    *)

\* The run is over, and nothing else that is read here is touched.
LEMMA RunEnds ==
  ASSUME NEW x, NEW y, NEW T, Only(x, y, T), "commit" \notin T, "hover" \notin T, y.run = NoRun
  PROVE  Keeps(x, y, T)
<1>1. ASSUME Shape(x)
      PROVE  y.commit = x.commit /\ y.hover = x.hover /\ Fields \subseteq DOMAIN y
  BY <1>1 DEF Only, Shape, Fields
<1>2. RunShape(y.run)
  BY DEF RunShape, NoRun
<1> QED
  BY <1>1, <1>2 DEF Keeps, Shape

LEMMA ReleaseUnadoptedKeeps ==
  ASSUME NEW m
  PROVE  Keeps(m, ReleaseUnadopted(m), {"table", "inbox", "adoptions"})
<1> DEFINE left == {a \in m.adoptions : a.older}
           b == ReleaseAll(m, {a.state : a \in left})
<1>1. Keeps(m, b, {"table", "inbox"})
  BY ReleaseAllKeeps
<1>2. ReleaseUnadopted(m) = [b EXCEPT !.adoptions = @ \ left]
  BY DEF ReleaseUnadopted
<1> HIDE DEF b, left
<1>3. Only(b, ReleaseUnadopted(m), {"adoptions"})
  BY <1>2 DEF Only
<1>4. Keeps(b, ReleaseUnadopted(m), {"adoptions"})
  BY <1>3, OnlyKeeps
<1> QED
  BY <1>1, <1>4, KeepsThen

LEMMA ReportHears ==
  ASSUME NEW m, NEW done
  PROVE  /\ Keeps(m, Report(m, done), RenderSlots \cup {"progress"})
         /\ Shape(m) /\ (Current(m) => Heard(m)) => Heard(Report(m, done)) /\ Current(Report(m, done))
<1> DEFINE p == [load |-> m.run.load, done |-> done, made |-> m.run.made]
           a == [m EXCEPT !.progress = p]
<1>1. Report(m, done) = Render(a)
  BY DEF Report
<1> HIDE DEF p
<1>2. Only(m, a, {"progress"})
  BY DEF Only
<1> HIDE DEF a
<1>3. Keeps(m, a, {"progress"})
  BY <1>2, OnlyKeeps
<1>4. Keeps(a, Render(a), RenderSlots)
  BY RenderHears
<1>5. Keeps(m, Report(m, done), RenderSlots \cup {"progress"})
  BY <1>1, <1>3, <1>4, KeepsThen
<1>6. ASSUME Shape(m), Current(m) => Heard(m)
      PROVE  Heard(Report(m, done)) /\ Current(Report(m, done))
  <2>1. Shape(a)
    BY <1>3, <1>6 DEF Keeps
  <2>2. (Current(m) <=> Current(a)) /\ (Heard(m) => Heard(a))
    BY <1>3, <1>6, StillCurrent, StillHeard
  <2> QED
    BY <1>1, <1>6, <2>1, <2>2, RenderHears
<1> QED
  BY <1>5, <1>6

ReplaySlots == RenderSlots \cup {"progress", "run", "ahead", "adoptions", "cache", "up"}

\* The end of a run is news.
LEMMA FinishHears ==
  ASSUME NEW m
  PROVE  /\ Keeps(m, Finish(m), ReplaySlots)
         /\ Shape(m) /\ m.run.on /\ (Current(m) => Heard(m)) => 
              Heard(Finish(m)) /\ Current(Finish(m)) /\ ~Finish(m).run.on
<1> DEFINE a == Report(m, TRUE)
           b == Settled(a)
           c == ReleaseUnadopted(b)
<1>1. Finish(m) = Render(c)
  BY DEF Finish
<1>2. Keeps(m, a, RenderSlots \cup {"progress"})
  BY ReportHears
<1>3. Shape(m) /\ (Current(m) => Heard(m)) => Heard(a) /\ Current(a)
  BY ReportHears
<1>4. b = Settled(a)
  OBVIOUS
<1>5. Keeps(b, c, {"table", "inbox", "adoptions"})
  BY ReleaseUnadoptedKeeps
<1> HIDE DEF a, b, c
<1>6. Only(a, b, {"run", "ahead"}) /\ (Shape(a) => b.run = NoRun)
  BY <1>4 DEF Settled, Only, Shape, Fields
<1>7. Keeps(a, b, {"run", "ahead"})
  BY <1>6, RunEnds DEF Keeps
<1>8. Keeps(c, Render(c), RenderSlots)
  BY RenderHears
<1>9. Keeps(m, b, ReplaySlots)
  BY <1>2, <1>7, KeepsThen DEF ReplaySlots
<1>10. Keeps(b, Render(c), ReplaySlots)
  BY <1>5, <1>8, KeepsThen DEF ReplaySlots, RenderSlots, OfferSlots, PendingSlots
<1>11. Keeps(m, Finish(m), ReplaySlots)
  BY <1>1, <1>9, <1>10, KeepsThen
<1>12. ASSUME Shape(m), m.run.on, Current(m) => Heard(m)
       PROVE  Heard(Finish(m)) /\ Current(Finish(m)) /\ ~Finish(m).run.on
  <2>1. Shape(a) /\ Shape(b) /\ Shape(c)
    BY <1>2, <1>5, <1>7, <1>12 DEF Keeps
  <2>2. a.run = m.run
    BY <1>2, <1>12, Kept DEF Fields, RenderSlots, OfferSlots, PendingSlots
  <2>3. b.snap = a.snap
    BY <1>7, <2>1, Kept DEF Fields
  <2>4. ~Current(b)
    <3>1. b.run.on = FALSE
      BY <1>6, <2>1 DEF NoRun
    <3>2. Current(a)
      BY <1>3, <1>12
    <3>3. a.snap.replaying = m.run.on
      BY <2>2, <3>2 DEF Current
    <3> QED
      BY <1>12, <2>3, <3>1, <3>3 DEF Current
  <2>5. ~Current(c)
    BY <1>5, <2>1, <2>4, StillCurrent
  <2>6. Heard(Render(c)) /\ Current(Render(c))
    BY <2>1, <2>5, RenderHears
  <2>7. Render(c).run = c.run /\ c.run = b.run
    BY <1>5, <1>8, <2>1, Kept DEF Fields, RenderSlots, OfferSlots, PendingSlots
  <2> QED
    BY <1>1, <1>6, <2>1, <2>6, <2>7 DEF NoRun
<1> QED
  BY <1>11, <1>12

\* The run goes on, with the same order.
GoesOn(x, y) == y.run.on = x.run.on /\ (x.run.on => y.run.order = x.run.order)

LEMMA MadeKeeps ==
  ASSUME NEW m, NEW id, NEW st
  PROVE  /\ Keeps(m, Made(m, id, st), {"run"})
         /\ Shape(m) => GoesOn(m, Made(m, id, st))
<1> DEFINE made == Put(m.run.made, id, [path |-> PathOf(m.run.steps, id), state |-> st])
           run == [m.run EXCEPT !.made = made]
<1>1. Made(m, id, st) = [m EXCEPT !.run = run]
  BY DEF Made
<1> HIDE DEF made
<1>2. DOMAIN run = DOMAIN m.run /\ \A f \in DOMAIN m.run \ {"made"} : run[f] = m.run[f]
  OBVIOUS
<1> HIDE DEF run
<1>3. RunShape(m.run) => RunShape(run) /\ run.on = m.run.on /\ (m.run.on => run.order = m.run.order)
  BY <1>2 DEF RunShape
<1>4. Only(m, Made(m, id, st), {"run"})
  BY <1>1 DEF Only
<1>5. ASSUME Shape(m)
      PROVE  /\ Made(m, id, st).run = run /\ Made(m, id, st).commit = m.commit /\ Made(m, id, st).hover = m.hover
             /\ Fields \subseteq DOMAIN Made(m, id, st)
  BY <1>1, <1>5 DEF Shape, Fields
<1> QED
  BY <1>3, <1>4, <1>5 DEF Keeps, Shape, GoesOn

\* The run stops at a node, for a call.
LEMMA StopsAtKeeps ==
  ASSUME NEW m, NEW k, m.run.on => k \in DOMAIN m.run.order
  PROVE  /\ Keeps(m, [m EXCEPT !.run.at = k, !.run.waits = TRUE], {"run"})
         /\ Shape(m) => GoesOn(m, [m EXCEPT !.run.at = k, !.run.waits = TRUE])
<1> DEFINE run == [m.run EXCEPT !.at = k, !.waits = TRUE]
           y == [m EXCEPT !.run = run]
<1>1. [m EXCEPT !.run.at = k, !.run.waits = TRUE] = y
  OBVIOUS
<1>2. /\ DOMAIN run = DOMAIN m.run /\ \A f \in DOMAIN m.run \ {"at", "waits"} : run[f] = m.run[f]
      /\ "at" \in DOMAIN m.run => run.at = k
  OBVIOUS
<1> HIDE DEF run
<1>3. RunShape(m.run) => RunShape(run) /\ run.on = m.run.on /\ (m.run.on => run.order = m.run.order)
  BY <1>2 DEF RunShape
<1>4. Only(m, y, {"run"})
  BY DEF Only
<1>5. ASSUME Shape(m)
      PROVE  y.run = run /\ y.commit = m.commit /\ y.hover = m.hover /\ Fields \subseteq DOMAIN y
  BY <1>5 DEF Shape, Fields
<1> HIDE DEF y
<1>6. Keeps(m, y, {"run"}) /\ (Shape(m) => GoesOn(m, y))
  BY <1>3, <1>4, <1>5 DEF Keeps, Shape, GoesOn
<1> QED
  BY <1>1, <1>6

\* A step of a run disturbs neither what was published nor those who wait.
LEMMA StillGoes ==
  ASSUME NEW x, NEW y, NEW T, Keeps(x, y, T), Shape(x), GoesOn(x, y),
         T \cap {"snap", "holders", "error", "scheduled", "starting", "halted"} = {}
  PROVE  (Current(x) <=> Current(y)) /\ (Heard(x) => Heard(y))
<1>1. /\ y.snap = x.snap /\ y.holders = x.holders /\ y.error = x.error
      /\ y.scheduled = x.scheduled /\ y.starting = x.starting /\ y.halted = x.halted
  BY Kept DEF Fields
<1>2. Waits(y) => Waits(x)
  BY DEF Waits, Keeps
<1>3. Await(x) => Await(y)
  BY <1>1, <1>2 DEF Await
<1> QED
  BY <1>1, <1>2, <1>3 DEF Heard, Going, Current, GoesOn

LEMMA VisitGoes ==
  ASSUME NEW m, NEW k, m.run.on => k \in DOMAIN m.run.order
  PROVE  /\ Keeps(m, Visit(m, k), ReplaySlots)
         /\ Shape(m) /\ Current(m) /\ Heard(m) =>
              GoesOn(m, Visit(m, k)) /\ Current(Visit(m, k)) /\ Heard(Visit(m, k))
<1> DEFINE Good(y) == /\ Keeps(m, y, ReplaySlots)
                      /\ Shape(m) /\ Current(m) /\ Heard(m) => GoesOn(m, y) /\ Current(y) /\ Heard(y)
           id == m.run.order[k]
           path == PathOf(m.run.steps, id)
           step == IF id = 0 THEN [op |-> "none", parent |-> 0] ELSE StepOf(m.run.steps, id)
           parent == IF id = 0 THEN NoState ELSE m.run.made[step.parent].state
           offered == {a \in m.adoptions : a.parent = parent /\ a.op = step.op}
           a == CHOOSE a \in offered : TRUE
           adopted == [Made(m, id, a.state) EXCEPT !.cache = Put(@, path, a.state), !.adoptions = @ \ {a}]
           asked == Ask(m, "replay", parent, step.op, path)
<1>1. \/ Visit(m, k) = m
      \/ \E st : Visit(m, k) = Made(m, id, st)
      \/ Visit(m, k) = [m EXCEPT !.run.at = k, !.run.waits = TRUE]
      \/ Visit(m, k) = Report(adopted, FALSE)
      \/ Visit(m, k) = [asked EXCEPT !.run.at = k, !.run.waits = TRUE]
  BY Zenon DEF Visit
<1>2. Good(m)
  BY KeepsSame, KeepsMore DEF GoesOn
<1>3. ASSUME NEW st
      PROVE  Good(Made(m, id, st))
  <2> HIDE DEF id
  <2>1. Keeps(m, Made(m, id, st), {"run"}) /\ (Shape(m) => GoesOn(m, Made(m, id, st)))
    BY MadeKeeps
  <2>2. Keeps(m, Made(m, id, st), ReplaySlots)
    BY <2>1, KeepsMore DEF ReplaySlots
  <2> QED
    BY <2>1, <2>2, StillGoes
<1>4. Good([m EXCEPT !.run.at = k, !.run.waits = TRUE])
  <2> DEFINE y == [m EXCEPT !.run.at = k, !.run.waits = TRUE]
  <2>1. Keeps(m, y, {"run"}) /\ (Shape(m) => GoesOn(m, y))
    BY StopsAtKeeps
  <2> HIDE DEF y
  <2>2. Keeps(m, y, ReplaySlots)
    BY <2>1, KeepsMore DEF ReplaySlots
  <2>3. Good(y)
    BY <2>1, <2>2, StillGoes
  <2> QED
    BY <2>3 DEF y
<1>5. Good(Report(adopted, FALSE))
  <2> DEFINE b == Made(m, id, a.state)
             c == [b EXCEPT !.cache = Put(@, path, a.state), !.adoptions = @ \ {a}]
  <2>1. adopted = c
    OBVIOUS
  <2> HIDE DEF id, a, path, adopted
  <2>2. Keeps(m, b, {"run"}) /\ (Shape(m) => GoesOn(m, b))
    BY MadeKeeps
  <2> HIDE DEF b
  <2>3. Only(b, c, {"cache", "adoptions"})
    BY DEF Only
  <2> HIDE DEF c
  <2>4. Keeps(b, c, {"cache", "adoptions"})
    BY <2>3, OnlyKeeps
  <2>5. Keeps(m, c, {"run", "cache", "adoptions"})
    BY <2>2, <2>4, KeepsThen
  <2> DEFINE r == Report(c, FALSE)
  <2>6. Keeps(c, r, RenderSlots \cup {"progress"}) /\ (Shape(c) /\ Current(c) /\ Heard(c) => Current(r) /\ Heard(r))
    BY ReportHears
  <2>7. Report(adopted, FALSE) = r
    BY <2>1
  <2> HIDE DEF r
  <2>8. Keeps(m, r, ReplaySlots)
    BY <2>5, <2>6, KeepsThen DEF ReplaySlots
  <2>9. ASSUME Shape(m), Current(m), Heard(m)
        PROVE  GoesOn(m, r) /\ Current(r) /\ Heard(r)
    <3>1. Shape(b) /\ Shape(c)
      BY <2>2, <2>4, <2>9 DEF Keeps
    <3>2. c.run = b.run
      BY <2>4, <3>1, Kept DEF Fields
    <3>3. GoesOn(m, c)
      BY <2>2, <2>9, <3>2 DEF GoesOn
    <3>4. Current(c) /\ Heard(c)
      BY <2>5, <2>9, <3>3, StillGoes
    <3>5. Current(r) /\ Heard(r)
      BY <2>6, <3>1, <3>4
    <3>6. r.run = c.run
      BY <2>6, <3>1, Kept DEF Fields, RenderSlots, OfferSlots, PendingSlots
    <3> QED
      BY <3>3, <3>5, <3>6 DEF GoesOn
  <2>10. Good(r)
    BY <2>8, <2>9
  <2> QED
    BY <2>7, <2>10
<1>6. Good([asked EXCEPT !.run.at = k, !.run.waits = TRUE])
  <2> DEFINE y == [asked EXCEPT !.run.at = k, !.run.waits = TRUE]
  <2>1. Keeps(m, asked, {"up", "inbox"})
    BY AskKeeps
  <2> HIDE DEF asked
  <2>2. Shape(m) => asked.run = m.run
    BY <2>1, Kept DEF Fields
  <2>3. ASSUME Shape(m)
        PROVE  Keeps(asked, y, {"run"}) /\ GoesOn(asked, y)
    <3>1. asked.run.on => k \in DOMAIN asked.run.order
      BY <2>2, <2>3
    <3>2. Shape(asked)
      BY <2>1, <2>3 DEF Keeps
    <3> QED
      BY <3>1, <3>2, StopsAtKeeps
  <2>4. Only(asked, y, {"run"})
    BY DEF Only
  <2> HIDE DEF y
  <2>5. Only(m, y, {"up", "inbox", "run"})
    BY <2>1, <2>4 DEF Only, Keeps
  <2>6. Keeps(m, y, {"up", "inbox", "run"})
    <3>1. Shape(m) => Keeps(m, y, {"up", "inbox", "run"})
      BY <2>1, <2>3, KeepsThen
    <3> QED
      BY <2>5, <3>1 DEF Keeps
  <2>7. Keeps(m, y, ReplaySlots)
    BY <2>6, KeepsMore DEF ReplaySlots, RenderSlots, OfferSlots, PendingSlots
  <2>8. Shape(m) => GoesOn(m, y)
    BY <2>2, <2>3 DEF GoesOn
  <2>9. Good(y)
    BY <2>6, <2>7, <2>8, StillGoes
  <2> QED
    BY <2>9 DEF y
<1> HIDE DEF Good, id, adopted, asked
<1>7. Good(Visit(m, k))
  BY <1>1, <1>2, <1>3, <1>4, <1>5, <1>6
<1> QED
  BY <1>7, Zenon DEF Good

----------------------------------------------------------------------------
(* Recursion over a run, and over a document's steps.                      *)

LEMMA Least ==
  ASSUME NEW T \in SUBSET Nat, T # {}
  PROVE  \E n \in T : \A k \in T : n <= k
<1>1. IsWellFoundedOn(OpToRel(<, Nat), Nat)
  BY NatLessThanWellFounded
<1>2. PICK n \in T : \A k \in T : ~ (<<k, n>> \in OpToRel(<, Nat))
  BY <1>1, WFMin
<1>3. \A k \in T : ~ (k < n)
  BY <1>2 DEF OpToRel
<1> QED
  BY <1>3

\* A set with a number, and with the next of each of its numbers up to n, has all up to n.
LEMMA Climb ==
  ASSUME NEW b \in Nat, NEW n \in Nat, NEW T, b \in T, \A k \in b..(n - 1) : k \in T => k + 1 \in T
  PROVE  \A k \in b..n : k \in T
<1> SUFFICES ASSUME (b..n) \ T # {}
             PROVE  FALSE
  OBVIOUS
<1> DEFINE R == (b..n) \ T
<1>1. R \in SUBSET Nat /\ R # {}
  OBVIOUS
<1>2. PICK i \in R : \A k \in R : i <= k
  <2> HIDE DEF R
  <2> QED
    BY <1>1, Least
<1>3. i - 1 \in b..(n - 1) /\ i - 1 \in T
  BY <1>2
<1> QED
  BY <1>2, <1>3

Visiting(m, from, v, k) == IF k < from THEN m ELSE Visit(v[k - 1], k)

LEMMA VisitsExist ==
  ASSUME NEW m, NEW from \in Nat \ {0}, NEW n \in Nat
  PROVE  \E v : v = [k \in (from - 1)..n |-> Visiting(m, from, v, k)]
<1> DEFINE b == from - 1
           T == {j \in Nat : \E v : v = [k \in b..j |-> Visiting(m, from, v, k)]}
<1>1. b \in T
  <2> DEFINE v == [k \in b..b |-> m]
  <2>1. v = [k \in b..b |-> Visiting(m, from, v, k)]
    BY DEF Visiting
  <2> QED
    BY <2>1
<1>2. ASSUME NEW i \in b..(n - 1), i \in T
      PROVE  i + 1 \in T
  <2>1. PICK v : v = [k \in b..i |-> Visiting(m, from, v, k)]
    BY <1>2
  <2> DEFINE w == [k \in b..(i + 1) |-> IF k = i + 1 THEN Visiting(m, from, v, k) ELSE v[k]]
  <2>2. \A k \in b..i : k >= from => k - 1 \in b..i /\ w[k - 1] = v[k - 1]
    OBVIOUS
  <2>3. w[i + 1] = Visiting(m, from, w, i + 1)
    BY DEF Visiting
  <2>4. ASSUME NEW k \in b..i
        PROVE  w[k] = Visiting(m, from, w, k)
    <3>1. w[k] = v[k] 
      OBVIOUS
    <3>2. v[k] = Visiting(m, from, v, k)
      BY <2>1
    <3> HIDE DEF w
    <3> QED
      BY <2>2, <3>1, <3>2 DEF Visiting
  <2>5. w = [k \in b..(i + 1) |-> Visiting(m, from, w, k)]
    BY <2>3, <2>4
  <2> HIDE DEF w
  <2> QED
    BY <2>5
<1>3. CASE b <= n
  <2> HIDE DEF T
  <2>1. \A k \in b..n : k \in T
    BY <1>1, <1>2, Climb
  <2>2. n \in T
    BY <1>3, <2>1
  <2> QED
    BY <2>2 DEF T
<1>4. CASE ~(b <= n)
  <2> DEFINE v == [k \in {} |-> m]
  <2>1. b..n = {}
    BY <1>4
  <2>2. v = [k \in b..n |-> Visiting(m, from, v, k)]
    BY <2>1
  <2> QED
    BY <2>2
<1> QED
  BY <1>3, <1>4

LEMMA SeqDomain ==
  ASSUME NEW q, IsSeq(q)
  PROVE  Len(q) \in Nat /\ DOMAIN q = 1..Len(q)
  BY LenProperties DEF IsSeq

\* A run goes on until it waits for a call, or is over: nobody is left waiting for nothing.
LEMMA AdvanceHears ==
  ASSUME NEW m, NEW from \in Nat \ {0}, Shape(m), m.run.on, from <= Len(m.run.order) + 1, Current(m), Heard(m)
  PROVE  Keeps(m, Advance(m, from), ReplaySlots) /\ Heard(Advance(m, from)) /\ Current(Advance(m, from))
<1> DEFINE b == from - 1
           n == Len(m.run.order)
           v == CHOOSE v : v = [k \in b..n |-> Visiting(m, from, v, k)]
           Good(y) == Keeps(m, y, ReplaySlots) /\ GoesOn(m, y) /\ Current(y) /\ Heard(y)
           T == {k \in b..n : Good(v[k])}
<1>1. n \in Nat /\ DOMAIN m.run.order = 1..n /\ b \in Nat /\ b <= n
  BY SeqDomain DEF Shape, RunShape
<1>2. v = [k \in b..n |-> Visiting(m, from, v, k)]
  <2>1. \E u : u = [k \in b..n |-> Visiting(m, from, u, k)]
    BY <1>1, VisitsExist
  <2> QED
    BY <2>1
<1>3. Advance(m, from) = FinishOrWait(v[n])
  BY DEF Advance, Visiting
<1> HIDE DEF v
<1>4. b \in T
  <2>1. b \in b..n /\ b < from
    BY <1>1
  <2>2. v[b] = m
    BY <1>2, <2>1 DEF Visiting
  <2>3. Good(m)
    BY KeepsSame, KeepsMore DEF GoesOn
  <2> QED
    BY <2>1, <2>2, <2>3
<1>5. ASSUME NEW k \in b..(n - 1), k \in T
      PROVE  k + 1 \in T
  <2> DEFINE x == v[k]
             y == Visit(x, k + 1)
  <2>1. k + 1 \in b..n /\ ~(k + 1 < from) /\ k + 1 - 1 = k /\ k + 1 \in 1..n
    BY <1>1, <1>5
  <2>2. v[k + 1] = y
    BY <1>2, <2>1 DEF Visiting
  <2>3. Good(x)
    BY <1>5
  <2> HIDE DEF x
  <2>4. Shape(x) /\ x.run.on /\ k + 1 \in DOMAIN x.run.order
    BY <1>1, <2>1, <2>3 DEF Keeps, GoesOn
  <2>5. Keeps(x, y, ReplaySlots) /\ GoesOn(x, y) /\ Current(y) /\ Heard(y)
    BY <2>3, <2>4, VisitGoes
  <2> HIDE DEF y
  <2>6. Good(y)
    BY <2>3, <2>5, KeepsThen DEF GoesOn
  <2> QED
    BY <2>1, <2>2, <2>6
<1>6. Good(v[n])
  <2>1. \A k \in b..n : k \in T
    <3> HIDE DEF T, n, b
    <3> QED
      BY <1>1, <1>4, <1>5, Climb
  <2>2. n \in b..n
    BY <1>1
  <2> QED
    BY <2>1, <2>2
<1> DEFINE x == v[n]
<1>7. Good(x)
  BY <1>6
<1> HIDE DEF x
<1>8. CASE FinishOrWait(x) = x
  BY <1>3, <1>7, <1>8 DEF x
<1>9. CASE FinishOrWait(x) = Finish(x)
  <2>1. Shape(x) /\ x.run.on
    BY <1>7 DEF Keeps, GoesOn
  <2>2. Keeps(x, Finish(x), ReplaySlots) /\ Heard(Finish(x)) /\ Current(Finish(x))
    BY <1>7, <2>1, FinishHears
  <2>3. Keeps(m, Finish(x), ReplaySlots)
    BY <1>7, <2>2, KeepsThen
  <2> QED
    BY <1>3, <1>9, <2>2, <2>3 DEF x
<1> QED
  BY <1>8, <1>9 DEF FinishOrWait

(* The sequence: ids grow along the steps, and a step comes after its parent. *)

Places(steps) == {0} \cup IdsOf(steps)

Tree(steps, ids) ==
  /\ IsSeq(steps) /\ ids \in Nat
  /\ \A i \in DOMAIN steps :
       /\ {"id", "parent"} \subseteq DOMAIN steps[i] /\ steps[i].id \in 1..ids
       /\ steps[i].parent = 0 \/ \E j \in DOMAIN steps : j < i /\ steps[i].parent = steps[j].id
  /\ \A i, j \in DOMAIN steps : i < j => steps[i].id < steps[j].id

\* A step is found by its id, and its parent is one of the steps before it, or the sheet.
LEMMA StepFound ==
  ASSUME NEW steps, NEW ids, Tree(steps, ids), NEW id \in IdsOf(steps)
  PROVE  /\ id \in Nat /\ id # 0
         /\ StepOf(steps, id).id = id
         /\ StepOf(steps, id).parent \in Places(steps) /\ StepOf(steps, id).parent < id
         /\ StepOf(steps, id).parent \in Nat
<1>1. PICK i \in DOMAIN steps : steps[i].id = id
  BY DEF IdsOf
<1>2. steps[i] \in ToSet(steps)
  BY DEF ToSet
<1> DEFINE e == StepOf(steps, id)
<1>3. e \in ToSet(steps) /\ e.id = id
  BY <1>1, <1>2 DEF StepOf
<1>4. PICK k \in DOMAIN steps : steps[k] = e
  BY <1>3 DEF ToSet
<1> HIDE DEF e
<1>5. id \in 1..ids
  BY <1>1 DEF Tree
<1>6. CASE e.parent = 0
  BY <1>3, <1>5, <1>6 DEF Places, Tree, e
<1>7. CASE e.parent # 0
  <2>1. PICK j \in DOMAIN steps : j < k /\ e.parent = steps[j].id
    BY <1>4, <1>7 DEF Tree
  <2>2. e.parent < id /\ e.parent \in Nat
    BY <1>3, <1>4, <2>1 DEF Tree
  <2>3. e.parent \in IdsOf(steps)
    BY <2>1 DEF IdsOf
  <2> QED
    BY <1>3, <1>5, <2>2, <2>3 DEF Places, Tree, e
<1> QED
  BY <1>6, <1>7

Lining(steps, line, i) == IF i = 0 THEN <<>> ELSE Append(line[StepOf(steps, i).parent], i)

LEMMA LinesExist ==
  ASSUME NEW steps, NEW ids, Tree(steps, ids)
  PROVE  \E line : line = [i \in Places(steps) |-> Lining(steps, line, i)]
<1> DEFINE D(n) == {i \in Places(steps) : i <= n}
           T == {n \in Nat : \E line : line = [i \in D(n) |-> Lining(steps, line, i)]}
<1>1. \A i \in Places(steps) : i \in 0..ids
  BY DEF Places, IdsOf, Tree
<1>2. ids \in Nat
  BY DEF Tree
<1>3. 0 \in T
  <2> DEFINE line == [i \in D(0) |-> <<>>]
  <2>1. \A i \in D(0) : i = 0
    BY <1>1
  <2>2. line = [i \in D(0) |-> Lining(steps, line, i)]
    BY <2>1 DEF Lining
  <2> QED
    BY <2>2
<1>4. ASSUME NEW n \in 0..(ids - 1), n \in T
      PROVE  n + 1 \in T
  <2>1. PICK line : line = [i \in D(n) |-> Lining(steps, line, i)]
    BY <1>4
  <2> DEFINE more == [i \in D(n + 1) |-> IF i = n + 1 THEN Lining(steps, line, i) ELSE line[i]]
  <2>2. n \in Nat /\ \A i \in D(n + 1) : i \in Nat /\ (i # n + 1 => i \in D(n))
    BY <1>1
  <2>3. \A i \in D(n + 1) : i # 0 => StepOf(steps, i).parent \in D(n)
    <3> TAKE i \in D(n + 1)
    <3> HAVE i # 0
    <3>1. i \in IdsOf(steps) /\ i <= n + 1
      BY DEF Places
    <3> QED
      BY <2>2, <3>1, StepFound
  <2>4. \A p \in D(n) : p \in D(n + 1) /\ more[p] = line[p]
    BY <1>1, <2>2
  <2>5. ASSUME NEW i \in D(n + 1)
        PROVE  more[i] = Lining(steps, more, i)
    <3>1. more[i] = Lining(steps, line, i)
      <4>1. CASE i = n + 1
        BY <4>1
      <4>2. CASE i # n + 1
        <5>1. i \in D(n) /\ more[i] = line[i]
          BY <2>2, <4>2
        <5>2. line[i] = Lining(steps, line, i)
          BY <2>1, <5>1
        <5> QED
          BY <5>1, <5>2
      <4> QED
        BY <4>1, <4>2
    <3> HIDE DEF more, D
    <3> QED
      BY <2>3, <2>4, <3>1 DEF Lining
  <2>6. more = [i \in D(n + 1) |-> Lining(steps, more, i)]
    BY <2>5
  <2> HIDE DEF more
  <2> QED
    BY <2>2, <2>6
<1>5. ids \in T
  <2> HIDE DEF T
  <2>1. \A n \in 0..ids : n \in T
    BY <1>2, <1>3, <1>4, Climb
  <2> QED
    BY <1>2, <2>1
<1>6. D(ids) = Places(steps)
  BY <1>1
<1> QED
  BY <1>5, <1>6

LEMMA LineIsSeq ==
  ASSUME NEW steps, NEW ids, Tree(steps, ids), NEW id \in Places(steps)
  PROVE  LineOf(steps, id) \in Seq(Places(steps))
<1> DEFINE line == CHOOSE line : line = [i \in Places(steps) |-> Lining(steps, line, i)]
           T == {n \in Nat : \A i \in Places(steps) : i <= n => line[i] \in Seq(Places(steps))}
<1>1. line = [i \in Places(steps) |-> Lining(steps, line, i)]
  BY LinesExist
<1>2. LineOf(steps, id) = line[id]
  BY DEF LineOf, Lining, Places
<1> HIDE DEF line
<1>3. ids \in Nat /\ \A i \in Places(steps) : i \in 0..ids
  BY DEF Places, IdsOf, Tree
<1>4. 0 \in T
  <2>1. \A i \in Places(steps) : i <= 0 => i = 0
    BY <1>3
  <2>2. line[0] \in Seq(Places(steps))
    BY <1>1, EmptySeq DEF Lining, Places
  <2> QED
    BY <2>1, <2>2
<1>5. ASSUME NEW n \in 0..(ids - 1), n \in T
      PROVE  n + 1 \in T
  <2>1. ASSUME NEW i \in Places(steps), i <= n + 1, i # 0
        PROVE  line[i] \in Seq(Places(steps))
    <3>1. i \in IdsOf(steps)
      BY <2>1 DEF Places
    <3> DEFINE p == StepOf(steps, i).parent
    <3>2. p \in Places(steps) /\ p < i /\ p \in Nat /\ i \in Nat
      BY <3>1, StepFound
    <3>3. line[i] = Append(line[p], i)
      BY <1>1, <2>1 DEF Lining
    <3> HIDE DEF p
    <3>4. p <= n
      BY <2>1, <3>2
    <3>5. line[p] \in Seq(Places(steps))
      BY <1>5, <3>2, <3>4
    <3> QED
      BY <3>2, <3>3, <3>5
  <2>2. line[0] \in Seq(Places(steps))
    BY <1>1, EmptySeq DEF Lining, Places
  <2>3. n + 1 \in Nat
    BY <1>3
  <2> QED
    BY <2>1, <2>2, <2>3
<1>6. ids \in T
  <2> HIDE DEF T
  <2>1. \A n \in 0..ids : n \in T
    BY <1>3, <1>4, <1>5, Climb
  <2> QED
    BY <1>3, <2>1
<1> QED
  BY <1>2, <1>3, <1>6

Resting(steps, active, rest, i) ==
  IF i = 0 THEN <<>>
  ELSE IF steps[i].id \in ToSet(active) THEN rest[i - 1] ELSE Append(rest[i - 1], steps[i].id)

LEMMA RestsExist ==
  ASSUME NEW steps, NEW active, NEW n \in Nat
  PROVE  \E rest : rest = [i \in 0..n |-> Resting(steps, active, rest, i)]
<1> DEFINE T == {j \in Nat : \E rest : rest = [i \in 0..j |-> Resting(steps, active, rest, i)]}
<1>1. 0 \in T
  <2> DEFINE rest == [i \in 0..0 |-> <<>>]
  <2>1. rest = [i \in 0..0 |-> Resting(steps, active, rest, i)]
    BY DEF Resting
  <2> QED
    BY <2>1
<1>2. ASSUME NEW j \in 0..(n - 1), j \in T
      PROVE  j + 1 \in T
  <2>1. PICK rest : rest = [i \in 0..j |-> Resting(steps, active, rest, i)]
    BY <1>2
  <2> DEFINE more == [i \in 0..(j + 1) |-> IF i = j + 1 THEN Resting(steps, active, rest, i) ELSE rest[i]]
  <2>2. \A i \in 0..j : i # 0 => i - 1 \in 0..j /\ more[i - 1] = rest[i - 1]
    OBVIOUS
  <2>3. j + 1 # 0 /\ j + 1 - 1 \in 0..j /\ more[j + 1 - 1] = rest[j + 1 - 1]
    OBVIOUS
  <2>4. more[j + 1] = Resting(steps, active, more, j + 1)
    <3>1. more[j + 1] = Resting(steps, active, rest, j + 1)
      OBVIOUS
    <3> HIDE DEF more
    <3> QED
      BY <2>3, <3>1 DEF Resting
  <2>5. ASSUME NEW i \in 0..j
        PROVE  more[i] = Resting(steps, active, more, i)
    <3>1. more[i] = rest[i]
      OBVIOUS
    <3>2. rest[i] = Resting(steps, active, rest, i)
      BY <2>1
    <3> HIDE DEF more
    <3> QED
      BY <2>2, <3>1, <3>2 DEF Resting
  <2>6. more = [i \in 0..(j + 1) |-> Resting(steps, active, more, i)]
    BY <2>4, <2>5
  <2> HIDE DEF more
  <2> QED
    BY <2>6
<1>3. n \in T
  <2> HIDE DEF T
  <2>1. \A i \in 0..n : i \in T
    BY <1>1, <1>2, Climb
  <2> QED
    BY <2>1
<1> QED
  BY <1>3

LEMMA RestIsSeq ==
  ASSUME NEW steps, NEW ids, Tree(steps, ids), NEW active, NEW rest,
         rest = [i \in 0..Len(steps) |-> Resting(steps, active, rest, i)]
  PROVE  rest[Len(steps)] \in Seq(Places(steps))
<1> DEFINE n == Len(steps)
           T == {i \in 0..n : rest[i] \in Seq(Places(steps))}
<1>1. n \in Nat /\ \A i \in 1..n : steps[i].id \in Places(steps)
  BY SeqDomain DEF Tree, Places, IdsOf
<1>2. 0 \in T
  BY <1>1 DEF Resting
<1>3. ASSUME NEW j \in 0..(n - 1), j \in T
      PROVE  j + 1 \in T
  <2>1. j + 1 \in 0..n /\ j + 1 \in 1..n /\ j + 1 # 0 /\ j + 1 - 1 = j
    BY <1>1
  <2>2. rest[j + 1] = rest[j] \/ rest[j + 1] = Append(rest[j], steps[j + 1].id)
    <3>1. rest[j + 1] = Resting(steps, active, rest, j + 1)
      BY <2>1
    <3>2. Resting(steps, active, rest, j + 1) \in {rest[j + 1 - 1], Append(rest[j + 1 - 1], steps[j + 1].id)}
      BY <2>1 DEF Resting
    <3> QED
      BY <2>1, <3>1, <3>2
  <2>3. steps[j + 1].id \in Places(steps) /\ rest[j] \in Seq(Places(steps))
    BY <1>1, <1>3, <2>1
  <2>4. rest[j + 1] \in Seq(Places(steps))
    <3> DEFINE q == rest[j]
               e == steps[j + 1].id
    <3>1. q \in Seq(Places(steps)) /\ e \in Places(steps) /\ (rest[j + 1] = q \/ rest[j + 1] = Append(q, e))
      BY <2>2, <2>3
    <3> HIDE DEF q, e
    <3>2. Append(q, e) \in Seq(Places(steps))
      BY <3>1, AppendProperties
    <3> QED
      BY <3>1, <3>2
  <2> QED
    BY <2>1, <2>4
<1>4. \A i \in 0..n : i \in T
  <2> HIDE DEF T, n
  <2> QED
    BY <1>1, <1>2, <1>3, Climb
<1> QED
  BY <1>1, <1>4

\* A replay goes from the sheet through nodes of the document.
LEMMA OrderIsSeq ==
  ASSUME NEW steps, NEW ids, Tree(steps, ids), NEW tip \in Places(steps)
  PROVE  LET order == ReplayOrder(steps, tip) IN
         /\ IsSeq(order) /\ 1 \in DOMAIN order
         /\ \A k \in DOMAIN order : order[k] \in Places(steps) /\ order[k] \in 0..ids
<1> DEFINE active == LineOf(steps, tip)
           rest == CHOOSE rest : rest = [i \in 0..Len(steps) |-> Resting(steps, active, rest, i)]
           q == <<0>> \o active \o rest[Len(steps)]
<1>1. active \in Seq(Places(steps))
  BY LineIsSeq
<1>2. rest[Len(steps)] \in Seq(Places(steps))
  <2> HIDE DEF active
  <2>1. Len(steps) \in Nat
    BY SeqDomain DEF Tree
  <2>2. \E r : r = [i \in 0..Len(steps) |-> Resting(steps, active, r, i)]
    BY <2>1, RestsExist
  <2>3. rest = [i \in 0..Len(steps) |-> Resting(steps, active, rest, i)]
    BY <2>2
  <2> HIDE DEF rest
  <2> QED
    BY <2>3, RestIsSeq
<1>3. ReplayOrder(steps, tip) = q
  BY DEF ReplayOrder, Resting
<1> HIDE DEF active, rest
<1>4. q \in Seq(Places(steps)) /\ Len(q) > 0
  <2>1. <<0>> \in Seq(Places(steps)) /\ Len(<<0>>) = 1
    BY DEF Places
  <2>2. <<0>> \o active \in Seq(Places(steps)) /\ Len(<<0>> \o active) = 1 + Len(active) /\ Len(active) \in Nat
    BY <1>1, <2>1, ConcatProperties, LenProperties
  <2>3. q \in Seq(Places(steps)) /\ Len(q) = 1 + Len(active) + Len(rest[Len(steps)]) /\ Len(rest[Len(steps)]) \in Nat
    BY <1>2, <2>2, ConcatProperties, LenProperties
  <2>4. \A a, b \in Nat : 1 + a + b > 0
    OBVIOUS
  <2> HIDE DEF q
  <2>5. 1 + Len(active) + Len(rest[Len(steps)]) > 0
    BY <2>2, <2>3, <2>4
  <2> QED
    BY <2>3, <2>5
<1> HIDE DEF q
<1>5. DOMAIN q = 1..Len(q) /\ Len(q) \in Nat /\ q \in [1..Len(q) -> Places(steps)]
  BY <1>4, LenProperties
<1>6. q \in [1..Len(q) -> {q[i] : i \in DOMAIN q}]
  BY <1>5
<1>7. IsSeq(q)
  BY <1>5, <1>6, SeqDef DEF IsSeq
<1>8. \A id \in Places(steps) : id \in 0..ids
  BY DEF Places, IdsOf, Tree
<1> QED
  BY <1>3, <1>4, <1>5, <1>7, <1>8

----------------------------------------------------------------------------
(* Starting, restarting and giving up.                                     *)

\* What the rest of a session's state is to its runs and its surfaces.
Sound(m) ==
  /\ m.holders \in Nat /\ m.restarts \in Nat
  /\ Tree(m.steps, m.ids) /\ m.tip \in Places(m.steps)
  /\ m.run.on => m.ready /\ m.holders > 0
  /\ m.scheduled => m.ready
  /\ m.lingering => m.holders = 0

\* All of it.
Settling(m) == Shape(m) /\ Sound(m) /\ Heard(m) /\ Current(m)

LEMMA StillSound ==
  ASSUME NEW x, NEW y, NEW T, Keeps(x, y, T), Shape(x), Sound(x),
         T \cap {"holders", "restarts", "steps", "ids", "tip", "ready", "lingering"} = {},
         y.run.on => x.run.on, y.scheduled => x.ready
  PROVE  Sound(y)
<1>1. /\ y.holders = x.holders /\ y.restarts = x.restarts /\ y.steps = x.steps /\ y.ids = x.ids
      /\ y.tip = x.tip /\ y.ready = x.ready /\ y.lingering = x.lingering
  BY Kept DEF Fields
<1> QED
  BY <1>1 DEF Sound

LEMMA RunOfPlaces ==
  ASSUME NEW m, Shape(m), Sound(m)
  PROVE  RunShape([on |-> TRUE, load |-> m.load, steps |-> m.steps, order |-> ReplayOrder(m.steps, m.tip),
                   at |-> 1, waits |-> FALSE, made |-> <<>>])
<1> DEFINE order == ReplayOrder(m.steps, m.tip)
           run == [on |-> TRUE, load |-> m.load, steps |-> m.steps, order |-> order,
                   at |-> 1, waits |-> FALSE, made |-> <<>>]
<1>1. IsSeq(order) /\ 1 \in DOMAIN order
  BY OrderIsSeq DEF Sound
<1> HIDE DEF order
<1>2. DOMAIN run = {"on", "load", "steps", "order", "at", "waits", "made"} /\ run.on /\ run.order = order /\ run.at = 1
  OBVIOUS
<1> HIDE DEF run
<1>3. RunShape(run)
  BY <1>1, <1>2 DEF RunShape
<1> QED
  BY <1>3 DEF run, order

\* A replay begins for whoever awaits one, unless the session gave up or nobody is there.
LEMMA ReplayHears ==
  ASSUME NEW m, Shape(m), Sound(m), m.ready, Await(m), Current(m)
  PROVE  /\ Keeps(m, Replay(m), ReplaySlots \cup {"owed", "error"})
         /\ Heard(Replay(m)) /\ Current(Replay(m))
         /\ Replay(m).run.on => m.ready /\ m.holders > 0
<1>1. CASE m.holders = 0 \/ m.halted
  <2>1. Replay(m) = m
    BY <1>1 DEF Replay
  <2>2. Heard(m)
    <3>1. m.snap.live => m.holders > 0
      BY DEF Current
    <3>2. Waits(m) => m.halted
      BY <1>1, <3>1 DEF Await, Sound
    <3> QED
      BY <3>2 DEF Heard, Going
  <2>3. Keeps(m, m, ReplaySlots \cup {"owed", "error"})
    BY KeepsSame, KeepsMore
  <2> QED
    BY <2>1, <2>2, <2>3 DEF Sound
<1>2. CASE ~(m.holders = 0 \/ m.halted)
  <2> DEFINE run == [on |-> TRUE, load |-> m.load, steps |-> m.steps, order |-> ReplayOrder(m.steps, m.tip),
                     at |-> 1, waits |-> FALSE, made |-> <<>>]
             older == {[a EXCEPT !.older = TRUE] : a \in m.adoptions}
             ahead == [m.ahead EXCEPT !.older = m.ahead # NoAhead]
             a == [m EXCEPT !.owed = FALSE, !.run = run, !.error = NoError, !.ahead = ahead, !.adoptions = older]
             r == Render(a)
  <2>1. Replay(m) = Advance(r, 1)
    BY <1>2 DEF Replay
  <2>2. RunShape(run)
    BY RunOfPlaces
  <2>3. run.on
    OBVIOUS
  <2> HIDE DEF run, older, ahead
  <2>4. Only(m, a, {"owed", "run", "error", "ahead", "adoptions"})
    BY DEF Only
  <2>5. a.run = run /\ a.commit = m.commit /\ a.hover = m.hover /\ a.snap = m.snap /\ Fields \subseteq DOMAIN a
    BY DEF Shape, Fields
  <2>6. r = Render(a)
    OBVIOUS
  <2> HIDE DEF a, r
  <2>7. Shape(a)
    BY <2>2, <2>5 DEF Shape
  <2>8. Keeps(m, a, {"owed", "run", "error", "ahead", "adoptions"})
    BY <2>4, <2>5, <2>7 DEF Keeps
  <2>9. Heard(a)
    BY <2>3, <2>5 DEF Heard, Await, Waits, Going
  <2>10. Keeps(a, r, RenderSlots) /\ Heard(r) /\ Current(r)
    BY <2>6, <2>7, <2>9, RenderHears
  <2>11. Shape(r)
    BY <2>7, <2>10 DEF Keeps
  <2>12. r.run = run
    BY <2>5, <2>7, <2>10, Kept DEF Fields, RenderSlots, OfferSlots, PendingSlots
  <2>13. Len(r.run.order) \in Nat
    BY <2>3, <2>11, <2>12, SeqDomain DEF Shape, RunShape
  <2>14. 1 \in Nat \ {0} /\ 1 <= Len(r.run.order) + 1
    BY <2>13
  <2>15. Keeps(r, Advance(r, 1), ReplaySlots) /\ Heard(Advance(r, 1)) /\ Current(Advance(r, 1))
    BY <2>3, <2>10, <2>11, <2>12, <2>14, AdvanceHears
  <2>16. Keeps(m, r, ReplaySlots \cup {"owed", "error"})
    BY <2>8, <2>10, KeepsThen DEF ReplaySlots
  <2>17. Keeps(m, Advance(r, 1), ReplaySlots \cup {"owed", "error"})
    BY <2>15, <2>16, KeepsThen
  <2> QED
    BY <1>2, <2>1, <2>15, <2>17 DEF Sound
<1> QED
  BY <1>1, <1>2

StartSlots == {"up", "inbox", "starting", "scheduled"}

\* A start is of a replay, or of the engine first, unless the session gave up or nobody is there.
LEMMA StartHears ==
  ASSUME NEW m, m.holders \in Nat
  PROVE  /\ Keeps(m, Start(m), StartSlots)
         /\ Shape(m) /\ Await(m) /\ (m.snap.live => m.holders # 0) => Heard(Start(m))
         /\ Shape(m) => (Start(m).scheduled => m.scheduled \/ m.ready)
<1> DEFINE b == [m EXCEPT !.scheduled = TRUE]
           a == Ask(m, "version", NoState, "none", <<>>)
           c == [a EXCEPT !.starting = TRUE]
           Good(y) == /\ Keeps(m, y, StartSlots)
                      /\ Shape(m) /\ Await(m) /\ (m.snap.live => m.holders # 0) => Heard(y)
                      /\ Shape(m) => (y.scheduled => m.scheduled \/ m.ready)
<1>1. CASE m.holders = 0 \/ m.halted \/ (~m.ready /\ m.starting)
  <2>1. Start(m) = m
    BY <1>1 DEF Start
  <2>2. Good(m)
    BY <1>1, KeepsSame, KeepsMore DEF Heard, Await, Going
  <2> QED
    BY <2>1, <2>2
<1>2. CASE m.ready /\ ~(m.holders = 0 \/ m.halted)
  <2>0. Start(m) = b
    BY <1>2 DEF Start, ScheduleReplay
  <2>1. Only(m, b, {"scheduled"})
    BY DEF Only
  <2>2. Keeps(m, b, {"scheduled"})
    BY <2>1, OnlyKeeps
  <2>3. Shape(m) => b.scheduled
    BY DEF Shape, Fields
  <2> HIDE DEF b
  <2>4. Keeps(m, b, StartSlots)
    BY <2>2, KeepsMore DEF StartSlots
  <2>5. Shape(m) /\ Await(m) => Heard(b)
    BY <2>2, <2>3, StillAwait DEF Heard, Going
  <2>6. Good(b)
    BY <1>2, <2>4, <2>5
  <2> QED
    BY <2>0, <2>6
<1>3. CASE ~m.ready /\ ~(m.holders = 0 \/ m.halted) /\ ~m.starting
  <2>1. Start(m) = c
    BY <1>3 DEF Start
  <2>2. Keeps(m, a, {"up", "inbox"})
    BY AskKeeps
  <2> HIDE DEF a
  <2>3. Only(a, c, {"starting"})
    BY DEF Only
  <2>4. Shape(a) => c.starting
    BY DEF Shape, Fields
  <2> HIDE DEF c
  <2>5. Keeps(a, c, {"starting"})
    BY <2>3, OnlyKeeps
  <2>6. Keeps(m, c, {"up", "inbox", "starting"})
    BY <2>2, <2>5, KeepsThen
  <2>7. Keeps(m, c, StartSlots)
    BY <2>6, KeepsMore DEF StartSlots
  <2>8. ASSUME Shape(m)
        PROVE  (Await(m) => Heard(c)) /\ (c.scheduled => m.scheduled)
    <3>1. c.starting
      BY <2>2, <2>4, <2>8 DEF Keeps
    <3>2. c.scheduled = m.scheduled
      BY <2>6, <2>8, Kept DEF Fields
    <3> QED
      BY <2>6, <2>8, <3>1, <3>2, StillAwait DEF Heard, Going
  <2>9. Good(c)
    BY <2>7, <2>8
  <2> QED
    BY <2>1, <2>9
<1> QED
  BY <1>1, <1>2, <1>3

ForgetSlots == OfferSlots \cup {"ahead", "run", "progress", "starting"}

LEMMA ForgetKeeps ==
  ASSUME NEW m
  PROVE  /\ Keeps(m, ForgetStates(m), ForgetSlots)
         /\ Shape(m) => ForgetStates(m).run = NoRun
<1> DEFINE a == DropPending(m)
           b == DropOffer(a)
           c == Unwanted(b, "version")
           y == ForgetStates(m)
<1>1. Keeps(m, a, PendingSlots)
  BY DropPendingKeeps
<1> HIDE DEF a
<1>2. Keeps(a, b, {"table", "inbox", "offer"})
  BY DropOfferKeeps
<1> HIDE DEF b
<1>3. Keeps(b, c, {"inbox"})
  BY UnwantedKeeps
<1>4. y = [c EXCEPT !.ahead = NoAhead, !.run = NoRun, !.progress = NoProgress, !.starting = FALSE]
  BY DEF ForgetStates, a, b
<1> HIDE DEF c, y
<1>5. Only(c, y, {"ahead", "run", "progress", "starting"})
  BY <1>4 DEF Only
<1>6. Keeps(m, b, OfferSlots)
  BY <1>1, <1>2, KeepsThen DEF OfferSlots, PendingSlots
<1>7. Keeps(m, c, OfferSlots)
  BY <1>3, <1>6, KeepsThen DEF OfferSlots, PendingSlots
<1>8. Shape(c) => y.run = NoRun
  BY <1>4 DEF Shape, Fields
<1>9. Keeps(c, y, {"ahead", "run", "progress", "starting"})
  BY <1>5, <1>8, RunEnds DEF Keeps
<1>10. Keeps(m, y, ForgetSlots)
  BY <1>7, <1>9, KeepsThen DEF ForgetSlots
<1> QED
  BY <1>7, <1>8, <1>10 DEF Keeps, y

LEMMA ClearReplayerKeeps ==
  ASSUME NEW m
  PROVE  Keeps(m, ClearReplayer(m), {"table", "inbox", "cache"})
<1> DEFINE held == {m.cache[p] : p \in DOMAIN m.cache}
           a == ReleaseAll(m, held)
           b == Unwanted(a, "replay")
           y == ClearReplayer(m)
<1>1. Keeps(m, a, {"table", "inbox"})
  BY ReleaseAllKeeps
<1> HIDE DEF a
<1>2. Keeps(a, b, {"inbox"})
  BY UnwantedKeeps
<1>3. y = [b EXCEPT !.cache = <<>>]
  BY DEF ClearReplayer, a
<1> HIDE DEF b, y
<1>4. Only(b, y, {"cache"})
  BY <1>3 DEF Only
<1>5. Keeps(b, y, {"cache"})
  BY <1>4, OnlyKeeps
<1>6. Keeps(m, b, {"table", "inbox"})
  BY <1>1, <1>2, KeepsThen
<1> QED
  BY <1>5, <1>6, KeepsThen DEF y

\* A failure is news, whatever failed before.
LEMMA FailHears ==
  ASSUME NEW m, Shape(m), m.snap.error = m.error
  PROVE  Keeps(m, Fail(m), RenderSlots \cup {"error"}) /\ Heard(Fail(m)) /\ Current(Fail(m))
<1> DEFINE a == [m EXCEPT !.error = Failure(m)]
<1>1. Fail(m) = Render(a)
  BY DEF Fail
<1>2. Only(m, a, {"error"})
  BY DEF Only
<1>3. a.error = Failure(m)
  BY DEF Shape, Fields
<1> HIDE DEF a
<1>4. Keeps(m, a, {"error"})
  BY <1>2, OnlyKeeps
<1>5. Shape(a) /\ a.snap = m.snap
  BY <1>4, Kept DEF Keeps, Fields
<1>6. ~Current(a)
  <2>1. Failure(m) # m.error
    BY DEF Failure
  <2> QED
    BY <1>3, <1>5, <2>1 DEF Current
<1>7. Keeps(a, Render(a), RenderSlots) /\ Heard(Render(a)) /\ Current(Render(a))
  BY <1>5, <1>6, RenderHears
<1> QED
  BY <1>1, <1>4, <1>7, KeepsThen

RestartSlots == StartSlots \cup {"restarts", "halted", "error"}

\* A restart is counted, and there is none past the last.
Counted(x, y) ==
  y.restarts = x.restarts \/ (y.restarts = x.restarts + 1 /\ (y.halted \/ y.restarts <= MAX_RESTARTS))

LEMMA RestartHears ==
  ASSUME NEW m, NEW why, Shape(m), m.holders \in Nat, Await(m), m.snap.live => m.holders # 0
  PROVE  /\ Keeps(m, RestartOrHalt(m, why), RestartSlots)
         /\ Heard(RestartOrHalt(m, why)) /\ Counted(m, RestartOrHalt(m, why))
         /\ RestartOrHalt(m, why).scheduled => m.scheduled \/ m.ready
<1> DEFINE a == [m EXCEPT !.restarts = @ + 1]
           h == [m EXCEPT !.restarts = @ + 1, !.halted = TRUE, !.error = why]
<1>1. CASE m.restarts + 1 <= MAX_RESTARTS
  <2>1. RestartOrHalt(m, why) = Start(a)
    BY <1>1 DEF RestartOrHalt
  <2>2. Only(m, a, {"restarts"})
    BY DEF Only
  <2>3. a.restarts = m.restarts + 1
    BY DEF Shape, Fields
  <2> HIDE DEF a
  <2>4. Keeps(m, a, {"restarts"})
    BY <2>2, OnlyKeeps
  <2>5. Shape(a) /\ a.holders = m.holders /\ a.snap = m.snap /\ a.ready = m.ready /\ a.scheduled = m.scheduled
    BY <2>4, Kept DEF Keeps, Fields
  <2>6. Await(a)
    BY <2>4, StillAwait
  <2>7. Keeps(a, Start(a), StartSlots) /\ Heard(Start(a)) /\ (Start(a).scheduled => a.scheduled \/ a.ready)
    BY <2>5, <2>6, StartHears
  <2>8. Start(a).restarts = a.restarts
    BY <2>5, <2>7, Kept DEF Fields, StartSlots
  <2>9. Keeps(m, Start(a), RestartSlots)
    BY <2>4, <2>7, KeepsThen DEF RestartSlots
  <2> QED
    BY <1>1, <2>1, <2>3, <2>5, <2>7, <2>8, <2>9 DEF Counted
<1>2. CASE ~(m.restarts + 1 <= MAX_RESTARTS)
  <2>1. RestartOrHalt(m, why) = h
    BY <1>2 DEF RestartOrHalt
  <2>2. Only(m, h, {"restarts", "halted", "error"})
    BY DEF Only
  <2>3. h.restarts = m.restarts + 1 /\ h.halted
    BY DEF Shape, Fields
  <2> HIDE DEF h
  <2>4. Keeps(m, h, {"restarts", "halted", "error"})
    BY <2>2, OnlyKeeps
  <2>5. h.scheduled = m.scheduled
    BY <2>4, Kept DEF Fields
  <2>6. Heard(h)
    BY <2>3, <2>4, StillAwait DEF Heard, Going
  <2>7. Keeps(m, h, RestartSlots)
    BY <2>4, KeepsMore DEF RestartSlots
  <2> QED
    BY <2>1, <2>3, <2>5, <2>6, <2>7 DEF Counted
<1> QED
  BY <1>1, <1>2

RelandSlots == ForgetSlots \cup RestartSlots \cup {"cache", "relanded", "snap"}

LEMMA RelandHears ==
  ASSUME NEW m, Shape(m), m.holders \in Nat, Await(m), m.snap.live => m.holders # 0
  PROVE  /\ Keeps(m, Reland(m), RelandSlots) /\ Counted(m, Reland(m))
         /\ Reland(m).scheduled => m.scheduled \/ m.ready
         /\ m.ready /\ m.holders # 0 => Heard(Reland(m)) /\ Current(Reland(m)) /\ ~Reland(m).run.on
         /\ ~m.ready \/ m.holders = 0 => Reland(m) = m
<1>1. CASE ~m.ready \/ m.holders = 0
  <2>1. Reland(m) = m
    BY <1>1 DEF Reland
  <2>2. Keeps(m, m, RelandSlots)
    BY KeepsSame, KeepsMore
  <2> QED
    BY <1>1, <2>1, <2>2 DEF Counted
<1>2. CASE m.ready /\ m.holders # 0
  <2> DEFINE f == ForgetStates(m)
             c == ClearReplayer(f)
             a == [c EXCEPT !.relanded = TRUE]
             b == RestartOrHalt(a, Failure(m))
             y == Render(b)
  <2>1. Reland(m) = y
    BY <1>2 DEF Reland
  <2>2. Keeps(m, f, ForgetSlots) /\ f.run = NoRun
    BY ForgetKeeps
  <2> HIDE DEF f
  <2>3. Keeps(f, c, {"table", "inbox", "cache"})
    BY ClearReplayerKeeps
  <2> HIDE DEF c
  <2>4. Only(c, a, {"relanded"})
    BY DEF Only
  <2> HIDE DEF a
  <2>5. Keeps(c, a, {"relanded"})
    BY <2>4, OnlyKeeps
  <2>6. Keeps(f, a, {"table", "inbox", "cache", "relanded"})
    BY <2>3, <2>5, KeepsThen
  <2>7. Keeps(m, a, ForgetSlots \cup {"cache", "relanded"})
    BY <2>2, <2>6, KeepsThen DEF ForgetSlots, OfferSlots, PendingSlots
  <2>8. Shape(f) /\ Shape(a)
    BY <2>2, <2>7 DEF Keeps
  <2>9. /\ a.holders = m.holders /\ a.snap = m.snap /\ a.restarts = m.restarts
        /\ a.ready = m.ready /\ a.scheduled = m.scheduled
    BY <2>7, Kept DEF Fields, ForgetSlots, OfferSlots, PendingSlots
  <2>10. a.run = f.run
    BY <2>6, <2>8, Kept DEF Fields
  <2>11. Await(a)
    BY <2>7, StillAwait DEF ForgetSlots, OfferSlots, PendingSlots
  <2>12. Keeps(a, b, RestartSlots) /\ Heard(b) /\ Counted(a, b) /\ (b.scheduled => a.scheduled \/ a.ready)
    BY <2>8, <2>9, <2>11, RestartHears
  <2> HIDE DEF b
  <2>13. Shape(b) /\ b.run = a.run
    BY <2>8, <2>12, Kept DEF Keeps, Fields, RestartSlots, StartSlots
  <2>14. Keeps(b, y, RenderSlots) /\ Heard(y) /\ Current(y)
    BY <2>12, <2>13, RenderHears
  <2> HIDE DEF y
  <2>15. y.run = b.run /\ y.restarts = b.restarts /\ y.halted = b.halted /\ y.scheduled = b.scheduled
    BY <2>13, <2>14, Kept DEF Fields, RenderSlots, OfferSlots, PendingSlots
  <2>16. Keeps(m, b, RelandSlots)
    BY <2>7, <2>12, KeepsThen DEF RelandSlots
  <2>17. Keeps(m, y, RelandSlots)
    BY <2>14, <2>16, KeepsThen DEF RelandSlots, ForgetSlots, RenderSlots
  <2>18. ~y.run.on
    BY <2>2, <2>10, <2>13, <2>15 DEF NoRun
  <2>19. Counted(m, y)
    BY <2>9, <2>12, <2>15 DEF Counted
  <2> QED
    BY <1>2, <2>1, <2>9, <2>12, <2>14, <2>15, <2>17, <2>18, <2>19
<1> QED
  BY <1>1, <1>2

----------------------------------------------------------------------------
(* The engine going away.                                                  *)

LossSlots == ForgetSlots \cup {"up", "gen", "stray", "relanded", "cache", "adoptions"}

LEMMA DropWorkerKeeps ==
  ASSUME NEW m
  PROVE  /\ Keeps(m, DropWorker(m), LossSlots)
         /\ Shape(m) => (DropWorker(m).run.on => m.run.on) /\ (m.up => DropWorker(m).run = NoRun)
<1>1. CASE ~m.up
  BY <1>1, KeepsSame, KeepsMore DEF DropWorker
<1>2. CASE m.up
  <2> DEFINE g == [m EXCEPT !.up = FALSE, !.gen = @ + 1, !.inbox = <<>>, !.table = {}, !.stray = {}, !.relanded = FALSE]
             f == ForgetStates(g)
             c == ClearReplayer(f)
             y == [c EXCEPT !.adoptions = {}]
  <2>1. DropWorker(m) = y
    BY <1>2 DEF DropWorker
  <2>2. Only(m, g, {"up", "gen", "inbox", "table", "stray", "relanded"})
    BY DEF Only
  <2> HIDE DEF g
  <2>3. Keeps(m, g, {"up", "gen", "inbox", "table", "stray", "relanded"})
    BY <2>2, OnlyKeeps
  <2>4. Keeps(g, f, ForgetSlots) /\ (Shape(g) => f.run = NoRun)
    BY ForgetKeeps
  <2> HIDE DEF f
  <2>5. Keeps(f, c, {"table", "inbox", "cache"})
    BY ClearReplayerKeeps
  <2> HIDE DEF c
  <2>6. Only(c, y, {"adoptions"})
    BY DEF Only
  <2> HIDE DEF y
  <2>7. Keeps(c, y, {"adoptions"})
    BY <2>6, OnlyKeeps
  <2>8. Keeps(f, y, {"table", "inbox", "cache", "adoptions"})
    BY <2>5, <2>7, KeepsThen
  <2>9. Keeps(m, f, LossSlots)
    BY <2>3, <2>4, KeepsThen DEF LossSlots, ForgetSlots, OfferSlots, PendingSlots
  <2>10. Keeps(m, y, LossSlots)
    BY <2>8, <2>9, KeepsThen DEF LossSlots, ForgetSlots, OfferSlots, PendingSlots
  <2>11. ASSUME Shape(m)
         PROVE  y.run = NoRun
    <3>1. Shape(g) /\ Shape(f)
      BY <2>3, <2>4, <2>11 DEF Keeps
    <3>2. y.run = f.run
      BY <2>8, <3>1, Kept DEF Fields
    <3> QED
      BY <2>4, <3>1, <3>2
  <2> QED
    BY <1>2, <2>1, <2>10, <2>11 DEF NoRun
<1> QED
  BY <1>1, <1>2

LEMMA CommitLostKeeps ==
  ASSUME NEW m
  PROVE  Keeps(m, CommitLost(m), {"commit", "taken", "queued", "up"})
<1>1. CASE CommitLost(m) = m
  BY <1>1, KeepsSame, KeepsMore
<1>2. CASE CommitLost(m) # m
  <2> DEFINE u == m.up \/ (m.commit.pc # "fold" /\ (m.holders > 0 \/ m.lingering))
             y == [m EXCEPT !.commit = NoCommit, !.taken = NoState, !.queued = NoRequest, !.up = u]
  <2>1. CommitLost(m) = y
    BY <1>2 DEF CommitLost
  <2> HIDE DEF u
  <2>2. Only(m, y, {"commit", "taken", "queued", "up"})
    BY DEF Only
  <2>3. ASSUME Shape(m)
        PROVE  y.commit = NoCommit /\ y.hover = m.hover /\ y.run = m.run /\ Fields \subseteq DOMAIN y
    BY <2>3 DEF Shape, Fields
  <2> HIDE DEF y
  <2>4. "pc" \in DOMAIN NoCommit /\ NoCommit.pc = "none"
    BY DEF NoCommit
  <2> QED
    BY <2>1, <2>2, <2>3, <2>4 DEF Keeps, Shape
<1> QED
  BY <1>1, <1>2

StopSlots == LossSlots \cup {"lingering", "owed", "snap", "taken"}

\* A session nobody holds says so to whoever waits.
LEMMA StopHears ==
  ASSUME NEW m, Shape(m), m.holders = 0, Waits(m) => m.snap.live
  PROVE  /\ Keeps(m, Stop(m), StopSlots) /\ Heard(Stop(m)) /\ Current(Stop(m))
         /\ ~Stop(m).run.on /\ ~Stop(m).lingering
<1> DEFINE a == [m EXCEPT !.lingering = FALSE, !.owed = FALSE]
           f == ForgetStates(a)
           c == ClearReplayer(f)
           e == ReleaseAll(c, {o.state : o \in c.adoptions})
           g == [e EXCEPT !.adoptions = {}]
           d == DropWorker(g)
           r == Render(d)
           y == CommitLost(r)
<1>1. Stop(m) = y
  BY DEF Stop
<1>2. Only(m, a, {"lingering", "owed"})
  BY DEF Only
<1>3. a.lingering = FALSE
  BY DEF Shape, Fields
<1> HIDE DEF a
<1>4. Keeps(m, a, {"lingering", "owed"})
  BY <1>2, OnlyKeeps
<1>5. Keeps(a, f, ForgetSlots) /\ (Shape(a) => f.run = NoRun)
  BY ForgetKeeps
<1> HIDE DEF f
<1>6. Keeps(f, c, {"table", "inbox", "cache"})
  BY ClearReplayerKeeps
<1> HIDE DEF c
<1>7. Keeps(c, e, {"table", "inbox"})
  BY ReleaseAllKeeps
<1> HIDE DEF e
<1>8. Only(e, g, {"adoptions"})
  BY DEF Only
<1> HIDE DEF g
<1>9. Keeps(e, g, {"adoptions"})
  BY <1>8, OnlyKeeps
<1>10. Keeps(c, g, {"table", "inbox", "adoptions"})
  BY <1>7, <1>9, KeepsThen
<1>11. Keeps(f, g, {"table", "inbox", "cache", "adoptions"})
  BY <1>6, <1>10, KeepsThen
<1>12. Keeps(g, d, LossSlots) /\ (Shape(g) => (d.run.on => g.run.on))
  BY DropWorkerKeeps
<1> HIDE DEF d
<1>13. Keeps(m, f, LossSlots \cup {"lingering", "owed"})
  BY <1>4, <1>5, KeepsThen DEF LossSlots
<1>14. Keeps(f, d, LossSlots)
  BY <1>11, <1>12, KeepsThen DEF LossSlots, ForgetSlots, OfferSlots, PendingSlots
<1>15. Keeps(m, d, LossSlots \cup {"lingering", "owed"})
  BY <1>13, <1>14, KeepsThen
<1>16. Shape(a) /\ Shape(f) /\ Shape(g) /\ Shape(d)
  BY <1>4, <1>5, <1>11, <1>15 DEF Keeps
<1>17. ~d.run.on
  <2>1. g.run = f.run
    BY <1>11, <1>16, Kept DEF Fields
  <2> QED
    BY <1>5, <1>12, <1>16, <2>1 DEF NoRun
<1>18. ~d.lingering
  <2>1. f.lingering = a.lingering
    BY <1>5, <1>16, Kept DEF Fields, ForgetSlots, OfferSlots, PendingSlots
  <2>2. d.lingering = f.lingering
    BY <1>14, <1>16, Kept DEF Fields, LossSlots, ForgetSlots, OfferSlots, PendingSlots
  <2> QED
    BY <1>3, <2>1, <2>2
<1>19. Current(d) => Heard(d)
  <2>1. d.holders = 0 /\ d.snap = m.snap
    BY <1>15, Kept DEF Fields, LossSlots, ForgetSlots, OfferSlots, PendingSlots
  <2>2. Waits(d) => d.snap.live
    BY <1>15, <2>1 DEF Waits, Keeps
  <2>3. Current(d) => ~d.snap.live
    <3>1. Current(d) => (d.snap.live => d.holders > 0)
      BY DEF Current
    <3> QED
      BY <2>1, <3>1
  <2> QED
    BY <2>2, <2>3 DEF Heard, Await
<1>20. Keeps(d, r, RenderSlots) /\ Heard(r) /\ Current(r)
  BY <1>16, <1>19, RenderHears
<1> HIDE DEF r
<1>21. Keeps(r, y, {"commit", "taken", "queued", "up"})
  BY CommitLostKeeps
<1> HIDE DEF y
<1>22. Shape(r)
  BY <1>16, <1>20 DEF Keeps
<1>23. Heard(y)
  BY <1>20, <1>21, <1>22, StillHeard
<1>24. Current(y)
  BY <1>20, <1>21, <1>22, StillCurrent
<1>25. y.run = r.run /\ y.lingering = r.lingering
  BY <1>21, <1>22, Kept DEF Fields
<1>26. r.run = d.run /\ r.lingering = d.lingering
  BY <1>16, <1>20, Kept DEF Fields, RenderSlots, OfferSlots, PendingSlots
<1>27. Keeps(m, r, StopSlots)
  BY <1>15, <1>20, KeepsThen DEF StopSlots, LossSlots, ForgetSlots, RenderSlots
<1>28. Keeps(m, y, StopSlots)
  BY <1>21, <1>27, KeepsThen DEF StopSlots, LossSlots, ForgetSlots, OfferSlots, PendingSlots
<1> QED
  BY <1>1, <1>17, <1>18, <1>23, <1>24, <1>25, <1>26, <1>28

LEMMA LingerHears ==
  ASSUME NEW m, Shape(m), m.holders = 0, Waits(m) => m.snap.live
  PROVE  /\ Keeps(m, StartLingering(m), RenderSlots \cup {"owed", "lingering", "run"})
         /\ Heard(StartLingering(m)) /\ Current(StartLingering(m)) /\ ~StartLingering(m).run.on
<1> DEFINE owed == m.run.on \/ m.scheduled \/ m.starting \/ ~(m.progress.done /\ m.progress.load = m.load)
           a == [m EXCEPT !.owed = @ \/ owed]
           p == DropPending(a)
           o == DropOffer(p)
           b == [o EXCEPT !.lingering = TRUE, !.run = NoRun]
           y == Render(b)
<1>1. StartLingering(m) = y
  BY DEF StartLingering
<1> HIDE DEF owed
<1>2. Only(m, a, {"owed"})
  BY DEF Only
<1> HIDE DEF a
<1>3. Keeps(m, a, {"owed"})
  BY <1>2, OnlyKeeps
<1>4. Keeps(a, p, PendingSlots)
  BY DropPendingKeeps
<1> HIDE DEF p
<1>5. Keeps(p, o, {"table", "inbox", "offer"})
  BY DropOfferKeeps
<1> HIDE DEF o
<1>6. Only(o, b, {"lingering", "run"}) /\ (Shape(o) => b.run = NoRun)
  BY DEF Only, Shape, Fields
<1> HIDE DEF b
<1>7. Keeps(m, p, OfferSlots \cup {"owed"})
  BY <1>3, <1>4, KeepsThen DEF OfferSlots
<1>8. Keeps(m, o, OfferSlots \cup {"owed"})
  BY <1>5, <1>7, KeepsThen DEF OfferSlots, PendingSlots
<1>9. Shape(o)
  BY <1>8 DEF Keeps
<1>10. Keeps(o, b, {"lingering", "run"})
  BY <1>6, <1>9, RunEnds
<1>11. Keeps(m, b, OfferSlots \cup {"owed", "lingering", "run"})
  BY <1>8, <1>10, KeepsThen
<1>12. Shape(b)
  BY <1>11 DEF Keeps
<1>13. Current(b) => Heard(b)
  <2>1. b.holders = 0 /\ b.snap = m.snap
    BY <1>11, Kept DEF Fields, OfferSlots, PendingSlots
  <2>2. Waits(b) => b.snap.live
    BY <1>11, <2>1 DEF Waits, Keeps
  <2>3. Current(b) => ~b.snap.live
    <3>1. Current(b) => (b.snap.live => b.holders > 0)
      BY DEF Current
    <3> QED
      BY <2>1, <3>1
  <2> QED
    BY <2>2, <2>3 DEF Heard, Await
<1>14. y = Render(b)
  OBVIOUS
<1>15. Keeps(b, y, RenderSlots) /\ Heard(y) /\ Current(y)
  BY <1>12, <1>13, <1>14, RenderHears
<1> HIDE DEF y
<1>16. Keeps(m, y, RenderSlots \cup {"owed", "lingering", "run"})
  BY <1>11, <1>15, KeepsThen DEF RenderSlots
<1>17. ~y.run.on
  <2>1. y.run = b.run
    BY <1>12, <1>15, Kept DEF Fields, RenderSlots, OfferSlots, PendingSlots
  <2> QED
    BY <1>6, <1>9, <2>1 DEF NoRun
<1> QED
  BY <1>1, <1>15, <1>16, <1>17

\* What an edit forgives, and what it leaves stale.
LEMMA ForgivenKeeps ==
  ASSUME NEW m
  PROVE  /\ Keeps(m, Stale(m), {"owed", "progress"})
         /\ Keeps(m, Forgiven(m), {"halted", "restarts"})
         /\ Shape(m) => /\ Forgiven(m).restarts = m.restarts \/ Forgiven(m).restarts = 0
                        /\ ~m.halted => Forgiven(m).halted = m.halted
<1>1. Only(m, Stale(m), {"owed", "progress"})
  BY DEF Stale, Only
<1>2. Only(m, Forgiven(m), {"halted", "restarts"})
  BY DEF Forgiven, Only
<1>3. ASSUME Shape(m)
      PROVE  /\ Forgiven(m).restarts = m.restarts \/ Forgiven(m).restarts = 0
             /\ ~m.halted => Forgiven(m).halted = m.halted
  BY <1>3 DEF Forgiven, Shape, Fields
<1> QED
  BY <1>1, <1>2, <1>3, OnlyKeeps

HearSlots == StopSlots \cup StartSlots \cup {"halted", "restarts"}

\* A change of the document starts what it has to, and leaves nobody waiting for nothing.
LEMMA HearHears ==
  ASSUME NEW b, NEW m, NEW edited \in BOOLEAN, NEW silent \in BOOLEAN, Shape(m), Sound(m), Heard(m), Current(m)
  PROVE  /\ Keeps(m, Hear(b, m, edited, silent), HearSlots)
         /\ Heard(Hear(b, m, edited, silent)) /\ Sound(Hear(b, m, edited, silent))
         /\ ~silent => Current(Hear(b, m, edited, silent))
         /\ ~edited => Hear(b, m, edited, silent).restarts = m.restarts
<1> DEFINE reload == m.load # b.load
           replay == reload \/ m.steps # b.steps
           retry == replay \/ (edited /\ (m.halted \/ m.error # NoError))
           stale == IF replay THEN Stale(m) ELSE m
           f == IF edited THEN Forgiven(stale) ELSE stale
           x == IF silent THEN f ELSE IF edited THEN RenderEdited(f) ELSE Render(f)
           go == IF retry THEN Start(x) ELSE IF m.tip # b.tip /\ x.run.on THEN ScheduleReplay(x) ELSE x
           y == Hear(b, m, edited, silent)
<1>1. y = IF m.lingering /\ reload THEN Stop(m) ELSE go
  BY DEF Hear
<1>2. CASE m.lingering /\ reload
  <2>1. y = Stop(m)
    BY <1>1, <1>2
  <2>2. m.holders = 0 /\ (Waits(m) => m.snap.live)
    BY <1>2 DEF Sound, Heard, Await
  <2>3. /\ Keeps(m, Stop(m), StopSlots) /\ Heard(Stop(m)) /\ Current(Stop(m))
        /\ ~Stop(m).run.on /\ ~Stop(m).lingering
    BY <2>2, StopHears
  <2> HIDE DEF y
  <2>4. /\ y.holders = m.holders /\ y.restarts = m.restarts /\ y.steps = m.steps /\ y.ids = m.ids
        /\ y.tip = m.tip /\ y.ready = m.ready /\ y.scheduled = m.scheduled
    BY <2>1, <2>3, Kept DEF Fields, StopSlots, LossSlots, ForgetSlots, OfferSlots, PendingSlots
  <2>5. Sound(y)
    BY <2>1, <2>3, <2>4 DEF Sound
  <2>6. Keeps(m, y, HearSlots)
    BY <2>1, <2>3, KeepsMore DEF HearSlots
  <2> QED
    BY <2>1, <2>3, <2>4, <2>5, <2>6 DEF y
<1>3. CASE ~(m.lingering /\ reload)
  <2>1. y = go
    BY <1>1, <1>3
  <2>2. Keeps(m, stale, {"owed", "progress"})
    BY ForgivenKeeps, KeepsSame, KeepsMore
  <2>3. retry => (~retry => FALSE)
    OBVIOUS
  <2>4. ~retry => (edited => ~m.halted)
    OBVIOUS
  <2> HIDE DEF stale, retry
  <2>5. Shape(stale) /\ stale.halted = m.halted /\ stale.restarts = m.restarts
    BY <2>2, Kept DEF Keeps, Fields
  <2>6. Keeps(stale, f, {"halted", "restarts"})
    BY ForgivenKeeps, KeepsSame, KeepsMore
  <2>7. /\ f.restarts = m.restarts \/ f.restarts = 0
        /\ ~edited => f.restarts = m.restarts
        /\ ~(edited /\ m.halted) => f.halted = m.halted
    BY <2>5, ForgivenKeeps
  <2> HIDE DEF f
  <2>8. Keeps(m, f, {"owed", "progress", "halted", "restarts"})
    BY <2>2, <2>6, KeepsThen
  <2>9. Shape(f) /\ Await(f)
    BY <2>8, StillAwait DEF Keeps, Heard
  <2>10. Current(f)
    BY <2>8, StillCurrent
  <2>11. ~(edited /\ m.halted) => Heard(f)
    <3>1. f.run = m.run /\ f.scheduled = m.scheduled /\ f.starting = m.starting
      BY <2>8, Kept DEF Fields
    <3>2. Waits(f) => Waits(m)
      BY <2>8 DEF Keeps, Waits
    <3> QED
      BY <2>7, <2>9, <3>1, <3>2 DEF Heard, Going
  <2>12. Keeps(f, x, RenderSlots)
    BY RenderHears, RenderEditedHears, KeepsSame, KeepsMore
  <2>13. Await(x) /\ Current(x) /\ (~(edited /\ m.halted) => Heard(x))
    <3>1. CASE silent
      BY <2>9, <2>10, <2>11, <3>1
    <3>2. CASE ~silent /\ edited
      BY <2>9, <3>2, RenderEditedHears DEF Heard
    <3>3. CASE ~silent /\ ~edited
      BY <2>9, <2>11, <3>3, RenderHears DEF Heard
    <3> QED
      BY <3>1, <3>2, <3>3
  <2> HIDE DEF x
  <2>14. Keeps(m, x, RenderSlots \cup {"owed", "progress", "halted", "restarts"})
    BY <2>8, <2>12, KeepsThen
  <2>15. Shape(x)
    BY <2>14 DEF Keeps
  <2>16. /\ x.holders = m.holders /\ x.steps = m.steps /\ x.ids = m.ids /\ x.run = m.run
         /\ x.tip = m.tip /\ x.ready = m.ready /\ x.lingering = m.lingering /\ x.scheduled = m.scheduled
    BY <2>14, Kept DEF Fields, RenderSlots, OfferSlots, PendingSlots
  <2>17. x.restarts = f.restarts
    BY <2>9, <2>12, Kept DEF Fields, RenderSlots, OfferSlots, PendingSlots
  <2>18. Sound(x)
    BY <2>7, <2>16, <2>17 DEF Sound
  <2>19. x.snap.live => x.holders # 0
    <3>1. x.snap.live => x.holders > 0
      BY <2>13 DEF Current
    <3> QED
      BY <2>18, <3>1 DEF Sound
  <2>20. CASE retry
    <3>1. go = Start(x)
      BY <2>20
    <3>2. Keeps(x, Start(x), StartSlots) /\ Heard(Start(x)) /\ (Start(x).scheduled => x.scheduled \/ x.ready)
      BY <2>13, <2>15, <2>18, <2>19, StartHears DEF Sound
    <3> DEFINE z == Start(x)
    <3>3. z.run = x.run /\ z.restarts = x.restarts
      BY <2>15, <3>2, Kept DEF Fields, StartSlots
    <3>4. Current(z)
      BY <2>13, <2>15, <3>2, StillCurrent DEF StartSlots
    <3>5. Sound(z)
      BY <2>15, <2>18, <3>2, <3>3, StillSound DEF StartSlots, Sound
    <3>6. Keeps(m, z, HearSlots)
      BY <2>14, <3>2, KeepsThen DEF HearSlots, StopSlots, LossSlots, ForgetSlots, RenderSlots
    <3> QED
      BY <2>1, <2>7, <2>17, <3>1, <3>2, <3>3, <3>4, <3>5, <3>6
  <2>21. CASE ~retry
    <3>1. Heard(x)
      BY <2>4, <2>13, <2>21
    <3>2. go = x \/ go = ScheduleReplay(x)
      BY <2>21
    <3> DEFINE z == [x EXCEPT !.scheduled = TRUE]
    <3>3. go = x \/ (go = z /\ x.ready)
      BY <3>2 DEF ScheduleReplay
    <3>4. Only(x, z, {"scheduled"})
      BY DEF Only
    <3> HIDE DEF z, go
    <3>5. Keeps(x, z, {"scheduled"})
      BY <3>4, OnlyKeeps
    <3>6. Keeps(x, go, {"scheduled"}) /\ (go.scheduled => x.ready)
      <4>1. Keeps(x, x, {"scheduled"})
        BY KeepsSame, KeepsMore
      <4> QED
        BY <2>18, <3>3, <3>5, <4>1 DEF Sound
    <3>7. go.run = x.run /\ go.restarts = x.restarts /\ go.starting = x.starting /\ go.halted = x.halted
      BY <2>15, <3>6, Kept DEF Fields
    <3>8. Sound(go)
      BY <2>15, <2>18, <3>6, <3>7, StillSound
    <3>9. Current(go)
      BY <2>13, <2>15, <3>6, StillCurrent
    <3>10. Heard(go)
      <4>1. Await(go)
        BY <2>15, <3>1, <3>6, StillAwait DEF Heard
      <4>2. Waits(go) => Waits(x)
        BY <2>15, <3>6 DEF Waits, Keeps
      <4>3. x.scheduled => go.scheduled
        <5>1. go = z => go.scheduled
          BY <2>15 DEF Shape, Fields, z
        <5> QED
          BY <3>3, <5>1
      <4> QED
        BY <3>1, <3>7, <4>1, <4>2, <4>3 DEF Heard, Going
    <3>11. Keeps(m, go, HearSlots)
      BY <2>14, <3>6, KeepsThen DEF HearSlots, StopSlots, LossSlots, ForgetSlots, RenderSlots, StartSlots
    <3> QED
      BY <2>1, <2>7, <2>17, <3>7, <3>8, <3>9, <3>10, <3>11
  <2> QED
    BY <2>20, <2>21
<1> QED
  BY <1>2, <1>3

----------------------------------------------------------------------------
(* Previews and commits.                                                   *)

ToolSlots == RenderSlots \cup {"up", "taken", "adoptions", "cache", "stray", "landed"}

\* What a tool, an offer or an answer about one does: neither the document, nor the
\* surfaces, nor the runs are touched, and nobody is left waiting for nothing.
Mild(x, y) ==
  /\ Keeps(x, y, ToolSlots)
  /\ Shape(x) /\ Heard(x) /\ Current(x) => Heard(y) /\ Current(y)

LEMMA MildSame == \A x : Mild(x, x)
  BY KeepsSame, KeepsMore DEF Mild

LEMMA MildThen ==
  ASSUME NEW x, NEW y, NEW z, Mild(x, y), Mild(y, z)
  PROVE  Mild(x, z)
<1>1. Keeps(x, z, ToolSlots)
  BY KeepsThen DEF Mild
<1> QED
  BY <1>1 DEF Mild, Keeps

LEMMA KeepsMild ==
  ASSUME NEW x, NEW y, NEW T, Keeps(x, y, T), T \subseteq ToolSlots, "snap" \notin T
  PROVE  Mild(x, y)
<1>1. Keeps(x, y, ToolSlots)
  BY KeepsMore
<1>2. T \cap {"snap", "holders", "run", "error", "scheduled", "starting", "halted"} = {}
  BY DEF ToolSlots, RenderSlots, OfferSlots, PendingSlots
<1>3. ASSUME Shape(x), Heard(x), Current(x)
      PROVE  Heard(y) /\ Current(y)
  BY <1>2, <1>3, StillHeard, StillCurrent
<1> QED
  BY <1>1, <1>3 DEF Mild

LEMMA OnlyMild ==
  ASSUME NEW x, NEW y, NEW T, Only(x, y, T), T \subseteq ToolSlots \ {"snap", "commit", "hover"}
  PROVE  Mild(x, y)
<1>1. "run" \notin T /\ "commit" \notin T /\ "hover" \notin T
  BY DEF ToolSlots, RenderSlots, OfferSlots, PendingSlots
<1>2. Keeps(x, y, T)
  BY <1>1, OnlyKeeps
<1> QED
  BY <1>2, KeepsMild

\* A commit goes on, or is over.
LEMMA CommitMild ==
  ASSUME NEW x, NEW y, NEW T, Only(x, y, T), T \subseteq ToolSlots \ {"snap", "hover"},
         "pc" \in DOMAIN y.commit, y.commit.pc # "waiting"
  PROVE  Mild(x, y)
<1>1. "run" \notin T /\ "hover" \notin T
  BY DEF ToolSlots, RenderSlots, OfferSlots, PendingSlots
<1>2. Shape(x) => y.run = x.run /\ y.hover = x.hover /\ Fields \subseteq DOMAIN y
  BY <1>1 DEF Only, Shape, Fields
<1>3. Keeps(x, y, T)
  BY <1>2 DEF Keeps, Shape
<1> QED
  BY <1>3, KeepsMild

LEMMA RenderMild == \A m : Mild(m, Render(m))
<1> TAKE m
<1>1. Keeps(m, Render(m), ToolSlots)
  BY RenderHears, KeepsMore DEF ToolSlots
<1> QED
  BY <1>1, RenderHears DEF Mild

LEMMA SlotsMild ==
  /\ PendingSlots \subseteq ToolSlots /\ "snap" \notin PendingSlots
  /\ OfferSlots \subseteq ToolSlots /\ "snap" \notin OfferSlots
  /\ {"up", "inbox"} \subseteq ToolSlots
  /\ {"table", "inbox"} \subseteq ToolSlots
  /\ {"table", "inbox", "offer"} \subseteq ToolSlots
  BY DEF ToolSlots, RenderSlots, OfferSlots, PendingSlots

LEMMA ReleasesMild ==
  ASSUME NEW m
  PROVE  /\ \A st : Mild(m, Release(m, st))
         /\ \A sts : Mild(m, ReleaseAll(m, sts))
         /\ Mild(m, DropPending(m)) /\ Mild(m, DropOffer(m))
<1>1. ASSUME NEW st
      PROVE  Mild(m, Release(m, st))
  BY ReleaseKeeps, KeepsMild, SlotsMild
<1>2. ASSUME NEW sts
      PROVE  Mild(m, ReleaseAll(m, sts))
  BY ReleaseAllKeeps, KeepsMild, SlotsMild
<1>3. Mild(m, DropPending(m))
  BY DropPendingKeeps, KeepsMild, SlotsMild
<1>4. Mild(m, DropOffer(m))
  BY DropOfferKeeps, KeepsMild, SlotsMild
<1> QED
  BY <1>1, <1>2, <1>3, <1>4

LEMMA AskMild ==
  ASSUME NEW m, NEW kind, NEW on, NEW op, NEW path
  PROVE  Mild(m, Ask(m, kind, on, op, path))
  BY AskKeeps, KeepsMild, SlotsMild

LEMMA ShowPreviewMild ==
  ASSUME NEW m, NEW parent, NEW op, NEW st
  PROVE  Mild(m, ShowPreview(m, parent, op, st))
<1> DEFINE p == [status |-> IF Landed(st) THEN "landed" ELSE "refused", parent |-> parent, op |-> op, state |-> st]
           q == IF Landed(st) THEN "asked" ELSE "none"
           a == [m EXCEPT !.pending = p, !.print = q]
           b == IF Landed(st) THEN Ask(a, "print", st, "none", <<>>) ELSE a
<1>1. ShowPreview(m, parent, op, st) = Render(b)
  BY DEF ShowPreview
<1> HIDE DEF p, q
<1>2. Only(m, a, {"pending", "print"})
  BY DEF Only
<1> HIDE DEF a
<1>3. Mild(m, a)
  BY <1>2, OnlyMild DEF ToolSlots, RenderSlots, OfferSlots, PendingSlots
<1>4. Mild(a, b)
  BY AskMild, MildSame
<1> HIDE DEF b
<1>5. Mild(b, Render(b))
  BY RenderMild
<1> QED
  BY <1>1, <1>3, <1>4, <1>5, MildThen

LEMMA PreviewFromMild ==
  ASSUME NEW m, NEW from, NEW op
  PROVE  Mild(m, PreviewFrom(m, from, op))
<1> DEFINE parent == from.parent
           taken == m.offer.status # "idle" /\ m.offer.op = op /\ m.offer.parent = parent
           o == IF taken THEN [m EXCEPT !.offer = Idle] ELSE m
           clear == DropPending(o)
           p == [Idle EXCEPT !.status = "working", !.parent = parent, !.op = op]
           w == [clear EXCEPT !.pending = p]
           working == Render(w)
           queued == [working EXCEPT !.queued = [on |-> parent, op |-> op]]
           asked == Ask(working, "preview", parent, op, <<>>)
           shown == ShowPreview(clear, parent, op, m.offer.state)
           y == PreviewFrom(m, from, op)
<1>1. y \in {m, shown, queued, asked}
  BY DEF PreviewFrom
<1>2. Mild(m, o)
  <2> DEFINE e == [m EXCEPT !.offer = Idle]
  <2>1. Only(m, e, {"offer"})
    BY DEF Only
  <2>2. o = e \/ o = m
    OBVIOUS
  <2> HIDE DEF e, o
  <2>3. Mild(m, e)
    BY <2>1, OnlyMild DEF ToolSlots, RenderSlots, OfferSlots, PendingSlots
  <2> QED
    BY <2>2, <2>3, MildSame
<1> HIDE DEF o
<1>3. Mild(o, clear)
  BY ReleasesMild
<1>4. Mild(m, clear)
  BY <1>2, <1>3, MildThen
<1> HIDE DEF clear, p
<1>5. Mild(clear, shown)
  BY ShowPreviewMild
<1>6. Only(clear, w, {"pending"})
  BY DEF Only
<1> HIDE DEF w
<1>7. Mild(clear, w)
  BY <1>6, OnlyMild DEF ToolSlots, RenderSlots, OfferSlots, PendingSlots
<1>8. Mild(w, working)
  BY RenderMild
<1>9. Mild(m, working)
  BY <1>4, <1>7, <1>8, MildThen
<1> HIDE DEF working
<1>10. Mild(working, asked)
  BY AskMild
<1>11. Only(working, queued, {"queued"})
  BY DEF Only
<1>12. Mild(working, queued)
  <2> HIDE DEF queued
  <2> QED
    BY <1>11, OnlyMild DEF ToolSlots, RenderSlots, OfferSlots, PendingSlots
<1> HIDE DEF shown, queued, asked, y
<1>13. Mild(m, y)
  BY <1>1, <1>4, <1>5, <1>9, <1>10, <1>12, MildSame, MildThen
<1> QED
  BY <1>13 DEF y

LEMMA KeepOfferMild ==
  ASSUME NEW m, NEW parent, NEW op, NEW st
  PROVE  Mild(m, KeepOffer(m, parent, op, st))
<1> DEFINE d == DropOffer(m)
           o == [status |-> IF Landed(st) THEN "landed" ELSE "refused", parent |-> parent, op |-> op, state |-> st]
           e == [d EXCEPT !.offer = o]
<1>1. KeepOffer(m, parent, op, st) \in {Release(m, st), e}
  BY DEF KeepOffer
<1>2. Mild(m, Release(m, st)) /\ Mild(m, d)
  BY ReleasesMild
<1> HIDE DEF d, o
<1>3. Only(d, e, {"offer"})
  BY DEF Only
<1> HIDE DEF e
<1>4. Mild(d, e)
  BY <1>3, OnlyMild DEF ToolSlots, RenderSlots, OfferSlots, PendingSlots
<1> QED
  BY <1>1, <1>2, <1>4, MildThen

LEMMA LetGoMild ==
  ASSUME NEW m, NEW st
  PROVE  Mild(m, LetGo(m, st))
<1> DEFINE e == [m EXCEPT !.taken = NoState]
           free == IF m.taken = st THEN e ELSE m
           d == DropPending(free)
<1>1. LetGo(m, st) \in {Render(d), Release(free, st)}
  BY DEF LetGo
<1>2. free = e \/ free = m
  OBVIOUS
<1>3. Only(m, e, {"taken"})
  BY DEF Only
<1> HIDE DEF e, free
<1>4. Mild(m, e)
  BY <1>3, OnlyMild DEF ToolSlots, RenderSlots, OfferSlots, PendingSlots
<1>5. Mild(m, free)
  BY <1>2, <1>4, MildSame
<1>6. Mild(free, d) /\ Mild(free, Release(free, st))
  BY ReleasesMild
<1> HIDE DEF d
<1>7. Mild(d, Render(d))
  BY RenderMild
<1> QED
  BY <1>1, <1>5, <1>6, <1>7, MildThen

----------------------------------------------------------------------------
(* The document changing.                                                  *)

LEMMA SeqAppend ==
  ASSUME NEW q, IsSeq(q), NEW e
  PROVE  /\ IsSeq(Append(q, e)) /\ DOMAIN Append(q, e) = 1..(Len(q) + 1)
         /\ \A i \in DOMAIN q : Append(q, e)[i] = q[i]
         /\ Append(q, e)[Len(q) + 1] = e
<1> DEFINE T == {q[i] : i \in DOMAIN q} \cup {e}
           r == Append(q, e)
<1>1. q \in Seq(T) /\ e \in T
  BY SeqMonotonic DEF IsSeq
<1> HIDE DEF T
<1>2. /\ r \in Seq(T) /\ Len(r) = Len(q) + 1
      /\ \A i \in 1..Len(q) : r[i] = q[i]
      /\ r[Len(q) + 1] = e
  BY <1>1, AppendProperties
<1> HIDE DEF r
<1>3. DOMAIN r = 1..Len(r) /\ Len(r) \in Nat /\ r \in [1..Len(r) -> T]
  BY <1>2, LenProperties
<1>4. r \in [1..Len(r) -> {r[i] : i \in DOMAIN r}]
  BY <1>3
<1>5. IsSeq(r)
  BY <1>3, <1>4, SeqDef DEF IsSeq
<1> QED
  BY <1>2, <1>3, <1>5, SeqDomain DEF r

LEMMA SeqFront ==
  ASSUME NEW q, IsSeq(q), q # <<>>
  PROVE  /\ IsSeq(Front(q)) /\ DOMAIN Front(q) = 1..(Len(q) - 1) /\ Len(q) \in Nat \ {0}
         /\ \A i \in DOMAIN Front(q) : Front(q)[i] = q[i]
         /\ Last(q) = q[Len(q)]
<1> DEFINE T == {q[i] : i \in DOMAIN q}
           n == Len(q)
           r == SubSeq(q, 1, n - 1)
<1>1. q \in Seq(T) /\ DOMAIN q = 1..n /\ n \in Nat /\ n # 0
  BY SeqDomain, EmptySeq, LenProperties DEF IsSeq
<1>2. \A i \in 1..(n - 1) : q[i] \in T
  BY <1>1
<1> HIDE DEF T, n
<1>3. /\ r \in Seq(T)
      /\ Len(r) = IF 1 <= n - 1 THEN (n - 1) - 1 + 1 ELSE 0
      /\ \A i \in 1..((n - 1) - 1 + 1) : r[i] = q[1 + i - 1]
  <2>1. 1 \in Int /\ n - 1 \in Int
    BY <1>1
  <2> QED
    BY <1>2, <2>1, SubSeqProperties
<1>4. r = Front(q) /\ Last(q) = q[n]
  BY DEF Front, Last, n
<1> HIDE DEF r
<1>5. DOMAIN r = 1..Len(r) /\ Len(r) \in Nat /\ r \in [1..Len(r) -> T]
  BY <1>3, LenProperties
<1>6. r \in [1..Len(r) -> {r[i] : i \in DOMAIN r}]
  BY <1>5
<1>7. IsSeq(r)
  BY <1>5, <1>6, SeqDef DEF IsSeq
<1>8. Len(r) = n - 1
  BY <1>1, <1>3
<1>9. \A i \in 1..(n - 1) : r[i] = q[i]
  <2>1. \A i \in 1..(n - 1) : i \in 1..((n - 1) - 1 + 1) /\ 1 + i - 1 = i
    BY <1>1
  <2> QED
    BY <1>3, <2>1
<1> QED
  BY <1>1, <1>4, <1>5, <1>7, <1>8, <1>9 DEF n

LEMMA TreeAppend ==
  ASSUME NEW steps, NEW ids, Tree(steps, ids), NEW parent \in Places(steps), NEW op
  PROVE  /\ Tree(Append(steps, [id |-> ids + 1, parent |-> parent, op |-> op]), ids + 1)
         /\ ids + 1 \in Places(Append(steps, [id |-> ids + 1, parent |-> parent, op |-> op]))
         /\ Append(steps, [id |-> ids + 1, parent |-> parent, op |-> op]) # steps
<1> DEFINE e == [id |-> ids + 1, parent |-> parent, op |-> op]
           q == Append(steps, e)
           n == Len(steps)
<1>1. e.id = ids + 1 /\ e.parent = parent /\ {"id", "parent"} \subseteq DOMAIN e
  OBVIOUS
<1> HIDE DEF e
<1>2. /\ IsSeq(q) /\ DOMAIN q = 1..(n + 1) /\ \A i \in DOMAIN steps : q[i] = steps[i]
      /\ q[n + 1] = e
  BY SeqAppend DEF Tree
<1>3. n \in Nat /\ DOMAIN steps = 1..n /\ ids \in Nat
  BY SeqDomain DEF Tree
<1> HIDE DEF q, n
<1>4. \A i \in 1..n : /\ i \in 1..(n + 1) /\ q[i] = steps[i] /\ steps[i].id \in 1..ids
                     /\ {"id", "parent"} \subseteq DOMAIN steps[i]
  BY <1>2, <1>3 DEF Tree
<1>5. \A i \in 1..(n + 1) : i \in 1..n \/ i = n + 1
  BY <1>3
<1>6. n + 1 \in 1..(n + 1)
  BY <1>3
<1>7. ASSUME NEW i \in DOMAIN q
      PROVE  /\ q[i].id \in 1..(ids + 1) /\ {"id", "parent"} \subseteq DOMAIN q[i]
             /\ q[i].parent = 0 \/ \E j \in DOMAIN q : j < i /\ q[i].parent = q[j].id
  <2>1. CASE i \in 1..n
    <3>1. q[i] = steps[i] /\ steps[i].id \in 1..ids /\ {"id", "parent"} \subseteq DOMAIN steps[i]
      BY <1>4, <2>1
    <3>2. steps[i].parent = 0 \/ \E j \in DOMAIN steps : j < i /\ steps[i].parent = steps[j].id
      BY <1>3, <2>1 DEF Tree
    <3>3. \A j \in DOMAIN steps : j \in DOMAIN q /\ q[j].id = steps[j].id
      BY <1>2, <1>3, <1>4
    <3> QED
      BY <1>3, <3>1, <3>2, <3>3
  <2>2. CASE i = n + 1
    <3>1. parent = 0 \/ \E j \in DOMAIN steps : steps[j].id = parent
      BY DEF Places, IdsOf
    <3>2. \A j \in DOMAIN steps : j \in DOMAIN q /\ q[j].id = steps[j].id /\ j < n + 1
      BY <1>2, <1>3, <1>4
    <3> QED
      BY <1>1, <1>2, <1>3, <2>2, <3>1, <3>2
  <2> QED
    BY <1>2, <1>5, <2>1, <2>2
<1>8. ASSUME NEW i \in DOMAIN q, NEW j \in DOMAIN q, i < j
      PROVE  q[i].id < q[j].id
  <2>1. i \in 1..n
    BY <1>2, <1>3, <1>8
  <2>2. CASE j \in 1..n
    BY <1>3, <1>4, <1>8, <2>1, <2>2 DEF Tree
  <2>3. CASE j = n + 1
    BY <1>1, <1>2, <1>3, <1>4, <2>1, <2>3
  <2> QED
    BY <1>2, <1>5, <2>2, <2>3
<1>9. Tree(q, ids + 1)
  BY <1>2, <1>3, <1>7, <1>8 DEF Tree
<1>10. ids + 1 \in Places(q)
  BY <1>1, <1>2, <1>6 DEF Places, IdsOf
<1>11. q # steps
  BY <1>2, <1>3, <1>6
<1> QED
  BY <1>9, <1>10, <1>11 DEF q, e

LEMMA TreeFront ==
  ASSUME NEW steps, NEW ids, Tree(steps, ids), steps # <<>>
  PROVE  /\ Tree(Front(steps), ids)
         /\ Last(steps).parent \in Places(Front(steps))
         /\ \A p \in Places(steps) : p = Last(steps).id \/ p \in Places(Front(steps))
<1> DEFINE q == Front(steps)
           n == Len(steps)
<1>1. /\ IsSeq(q) /\ DOMAIN q = 1..(n - 1) /\ \A i \in DOMAIN q : q[i] = steps[i]
      /\ Last(steps) = steps[n] /\ n \in Nat \ {0}
  BY SeqFront DEF Tree
<1>2. DOMAIN steps = 1..n /\ ids \in Nat
  BY SeqDomain DEF Tree
<1>3. \A i \in DOMAIN steps : i \in DOMAIN q \/ i = n
  BY <1>1, <1>2
<1>4. \A i \in DOMAIN q : i \in DOMAIN steps
  BY <1>1, <1>2
<1> HIDE DEF q, n
<1>5. ASSUME NEW i \in DOMAIN steps, NEW j \in DOMAIN steps, j < i
      PROVE  j \in DOMAIN q
  BY <1>1, <1>2, <1>5
<1>6. \A i \in DOMAIN steps : steps[i].parent = 0 \/ \E j \in DOMAIN q : j < i /\ steps[i].parent = q[j].id
  <2> TAKE i \in DOMAIN steps
  <2>1. CASE steps[i].parent # 0
    <3>1. PICK j \in DOMAIN steps : j < i /\ steps[i].parent = steps[j].id
      BY <2>1 DEF Tree
    <3>2. j \in DOMAIN q /\ q[j] = steps[j]
      BY <1>1, <1>5, <3>1
    <3> QED
      BY <3>1, <3>2
  <2> QED
    BY <2>1
<1>7. Tree(q, ids)
  BY <1>1, <1>2, <1>4, <1>6 DEF Tree
<1>8. Last(steps).parent \in Places(q)
  <2>1. n \in DOMAIN steps
    BY <1>1, <1>2
  <2> QED
    BY <1>1, <1>6, <2>1 DEF Places, IdsOf
<1>9. ASSUME NEW p \in Places(steps), p # Last(steps).id
      PROVE  p \in Places(q)
  <2>1. CASE p = 0
    BY <2>1 DEF Places
  <2>2. CASE p # 0
    <3>1. PICK i \in DOMAIN steps : steps[i].id = p
      BY <2>2 DEF Places, IdsOf
    <3>2. i \in DOMAIN q /\ q[i].id = p
      BY <1>1, <1>3, <1>9, <3>1
    <3> QED
      BY <3>2 DEF Places, IdsOf
  <2> QED
    BY <2>1, <2>2
<1> QED
  BY <1>7, <1>8, <1>9 DEF q

\* A step rewritten in place stays where it is.
LEMMA TreeRewritten ==
  ASSUME NEW steps, NEW ids, Tree(steps, ids), NEW k \in DOMAIN steps, NEW op
  PROVE  /\ Tree([steps EXCEPT ![k].op = op], ids)
         /\ Places([steps EXCEPT ![k].op = op]) = Places(steps)
<1> DEFINE e == [steps[k] EXCEPT !.op = op]
           q == [steps EXCEPT ![k] = e]
<1>1. [steps EXCEPT ![k].op = op] = q
  OBVIOUS
<1>2. {"id", "parent"} \subseteq DOMAIN steps[k]
  BY DEF Tree
<1>3. {"id", "parent"} \subseteq DOMAIN e /\ e.id = steps[k].id /\ e.parent = steps[k].parent
  BY <1>2
<1> HIDE DEF e
<1>4. DOMAIN q = DOMAIN steps /\ \A i \in DOMAIN steps : q[i] = IF i = k THEN e ELSE steps[i]
  OBVIOUS
<1>5. IsSeq(q)
  <2>1. DOMAIN steps = 1..Len(steps) /\ Len(steps) \in Nat
    BY SeqDomain DEF Tree
  <2>2. q \in [1..Len(steps) -> {q[i] : i \in DOMAIN q}]
    BY <2>1
  <2> HIDE DEF q
  <2> QED
    BY <2>1, <2>2, SeqDef DEF IsSeq
<1> HIDE DEF q
<1>6. \A i \in DOMAIN steps : /\ {"id", "parent"} \subseteq DOMAIN steps[i] => {"id", "parent"} \subseteq DOMAIN q[i]
                              /\ q[i].id = steps[i].id /\ q[i].parent = steps[i].parent
  BY <1>3, <1>4
<1>7. Tree(q, ids)
  BY <1>4, <1>5, <1>6 DEF Tree
<1>8. IdsOf(q) = IdsOf(steps)
  BY <1>4, <1>6 DEF IdsOf
<1> QED
  BY <1>1, <1>7, <1>8 DEF Places

\* A new document: no steps, or one.
LEMMA TreeNew ==
  ASSUME NEW ids \in Nat, NEW op
  PROVE  /\ Tree(<<>>, ids) /\ Len(<<>>) = 0
         /\ Tree(<<[id |-> ids + 1, parent |-> 0, op |-> op]>>, ids + 1)
         /\ ids + 1 \in Places(<<[id |-> ids + 1, parent |-> 0, op |-> op]>>)
         /\ Len(<<[id |-> ids + 1, parent |-> 0, op |-> op]>>) = 1
<1> DEFINE e == [id |-> ids + 1, parent |-> 0, op |-> op]
<1>1. IsSeq(<<>>)
  <2>1. {<<>>[i] : i \in DOMAIN <<>>} = {}
    OBVIOUS
  <2> QED
    BY <2>1, EmptySeq DEF IsSeq
<1>2. Tree(<<>>, ids)
  BY <1>1 DEF Tree
<1>3. 0 \in Places(<<>>)
  BY DEF Places
<1>4. Append(<<>>, e) = <<e>>
  OBVIOUS
<1>5. Tree(<<e>>, ids + 1) /\ ids + 1 \in Places(<<e>>)
  BY <1>2, <1>3, <1>4, TreeAppend
<1> QED
  BY <1>2, <1>5

DocSlots == {"load", "steps", "ids", "cursor", "tip"}

LEMMA DocHears ==
  ASSUME NEW x, NEW y, Settling(x), Only(x, y, DocSlots), Tree(y.steps, y.ids), y.tip \in Places(y.steps)
  PROVE  /\ Keeps(x, y, DocSlots) /\ Shape(y) /\ Sound(y) /\ Heard(y) /\ Current(y)
         /\ y.restarts = x.restarts
<1>1. Keeps(x, y, DocSlots)
  BY OnlyKeeps DEF DocSlots
<1>2. Shape(x)
  BY DEF Settling
<1>3. /\ y.holders = x.holders /\ y.restarts = x.restarts /\ y.run = x.run
      /\ y.ready = x.ready /\ y.lingering = x.lingering /\ y.scheduled = x.scheduled
  BY <1>1, <1>2, Kept DEF Fields, DocSlots
<1>4. Sound(y)
  BY <1>3 DEF Sound, Settling
<1>5. Heard(y)
  BY <1>1, StillHeard DEF DocSlots, Settling
<1>6. Current(y)
  BY <1>1, StillCurrent DEF DocSlots, Settling
<1> QED
  BY <1>1, <1>2, <1>3, <1>4, <1>5, <1>6 DEF Keeps

----------------------------------------------------------------------------
(* From one state to the next: everything is kept, and restarts are counted unless the *)
(* document changes.                                                       *)

Settles(x, y) == Settling(x) => Settling(y) /\ (y.steps # x.steps \/ Counted(x, y))

LEMMA MildKept ==
  ASSUME NEW x, NEW y, Mild(x, y), Shape(x)
  PROVE  /\ Shape(y) /\ y.run = x.run /\ y.steps = x.steps /\ y.restarts = x.restarts /\ y.halted = x.halted
         /\ y.holders = x.holders /\ y.ids = x.ids /\ y.scheduled = x.scheduled /\ y.ready = x.ready
         /\ y.tip = x.tip
  BY Kept DEF Mild, Keeps, Fields, ToolSlots, RenderSlots, OfferSlots, PendingSlots

LEMMA MildSettling ==
  ASSUME NEW x, NEW y, Mild(x, y), Settling(x)
  PROVE  Settling(y)
<1>1. Shape(x) /\ Sound(x) /\ Heard(x) /\ Current(x)
  BY DEF Settling
<1>2. Keeps(x, y, ToolSlots) /\ Heard(y) /\ Current(y)
  BY <1>1 DEF Mild
<1>3. Shape(y) /\ y.run = x.run /\ y.scheduled = x.scheduled
  BY <1>1, MildKept
<1>4. ToolSlots \cap {"holders", "restarts", "steps", "ids", "tip", "ready", "lingering"} = {}
  BY DEF ToolSlots, RenderSlots, OfferSlots, PendingSlots
<1>5. Sound(y)
  BY <1>1, <1>2, <1>3, <1>4, StillSound DEF Sound
<1> QED
  BY <1>2, <1>3, <1>5 DEF Settling

LEMMA MildSettles ==
  ASSUME NEW x, NEW y, Mild(x, y)
  PROVE  Settles(x, y)
  BY MildSettling, MildKept DEF Settles, Settling, Counted

LEMMA MildSettlesThen ==
  ASSUME NEW x, NEW y, NEW z, Mild(x, y), Settles(y, z)
  PROVE  Settles(x, z)
  BY MildSettling, MildKept DEF Settles, Settling, Counted

LEMMA SettlesMild ==
  ASSUME NEW x, NEW y, NEW z, Settles(x, y), Mild(y, z)
  PROVE  Settles(x, z)
<1>1. ASSUME Settling(x)
      PROVE  Settling(z) /\ (z.steps # x.steps \/ Counted(x, z))
  <2>1. Settling(y) /\ (y.steps # x.steps \/ Counted(x, y))
    BY <1>1 DEF Settles
  <2>2. Settling(z)
    BY <2>1, MildSettling
  <2>3. z.steps = y.steps /\ z.restarts = y.restarts /\ z.halted = y.halted
    BY <2>1, MildKept DEF Settling
  <2> QED
    BY <2>1, <2>2, <2>3 DEF Counted
<1> QED
  BY <1>1 DEF Settles

NoneKnown == "pc" \in DOMAIN NoCommit /\ NoCommit.pc = "none"

LEMMA NoneIsKnown == NoneKnown
  BY DEF NoneKnown, NoCommit

\* A commit that is over, and what it had taken free.
LEMMA OverMild ==
  ASSUME NEW m
  PROVE  /\ Mild(m, [m EXCEPT !.commit = NoCommit])
         /\ Mild(m, [m EXCEPT !.taken = NoState, !.commit = NoCommit])
<1> DEFINE a == [m EXCEPT !.commit = NoCommit]
           b == [m EXCEPT !.taken = NoState, !.commit = NoCommit]
<1>1. ASSUME "commit" \in DOMAIN m
      PROVE  a.commit = NoCommit /\ b.commit = NoCommit
  BY <1>1
<1>2. Only(m, a, {"commit"}) /\ Only(m, b, {"taken", "commit"})
  BY DEF Only
<1> HIDE DEF a, b
<1>3. {"commit"} \subseteq ToolSlots \ {"snap", "hover"} /\ {"taken", "commit"} \subseteq ToolSlots \ {"snap", "hover"}
  BY DEF ToolSlots, RenderSlots, OfferSlots, PendingSlots
<1>4. CASE "commit" \in DOMAIN m
  <2>1. Mild(m, a)
    BY <1>1, <1>2, <1>3, <1>4, CommitMild, NoneIsKnown DEF NoneKnown
  <2>2. Mild(m, b)
    BY <1>1, <1>2, <1>3, <1>4, CommitMild, NoneIsKnown DEF NoneKnown
  <2> QED
    BY <2>1, <2>2 DEF a, b
<1>5. CASE "commit" \notin DOMAIN m
  <2>1. ~Shape(m)
    BY <1>5 DEF Shape, Fields
  <2>2. Keeps(m, a, ToolSlots) /\ Keeps(m, b, ToolSlots)
    BY <1>2, <1>3, <2>1 DEF Keeps, Only
  <2> QED
    BY <2>1, <2>2 DEF Mild, a, b
<1> QED
  BY <1>4, <1>5

\* A commit appends its step, or withdraws.
LEMMA CommittedSettles ==
  ASSUME NEW m, NEW from, NEW op, NEW st
  PROVE  Settles(m, Committed(m, from, op, st))
<1> DEFINE replaced == {a \in m.adoptions : a.parent = from.parent /\ a.op = op}
           r == ReleaseAll(m, {a.state : a \in replaced})
           o == [r EXCEPT !.adoptions = (@ \ replaced) \cup
                            {[parent |-> from.parent, op |-> op, state |-> st, older |-> FALSE]}]
           p == Appended(o, from.id, op)
           appended == Hear(o, p, TRUE, TRUE)
           ahead == [load |-> m.load, id |-> m.ids + 1, state |-> st, older |-> FALSE]
           b == [appended EXCEPT !.ahead = ahead]
           shown == m.pending.status = "landed" /\ m.pending.state = st
           w == Release(o, st)
           v == [w EXCEPT !.taken = NoState, !.pending = IF shown THEN Idle ELSE @, !.adoptions = {a \in @ : a.state # st}]
           over == IF from.id \in Places(m.steps) THEN Render(b) ELSE Render(v)
           y == Committed(m, from, op, st)
<1>1. y = [over EXCEPT !.taken = NoState, !.commit = NoCommit]
  BY DEF Committed, Places
<1> HIDE DEF y
<1>2. Mild(m, r)
  BY ReleasesMild
<1>3. Only(r, o, {"adoptions"})
  BY DEF Only
<1> HIDE DEF r, o
<1>4. Mild(r, o)
  BY <1>3, OnlyMild DEF ToolSlots, RenderSlots, OfferSlots, PendingSlots
<1>5. Mild(m, o)
  BY <1>2, <1>4, MildThen
<1>6. CASE from.id \notin Places(m.steps)
  <2>1. over = Render(v)
    BY <1>6
  <2>2. Mild(o, w)
    BY ReleasesMild
  <2> HIDE DEF w, shown
  <2>3. Only(w, v, {"taken", "pending", "adoptions"})
    BY DEF Only
  <2> HIDE DEF v
  <2>4. Mild(w, v)
    BY <2>3, OnlyMild DEF ToolSlots, RenderSlots, OfferSlots, PendingSlots
  <2>5. Mild(v, over)
    BY <2>1, RenderMild
  <2> HIDE DEF over
  <2>6. Mild(over, y)
    BY <1>1, OverMild
  <2>7. Mild(m, y)
    BY <1>5, <2>2, <2>4, <2>5, <2>6, MildThen
  <2> QED
    BY <2>7, MildSettles DEF y
<1>7. CASE from.id \in Places(m.steps)
  <2>1. over = Render(b)
    BY <1>7
  <2> SUFFICES ASSUME Settling(m)
               PROVE  Settling(y) /\ y.steps # m.steps
    BY DEF Settles, y
  <2>2. Settling(o) /\ Shape(o) /\ o.steps = m.steps /\ o.ids = m.ids
    BY <1>5, MildSettling, MildKept DEF Settling
  <2> DEFINE step == [id |-> o.ids + 1, parent |-> from.id, op |-> op]
  <2>3. /\ p.steps = Append(o.steps, step) /\ p.ids = o.ids + 1 /\ p.tip = o.ids + 1
        /\ Only(o, p, DocSlots)
    <3>1. Only(o, p, DocSlots)
      BY DEF Appended, Only, DocSlots
    <3>2. p.steps = Append(o.steps, step) /\ p.ids = o.ids + 1 /\ p.tip = o.ids + 1
      BY <2>2 DEF Appended, Shape, Fields
    <3> QED
      BY <3>1, <3>2
  <2>4. /\ Tree(Append(o.steps, step), o.ids + 1) /\ o.ids + 1 \in Places(Append(o.steps, step))
        /\ Append(o.steps, step) # o.steps
    BY <1>7, <2>2, TreeAppend DEF Settling, Sound
  <2> HIDE DEF step, p
  <2>5. Keeps(o, p, DocSlots) /\ Shape(p) /\ Sound(p) /\ Heard(p) /\ Current(p)
    BY <2>2, <2>3, <2>4, DocHears
  <2>6. Keeps(p, appended, HearSlots) /\ Heard(appended) /\ Sound(appended)
    BY <2>5, HearHears
  <2> HIDE DEF appended, ahead
  <2>7. Shape(appended) /\ appended.steps = p.steps
    BY <2>5, <2>6, Kept DEF Keeps, Fields, HearSlots, StopSlots, StartSlots, LossSlots, ForgetSlots, OfferSlots, PendingSlots
  <2>8. Only(appended, b, {"ahead"})
    BY DEF Only
  <2> HIDE DEF b
  <2>9. Keeps(appended, b, {"ahead"})
    BY <2>8, OnlyKeeps
  <2>10. Shape(b) /\ Heard(b)
    BY <2>6, <2>7, <2>9, StillHeard DEF Keeps
  <2>11. b.run = appended.run /\ b.scheduled = appended.scheduled /\ b.steps = appended.steps
    BY <2>7, <2>9, Kept DEF Fields
  <2>12. Sound(b)
    BY <2>6, <2>7, <2>9, <2>11, StillSound DEF Sound
  <2>13. Keeps(b, over, RenderSlots) /\ Heard(over) /\ Current(over)
    BY <2>1, <2>10, RenderHears
  <2> HIDE DEF over
  <2>14. Shape(over) /\ over.run = b.run /\ over.scheduled = b.scheduled /\ over.steps = b.steps
    BY <2>10, <2>13, Kept DEF Keeps, Fields, RenderSlots, OfferSlots, PendingSlots
  <2>15. Sound(over)
    BY <2>10, <2>12, <2>13, <2>14, StillSound DEF Sound, RenderSlots, OfferSlots, PendingSlots
  <2>16. Settling(over)
    BY <2>13, <2>14, <2>15 DEF Settling
  <2>17. Mild(over, y)
    BY <1>1, OverMild
  <2>18. Settling(y) /\ y.steps = over.steps
    BY <2>14, <2>16, <2>17, MildSettling, MildKept
  <2> QED
    BY <2>2, <2>3, <2>4, <2>7, <2>11, <2>14, <2>18
<1> QED
  BY <1>6, <1>7

LEMMA CommitLandedSettles ==
  ASSUME NEW m, NEW from, NEW op, NEW st
  PROVE  Settles(m, CommitLanded(m, from, op, st))
<1> DEFINE g == LetGo(m, st)
<1>1. CommitLanded(m, from, op, st) \in {[g EXCEPT !.commit = NoCommit], Committed(m, from, op, st)}
  BY DEF CommitLanded
<1>2. Mild(m, g)
  BY LetGoMild
<1> HIDE DEF g
<1>3. Mild(g, [g EXCEPT !.commit = NoCommit])
  BY OverMild
<1>4. Settles(m, [g EXCEPT !.commit = NoCommit])
  BY <1>2, <1>3, MildThen, MildSettles
<1> QED
  BY <1>1, <1>4, CommittedSettles

\* A commit that waits for an answer waits for no publish.
LEMMA BusyMild ==
  ASSUME NEW m, NEW pc, pc # "waiting", NEW op, NEW from, NEW st
  PROVE  Mild(m, [m EXCEPT !.commit = [pc |-> pc, op |-> op, from |-> from, state |-> st]])
<1> DEFINE c == [pc |-> pc, op |-> op, from |-> from, state |-> st]
           y == [m EXCEPT !.commit = c]
<1>1. "pc" \in DOMAIN c /\ c.pc = pc
  OBVIOUS
<1> HIDE DEF c
<1>2. Only(m, y, {"commit"}) /\ ("commit" \in DOMAIN m => y.commit = c)
  BY DEF Only
<1>3. {"commit"} \subseteq ToolSlots \ {"snap", "hover"}
  BY DEF ToolSlots, RenderSlots, OfferSlots, PendingSlots
<1> HIDE DEF y
<1>4. CASE "commit" \in DOMAIN m
  BY <1>1, <1>2, <1>3, <1>4, CommitMild DEF y, c
<1>5. CASE "commit" \notin DOMAIN m
  <2>1. ~Shape(m)
    BY <1>5 DEF Shape, Fields
  <2>2. Keeps(m, y, ToolSlots)
    BY <1>2, <1>3, <2>1 DEF Keeps, Only
  <2> QED
    BY <2>1, <2>2 DEF Mild, y, c
<1> QED
  BY <1>4, <1>5

LEMMA CommitTakingSettles ==
  ASSUME NEW m, NEW from, NEW op
  PROVE  Settles(m, CommitTaking(m, from, op))
<1> DEFINE busy(pc, st) == [pc |-> pc, op |-> op, from |-> from, state |-> st]
           taking == [m EXCEPT !.taken = m.pending.state]
           a == [taking EXCEPT !.commit = busy("print", m.pending.state)]
           b == CommitLanded(taking, from, op, m.pending.state)
           c == [m EXCEPT !.commit = NoCommit]
           k == Ask(m, "fold", from.parent, op, <<>>)
           d == [k EXCEPT !.commit = busy("fold", NoState)]
<1>1. CommitTaking(m, from, op) \in {a, b, c, d}
  BY DEF CommitTaking
<1>2. Only(m, taking, {"taken"})
  BY DEF Only
<1> HIDE DEF taking
<1>3. Mild(m, taking)
  BY <1>2, OnlyMild DEF ToolSlots, RenderSlots, OfferSlots, PendingSlots
<1>4. Mild(taking, a)
  BY BusyMild
<1>5. Settles(taking, b)
  BY CommitLandedSettles
<1>6. Mild(m, c)
  BY OverMild
<1>7. Mild(m, k)
  BY AskMild
<1> HIDE DEF k
<1>8. Mild(k, d)
  BY BusyMild
<1> HIDE DEF a, b, c, d
<1>9. Settles(m, a) /\ Settles(m, d) /\ Settles(m, c)
  BY <1>3, <1>4, <1>6, <1>7, <1>8, MildThen, MildSettles
<1>10. Settles(m, b)
  BY <1>3, <1>5, MildSettlesThen
<1> QED
  BY <1>1, <1>9, <1>10

LEMMA CommitSettles ==
  ASSUME NEW m, NEW from, NEW op
  PROVE  Settles(m, Commit(m, from, op))
<1> DEFINE pc == IF m.queued = NoRequest THEN "flight" ELSE "queued"
           a == [m EXCEPT !.commit = NoCommit]
           b == [m EXCEPT !.commit = [pc |-> pc, op |-> op, from |-> from, state |-> NoState]]
<1>1. Commit(m, from, op) \in {a, b, CommitTaking(m, from, op)}
  BY DEF Commit
<1>2. Mild(m, a)
  BY OverMild
<1>3. pc # "waiting"
  OBVIOUS
<1> HIDE DEF pc
<1>4. Mild(m, b)
  BY <1>3, BusyMild
<1> HIDE DEF a, b
<1> QED
  BY <1>1, <1>2, <1>4, MildSettles, CommitTakingSettles

----------------------------------------------------------------------------
(* Answers.                                                                *)

\* Nothing but what these proofs follow is touched, and it is as it must be.
LEMMA KeptSettles ==
  ASSUME NEW x, NEW y, NEW T,
         T \cap {"holders", "restarts", "steps", "ids", "tip", "ready", "lingering", "scheduled"} = {},
         Settling(x) => Keeps(x, y, T) /\ Heard(y) /\ Current(y) /\ (y.run.on => x.run.on)
  PROVE  Settles(x, y)
<1>1. ASSUME Settling(x)
      PROVE  Settling(y) /\ Counted(x, y)
  <2>1. Shape(x) /\ Sound(x) /\ Keeps(x, y, T)
    BY <1>1 DEF Settling
  <2>2. y.scheduled = x.scheduled /\ y.restarts = x.restarts
    BY <2>1, Kept DEF Fields
  <2>3. Sound(y)
    BY <1>1, <2>1, <2>2, StillSound DEF Sound
  <2>4. Shape(y)
    BY <2>1 DEF Keeps
  <2> QED
    BY <1>1, <2>2, <2>3, <2>4 DEF Settling, Counted
<1> QED
  BY <1>1 DEF Settles

LEMMA SettlesSame == \A x : Settles(x, x)
  BY DEF Settles, Counted

LEMMA PoppedMild ==
  ASSUME NEW m
  PROVE  Mild(m, Popped(m))
<1> DEFINE after == {i \in 2..Len(m.inbox) : \A j \in 2..i : m.inbox[j].kind = "release"}
           inbox == SubSeq(m.inbox, Cardinality(after) + 2, Len(m.inbox))
           freed == {m.inbox[i].on : i \in after}
           y == [m EXCEPT !.inbox = inbox, !.table = @ \ freed]
<1>1. Popped(m) = y
  BY DEF Popped
<1> HIDE DEF inbox, freed
<1>2. Only(m, y, {"inbox", "table"})
  BY DEF Only
<1> HIDE DEF y
<1>3. Mild(m, y)
  BY <1>2, OnlyMild DEF ToolSlots, RenderSlots, OfferSlots, PendingSlots
<1> QED
  BY <1>1, <1>3

\* The call a run waited for is answered.
LEMMA GoesAgainKeeps ==
  ASSUME NEW m
  PROVE  /\ Keeps(m, [m EXCEPT !.run.waits = FALSE], {"run"})
         /\ Shape(m) => GoesOn(m, [m EXCEPT !.run.waits = FALSE])
<1> DEFINE run == [m.run EXCEPT !.waits = FALSE]
           y == [m EXCEPT !.run = run]
<1>1. [m EXCEPT !.run.waits = FALSE] = y
  OBVIOUS
<1>2. DOMAIN run = DOMAIN m.run /\ \A f \in DOMAIN m.run \ {"waits"} : run[f] = m.run[f]
  OBVIOUS
<1> HIDE DEF run
<1>3. RunShape(m.run) => RunShape(run) /\ run.on = m.run.on /\ (m.run.on => run.order = m.run.order)
  BY <1>2 DEF RunShape
<1>4. Only(m, y, {"run"})
  BY DEF Only
<1>5. ASSUME Shape(m)
      PROVE  y.run = run /\ y.commit = m.commit /\ y.hover = m.hover /\ Fields \subseteq DOMAIN y
  BY <1>5 DEF Shape, Fields
<1> HIDE DEF y
<1>6. Keeps(m, y, {"run"}) /\ (Shape(m) => GoesOn(m, y))
  BY <1>3, <1>4, <1>5 DEF Keeps, Shape, GoesOn
<1> QED
  BY <1>1, <1>6

\* A run that hears what it waited for goes on from there.
LEMMA RunGoesOn ==
  ASSUME NEW m, NEW id, NEW st, Settling(m), m.run.on
  PROVE  Settling(Advance(Report([Made(m, id, st) EXCEPT !.run.waits = FALSE], FALSE), m.run.at + 1))
         /\ Counted(m, Advance(Report([Made(m, id, st) EXCEPT !.run.waits = FALSE], FALSE), m.run.at + 1))
<1> DEFINE a == Made(m, id, st)
           b == [a EXCEPT !.run.waits = FALSE]
           no == FALSE
           r == Report(b, no)
           y == Advance(r, m.run.at + 1)
<1>1. y = Advance(Report([Made(m, id, st) EXCEPT !.run.waits = FALSE], FALSE), m.run.at + 1)
  OBVIOUS
<1> HIDE DEF no
<1>2. Shape(m) /\ Sound(m) /\ Heard(m) /\ Current(m)
  BY DEF Settling
<1>3. Keeps(m, a, {"run"}) /\ GoesOn(m, a)
  BY <1>2, MadeKeeps
<1> HIDE DEF a
<1>4. Shape(a)
  BY <1>2, <1>3 DEF Keeps
<1>5. Keeps(a, b, {"run"}) /\ GoesOn(a, b)
  BY <1>4, GoesAgainKeeps
<1> HIDE DEF b
<1>6. Keeps(m, b, {"run"}) /\ GoesOn(m, b)
  BY <1>3, <1>5, KeepsThen DEF GoesOn
<1>7. Shape(b) /\ Current(b) /\ Heard(b)
  BY <1>2, <1>6, StillGoes DEF Keeps
<1>8. Keeps(b, r, RenderSlots \cup {"progress"}) /\ Heard(r) /\ Current(r)
  BY <1>7, ReportHears
<1> HIDE DEF r
<1>9. Shape(r) /\ r.run = b.run
  BY <1>7, <1>8, Kept DEF Keeps, Fields, RenderSlots, OfferSlots, PendingSlots
<1>10. r.run.on /\ r.run.order = m.run.order
  BY <1>6, <1>9 DEF GoesOn
<1>11. m.run.at \in DOMAIN m.run.order /\ IsSeq(m.run.order)
  BY <1>2 DEF Shape, RunShape
<1>12. m.run.at + 1 \in Nat \ {0} /\ m.run.at + 1 <= Len(r.run.order) + 1
  <2>1. m.run.at \in 1..Len(m.run.order) /\ Len(m.run.order) \in Nat
    BY <1>11, SeqDomain
  <2>2. \A n \in Nat : \A k \in 1..n : k + 1 \in Nat \ {0} /\ k + 1 <= n + 1
    OBVIOUS
  <2> QED
    BY <1>10, <2>1, <2>2
<1>13. Keeps(r, y, ReplaySlots) /\ Heard(y) /\ Current(y)
  BY <1>8, <1>9, <1>10, <1>12, AdvanceHears
<1> HIDE DEF y
<1>14. Keeps(b, y, ReplaySlots)
  BY <1>8, <1>13, KeepsThen DEF ReplaySlots
<1>15. Keeps(m, y, ReplaySlots)
  BY <1>6, <1>14, KeepsThen DEF ReplaySlots
<1>16. Settles(m, y)
  <2>1. ReplaySlots \cap {"holders", "restarts", "steps", "ids", "tip", "ready", "lingering", "scheduled"} = {}
    BY DEF ReplaySlots, RenderSlots, OfferSlots, PendingSlots
  <2> QED
    BY <1>13, <1>15, <2>1, KeptSettles
<1>17. y.steps = m.steps /\ y.restarts = m.restarts
  BY <1>2, <1>15, Kept DEF Fields, ReplaySlots, RenderSlots, OfferSlots, PendingSlots
<1> QED
  BY <1>1, <1>16, <1>17 DEF Settles, Counted

LEMMA HearReplaySettles ==
  ASSUME NEW m, NEW h, NEW st
  PROVE  Settles(m, HearReplay(m, h, st))
<1> DEFINE c == [m EXCEPT !.cache = Put(@, h.path, st)]
           l == [m EXCEPT !.stray = @ \cup {st}]
           kept == IF h.wanted THEN c ELSE IF Landed(st) THEN l ELSE m
           y == Advance(Report([Made(kept, kept.run.order[kept.run.at], st) EXCEPT !.run.waits = FALSE], FALSE), kept.run.at + 1)
<1>1. HearReplay(m, h, st) = IF h.wanted /\ RunAwaits(kept, h.path) THEN y ELSE kept
  BY DEF HearReplay
<1>2. Only(m, c, {"cache"}) /\ Only(m, l, {"stray"})
  BY DEF Only
<1>3. kept \in {c, l, m}
  OBVIOUS
<1> HIDE DEF c, l, kept
<1>4. Mild(m, kept)
  BY <1>2, <1>3, OnlyMild, MildSame DEF ToolSlots, RenderSlots, OfferSlots, PendingSlots
<1>5. ASSUME RunAwaits(kept, h.path)
      PROVE  Settles(kept, y)
  <2>1. kept.run.on
    BY <1>5 DEF RunAwaits
  <2> DEFINE id == kept.run.order[kept.run.at]
  <2>2. y = Advance(Report([Made(kept, id, st) EXCEPT !.run.waits = FALSE], FALSE), kept.run.at + 1)
    OBVIOUS
  <2> HIDE DEF id, y
  <2>3. Settling(kept) => Settling(y) /\ Counted(kept, y)
    BY <2>1, <2>2, RunGoesOn
  <2> QED
    BY <2>3 DEF Settles
<1> HIDE DEF y
<1>6. RunAwaits(kept, h.path) => Settles(m, y)
  BY <1>4, <1>5, MildSettlesThen
<1>7. Settles(m, kept)
  BY <1>4, MildSettles
<1> QED
  BY <1>1, <1>6, <1>7

\* The awaiting commit hears of the preview, which is not what a waiter waits for.
LEMMA PcMild ==
  ASSUME NEW m, NEW pc, pc # "waiting"
  PROVE  Mild(m, [m EXCEPT !.commit.pc = pc])
<1> DEFINE c == [m.commit EXCEPT !.pc = pc]
           y == [m EXCEPT !.commit = c]
<1>1. [m EXCEPT !.commit.pc = pc] = y
  OBVIOUS
<1>2. "pc" \in DOMAIN m.commit => "pc" \in DOMAIN c /\ c.pc = pc
  OBVIOUS
<1> HIDE DEF c
<1>3. Only(m, y, {"commit"}) /\ ("commit" \in DOMAIN m => y.commit = c)
  BY DEF Only
<1>4. {"commit"} \subseteq ToolSlots \ {"snap", "hover"}
  BY DEF ToolSlots, RenderSlots, OfferSlots, PendingSlots
<1> HIDE DEF y
<1>5. CASE Shape(m)
  <2>1. "commit" \in DOMAIN m /\ "pc" \in DOMAIN m.commit
    BY <1>5 DEF Shape, Fields
  <2>2. Mild(m, y)
    BY <1>2, <1>3, <1>4, <2>1, CommitMild
  <2> QED
    BY <1>1, <2>2
<1>6. CASE ~Shape(m)
  <2>1. Mild(m, y)
    BY <1>3, <1>4, <1>6 DEF Keeps, Only, Mild
  <2> QED
    BY <1>1, <2>1
<1> QED
  BY <1>5, <1>6

LEMMA NextPreviewMild ==
  ASSUME NEW m
  PROVE  Mild(m, NextPreview(m))
<1> DEFINE a == [m EXCEPT !.commit.pc = "answered"]
           f == [m EXCEPT !.commit.pc = "flight"]
           told == IF m.commit.pc = "flight" THEN a ELSE IF m.commit.pc = "queued" THEN f ELSE m
           asked == Ask(told, "preview", m.queued.on, m.queued.op, <<>>)
           y == [asked EXCEPT !.queued = NoRequest]
<1>1. NextPreview(m) = told \/ NextPreview(m) = y
  BY DEF NextPreview
<1>2. Mild(m, a) /\ Mild(m, f)
  BY PcMild
<1> HIDE DEF a, f
<1>3. Mild(m, told)
  BY <1>2, MildSame
<1> HIDE DEF told
<1>4. Mild(told, asked)
  BY AskMild
<1> HIDE DEF asked
<1>5. Only(asked, y, {"queued"})
  BY DEF Only
<1> HIDE DEF y
<1>6. Mild(asked, y)
  BY <1>5, OnlyMild DEF ToolSlots, RenderSlots, OfferSlots, PendingSlots
<1>7. Mild(m, y)
  BY <1>3, <1>4, <1>6, MildThen
<1> QED
  BY <1>1, <1>3, <1>7

LEMMA HearPreviewMild ==
  ASSUME NEW m, NEW h, NEW st
  PROVE  Mild(m, NextPreview(HearPreview(m, h, st)))
<1> DEFINE p == HearPreview(m, h, st)
<1>1. p \in {ShowPreview(m, h.on, h.op, st), Release(m, st)}
  BY DEF HearPreview
<1>2. Mild(m, p)
  BY <1>1, ShowPreviewMild, ReleasesMild
<1> HIDE DEF p
<1>3. Mild(p, NextPreview(p))
  BY NextPreviewMild
<1> QED
  BY <1>2, <1>3, MildThen DEF p

LEMMA HearFoldSettles ==
  ASSUME NEW m, NEW h, NEW st
  PROVE  Settles(m, HearFold(m, h, st))
<1> DEFINE d == DropPending(m)
           o == [d EXCEPT !.commit = NoCommit]
           p == [status |-> "refused", parent |-> h.on, op |-> h.op, state |-> st]
           e == [o EXCEPT !.pending = p]
<1>1. HearFold(m, h, st) = CommitLanded(m, m.commit.from, h.op, st) \/ HearFold(m, h, st) = Render(e)
  BY DEF HearFold
<1>2. Mild(m, d)
  BY ReleasesMild
<1> HIDE DEF d
<1>3. Mild(d, o)
  BY OverMild
<1> HIDE DEF o, p
<1>4. Only(o, e, {"pending"})
  BY DEF Only
<1> HIDE DEF e
<1>5. Mild(o, e)
  BY <1>4, OnlyMild DEF ToolSlots, RenderSlots, OfferSlots, PendingSlots
<1>6. Mild(e, Render(e))
  BY RenderMild
<1>7. Mild(m, Render(e))
  BY <1>2, <1>3, <1>5, <1>6, MildThen
<1> QED
  BY <1>1, <1>7, MildSettles, CommitLandedSettles

LEMMA HearPrintSettles ==
  ASSUME NEW m, NEW h
  PROVE  Settles(m, HearPrint(m, h))
<1> DEFINE k == [m EXCEPT !.print = "known"]
           known == IF m.pending.state = h.on THEN k ELSE m
           y == CommitLanded(known, m.commit.from, m.commit.op, h.on)
<1>1. HearPrint(m, h) \in {y, known}
  BY DEF HearPrint
<1>2. Only(m, k, {"print"})
  BY DEF Only
<1> HIDE DEF k
<1>3. Mild(m, known)
  BY <1>2, OnlyMild, MildSame DEF ToolSlots, RenderSlots, OfferSlots, PendingSlots
<1> HIDE DEF known
<1>4. Settles(known, y)
  BY CommitLandedSettles
<1> HIDE DEF y
<1> QED
  BY <1>1, <1>3, <1>4, MildSettles, MildSettlesThen

\* The engine is there: a replay is scheduled, unless the session gave up or nobody is there.
LEMMA VersionSettles ==
  ASSUME NEW m
  PROVE  Settles(m, ScheduleReplay([m EXCEPT !.starting = FALSE, !.ready = TRUE]))
<1> DEFINE a == [m EXCEPT !.starting = FALSE, !.ready = TRUE]
           z == [a EXCEPT !.scheduled = TRUE]
           y == ScheduleReplay(a)
<1>1. y = IF a.ready /\ a.holders > 0 /\ ~a.halted THEN z ELSE a
  BY DEF ScheduleReplay
<1>2. Only(m, a, {"starting", "ready"}) /\ Only(a, z, {"scheduled"})
  BY DEF Only
<1>3. Shape(m) => a.ready /\ z.scheduled
  BY DEF Shape, Fields
<1> HIDE DEF a, z
<1>4. Keeps(m, a, {"starting", "ready"}) /\ Keeps(a, z, {"scheduled"})
  BY <1>2, OnlyKeeps
<1>5. y \in {z, a} /\ Keeps(m, y, {"starting", "ready", "scheduled"})
  BY <1>1, <1>4, KeepsThen, KeepsMore
<1>6. y.scheduled \/ ~(a.ready /\ a.holders > 0 /\ ~a.halted) \/ ~Shape(m)
  BY <1>1, <1>3
<1> HIDE DEF y
<1>7. ASSUME Settling(m)
      PROVE  Settling(y) /\ Counted(m, y)
  <2>1. Shape(m) /\ Sound(m) /\ Heard(m) /\ Current(m)
    BY <1>7 DEF Settling
  <2>2. Shape(a) /\ a.holders = m.holders /\ a.halted = m.halted /\ a.ready
    BY <1>3, <1>4, <2>1, Kept DEF Keeps, Fields
  <2>3. /\ Shape(y) /\ y.holders = m.holders /\ y.halted = m.halted /\ y.restarts = m.restarts
        /\ y.steps = m.steps /\ y.ids = m.ids /\ y.tip = m.tip /\ y.run = m.run /\ y.lingering = m.lingering
    BY <1>5, <2>1, Kept DEF Keeps, Fields
  <2>4. y.ready
    <3>1. Shape(a)
      BY <2>2
    <3>2. "ready" \in Fields \ {"scheduled"}
      BY DEF Fields
    <3>3. z["ready"] = a["ready"]
      BY <1>4, <3>1, <3>2, Kept
    <3> QED
      BY <1>5, <2>2, <3>3
  <2>5. Sound(y)
    BY <2>1, <2>3, <2>4 DEF Sound
  <2>6. Current(y)
    BY <1>5, <2>1, StillCurrent
  <2>7. Await(y)
    BY <1>5, <2>1, StillAwait DEF Heard
  <2>8. y.snap.live => y.holders > 0
    BY <2>6 DEF Current
  <2>9. y.holders > 0 => y.scheduled \/ y.halted
    BY <1>6, <2>1, <2>2, <2>3
  <2>10. Heard(y)
    BY <2>7, <2>8, <2>9 DEF Heard, Await, Going
  <2> QED
    BY <2>3, <2>5, <2>6, <2>10 DEF Settling, Counted
<1> QED
  BY <1>7 DEF Settles, y, a

LEMMA HearAnswerSettles ==
  ASSUME NEW m, NEW h, NEW st
  PROVE  Settles(m, HearAnswer(m, h, st))
<1> DEFINE v == ScheduleReplay([m EXCEPT !.starting = FALSE, !.ready = TRUE])
<1>1. HearAnswer(m, h, st) \in {v, m, HearReplay(m, h, st), NextPreview(HearPreview(m, h, st)),
                                HearFold(m, h, st), KeepOffer(m, h.on, h.op, st), HearPrint(m, h)}
  BY DEF HearAnswer
<1>2. Settles(m, v)
  BY VersionSettles
<1> HIDE DEF v
<1>3. Settles(m, NextPreview(HearPreview(m, h, st))) /\ Settles(m, KeepOffer(m, h.on, h.op, st))
  BY HearPreviewMild, KeepOfferMild, MildSettles
<1> QED
  BY <1>1, <1>2, <1>3, SettlesSame, HearReplaySettles, HearFoldSettles, HearPrintSettles

LEMMA FailSettles ==
  ASSUME NEW m, NEW b, Keeps(m, b, {"starting", "run"}), Settling(m) => (b.run.on => m.run.on)
  PROVE  Settles(m, Fail(b))
<1> DEFINE y == Fail(b)
           T == RenderSlots \cup {"error", "starting", "run"}
<1>1. T \cap {"holders", "restarts", "steps", "ids", "tip", "ready", "lingering", "scheduled"} = {}
  BY DEF RenderSlots, OfferSlots, PendingSlots
<1>2. ASSUME Settling(m)
      PROVE  Keeps(m, y, T) /\ Heard(y) /\ Current(y) /\ (y.run.on => m.run.on)
  <2>1. Shape(m) /\ Current(m)
    BY <1>2 DEF Settling
  <2>2. Shape(b) /\ b.snap = m.snap /\ b.error = m.error
    BY <2>1, Kept DEF Keeps, Fields
  <2>3. b.snap.error = b.error
    BY <2>1, <2>2 DEF Current
  <2>4. Keeps(b, y, RenderSlots \cup {"error"}) /\ Heard(y) /\ Current(y)
    BY <2>2, <2>3, FailHears
  <2> HIDE DEF y
  <2>5. Keeps(m, y, T)
    BY <2>4, KeepsThen
  <2>6. y.run = b.run
    BY <2>2, <2>4, Kept DEF Fields, RenderSlots, OfferSlots, PendingSlots
  <2> QED
    BY <1>2, <2>4, <2>5, <2>6
<1> HIDE DEF y, T
<1>3. Settles(m, y)
  BY <1>1, <1>2, KeptSettles
<1> QED
  BY <1>3 DEF y

LEMMA NoRunKeeps ==
  ASSUME NEW m
  PROVE  Keeps(m, [m EXCEPT !.run = NoRun], {"run"}) /\ (Shape(m) => ~[m EXCEPT !.run = NoRun].run.on)
<1> DEFINE y == [m EXCEPT !.run = NoRun]
<1>1. Only(m, y, {"run"}) /\ (Shape(m) => y.run = NoRun)
  BY DEF Only, Shape, Fields
<1> HIDE DEF y
<1>2. Keeps(m, y, {"run"})
  BY <1>1, RunEnds DEF Keeps
<1>3. ~NoRun.on
  BY DEF NoRun
<1> QED
  BY <1>1, <1>2, <1>3 DEF y

\* A call that failed is told, and a commit it was for is over.
LEMMA HearFailureSettles ==
  ASSUME NEW m, NEW h, h.kind \in {"version", "replay", "preview", "fold"}
  PROVE  Settles(m, HearFailure(m, h))
<1> DEFINE a == [m EXCEPT !.starting = FALSE]
           r == [m EXCEPT !.run = NoRun]
           f == [m EXCEPT !.pending.status = "failed"]
           p == IF h.wanted THEN Render(f) ELSE m
           n == NextPreview(p)
           c == [m EXCEPT !.commit = NoCommit]
<1>1. HearFailure(m, h) \in {Fail(a), m, Fail(r), n, c}
  BY DEF HearFailure
<1>2. Settles(m, Fail(a))
  <2>1. Only(m, a, {"starting"})
    BY DEF Only
  <2> HIDE DEF a
  <2>2. Keeps(m, a, {"starting", "run"})
    BY <2>1, OnlyKeeps, KeepsMore
  <2>3. Shape(m) => a.run = m.run
    BY <2>1 DEF Only, Shape, Fields
  <2> QED
    BY <2>2, <2>3, FailSettles DEF Settling
<1>3. Settles(m, Fail(r))
  <2>1. Keeps(m, r, {"run"}) /\ (Shape(m) => ~r.run.on)
    BY NoRunKeeps
  <2> HIDE DEF r
  <2>2. Keeps(m, r, {"starting", "run"})
    BY <2>1, KeepsMore
  <2> QED
    BY <2>1, <2>2, FailSettles DEF Settling
<1>4. Mild(m, n)
  <2>1. Only(m, f, {"pending"})
    BY DEF Only
  <2> HIDE DEF f
  <2>2. Mild(m, f)
    BY <2>1, OnlyMild DEF ToolSlots, RenderSlots, OfferSlots, PendingSlots
  <2>3. Mild(f, Render(f))
    BY RenderMild
  <2>4. Mild(m, p)
    BY <2>2, <2>3, MildThen, MildSame
  <2> HIDE DEF p
  <2>5. Mild(p, n)
    BY NextPreviewMild
  <2> HIDE DEF n
  <2> QED
    BY <2>4, <2>5, MildThen
<1>5. Mild(m, c)
  BY OverMild
<1> HIDE DEF a, r, n, c
<1>6. Settles(m, n) /\ Settles(m, c)
  BY <1>4, <1>5, MildSettles
<1> QED
  BY <1>1, <1>2, <1>3, <1>6, SettlesSame

\* An engine that does not know a state lands everything again, if somebody holds it.
LEMMA RelandSettles ==
  ASSUME NEW m, NEW b, Keeps(m, b, {"run"}),
         Settling(m) => b = m \/ (m.ready /\ m.holders > 0)
  PROVE  Settles(m, Reland(b))
<1> DEFINE y == Reland(b)
<1>1. ASSUME Settling(m)
      PROVE  Settling(y) /\ Counted(m, y)
  <2>1. Shape(m) /\ Sound(m) /\ Heard(m) /\ Current(m)
    BY <1>1 DEF Settling
  <2>2. /\ Shape(b) /\ b.snap = m.snap /\ b.holders = m.holders /\ b.ready = m.ready
        /\ b.restarts = m.restarts /\ b.scheduled = m.scheduled
        /\ b.steps = m.steps /\ b.ids = m.ids /\ b.tip = m.tip /\ b.lingering = m.lingering
    BY <2>1, Kept DEF Keeps, Fields
  <2>3. Await(b)
    BY <2>1, StillAwait DEF Heard
  <2>4. m.snap.live => m.holders > 0
    BY <2>1 DEF Current
  <2>5. b.holders \in Nat /\ (b.snap.live => b.holders # 0)
    BY <2>1, <2>2, <2>4 DEF Sound
  <2>6. /\ Keeps(b, y, RelandSlots) /\ Counted(b, y)
        /\ y.scheduled => b.scheduled \/ b.ready
        /\ b.ready /\ b.holders # 0 => Heard(y) /\ Current(y) /\ ~y.run.on
        /\ ~b.ready \/ b.holders = 0 => y = b
    BY <2>2, <2>3, <2>5, RelandHears
  <2> HIDE DEF y
  <2>7. CASE ~b.ready \/ b.holders = 0
    <3>1. ~m.ready \/ m.holders = 0
      BY <2>2, <2>7
    <3>2. b = m /\ y = m
      BY <1>1, <2>1, <2>6, <2>7, <3>1 DEF Sound
    <3> QED
      BY <1>1, <3>2 DEF Counted
  <2>8. CASE b.ready /\ b.holders # 0
    <3>1. Heard(y) /\ Current(y) /\ ~y.run.on
      BY <2>6, <2>8
    <3>2. /\ Shape(y) /\ y.holders = b.holders /\ y.ready = b.ready
          /\ y.steps = b.steps /\ y.ids = b.ids /\ y.tip = b.tip /\ y.lingering = b.lingering
      BY <2>2, <2>6, Kept DEF Keeps, Fields, RelandSlots, RestartSlots, StartSlots, ForgetSlots, OfferSlots, PendingSlots
    <3>3. y.restarts \in Nat
      BY <2>1, <2>2, <2>6 DEF Counted, Sound
    <3>4. y.ready
      BY <2>8, <3>2
    <3>5. Sound(y)
      BY <2>1, <2>2, <3>1, <3>2, <3>3, <3>4 DEF Sound
    <3>6. Counted(m, y)
      BY <2>2, <2>6 DEF Counted
    <3> QED
      BY <3>1, <3>2, <3>5, <3>6 DEF Settling
  <2> QED
    BY <2>7, <2>8
<1> QED
  BY <1>1 DEF Settles

LEMMA HearUnknownSettles ==
  ASSUME NEW m, NEW h
  PROVE  Settles(m, HearUnknown(m, h))
<1> DEFINE r == [m EXCEPT !.run = NoRun]
<1>1. \/ HearUnknown(m, h) = m
      \/ HearUnknown(m, h) = Reland(r) /\ m.run.on
      \/ HearUnknown(m, h) = Reland(m)
      \/ HearUnknown(m, h) = HearFailure(m, h) /\ h.kind \in {"version", "replay", "preview", "fold"}
  BY DEF HearUnknown, RunAwaits
<1>2. Keeps(m, r, {"run"})
  BY NoRunKeeps
<1> HIDE DEF r
<1>3. ASSUME m.run.on
      PROVE  Settles(m, Reland(r))
  BY <1>2, <1>3, RelandSettles DEF Settling, Sound
<1>4. Settles(m, Reland(m))
  BY KeepsSame, KeepsMore, RelandSettles
<1> QED
  BY <1>1, <1>3, <1>4, SettlesSame, HearFailureSettles

----------------------------------------------------------------------------
(* Those who come to wait.                                                 *)

\* Who does not go on at once waits for what was published, and something is under way.
LEMMA NotReady ==
  ASSUME NEW m, ~ReadyToFold(m)
  PROVE  m.snap.live /\ m.snap.shown[m.snap.cursor] = NoState /\ (m.run.on \/ m.scheduled \/ m.starting)
  BY DEF ReadyToFold, FoldingFrom, Landing

\* A new waiter changes nothing else.
LEMMA WaiterSettles ==
  ASSUME NEW m, NEW y, NEW f \in {"commit", "hover"}, Only(m, y, {f}),
         Settling(m) => "pc" \in DOMAIN y[f],
         m.snap.live, m.snap.shown[m.snap.cursor] = NoState, m.run.on \/ m.scheduled \/ m.starting
  PROVE  Settles(m, y)
<1>1. ASSUME Settling(m)
      PROVE  Settling(y) /\ Counted(m, y)
  <2>1. Shape(m) /\ Sound(m) /\ Heard(m) /\ Current(m)
    BY <1>1 DEF Settling
  <2>2. /\ y.run = m.run /\ y.snap = m.snap /\ y.holders = m.holders /\ y.error = m.error
        /\ y.scheduled = m.scheduled /\ y.starting = m.starting /\ y.halted = m.halted
        /\ y.restarts = m.restarts /\ y.steps = m.steps /\ y.ids = m.ids /\ y.tip = m.tip
        /\ y.ready = m.ready /\ y.lingering = m.lingering
        /\ Fields \subseteq DOMAIN y
    BY <2>1 DEF Only, Shape, Fields
  <2>3. "pc" \in DOMAIN y.commit /\ "pc" \in DOMAIN y.hover
    <3>1. CASE f = "commit"
      <4>1. y.hover = m.hover
        BY <2>1, <3>1 DEF Only, Shape, Fields
      <4> QED
        BY <1>1, <2>1, <3>1, <4>1 DEF Shape
    <3>2. CASE f = "hover"
      <4>1. y.commit = m.commit
        BY <2>1, <3>2 DEF Only, Shape, Fields
      <4> QED
        BY <1>1, <2>1, <3>2, <4>1 DEF Shape
    <3> QED
      BY <3>1, <3>2
  <2>4. Shape(y)
    BY <2>1, <2>2, <2>3 DEF Shape
  <2>5. Sound(y)
    BY <2>1, <2>2 DEF Sound
  <2>6. Current(y)
    BY <2>1, <2>2 DEF Current
  <2>7. Heard(y)
    BY <2>2 DEF Heard, Await, Going
  <2> QED
    BY <2>2, <2>4, <2>5, <2>6, <2>7 DEF Settling, Counted
<1> QED
  BY <1>1 DEF Settles

LEMMA PreviewNowSettles ==
  ASSUME NEW m, NEW op
  PROVE  Settles(m, PreviewNow(m, op))
<1> DEFINE d == DropPending(m)
           w == [NoHover EXCEPT !.pc = "waiting", !.op = op]
           y == [d EXCEPT !.hover = w]
<1>1. CASE ReadyToFold(m)
  <2>1. PreviewNow(m, op) = PreviewFrom(m, FoldingFrom(m).from, op)
    BY <1>1 DEF PreviewNow
  <2> QED
    BY <2>1, PreviewFromMild, MildSettles
<1>2. CASE ~ReadyToFold(m)
  <2>1. PreviewNow(m, op) = y
    BY <1>2 DEF PreviewNow
  <2>2. Keeps(m, d, PendingSlots) /\ Mild(m, d)
    BY DropPendingKeeps, ReleasesMild
  <2>3. "pc" \in DOMAIN w
    BY DEF NoHover
  <2> HIDE DEF d, w
  <2>4. Only(d, y, {"hover"}) /\ (Shape(d) => y.hover = w)
    BY DEF Only, Shape, Fields
  <2> HIDE DEF y
  <2>5. ASSUME Settling(m)
        PROVE  Settling(y) /\ Counted(m, y)
    <3>1. Settling(d) /\ Shape(m) /\ Shape(d)
      BY <2>2, <2>5, MildSettling DEF Settling
    <3>2. /\ d.snap = m.snap /\ d.run = m.run /\ d.scheduled = m.scheduled /\ d.starting = m.starting
          /\ d.restarts = m.restarts /\ d.steps = m.steps
      BY <2>2, <3>1, Kept DEF Fields, PendingSlots
    <3>3. d.snap.live /\ d.snap.shown[d.snap.cursor] = NoState /\ (d.run.on \/ d.scheduled \/ d.starting)
      BY <1>2, <3>2, NotReady
    <3>4. Settles(d, y)
      BY <2>3, <2>4, <3>1, <3>3, WaiterSettles DEF Settling
    <3>5. y.steps = d.steps
      BY <2>4, <3>1 DEF Only, Shape, Fields
    <3> QED
      BY <3>1, <3>2, <3>4, <3>5 DEF Settles, Counted
  <2> QED
    BY <2>1, <2>5 DEF Settles
<1> QED
  BY <1>1, <1>2

LEMMA CommitNowSettles ==
  ASSUME NEW m, NEW op
  PROVE  Settles(m, CommitNow(m, op))
<1> DEFINE w == [NoCommit EXCEPT !.pc = "waiting", !.op = op]
           y == [m EXCEPT !.commit = w]
<1>1. CASE ReadyToFold(m)
  <2>1. CommitNow(m, op) = Commit(m, FoldingFrom(m).from, op)
    BY <1>1 DEF CommitNow
  <2> QED
    BY <2>1, CommitSettles
<1>2. CASE ~ReadyToFold(m)
  <2>1. CommitNow(m, op) = y
    BY <1>2 DEF CommitNow
  <2>2. "pc" \in DOMAIN w
    BY DEF NoCommit
  <2> HIDE DEF w
  <2>3. Only(m, y, {"commit"}) /\ (Settling(m) => y["commit"] = w)
    BY DEF Only, Settling, Shape, Fields
  <2> HIDE DEF y
  <2>4. m.snap.live /\ m.snap.shown[m.snap.cursor] = NoState /\ (m.run.on \/ m.scheduled \/ m.starting)
    BY <1>2, NotReady
  <2> QED
    BY <2>1, <2>2, <2>3, <2>4, WaiterSettles
<1> QED
  BY <1>1, <1>2

----------------------------------------------------------------------------
(* The actions.                                                            *)

\* A hold beside another changes nothing.
LEMMA HoldersSettles ==
  ASSUME NEW x, NEW y, Only(x, y, {"holders"}),
         Settling(x) => x.holders > 0 /\ y.holders \in Nat /\ y.holders > 0
  PROVE  Settles(x, y)
<1>1. ASSUME Settling(x)
      PROVE  Settling(y) /\ Counted(x, y)
  <2>1. Shape(x) /\ Sound(x) /\ Heard(x) /\ Current(x)
    BY <1>1 DEF Settling
  <2>2. Keeps(x, y, {"holders"})
    BY OnlyKeeps
  <2>3. /\ Shape(y) /\ y.restarts = x.restarts /\ y.steps = x.steps /\ y.ids = x.ids /\ y.tip = x.tip
        /\ y.run = x.run /\ y.ready = x.ready /\ y.scheduled = x.scheduled /\ y.lingering = x.lingering
        /\ y.snap = x.snap /\ y.error = x.error
    BY <2>1, <2>2, Kept DEF Keeps, Fields
  <2>4. ~x.lingering
    BY <1>1, <2>1 DEF Sound
  <2>5. Sound(y)
    BY <1>1, <2>1, <2>3, <2>4 DEF Sound
  <2>6. Heard(y)
    BY <2>1, <2>2, StillHeard
  <2>7. Current(y)
    <3>1. (x.holders > 0) = (y.holders > 0)
      BY <1>1
    <3> QED
      BY <2>1, <2>3, <3>1 DEF Current
  <2> QED
    BY <2>3, <2>5, <2>6, <2>7 DEF Settling, Counted
<1> QED
  BY <1>1 DEF Settles

\* The last hold released: nobody waits, and nothing runs.
LEMMA LastHoldSettles ==
  ASSUME NEW x, NEW m, Only(x, m, {"holders"}), Settling(x) => m.holders = 0
  PROVE  Settles(x, Stop(m)) /\ Settles(x, StartLingering(m))
<1>1. ASSUME Settling(x)
      PROVE  /\ Settling(Stop(m)) /\ Counted(x, Stop(m))
             /\ Settling(StartLingering(m)) /\ Counted(x, StartLingering(m))
  <2>1. Shape(x) /\ Sound(x) /\ Heard(x) /\ Current(x)
    BY <1>1 DEF Settling
  <2>2. Keeps(x, m, {"holders"})
    BY OnlyKeeps
  <2>3. /\ Shape(m) /\ m.restarts = x.restarts /\ m.steps = x.steps /\ m.ids = x.ids /\ m.tip = x.tip
        /\ m.ready = x.ready /\ m.scheduled = x.scheduled
    BY <2>1, <2>2, Kept DEF Keeps, Fields
  <2>4. Waits(m) => m.snap.live
    BY <2>1, <2>2, StillAwait DEF Heard, Await
  <2>5. Settling(Stop(m)) /\ Counted(x, Stop(m))
    <3> DEFINE y == Stop(m)
    <3>1. Keeps(m, y, StopSlots) /\ Heard(y) /\ Current(y) /\ ~y.run.on /\ ~y.lingering
      BY <1>1, <2>3, <2>4, StopHears
    <3> HIDE DEF y
    <3>2. /\ Shape(y) /\ y.holders = m.holders /\ y.restarts = m.restarts /\ y.steps = m.steps /\ y.ids = m.ids
          /\ y.tip = m.tip /\ y.ready = m.ready /\ y.scheduled = m.scheduled
      BY <2>3, <3>1, Kept DEF Keeps, Fields, StopSlots, LossSlots, ForgetSlots, OfferSlots, PendingSlots
    <3>3. Sound(y)
      BY <1>1, <2>1, <2>3, <3>1, <3>2 DEF Sound
    <3>4. Settling(y) /\ Counted(x, y)
      BY <2>3, <3>1, <3>2, <3>3 DEF Settling, Counted
    <3> QED
      BY <3>4 DEF y
  <2>6. Settling(StartLingering(m)) /\ Counted(x, StartLingering(m))
    <3> DEFINE y == StartLingering(m)
    <3>1. /\ Keeps(m, y, RenderSlots \cup {"owed", "lingering", "run"})
          /\ Heard(y) /\ Current(y) /\ ~y.run.on
      BY <1>1, <2>3, <2>4, LingerHears
    <3> HIDE DEF y
    <3>2. /\ Shape(y) /\ y.holders = m.holders /\ y.restarts = m.restarts /\ y.steps = m.steps /\ y.ids = m.ids
          /\ y.tip = m.tip /\ y.ready = m.ready /\ y.scheduled = m.scheduled
      BY <2>3, <3>1, Kept DEF Keeps, Fields, RenderSlots, OfferSlots, PendingSlots
    <3>3. Sound(y)
      BY <1>1, <2>1, <2>3, <3>1, <3>2 DEF Sound
    <3>4. Settling(y) /\ Counted(x, y)
      BY <2>3, <3>1, <3>2, <3>3 DEF Settling, Counted
    <3> QED
      BY <3>4 DEF y
  <2> QED
    BY <2>5, <2>6
<1> QED
  BY <1>1 DEF Settles

\* The first hold: nobody waited for a session that nobody held.
LEMMA RetainedSettling ==
  ASSUME NEW m, Settling(m), m.holders = 0
  PROVE  Settling(Retained(m))
<1> DEFINE kept == m.lingering
           held == [m EXCEPT !.holders = 1, !.lingering = FALSE, !.up = @ \/ ~kept,
                             !.halted = FALSE, !.restarts = 0, !.error = NoError]
           x == IF ~kept \/ m.owed THEN Start(held) ELSE held
           y == Render(x)
           T == {"holders", "lingering", "up", "halted", "restarts", "error"}
<1>1. Retained(m) = y
  BY DEF Retained
<1>2. Shape(m) /\ Sound(m) /\ Heard(m) /\ Current(m)
  BY DEF Settling
<1>3. Only(m, held, T)
  BY DEF Only
<1>4. held.holders = 1 /\ held.restarts = 0 /\ held.lingering = FALSE
  BY <1>2 DEF Shape, Fields
<1> HIDE DEF held
<1>5. Keeps(m, held, T)
  BY <1>3, OnlyKeeps
<1>6. ~Waits(m) /\ ~m.run.on
  <2>1. m.snap.live => m.holders > 0
    BY <1>2 DEF Current
  <2> QED
    BY <1>2, <2>1 DEF Heard, Await, Sound
<1>7. held.holders \in Nat
  BY <1>4
<1>8. Keeps(held, Start(held), StartSlots) /\ (Shape(held) => (Start(held).scheduled => held.scheduled \/ held.ready))
  BY <1>7, StartHears
<1>9. Keeps(held, x, StartSlots) /\ (Shape(held) => (x.scheduled => held.scheduled \/ held.ready))
  BY <1>8, KeepsSame, KeepsMore
<1> HIDE DEF x, kept
<1>10. /\ Shape(held) /\ held.steps = m.steps /\ held.ids = m.ids /\ held.tip = m.tip /\ held.run = m.run
       /\ held.ready = m.ready /\ held.scheduled = m.scheduled
  BY <1>2, <1>5, Kept DEF Keeps, Fields
<1>11. /\ Shape(x) /\ x.steps = held.steps /\ x.ids = held.ids /\ x.tip = held.tip /\ x.run = held.run
       /\ x.ready = held.ready /\ x.holders = held.holders /\ x.restarts = held.restarts /\ x.lingering = held.lingering
  BY <1>9, <1>10, Kept DEF Keeps, Fields, StartSlots
<1>12. ~Waits(x)
  BY <1>2, <1>5, <1>6, <1>9, <1>10 DEF Keeps, Waits
<1>13. Heard(x)
  BY <1>12 DEF Heard, Await
<1>14. Keeps(x, y, RenderSlots) /\ Heard(y) /\ Current(y)
  BY <1>11, <1>13, RenderHears
<1> HIDE DEF y
<1>15. /\ Shape(y) /\ y.steps = x.steps /\ y.ids = x.ids /\ y.tip = x.tip /\ y.run = x.run /\ y.ready = x.ready
       /\ y.scheduled = x.scheduled /\ y.holders = x.holders /\ y.restarts = x.restarts /\ y.lingering = x.lingering
  BY <1>11, <1>14, Kept DEF Keeps, Fields, RenderSlots, OfferSlots, PendingSlots
<1>16. x.scheduled => m.ready
  BY <1>2, <1>9, <1>10 DEF Sound
<1>17. y.holders \in Nat /\ y.restarts \in Nat /\ ~y.run.on /\ ~y.lingering /\ y.ready = m.ready
  BY <1>4, <1>6, <1>10, <1>11, <1>15
<1>18. Sound(y)
  BY <1>2, <1>10, <1>11, <1>15, <1>16, <1>17 DEF Sound
<1> QED
  BY <1>1, <1>14, <1>15, <1>18 DEF Settling

LEMMA RetrySettling ==
  ASSUME NEW m, Settling(m)
  PROVE  Settling(Render(Start([m EXCEPT !.halted = FALSE, !.restarts = 0, !.error = NoError])))
<1> DEFINE a == [m EXCEPT !.halted = FALSE, !.restarts = 0, !.error = NoError]
           x == Start(a)
           y == Render(x)
<1>1. y = Render(Start([m EXCEPT !.halted = FALSE, !.restarts = 0, !.error = NoError]))
  OBVIOUS
<1>2. Shape(m) /\ Sound(m) /\ Heard(m) /\ Current(m)
  BY DEF Settling
<1>3. Only(m, a, {"halted", "restarts", "error"})
  BY DEF Only
<1>4. a.restarts = 0
  BY <1>2 DEF Shape, Fields
<1> HIDE DEF a
<1>5. Keeps(m, a, {"halted", "restarts", "error"})
  BY <1>3, OnlyKeeps
<1>6. /\ Shape(a) /\ a.holders = m.holders /\ a.snap = m.snap /\ a.steps = m.steps /\ a.ids = m.ids /\ a.tip = m.tip
      /\ a.run = m.run /\ a.ready = m.ready /\ a.scheduled = m.scheduled /\ a.lingering = m.lingering
  BY <1>2, <1>5, Kept DEF Keeps, Fields
<1>7. m.snap.live => m.holders > 0
  BY <1>2 DEF Current
<1>8. a.holders \in Nat /\ (a.snap.live => a.holders # 0)
  BY <1>2, <1>6, <1>7 DEF Sound
<1>9. Await(a)
  BY <1>2, <1>5, StillAwait DEF Heard
<1>10. Keeps(a, x, StartSlots) /\ Heard(x) /\ (x.scheduled => a.scheduled \/ a.ready)
  BY <1>6, <1>8, <1>9, StartHears
<1> HIDE DEF x
<1>11. /\ Shape(x) /\ x.steps = a.steps /\ x.ids = a.ids /\ x.tip = a.tip /\ x.run = a.run
       /\ x.ready = a.ready /\ x.holders = a.holders /\ x.restarts = a.restarts /\ x.lingering = a.lingering
  BY <1>6, <1>10, Kept DEF Keeps, Fields, StartSlots
<1>12. Keeps(x, y, RenderSlots) /\ Heard(y) /\ Current(y)
  BY <1>10, <1>11, RenderHears
<1> HIDE DEF y
<1>13. /\ Shape(y) /\ y.steps = x.steps /\ y.ids = x.ids /\ y.tip = x.tip /\ y.run = x.run /\ y.ready = x.ready
       /\ y.scheduled = x.scheduled /\ y.holders = x.holders /\ y.restarts = x.restarts /\ y.lingering = x.lingering
  BY <1>11, <1>12, Kept DEF Keeps, Fields, RenderSlots, OfferSlots, PendingSlots
<1>14. x.scheduled => m.ready
  BY <1>2, <1>6, <1>10 DEF Sound
<1>15. y.restarts \in Nat
  BY <1>4, <1>11, <1>13
<1>16. Sound(y)
  BY <1>2, <1>6, <1>11, <1>13, <1>14, <1>15 DEF Sound
<1> QED
  BY <1>1, <1>12, <1>13, <1>16 DEF Settling

LEMMA HearSettling ==
  ASSUME NEW x, NEW m, NEW edited \in BOOLEAN, Settling(x), Only(x, m, DocSlots),
         Tree(m.steps, m.ids), m.tip \in Places(m.steps)
  PROVE  /\ Settling(Hear(x, m, edited, FALSE))
         /\ ~edited => Hear(x, m, edited, FALSE).restarts = x.restarts
<1> DEFINE y == Hear(x, m, edited, FALSE)
<1>1. /\ Shape(m) /\ Sound(m) /\ Heard(m) /\ Current(m) /\ m.restarts = x.restarts
  BY DocHears
<1>2. FALSE \in BOOLEAN
  OBVIOUS
<1>3. /\ Keeps(m, y, HearSlots) /\ Heard(y) /\ Sound(y) /\ Current(y)
      /\ ~edited => y.restarts = m.restarts
  BY <1>1, <1>2, HearHears
<1> HIDE DEF y
<1>4. Shape(y)
  BY <1>1, <1>3 DEF Keeps
<1>5. Settling(y)
  BY <1>3, <1>4 DEF Settling
<1> QED
  BY <1>1, <1>3, <1>5 DEF y

LEMMA ReplayTaskSettles ==
  ASSUME NEW m, m.scheduled
  PROVE  Settles(m, Replay([m EXCEPT !.scheduled = FALSE]))
<1> DEFINE a == [m EXCEPT !.scheduled = FALSE]
           y == Replay(a)
<1>1. ASSUME Settling(m)
      PROVE  Settling(y) /\ Counted(m, y)
  <2>1. Shape(m) /\ Sound(m) /\ Heard(m) /\ Current(m)
    BY <1>1 DEF Settling
  <2>2. Only(m, a, {"scheduled"})
    BY DEF Only
  <2>3. ~a.scheduled
    BY <2>1 DEF Shape, Fields
  <2> HIDE DEF a
  <2>4. Keeps(m, a, {"scheduled"})
    BY <2>2, OnlyKeeps
  <2>5. /\ Shape(a) /\ a.holders = m.holders /\ a.restarts = m.restarts /\ a.steps = m.steps /\ a.ids = m.ids
        /\ a.tip = m.tip /\ a.run = m.run /\ a.lingering = m.lingering
    BY <2>1, <2>4, Kept DEF Keeps, Fields
  <2>6. a["ready"] = m["ready"]
    <3>1. "ready" \in Fields \ {"scheduled"}
      BY DEF Fields
    <3> QED
      BY <2>1, <2>4, <3>1, Kept
  <2>7. a.ready
    BY <2>1, <2>6 DEF Sound
  <2>8. Await(a) /\ Current(a)
    BY <2>1, <2>4, StillAwait, StillCurrent DEF Heard
  <2>9. Sound(a)
    BY <2>1, <2>3, <2>5, <2>7 DEF Sound
  <2>10. /\ Keeps(a, y, ReplaySlots \cup {"owed", "error"}) /\ Heard(y) /\ Current(y)
         /\ y.run.on => a.ready /\ a.holders > 0
    BY <2>5, <2>7, <2>8, <2>9, ReplayHears
  <2> HIDE DEF y
  <2>11. /\ Shape(y) /\ y.holders = a.holders /\ y.restarts = a.restarts /\ y.steps = a.steps /\ y.ids = a.ids
         /\ y.tip = a.tip /\ y.ready = a.ready /\ y.scheduled = a.scheduled /\ y.lingering = a.lingering
    BY <2>5, <2>10, Kept DEF Keeps, Fields, ReplaySlots, RenderSlots, OfferSlots, PendingSlots
  <2>12. y.ready /\ ~y.scheduled
    BY <2>3, <2>7, <2>11
  <2>13. Sound(y)
    BY <2>9, <2>10, <2>11, <2>12 DEF Sound
  <2> QED
    BY <2>5, <2>10, <2>11, <2>13 DEF Settling, Counted
<1> QED
  BY <1>1 DEF Settles

LEMMA CrashSettles ==
  ASSUME NEW m, NEW why, m.up
  PROVE  /\ m.holders > 0 => Settles(m, CommitLost(Render(RestartOrHalt(DropWorker(m), why))))
         /\ ~(m.holders > 0) => Settles(m, CommitLost(Stop(DropWorker(m))))
<1> DEFINE g == DropWorker(m)
           b == RestartOrHalt(g, why)
           r == Render(b)
           y == CommitLost(r)
           t == Stop(g)
           z == CommitLost(t)
<1>1. ASSUME Settling(m)
      PROVE  /\ m.holders > 0 => Settling(y) /\ Counted(m, y)
             /\ ~(m.holders > 0) => Settling(z) /\ Counted(m, z)
  <2>1. Shape(m) /\ Sound(m) /\ Heard(m) /\ Current(m)
    BY <1>1 DEF Settling
  <2>2. Keeps(m, g, LossSlots) /\ g.run = NoRun
    BY <2>1, DropWorkerKeeps
  <2> HIDE DEF g
  <2>3. /\ Shape(g) /\ g.holders = m.holders /\ g.restarts = m.restarts /\ g.steps = m.steps /\ g.ids = m.ids
        /\ g.tip = m.tip /\ g.ready = m.ready /\ g.scheduled = m.scheduled /\ g.lingering = m.lingering
        /\ g.snap = m.snap
    BY <2>1, <2>2, Kept DEF Keeps, Fields, LossSlots, ForgetSlots, OfferSlots, PendingSlots
  <2>4. Await(g)
    BY <2>1, <2>2, StillAwait DEF Heard, LossSlots, ForgetSlots, OfferSlots, PendingSlots
  <2>5. m.snap.live => m.holders > 0
    BY <2>1 DEF Current
  <2>6. ASSUME m.holders > 0
        PROVE  Settling(y) /\ Counted(m, y)
    <3>1. g.holders \in Nat /\ (g.snap.live => g.holders # 0)
      BY <2>1, <2>3, <2>6 DEF Sound
    <3>2. Keeps(g, b, RestartSlots) /\ Heard(b) /\ Counted(g, b) /\ (b.scheduled => g.scheduled \/ g.ready)
      BY <2>3, <2>4, <3>1, RestartHears
    <3> HIDE DEF b
    <3>3. /\ Shape(b) /\ b.holders = g.holders /\ b.steps = g.steps /\ b.ids = g.ids
          /\ b.tip = g.tip /\ b.ready = g.ready /\ b.run = g.run /\ b.lingering = g.lingering
      BY <2>3, <3>2, Kept DEF Keeps, Fields, RestartSlots, StartSlots
    <3>4. Sound(b)
      <4>1. b.restarts \in Nat
        BY <2>1, <2>3, <3>2 DEF Counted, Sound
      <4>2. ~b.run.on
        BY <2>2, <3>3 DEF NoRun
      <4>3. b.scheduled => b.ready
        BY <2>1, <2>3, <3>2, <3>3 DEF Sound
      <4> QED
        BY <2>1, <2>3, <3>3, <4>1, <4>2, <4>3 DEF Sound
    <3>5. Keeps(b, r, RenderSlots) /\ Heard(r) /\ Current(r)
      BY <3>2, <3>3, RenderHears
    <3> HIDE DEF r
    <3>6. /\ Shape(r) /\ r.run = b.run /\ r.scheduled = b.scheduled /\ r.restarts = b.restarts
          /\ r.halted = b.halted
      BY <3>3, <3>5, Kept DEF Keeps, Fields, RenderSlots, OfferSlots, PendingSlots
    <3>7. Sound(r)
      BY <3>3, <3>4, <3>5, <3>6, StillSound DEF Sound, RenderSlots, OfferSlots, PendingSlots
    <3>8. Settling(r)
      BY <3>5, <3>6, <3>7 DEF Settling
    <3>9. Mild(r, y)
      <4>1. Keeps(r, y, {"commit", "taken", "queued", "up"})
        BY CommitLostKeeps
      <4> HIDE DEF y
      <4> QED
        BY <4>1, KeepsMild DEF ToolSlots, RenderSlots, OfferSlots, PendingSlots
    <3> HIDE DEF y
    <3>10. Settling(y) /\ y.restarts = r.restarts /\ y.halted = r.halted
      BY <3>6, <3>8, <3>9, MildSettling, MildKept
    <3> QED
      BY <2>3, <3>2, <3>6, <3>10 DEF Counted
  <2>7. ASSUME ~(m.holders > 0)
        PROVE  Settling(z) /\ Counted(m, z)
    <3>1. g.holders = 0
      BY <2>1, <2>3, <2>7 DEF Sound
    <3>2. /\ Keeps(g, t, StopSlots) /\ Heard(t) /\ Current(t) /\ ~t.run.on /\ ~t.lingering
      BY <2>3, <2>4, <3>1, StopHears DEF Await
    <3> HIDE DEF t
    <3>3. /\ Shape(t) /\ t.holders = g.holders /\ t.restarts = g.restarts /\ t.steps = g.steps /\ t.ids = g.ids
          /\ t.tip = g.tip /\ t.ready = g.ready /\ t.scheduled = g.scheduled
      BY <2>3, <3>2, Kept DEF Keeps, Fields, StopSlots, LossSlots, ForgetSlots, OfferSlots, PendingSlots
    <3>4. Sound(t)
      BY <2>1, <2>3, <3>1, <3>2, <3>3 DEF Sound
    <3>5. Settling(t)
      BY <3>2, <3>3, <3>4 DEF Settling
    <3>6. Mild(t, z)
      <4>1. Keeps(t, z, {"commit", "taken", "queued", "up"})
        BY CommitLostKeeps
      <4> HIDE DEF z
      <4> QED
        BY <4>1, KeepsMild DEF ToolSlots, RenderSlots, OfferSlots, PendingSlots
    <3> HIDE DEF z
    <3>7. Settling(z) /\ z.restarts = t.restarts
      BY <3>3, <3>5, <3>6, MildSettling, MildKept
    <3> QED
      BY <2>3, <3>3, <3>7 DEF Counted
  <2> QED
    BY <2>6, <2>7
<1> HIDE DEF y, z
<1>2. (m.holders > 0 => Settles(m, y)) /\ (~(m.holders > 0) => Settles(m, z))
  BY <1>1 DEF Settles
<1> QED
  BY <1>2 DEF y, z

\* A preview's waiter goes on.
LEMMA HoverMild ==
  ASSUME NEW m
  PROVE  Mild(m, [m EXCEPT !.hover = NoHover])
<1> DEFINE y == [m EXCEPT !.hover = NoHover]
<1>1. Only(m, y, {"hover"}) /\ (Shape(m) => y.hover = NoHover)
  BY DEF Only, Shape, Fields
<1> HIDE DEF y
<1>2. "pc" \in DOMAIN NoHover /\ NoHover.pc = "none"
  BY DEF NoHover
<1>3. Shape(m) => y.run = m.run /\ y.commit = m.commit /\ Fields \subseteq DOMAIN y
  BY <1>1 DEF Only, Shape, Fields
<1>4. Keeps(m, y, {"hover"})
  BY <1>1, <1>2, <1>3 DEF Keeps, Shape
<1>5. Mild(m, y)
  BY <1>4, KeepsMild DEF ToolSlots, RenderSlots, OfferSlots, PendingSlots
<1> QED
  BY <1>5 DEF y

----------------------------------------------------------------------------
(* The invariant.                                                          *)

\* Restarts since the user last did anything are at most those counted.
Bounded == streak \in Nat /\ streak <= s.restarts /\ streak <= MAX_RESTARTS
SessionInv == Settling(s) /\ Bounded

LEMMA InitSettling ==
  ASSUME Init
  PROVE  SessionInv
<1>1. /\ s.steps = <<>> /\ s.ids = 0 /\ s.tip = 0 /\ s.holders = 0 /\ s.restarts = 0
      /\ s.run = NoRun /\ s.error = NoError /\ s.commit = NoCommit /\ s.hover = NoHover
      /\ s.lingering = FALSE /\ s.scheduled = FALSE
      /\ s.snap.live = FALSE /\ s.snap.replaying = FALSE /\ s.snap.error = NoError
      /\ Fields \subseteq DOMAIN s /\ streak = 0
  BY DEF Init, Fields
<1>2. /\ NoRun.on = FALSE /\ "on" \in DOMAIN NoRun /\ "pc" \in DOMAIN NoCommit /\ NoCommit.pc = "none"
      /\ "pc" \in DOMAIN NoHover /\ NoHover.pc = "none"
  BY DEF NoRun, NoCommit, NoHover
<1>3. Shape(s)
  BY <1>1, <1>2 DEF Shape, RunShape
<1>4. Tree(<<>>, 0) /\ 0 \in Places(<<>>)
  BY TreeNew DEF Places
<1>5. Sound(s)
  BY <1>1, <1>2, <1>4 DEF Sound
<1>6. Heard(s)
  BY <1>1, <1>2 DEF Heard, Await, Waits
<1>7. Current(s)
  <2>1. (s.holders > 0) = FALSE
    BY <1>1
  <2>2. s.snap.live = (s.holders > 0)
    BY <1>1, <2>1, Zenon
  <2>3. s.snap.replaying = s.run.on
    BY <1>1, <1>2, Zenon
  <2> QED
    BY <1>1, <2>2, <2>3 DEF Current
<1> QED
  BY <1>1, <1>3, <1>5, <1>6, <1>7 DEF SessionInv, Bounded, Settling, MAX_RESTARTS

\* An act that the count of restarts goes by.
LEMMA DidKeepsInv ==
  ASSUME NEW m, SessionInv, Did(m), Settles(s, m)
  PROVE  SessionInv'
<1>1. s' = m /\ Settling(m) /\ (m.steps # s.steps \/ Counted(s, m))
  BY DEF Did, SessionInv, Settles
<1>2. m.restarts \in Nat /\ s.restarts \in Nat
  BY <1>1 DEF SessionInv, Settling, Sound
<1>3. streak' = IF m.steps # s.steps THEN 0
                ELSE IF m.restarts > s.restarts /\ ~m.halted THEN streak + 1 ELSE streak
  BY DEF Did
<1>4. streak \in Nat /\ streak <= s.restarts /\ streak <= MAX_RESTARTS
  BY DEF SessionInv, Bounded
<1>5. streak' \in Nat /\ streak' <= m.restarts /\ streak' <= MAX_RESTARTS
  <2>1. CASE m.steps # s.steps
    BY <1>2, <1>3, <2>1 DEF MAX_RESTARTS
  <2>2. CASE m.steps = s.steps
    BY <1>1, <1>2, <1>3, <1>4, <2>2 DEF Counted, MAX_RESTARTS
  <2> QED
    BY <2>1, <2>2
<1> QED
  BY <1>1, <1>5 DEF SessionInv, Bounded

\* What the user does about them begins the count anew.
LEMMA UserDidKeepsInv ==
  ASSUME NEW m, UserDid(m), Settling(m)
  PROVE  SessionInv'
<1>1. s' = m /\ streak' = 0
  BY DEF UserDid
<1>2. m.restarts \in Nat
  BY DEF Settling, Sound
<1> QED
  BY <1>1, <1>2 DEF SessionInv, Bounded, MAX_RESTARTS

LEMMA LoadKeepsInv ==
  ASSUME SessionInv, Load
  PROVE  SessionInv'
<1>1. PICK steps \in {<<>>} \cup {<<[id |-> s.ids + 1, parent |-> 0, op |-> op]>> : op \in Ops} :
        UserDid(Hear(s, [s EXCEPT !.load = @ + 1, !.steps = steps, !.ids = @ + Len(steps),
                                  !.cursor = 0, !.tip = IF steps = <<>> THEN 0 ELSE s.ids + 1], TRUE, FALSE))
  BY DEF Load
<1> DEFINE tip == IF steps = <<>> THEN 0 ELSE s.ids + 1
           m == [s EXCEPT !.load = @ + 1, !.steps = steps, !.ids = @ + Len(steps), !.cursor = 0, !.tip = tip]
<1>2. UserDid(Hear(s, m, TRUE, FALSE))
  BY <1>1
<1>3. Settling(s) /\ Shape(s) /\ s.ids \in Nat
  BY DEF SessionInv, Settling, Sound, Tree
<1>4. Tree(steps, s.ids + Len(steps)) /\ tip \in Places(steps)
  <2>1. CASE steps = <<>>
    <3>1. Tree(<<>>, s.ids) /\ Len(<<>>) = 0
      BY <1>3, TreeNew
    <3>2. s.ids + 0 = s.ids
      BY <1>3
    <3> QED
      BY <2>1, <3>1, <3>2 DEF Places
  <2>2. CASE steps # <<>>
    <3>1. PICK op \in Ops : steps = <<[id |-> s.ids + 1, parent |-> 0, op |-> op]>>
      BY <1>1, <2>2
    <3> DEFINE one == <<[id |-> s.ids + 1, parent |-> 0, op |-> op]>>
    <3>2. Tree(one, s.ids + 1) /\ s.ids + 1 \in Places(one) /\ Len(one) = 1
      BY <1>3, TreeNew
    <3>3. steps = one
      BY <3>1
    <3> HIDE DEF one
    <3> QED
      BY <2>2, <3>2, <3>3
  <2> QED
    BY <2>1, <2>2
<1> HIDE DEF tip
<1>5. Only(s, m, DocSlots)
  BY DEF Only, DocSlots
<1>6. m.steps = steps /\ m.ids = s.ids + Len(steps) /\ m.tip = tip
  BY <1>3 DEF Shape, Fields
<1> HIDE DEF m
<1>7. TRUE \in BOOLEAN
  OBVIOUS
<1>8. Settling(Hear(s, m, TRUE, FALSE))
  BY <1>3, <1>4, <1>5, <1>6, <1>7, HearSettling
<1> QED
  BY <1>2, <1>8, UserDidKeepsInv

LEMMA UndoKeepsInv ==
  ASSUME SessionInv, Undo
  PROVE  SessionInv'
<1> DEFINE gone == Last(s.steps)
           off(id) == IF id = gone.id THEN gone.parent ELSE id
           cursor == off(s.cursor)
           tip == off(s.tip)
           front == Front(s.steps)
           m == [s EXCEPT !.steps = front, !.cursor = cursor, !.tip = tip]
<1>1. UserDid(Hear(s, m, TRUE, FALSE)) /\ s.steps # <<>>
  BY DEF Undo
<1>2. Settling(s) /\ Shape(s) /\ Tree(s.steps, s.ids) /\ s.tip \in Places(s.steps)
  BY DEF SessionInv, Settling, Sound
<1>3. Tree(front, s.ids) /\ tip \in Places(front)
  BY <1>1, <1>2, TreeFront
<1> HIDE DEF front, cursor, tip
<1>4. Only(s, m, DocSlots)
  BY DEF Only, DocSlots
<1>5. m.steps = front /\ m.ids = s.ids /\ m.tip = tip
  BY <1>2 DEF Shape, Fields
<1> HIDE DEF m
<1>6. TRUE \in BOOLEAN
  OBVIOUS
<1>7. Settling(Hear(s, m, TRUE, FALSE))
  BY <1>2, <1>3, <1>4, <1>5, <1>6, HearSettling
<1> QED
  BY <1>1, <1>7, UserDidKeepsInv

LEMMA RewriteKeepsInv ==
  ASSUME SessionInv, Rewrite
  PROVE  SessionInv'
<1>1. PICK i \in DOMAIN s.steps, op \in Ops : UserDid(Hear(s, [s EXCEPT !.steps[i].op = op], TRUE, FALSE))
  BY DEF Rewrite
<1> DEFINE steps == [s.steps EXCEPT ![i].op = op]
           m == [s EXCEPT !.steps = steps]
<1>2. [s EXCEPT !.steps[i].op = op] = m
  OBVIOUS
<1>3. Settling(s) /\ Shape(s) /\ Tree(s.steps, s.ids) /\ s.tip \in Places(s.steps)
  BY DEF SessionInv, Settling, Sound
<1>4. Tree(steps, s.ids) /\ Places(steps) = Places(s.steps)
  BY <1>3, TreeRewritten
<1> HIDE DEF steps
<1>5. Only(s, m, DocSlots)
  BY DEF Only, DocSlots
<1>6. m.steps = steps /\ m.ids = s.ids /\ m.tip = s.tip
  BY <1>3 DEF Shape, Fields
<1>7. UserDid(Hear(s, m, TRUE, FALSE))
  BY <1>1, <1>2
<1> HIDE DEF m
<1>8. TRUE \in BOOLEAN
  OBVIOUS
<1>9. Settling(Hear(s, m, TRUE, FALSE))
  BY <1>3, <1>4, <1>5, <1>6, <1>8, HearSettling
<1> QED
  BY <1>7, <1>9, UserDidKeepsInv

LEMMA AnnotateKeepsInv ==
  ASSUME SessionInv, Annotate
  PROVE  SessionInv'
<1>1. UserDid(Hear(s, s, TRUE, FALSE))
  BY DEF Annotate
<1>2. Settling(s) /\ Tree(s.steps, s.ids) /\ s.tip \in Places(s.steps) /\ Only(s, s, DocSlots) /\ TRUE \in BOOLEAN
  BY DEF SessionInv, Settling, Sound, Only
<1>3. Settling(Hear(s, s, TRUE, FALSE))
  BY <1>2, HearSettling
<1> QED
  BY <1>1, <1>3, UserDidKeepsInv

LEMMA MoveCursorKeepsInv ==
  ASSUME SessionInv, MoveCursor
  PROVE  SessionInv'
<1>1. PICK id \in ({0} \cup IdsOf(s.steps)) \ {s.cursor} :
        Did(Hear(s, [s EXCEPT !.cursor = id,
                      !.tip = IF id = 0 \/ id \in ToSet(LineOf(s.steps, s.tip)) THEN @ ELSE id], FALSE, FALSE))
  BY DEF MoveCursor
<1> DEFINE tip == IF id = 0 \/ id \in ToSet(LineOf(s.steps, s.tip)) THEN s.tip ELSE id
           m == [s EXCEPT !.cursor = id, !.tip = tip]
           no == FALSE
           y == Hear(s, m, no, FALSE)
<1>2. Did(y)
  BY <1>1
<1>3. Settling(s) /\ Shape(s) /\ Tree(s.steps, s.ids) /\ s.tip \in Places(s.steps)
  BY DEF SessionInv, Settling, Sound
<1>4. tip \in Places(s.steps)
  BY <1>3 DEF Places
<1> HIDE DEF tip
<1>5. Only(s, m, DocSlots)
  BY DEF Only, DocSlots
<1>6. m.steps = s.steps /\ m.ids = s.ids /\ m.tip = tip
  BY <1>3 DEF Shape, Fields
<1>7. no \in BOOLEAN /\ ~no
  OBVIOUS
<1> HIDE DEF m, no
<1>8. Settling(y) /\ y.restarts = s.restarts
  BY <1>3, <1>4, <1>5, <1>6, <1>7, HearSettling
<1> HIDE DEF y
<1>9. Settles(s, y)
  BY <1>8 DEF Settles, Counted
<1> QED
  BY <1>2, <1>9, DidKeepsInv

LEMMA ServeKeepsInv ==
  ASSUME SessionInv, Serve
  PROVE  SessionInv'
<1> DEFINE h == Head(s.inbox)
           folds == h.kind \in {"replay", "preview", "fold", "orders"}
           sheet == h.kind = "replay" /\ h.path = <<>>
           st == [n |-> s.landed + 1, gen |-> s.gen, path |-> IF sheet THEN <<>> ELSE Append(h.on.path, h.op)]
           p == Popped(s)
           lands == folds /\ h.op \notin Refused
           l == [p EXCEPT !.landed = @ + 1, !.table = @ \cup {st}]
           m == IF lands THEN l ELSE p
           answer == IF lands THEN st ELSE IF folds THEN Broken ELSE NoState
<1>1. Did(HearAnswer(m, h, answer))
  BY DEF Serve
<1>2. Mild(s, p)
  BY PoppedMild
<1> HIDE DEF p, st, h, lands
<1>3. Only(p, l, {"landed", "table"})
  BY DEF Only
<1>4. Mild(p, l)
  BY <1>3, OnlyMild DEF ToolSlots, RenderSlots, OfferSlots, PendingSlots
<1> HIDE DEF l, answer
<1>5. Mild(s, m)
  BY <1>2, <1>4, MildThen, MildSame
<1> HIDE DEF m
<1>6. Settles(s, HearAnswer(m, h, answer))
  BY <1>5, HearAnswerSettles, MildSettlesThen
<1> QED
  BY <1>1, <1>6, DidKeepsInv

LEMMA ServeFailureKeepsInv ==
  ASSUME SessionInv, ServeFailure
  PROVE  SessionInv'
<1> DEFINE h == Head(s.inbox)
           p == Popped(s)
<1>1. Did(HearFailure(p, h)) /\ h.kind \in Failing
  BY DEF ServeFailure
<1>2. Mild(s, p)
  BY PoppedMild
<1> HIDE DEF p, h
<1>3. h.kind \in {"version", "replay", "preview", "fold"}
  BY <1>1, FailingAssumption
<1>4. Settles(p, HearFailure(p, h))
  BY <1>3, HearFailureSettles
<1>5. Settles(s, HearFailure(p, h))
  BY <1>2, <1>4, MildSettlesThen
<1> QED
  BY <1>1, <1>5, DidKeepsInv

LEMMA ServeUnknownKeepsInv ==
  ASSUME SessionInv, ServeUnknown
  PROVE  SessionInv'
<1> DEFINE h == Head(s.inbox)
           p == Popped(s)
<1>1. Did(HearUnknown(p, h))
  BY DEF ServeUnknown
<1>2. Mild(s, p)
  BY PoppedMild
<1> HIDE DEF p, h
<1>3. Settles(s, HearUnknown(p, h))
  BY <1>2, HearUnknownSettles, MildSettlesThen
<1> QED
  BY <1>1, <1>3, DidKeepsInv

LEMMA ResumeKeepsInv ==
  ASSUME SessionInv, Resume
  PROVE  SessionInv'
<1> DEFINE o == [s EXCEPT !.hover = NoHover]
           x == PreviewFrom(o, s.hover.from, s.hover.op)
           y == Commit(s, s.commit.from, s.commit.op)
           z == CommitTaking(s, s.commit.from, s.commit.op)
<1>1. Did(x) \/ Did(y) \/ Did(z)
  BY DEF Resume
<1>2. Mild(s, o)
  BY HoverMild
<1> HIDE DEF o
<1>3. Mild(o, x)
  BY PreviewFromMild
<1> HIDE DEF x
<1>4. Settles(s, x)
  BY <1>2, <1>3, MildThen, MildSettles
<1>5. Settles(s, y) /\ Settles(s, z)
  BY CommitSettles, CommitTakingSettles
<1> HIDE DEF y, z
<1> QED
  BY <1>1, <1>4, <1>5, DidKeepsInv

LEMMA EngineCrashedKeepsInv ==
  ASSUME SessionInv, EngineCrashed
  PROVE  SessionInv'
<1> DEFINE y == CommitLost(Render(RestartOrHalt(DropWorker(s), KeptStopping)))
           z == CommitLost(Stop(DropWorker(s)))
<1>1. s.up /\ Did(IF s.holders > 0 THEN y ELSE z)
  BY DEF EngineCrashed
<1>2. (s.holders > 0 => Settles(s, y)) /\ (~(s.holders > 0) => Settles(s, z))
  BY <1>1, CrashSettles
<1> HIDE DEF y, z
<1> QED
  BY <1>1, <1>2, DidKeepsInv

LEMMA HoldsKeepInv ==
  ASSUME SessionInv, Retain \/ RetainAgain \/ ReleaseHold \/ LingerEnds \/ Retry
  PROVE  SessionInv'
<1>1. Settling(s) /\ Sound(s) /\ Shape(s)
  BY DEF SessionInv, Settling
<1>2. CASE Retain
  BY <1>1, <1>2, RetainedSettling, UserDidKeepsInv DEF Retain
<1>3. CASE RetainAgain
  <2> DEFINE y == [s EXCEPT !.holders = 2]
  <2>1. s.holders = 1 /\ Did(y)
    BY <1>3 DEF RetainAgain
  <2>2. Only(s, y, {"holders"}) /\ y.holders = 2
    BY <1>1 DEF Only, Shape, Fields
  <2> HIDE DEF y
  <2>3. Settles(s, y)
    BY <2>1, <2>2, HoldersSettles
  <2> QED
    BY <2>1, <2>3, DidKeepsInv
<1>4. CASE ReleaseHold
  <2> DEFINE m == [s EXCEPT !.holders = @ - 1]
  <2>1. s.holders > 0 /\ Did(IF m.holders > 0 THEN m ELSE IF Lingers /\ ~m.halted THEN StartLingering(m) ELSE Stop(m))
    BY <1>4 DEF ReleaseHold
  <2>2. Only(s, m, {"holders"}) /\ m.holders = s.holders - 1
    BY <1>1 DEF Only, Shape, Fields
  <2> HIDE DEF m
  <2>3. m.holders \in Nat
    BY <1>1, <2>1, <2>2 DEF Sound
  <2>4. CASE m.holders > 0
    <3>1. Settles(s, m)
      BY <2>1, <2>2, <2>3, <2>4, HoldersSettles
    <3> QED
      BY <2>1, <2>4, <3>1, DidKeepsInv
  <2>5. CASE ~(m.holders > 0)
    <3>1. m.holders = 0
      BY <2>3, <2>5
    <3>2. Settles(s, Stop(m)) /\ Settles(s, StartLingering(m))
      BY <2>2, <3>1, LastHoldSettles
    <3>3. Did(StartLingering(m)) \/ Did(Stop(m))
      BY <2>1, <2>5
    <3> QED
      BY <3>2, <3>3, DidKeepsInv
  <2> QED
    BY <2>4, <2>5
<1>5. CASE LingerEnds
  <2>1. Did(Stop(s)) /\ s.holders = 0
    BY <1>1, <1>5 DEF LingerEnds, Sound
  <2>2. Only(s, s, {"holders"})
    BY DEF Only
  <2>3. Settles(s, Stop(s))
    BY <2>1, <2>2, LastHoldSettles
  <2> QED
    BY <2>1, <2>3, DidKeepsInv
<1>6. CASE Retry
  BY <1>1, <1>6, RetrySettling, UserDidKeepsInv DEF Retry
<1> QED
  BY <1>2, <1>3, <1>4, <1>5, <1>6

LEMMA ToolsKeepInv ==
  ASSUME SessionInv, Preview \/ ResolveOrders \/ CommitStep \/ CancelTool
  PROVE  SessionInv'
<1>1. CASE Preview
  BY <1>1, PreviewNowSettles, DidKeepsInv DEF Preview
<1>2. CASE ResolveOrders
  <2>1. PICK op \in Ops : Did(Ask(s, "orders", FoldingFrom(s).from.parent, op, <<>>))
    BY <1>2 DEF ResolveOrders
  <2> QED
    BY <2>1, AskMild, MildSettles, DidKeepsInv
<1>3. CASE CommitStep
  BY <1>3, CommitNowSettles, DidKeepsInv DEF CommitStep
<1>4. CASE CancelTool
  <2> DEFINE p == DropPending(s)
             o == DropOffer(p)
             y == Render(o)
  <2>1. Did(y)
    BY <1>4 DEF CancelTool
  <2>2. Mild(s, p)
    BY ReleasesMild
  <2> HIDE DEF p
  <2>3. Mild(p, o)
    BY ReleasesMild
  <2> HIDE DEF o
  <2>4. Mild(o, y)
    BY RenderMild
  <2> HIDE DEF y
  <2>5. Settles(s, y)
    BY <2>2, <2>3, <2>4, MildThen, MildSettles
  <2> QED
    BY <2>1, <2>5, DidKeepsInv
<1> QED
  BY <1>1, <1>2, <1>3, <1>4

LEMMA NextKeepsInv ==
  ASSUME SessionInv, [Next]_vars
  PROVE  SessionInv'
<1>1. CASE UserActs
  BY <1>1, HoldsKeepInv, ToolsKeepInv, LoadKeepsInv, UndoKeepsInv, RewriteKeepsInv, AnnotateKeepsInv,
     MoveCursorKeepsInv DEF UserActs
<1>2. CASE Resume
  BY <1>2, ResumeKeepsInv
<1>3. CASE ReplayTask
  BY <1>3, ReplayTaskSettles, DidKeepsInv DEF ReplayTask
<1>4. CASE Serve \/ ServeFailure \/ ServeUnknown
  BY <1>4, ServeKeepsInv, ServeFailureKeepsInv, ServeUnknownKeepsInv
<1>5. CASE EngineCrashed
  BY <1>5, EngineCrashedKeepsInv
<1>6. CASE UNCHANGED vars
  BY <1>6 DEF vars, SessionInv, Bounded
<1> QED
  BY <1>1, <1>2, <1>3, <1>4, <1>5, <1>6 DEF Next

\* What a publish told those who wait is what they wait on, a run and its surfaces go
\* together, and the restarts a run of crashes was given are among those counted: at every
\* task, whatever the user, the document, the worker and its losses did before.
THEOREM SessionIsSettling == Spec => []SessionInv
<1>1. Init => SessionInv
  BY InitSettling
<1>2. SessionInv /\ [Next]_vars => SessionInv'
  BY NextKeepsInv
<1> QED
  BY <1>1, <1>2, PTL DEF Spec

\* However often the engine crashes, and whatever documents, holds and answers come between,
\* it is restarted at most MAX_RESTARTS times before the user does something about it
\* (restartOrHalt counts before it looks, and only the user's acts forgive).
THEOREM RestartsAreBounded == Spec => []RestartsBounded
<1>1. SessionInv => RestartsBounded
  BY DEF SessionInv, Bounded, RestartsBounded
<1> QED
  BY <1>1, SessionIsSettling, PTL

\* Whoever awaits a replay before folding - a commit or a preview - awaits one that is under
\* way, or about to start, and whose end will be published; or the session gave up and says so.
THEOREM NobodyWaitsForNothing == Spec => []WaitersAreWoken
<1>1. SessionInv => WaitersAreWoken
  <2>1. Heard(s) => WaitersAreWoken
    BY DEF Heard, Await, Waits, Going, WaitersAreWoken, Landing
  <2> QED
    BY <2>1 DEF SessionInv, Settling
<1> QED
  BY <1>1, SessionIsSettling, PTL

----------------------------------------------------------------------------
(* Who owns a state.                                                       *)

OwnFields == {"up", "inbox", "table", "stray", "landed", "gen", "cache", "adoptions",
              "pending", "taken", "offer", "queued", "commit", "hover", "ids", "run", "progress"}
MailFields == {"kind", "on", "op", "path", "wanted"}

OwnShape(m) ==
  /\ OwnFields \subseteq DOMAIN m /\ m.landed \in Nat /\ m.gen \in Nat
  /\ \A a \in m.adoptions : "state" \in DOMAIN a
  /\ {"pc", "op", "from", "state"} \subseteq DOMAIN m.commit /\ {"pc", "op", "from"} \subseteq DOMAIN m.hover
  /\ "status" \in DOMAIN m.pending
  /\ IsSeq(m.inbox) /\ \A i \in DOMAIN m.inbox : MailFields \subseteq DOMAIN m.inbox[i]

\* What the engine holds and has not been told to let go of, and who wants it.
Leaving(m) == {m.inbox[i].on : i \in {i \in DOMAIN m.inbox : m.inbox[i].kind = "release"}}
Free(m) == m.table \ (Leaving(m) \cup m.stray)
InCache(m) == {st \in {m.cache[p] : p \in DOMAIN m.cache} : Landed(st)}
InOffers(m) == {a.state : a \in m.adoptions}
InPreview(m) == {st \in {m.pending.state} : Landed(st)} \cup {st \in {m.taken} : Landed(st) /\ st.gen = m.gen}
InOrders(m) == {st \in {m.offer.state} : Landed(st)}

Split(F, C, A, P, O, X) ==
  /\ F = C \cup A \cup P \cup O \cup X
  /\ C \cap A = {} /\ (C \cup A) \cap (P \cup O) = {} /\ P \cap O = {}
  /\ X \cap (C \cup A \cup P \cup O) = {}

\* All is owned but X, which is on its way to an owner; U is the preview a commit has
\* taken, once it is somebody else's.
Balanced(m, X, U) ==
  /\ U \subseteq {m.taken}
  /\ Split(Free(m), InCache(m), InOffers(m), InPreview(m) \ U, InOrders(m), X)
  /\ \A a, b \in m.adoptions : a.state = b.state => a = b
  /\ IsFiniteSet(m.table) /\ \A st \in m.table : st.gen = m.gen /\ st.n \in 1..m.landed
  /\ \A st \in Leaving(m) \cup m.stray : st.n \in 1..m.landed

\* The messages on their way, and what the session remembers of them.
Posts(m, kind) == {i \in DOMAIN m.inbox : m.inbox[i].kind = kind}
Wanted(m, kind) == {i \in Posts(m, kind) : m.inbox[i].wanted}

PreviewMail(m) ==
  /\ \A i, j \in Wanted(m, "preview") : i = j
  /\ Wanted(m, "preview") # {} => m.queued = NoRequest /\ m.pending.status # "landed"
  /\ m.queued # NoRequest => m.pending.status # "landed" /\ Landed(m.queued.on)
  /\ \A i \in Posts(m, "preview") \cup Posts(m, "orders") : Landed(m.inbox[i].on)

ReplayMail(m) ==
  \A i \in Wanted(m, "replay") :
    m.inbox[i].path \notin DOMAIN m.cache /\ \A j \in Wanted(m, "replay") : m.inbox[i].path = m.inbox[j].path => i = j

NoFold(m) == Posts(m, "fold") = {}
FoldMail(m) == (~NoFold(m) => m.commit.pc = "fold") /\ \A i, j \in Posts(m, "fold") : i = j

\* The engine has let go of what it was told to after what it last answered.
AsksFirst(m) == 1 \in DOMAIN m.inbox => m.inbox[1].kind # "release"

PendingOK(m) ==
  /\ m.pending.status = "landed" <=> Landed(m.pending.state)
  /\ m.pending.status = "landed" => Landed(m.pending.parent) /\ m.pending.parent # m.pending.state

OfferOK(m) == Landed(m.offer.state) => Landed(m.offer.parent) /\ m.offer.parent # m.offer.state

FromOK(from) == from # NoFrom => Landed(from.parent)

Mail(m) ==
  /\ ~m.up => m.inbox = <<>> /\ m.table = {}
  /\ PreviewMail(m) /\ ReplayMail(m) /\ FoldMail(m) /\ AsksFirst(m) /\ PendingOK(m) /\ OfferOK(m)
  /\ FromOK(m.commit.from) /\ FromOK(m.hover.from)
  /\ Landed(m.taken) => m.taken.gen \in Nat /\ m.taken.gen <= m.gen

Owned(m, X, U) == OwnShape(m) /\ Balanced(m, X, U) /\ Mail(m)

\* What a commit has taken it still awaits the fingerprint of.
Taking(m) ==
  IF m.commit.pc = "print" THEN m.taken = m.commit.state /\ Landed(m.taken) ELSE m.taken = NoState
TakenNow(m) == Landed(m.taken) => m.taken.gen = m.gen

\* What has been landed for steps is of steps there have been.
Placed(m) ==
  /\ "made" \in DOMAIN m.progress /\ DOMAIN m.progress.made \subseteq 0..m.ids
  /\ "on" \in DOMAIN m.run
  /\ m.run.on => /\ {"made", "order"} \subseteq DOMAIN m.run /\ DOMAIN m.run.made \subseteq 0..m.ids
                 /\ \A k \in DOMAIN m.run.order : m.run.order[k] \in 0..m.ids

\* Whatever is owned before is after, and nothing is landed.
Carried(x, y) ==
  /\ y.table \subseteq x.table /\ y.taken = x.taken /\ y.gen = x.gen
  /\ y.pending \in {x.pending, Idle} /\ y.queued \in {x.queued, NoRequest}
  /\ (Wanted(x, "preview") = {} => Wanted(y, "preview") = {}) /\ (NoFold(x) => NoFold(y))
  /\ (Taking(x) => Taking(y)) /\ (Placed(x) => Placed(y))
Minds(x, y) == \A X, U : Owned(x, X, U) => Owned(y, X, U) /\ Carried(x, y)

LEMMA MindsSame == \A x : Minds(x, x)
  BY DEF Minds, Carried

LEMMA MindsThen ==
  ASSUME NEW x, NEW y, NEW z, Minds(x, y), Minds(y, z)
  PROVE  Minds(x, z)
<1>1. ASSUME Carried(x, y), Carried(y, z)
      PROVE  Carried(x, z)
  BY <1>1 DEF Carried
<1> QED
  BY <1>1 DEF Minds

\* The fields of owners are as they were, and the runs are of the same steps.
LEMMA RunMinds ==
  ASSUME NEW x, NEW y, NEW T, Only(x, y, T), T \cap OwnFields \subseteq {"ids", "run", "progress"},
         OwnShape(x) /\ Placed(x) => Placed(y)
  PROVE  Minds(x, y)
<1> SUFFICES ASSUME OwnShape(x)
             PROVE  \A X, U : Owned(x, X, U) => Owned(y, X, U) /\ Carried(x, y)
  BY DEF Minds, Owned
<1>1. DOMAIN y = DOMAIN x /\ \A f \in OwnFields \ {"ids", "run", "progress"} : y[f] = x[f]
  BY DEF Only, OwnShape
<1>2. /\ y.up = x.up /\ y.inbox = x.inbox /\ y.table = x.table /\ y.stray = x.stray /\ y.landed = x.landed
      /\ y.gen = x.gen /\ y.cache = x.cache /\ y.adoptions = x.adoptions /\ y.pending = x.pending
      /\ y.taken = x.taken /\ y.offer = x.offer /\ y.queued = x.queued /\ y.commit = x.commit /\ y.hover = x.hover
  BY <1>1 DEF OwnFields
<1>3. OwnShape(y)
  BY <1>1, <1>2 DEF OwnShape
<1>4. \A U, X : Balanced(x, X, U) => Balanced(y, X, U)
  BY <1>2 DEF Balanced, Free, Leaving, InCache, InOffers, InPreview, InOrders
<1>5. Mail(x) => Mail(y)
  BY <1>2 DEF Mail, PreviewMail, ReplayMail, FoldMail, NoFold, AsksFirst, PendingOK, OfferOK, Posts, Wanted
<1>6. Carried(x, y)
  BY <1>2 DEF Carried, Taking, NoFold, Posts, Wanted
<1> QED
  BY <1>3, <1>4, <1>5, <1>6 DEF Owned

LEMMA OnlyMinds ==
  ASSUME NEW x, NEW y, NEW T, Only(x, y, T), T \cap OwnFields = {}
  PROVE  Minds(x, y)
<1>1. OwnShape(x) => y.ids = x.ids /\ y.run = x.run /\ y.progress = x.progress
  BY DEF Only, OwnShape, OwnFields
<1>2. OwnShape(x) /\ Placed(x) => Placed(y)
  BY <1>1 DEF Placed
<1> QED
  BY <1>2, RunMinds

----------------------------------------------------------------------------
(* The inbox.                                                              *)

\* What an injective sequence of a finite set has is the set.
LEMMA SetInSeq ==
  ASSUME NEW S, IsFiniteSet(S)
  PROVE  /\ SetToSeq(S) \in [1..Cardinality(S) -> S] /\ Cardinality(S) \in Nat
         /\ {SetToSeq(S)[i] : i \in DOMAIN SetToSeq(S)} = S
<1> DEFINE n == Cardinality(S)
           I == 1..n
<1>1. n \in Nat /\ ExistsBijection(I, S)
  BY FS_CardinalityType
<1>2. PICK f \in [I -> S] : IsInjective(f)
  BY <1>1 DEF ExistsBijection, Bijection, Injection
<1>3. SetToSeq(S) \in [I -> S] /\ IsInjective(SetToSeq(S))
  BY <1>2 DEF SetToSeq
<1>4. SetToSeq(S) \in Injection(I, S)
  BY <1>3 DEF Injection
<1>5. IsFiniteSet(I) /\ Cardinality(I) = n
  <2> HIDE DEF n
  <2>1. 1 \in Int /\ n \in Int
    BY <1>1
  <2>2. IsFiniteSet(1..n) /\ Cardinality(1..n) = IF 1 > n THEN 0 ELSE n - 1 + 1
    BY <2>1, FS_Interval
  <2> QED
    BY <1>1, <2>2
<1>6. SetToSeq(S) \in Surjection(I, S)
  BY <1>4, <1>5, FS_Injection
<1> QED
  BY <1>1, <1>3, <1>6 DEF Surjection

\* The messages of y, but for releases, are of x, in their order, and wanted only if they were.
Fewer(x, y) ==
  /\ x.inbox = <<>> => y.inbox = <<>>
  /\ AsksFirst(x) => AsksFirst(y)
  /\ \E k \in Nat : \A i \in DOMAIN y.inbox : y.inbox[i].kind # "release" =>
       /\ i + k \in DOMAIN x.inbox
       /\ y.inbox[i].kind = x.inbox[i + k].kind /\ y.inbox[i].on = x.inbox[i + k].on
       /\ y.inbox[i].op = x.inbox[i + k].op /\ y.inbox[i].path = x.inbox[i + k].path
       /\ y.inbox[i].wanted => x.inbox[i + k].wanted

OfEngine(m, sts) == {st \in sts : Landed(st) /\ st.gen = m.gen}

\* A release takes what it names from what is free, and nothing else.
LEMMA ReleaseAllFrees ==
  ASSUME NEW m, NEW sts, OwnShape(m), IsFiniteSet(OfEngine(m, sts))
  PROVE  LET y == ReleaseAll(m, sts) IN
         /\ Only(m, y, {"table", "inbox"}) /\ OwnShape(y) /\ Fewer(m, y)
         /\ y.table \subseteq m.table /\ Free(y) = Free(m) \ OfEngine(m, sts)
         /\ Leaving(y) \subseteq Leaving(m) \cup OfEngine(m, sts)
<1> DEFINE held == OfEngine(m, sts)
           q == SetToSeq(held)
           letting == [i \in DOMAIN q |->
                        [kind |-> "release", on |-> q[i], op |-> "none", path |-> <<>>, wanted |-> FALSE]]
           y == ReleaseAll(m, sts)
<1>1. y = IF m.inbox = <<>> THEN [m EXCEPT !.table = @ \ held] ELSE [m EXCEPT !.inbox = @ \o letting]
  BY DEF ReleaseAll, OfEngine
<1>2. q \in [1..Cardinality(held) -> held] /\ Cardinality(held) \in Nat /\ {q[i] : i \in DOMAIN q} = held
  BY SetInSeq
<1> HIDE DEF held, q, y
<1>3. CASE m.inbox = <<>>
  <2>1. Only(m, y, {"table", "inbox"})
    BY <1>1, <1>3 DEF Only
  <2>2. y.inbox = m.inbox /\ y.table = m.table \ held /\ y.stray = m.stray
    BY <1>1, <1>3 DEF OwnShape, OwnFields
  <2>3. \A f \in OwnFields \ {"table"} : y[f] = m[f]
    BY <1>1, <1>3 DEF OwnShape
  <2>4. OwnShape(y)
    BY <2>1, <2>2, <2>3 DEF OwnShape, Only, OwnFields
  <2>5. Leaving(y) = Leaving(m) /\ Free(y) = Free(m) \ held
    BY <2>2 DEF Free, Leaving
  <2>6. Fewer(m, y)
    BY <1>3, <2>2 DEF Fewer, AsksFirst
  <2> QED
    BY <2>1, <2>2, <2>4, <2>5, <2>6 DEF y, held
<1>4. CASE m.inbox # <<>>
  <2>1. Only(m, y, {"table", "inbox"})
    BY <1>1, <1>4 DEF Only
  <2>2. y.inbox = m.inbox \o letting /\ y.table = m.table /\ y.stray = m.stray
    BY <1>1, <1>4 DEF OwnShape, OwnFields
  <2>3. \A f \in OwnFields \ {"inbox"} : y[f] = m[f]
    BY <1>1, <1>4 DEF OwnShape
  <2> DEFINE n == Len(m.inbox)
             k == Cardinality(held)
  <2>4. n \in Nat /\ DOMAIN m.inbox = 1..n /\ k \in Nat /\ DOMAIN letting = 1..k
    BY <1>2, SeqDomain DEF OwnShape
  <2>5. \A i \in 1..k : /\ letting[i].kind = "release" /\ letting[i].on = q[i] /\ q[i] \in held
                        /\ MailFields \subseteq DOMAIN letting[i]
    BY <1>2 DEF MailFields
  <2> DEFINE E == {m.inbox[i] : i \in DOMAIN m.inbox} \cup {letting[i] : i \in DOMAIN letting}
  <2>6. m.inbox \in Seq(E) /\ letting \in Seq(E) /\ Len(letting) = k
    <3>1. letting \in [1..k -> E]
      BY <2>4
    <3>2. m.inbox \in [1..n -> E]
      BY <2>4 DEF OwnShape, IsSeq
    <3> HIDE DEF E, letting
    <3> QED
      BY <2>4, <3>1, <3>2
  <2> HIDE DEF letting
  <2>7. /\ y.inbox \in Seq(E) /\ Len(y.inbox) = n + k /\ DOMAIN y.inbox = 1..(n + k)
        /\ \A i \in 1..(n + k) : y.inbox[i] = IF i <= n THEN m.inbox[i] ELSE letting[i - n]
    <3> HIDE DEF E
    <3> DEFINE p == m.inbox
               r == letting
    <3> HIDE DEF p, r
    <3>0. p \in Seq(E) /\ r \in Seq(E) /\ y.inbox = p \o r
      BY <2>2, <2>6 DEF p, r
    <3>1. /\ y.inbox \in Seq(E) /\ Len(y.inbox) = Len(p) + Len(r)
          /\ \A i \in 1..(Len(p) + Len(r)) : y.inbox[i] = IF i <= Len(p) THEN p[i] ELSE r[i - Len(p)]
      BY <3>0, ConcatProperties
    <3>2. DOMAIN y.inbox = 1..Len(y.inbox)
      BY <3>1, LenProperties
    <3>3. Len(p) = n /\ Len(r) = k
      BY <2>6 DEF p, r
    <3> HIDE DEF k, n
    <3> QED
      BY <3>1, <3>2, <3>3 DEF p, r
  <2>8. IsSeq(y.inbox)
    <3> HIDE DEF E
    <3>1. y.inbox \in [1..(n + k) -> {y.inbox[i] : i \in DOMAIN y.inbox}] /\ n + k \in Nat
      BY <2>4, <2>7
    <3> QED
      BY <3>1 DEF IsSeq
  <2> HIDE DEF E, n, k
  <2>9. \A i \in DOMAIN y.inbox :
          \/ i \in DOMAIN m.inbox /\ y.inbox[i] = m.inbox[i]
          \/ i - n \in 1..k /\ y.inbox[i] = letting[i - n]
    BY <2>4, <2>7
  <2>10. \A i \in DOMAIN m.inbox : i \in DOMAIN y.inbox /\ y.inbox[i] = m.inbox[i]
    BY <2>4, <2>7
  <2>11. \A i \in 1..k : i + n \in DOMAIN y.inbox /\ y.inbox[i + n] = letting[i]
    BY <2>4, <2>7
  <2>12. OwnShape(y)
    <3>1. \A i \in DOMAIN y.inbox : MailFields \subseteq DOMAIN y.inbox[i]
      BY <2>5, <2>9 DEF OwnShape
    <3> QED
      BY <2>1, <2>3, <2>8, <3>1 DEF OwnShape, Only, OwnFields
  <2>13. Leaving(y) = Leaving(m) \cup held
    <3>1. \A st \in Leaving(y) : st \in Leaving(m) \cup held
      BY <2>5, <2>9 DEF Leaving
    <3>2. \A st \in Leaving(m) : st \in Leaving(y)
      BY <2>10 DEF Leaving
    <3>3. \A st \in held : st \in Leaving(y)
      <4> TAKE st \in held
      <4>1. PICK i \in 1..k : q[i] = st
        BY <1>2 DEF k
      <4> QED
        BY <2>5, <2>11, <4>1 DEF Leaving
    <3> QED
      BY <3>1, <3>2, <3>3
  <2>14. Fewer(m, y)
    <3>1. \A i \in DOMAIN y.inbox : y.inbox[i].kind # "release" => i + 0 \in DOMAIN m.inbox /\ y.inbox[i] = m.inbox[i + 0]
      BY <2>4, <2>5, <2>9
    <3>2. 1 \in DOMAIN m.inbox
      <4>1. n # 0
        <5>1. m.inbox \in Seq({m.inbox[i] : i \in DOMAIN m.inbox})
          BY DEF OwnShape, IsSeq
        <5> QED
          BY <1>4, <5>1, EmptySeq DEF n
      <4> QED
        BY <2>4, <4>1
    <3>3. AsksFirst(m) => AsksFirst(y)
      BY <2>10, <3>2 DEF AsksFirst
    <3> QED
      BY <1>4, <3>1, <3>3 DEF Fewer
  <2> QED
    BY <2>1, <2>2, <2>12, <2>13, <2>14 DEF y, held, Free
<1> QED
  BY <1>3, <1>4

LEMMA ReleaseFrees ==
  ASSUME NEW m, NEW st, OwnShape(m)
  PROVE  LET y == Release(m, st) IN
         /\ Only(m, y, {"table", "inbox"}) /\ OwnShape(y) /\ Fewer(m, y)
         /\ y.table \subseteq m.table /\ Free(y) = Free(m) \ OfEngine(m, {st})
         /\ Leaving(y) \subseteq Leaving(m) \cup OfEngine(m, {st})
<1>1. IsFiniteSet({st}) /\ OfEngine(m, {st}) \in SUBSET {st}
  BY FS_Singleton DEF OfEngine
<1>2. IsFiniteSet(OfEngine(m, {st}))
  BY <1>1, FS_Subset
<1> QED
  BY <1>2, ReleaseAllFrees DEF Release

LEMMA UnwantedFrees ==
  ASSUME NEW m, NEW kind, OwnShape(m)
  PROVE  LET y == Unwanted(m, kind) IN
         /\ Only(m, y, {"inbox"}) /\ OwnShape(y) /\ Fewer(m, y)
         /\ Free(y) = Free(m) /\ Leaving(y) = Leaving(m) /\ Wanted(y, kind) = {}
<1> DEFINE inbox == [i \in DOMAIN m.inbox |-> IF m.inbox[i].kind = kind THEN [m.inbox[i] EXCEPT !.wanted = FALSE] ELSE m.inbox[i]]
           y == Unwanted(m, kind)
<1>1. y = [m EXCEPT !.inbox = inbox]
  BY DEF Unwanted
<1>2. \A i \in DOMAIN m.inbox :
        /\ MailFields \subseteq DOMAIN inbox[i]
        /\ inbox[i].kind = m.inbox[i].kind /\ inbox[i].on = m.inbox[i].on
        /\ inbox[i].op = m.inbox[i].op /\ inbox[i].path = m.inbox[i].path
        /\ inbox[i].wanted => m.inbox[i].wanted /\ inbox[i].kind # kind
  BY DEF OwnShape, MailFields
<1>3. DOMAIN inbox = DOMAIN m.inbox
  OBVIOUS
<1>4. IsSeq(inbox)
  <2>1. Len(m.inbox) \in Nat /\ DOMAIN m.inbox = 1..Len(m.inbox)
    BY SeqDomain DEF OwnShape
  <2>2. inbox \in [1..Len(m.inbox) -> {inbox[i] : i \in DOMAIN inbox}]
    BY <2>1
  <2> HIDE DEF inbox
  <2> QED
    BY <2>1, <2>2 DEF IsSeq
<1>5. m.inbox = <<>> => inbox = <<>>
  OBVIOUS
<1> HIDE DEF inbox, y
<1>6. Only(m, y, {"inbox"})
  BY <1>1 DEF Only
<1>7. y.inbox = inbox /\ \A f \in OwnFields \ {"inbox"} : y[f] = m[f]
  BY <1>1 DEF OwnShape, OwnFields
<1>8. OwnShape(y)
  BY <1>2, <1>3, <1>4, <1>6, <1>7 DEF OwnShape, Only, OwnFields
<1>9. Fewer(m, y)
  <2>1. \A i \in DOMAIN y.inbox : i + 0 = i
    BY <1>3, <1>7, SeqDomain DEF OwnShape
  <2>2. \A i \in DOMAIN y.inbox :
          /\ i + 0 \in DOMAIN m.inbox
          /\ y.inbox[i].kind = m.inbox[i + 0].kind /\ y.inbox[i].on = m.inbox[i + 0].on
          /\ y.inbox[i].op = m.inbox[i + 0].op /\ y.inbox[i].path = m.inbox[i + 0].path
          /\ y.inbox[i].wanted => m.inbox[i + 0].wanted
    BY <1>2, <1>3, <1>7, <2>1
  <2>3. 0 \in Nat
    OBVIOUS
  <2> QED
    BY <1>3, <1>5, <1>7, <2>2, <2>3, <1>2 DEF Fewer, AsksFirst
<1>10. Leaving(y) = Leaving(m)
  BY <1>2, <1>3, <1>7 DEF Leaving
<1>11. Free(y) = Free(m)
  BY <1>7, <1>10 DEF Free, OwnFields
<1>12. Wanted(y, kind) = {}
  BY <1>2, <1>3, <1>7 DEF Wanted, Posts
<1> QED
  BY <1>6, <1>8, <1>9, <1>10, <1>11, <1>12 DEF y

\* What is asked comes last.
LEMMA AskPosts ==
  ASSUME NEW m, NEW kind, NEW on, NEW op, NEW path, OwnShape(m), kind # "release"
  PROVE  LET y == Ask(m, kind, on, op, path)
             n == Len(m.inbox) + 1
         IN /\ Only(m, y, {"up", "inbox"}) /\ OwnShape(y) /\ Free(y) = Free(m) /\ Leaving(y) = Leaving(m) /\ y.up
            /\ n \notin DOMAIN m.inbox /\ DOMAIN y.inbox = DOMAIN m.inbox \cup {n}
            /\ \A i \in DOMAIN m.inbox : y.inbox[i] = m.inbox[i]
            /\ y.inbox[n] = [kind |-> kind, on |-> on, op |-> op, path |-> path, wanted |-> TRUE]
<1> DEFINE e == [kind |-> kind, on |-> on, op |-> op, path |-> path, wanted |-> TRUE]
           y == Ask(m, kind, on, op, path)
           n == Len(m.inbox) + 1
           E == {m.inbox[i] : i \in DOMAIN m.inbox} \cup {e}
<1>1. y = [m EXCEPT !.up = TRUE, !.inbox = Append(m.inbox, e)]
  BY DEF Ask
<1>2. e.kind = kind /\ MailFields \subseteq DOMAIN e
  BY DEF MailFields
<1>3. Len(m.inbox) \in Nat /\ DOMAIN m.inbox = 1..Len(m.inbox)
  BY SeqDomain DEF OwnShape
<1>4. e \in E /\ m.inbox \in Seq(E)
  <2>1. m.inbox \in [1..Len(m.inbox) -> E]
    BY <1>3 DEF OwnShape, IsSeq
  <2> HIDE DEF E, e
  <2> QED
    BY <1>3, <2>1 DEF E
<1> HIDE DEF e, y, E
<1>5. /\ Append(m.inbox, e) \in Seq(E) /\ Len(Append(m.inbox, e)) = Len(m.inbox) + 1
      /\ \A i \in 1..Len(m.inbox) : Append(m.inbox, e)[i] = m.inbox[i]
      /\ Append(m.inbox, e)[Len(m.inbox) + 1] = e
  BY <1>4, AppendProperties
<1>6. y.inbox = Append(m.inbox, e) /\ y.up /\ \A f \in OwnFields \ {"up", "inbox"} : y[f] = m[f]
  BY <1>1 DEF OwnShape, OwnFields
<1>7. DOMAIN y.inbox = 1..Len(y.inbox)
  BY <1>5, <1>6, LenProperties
<1>8. /\ n \notin DOMAIN m.inbox /\ DOMAIN y.inbox = DOMAIN m.inbox \cup {n}
      /\ \A i \in DOMAIN m.inbox : y.inbox[i] = m.inbox[i]
      /\ y.inbox[n] = e
  BY <1>3, <1>5, <1>6, <1>7
<1>9. IsSeq(y.inbox)
  <2> DEFINE q == y.inbox
  <2>0. q \in Seq(E) /\ Len(q) \in Nat /\ DOMAIN q = 1..Len(q)
    BY <1>3, <1>5, <1>6, <1>7
  <2> HIDE DEF q
  <2>1. q \in [1..Len(q) -> {q[i] : i \in DOMAIN q}] /\ Len(q) \in Nat
    BY <2>0
  <2> QED
    BY <2>1 DEF IsSeq, q
<1>10. Only(m, y, {"up", "inbox"})
  BY <1>1 DEF Only
<1> HIDE DEF n
<1>11. OwnShape(y)
  BY <1>2, <1>6, <1>8, <1>9, <1>10 DEF OwnShape, Only, OwnFields
<1>12. Leaving(y) = Leaving(m)
  BY <1>2, <1>8 DEF Leaving
<1>13. Free(y) = Free(m)
  BY <1>6, <1>12 DEF Free, OwnFields
<1> QED
  BY <1>6, <1>8, <1>10, <1>11, <1>12, <1>13 DEF y, n, e

\* With fewer messages nothing is said of more.
LEMMA FewerMail ==
  ASSUME NEW x, NEW y, Fewer(x, y), OwnShape(y)
  PROVE  /\ y.queued = x.queued /\ y.pending = x.pending /\ PreviewMail(x) => PreviewMail(y)
         /\ DOMAIN y.cache \subseteq DOMAIN x.cache /\ ReplayMail(x) => ReplayMail(y)
         /\ (x.commit.pc = "fold" => y.commit.pc = "fold") /\ FoldMail(x) => FoldMail(y)
         /\ \A kind : kind # "release" /\ Wanted(x, kind) = {} => Wanted(y, kind) = {}
         /\ \A kind : kind # "release" /\ Posts(x, kind) = {} => Posts(y, kind) = {}
<1>1. PICK k \in Nat : \A i \in DOMAIN y.inbox : y.inbox[i].kind # "release" =>
       /\ i + k \in DOMAIN x.inbox
       /\ y.inbox[i].kind = x.inbox[i + k].kind /\ y.inbox[i].on = x.inbox[i + k].on
       /\ y.inbox[i].op = x.inbox[i + k].op /\ y.inbox[i].path = x.inbox[i + k].path
       /\ y.inbox[i].wanted => x.inbox[i + k].wanted
  BY DEF Fewer
<1> DEFINE at(i) == i + k
<1>2. \A kind : kind # "release" =>
        /\ \A i \in Posts(y, kind) : at(i) \in Posts(x, kind) /\ y.inbox[i].on = x.inbox[at(i)].on /\ y.inbox[i].path = x.inbox[at(i)].path
        /\ \A i \in Wanted(y, kind) : at(i) \in Wanted(x, kind)
  BY <1>1 DEF Posts, Wanted
<1>3. \A i, j \in DOMAIN y.inbox : at(i) = at(j) => i = j
  BY SeqDomain DEF OwnShape
<1> HIDE DEF at
<1>4. "preview" # "release" /\ "orders" # "release" /\ "replay" # "release" /\ "fold" # "release"
  OBVIOUS
<1>5. \A kind : kind # "release" /\ Wanted(x, kind) = {} => Wanted(y, kind) = {}
  BY <1>2
<1>10. \A kind : kind # "release" /\ Posts(x, kind) = {} => Posts(y, kind) = {}
  BY <1>2
<1>6. \A kind : Posts(y, kind) \subseteq DOMAIN y.inbox /\ Wanted(y, kind) \subseteq DOMAIN y.inbox
  BY DEF Posts, Wanted
<1>7. y.queued = x.queued /\ y.pending = x.pending /\ PreviewMail(x) => PreviewMail(y)
  BY <1>2, <1>3, <1>4, <1>6 DEF PreviewMail
<1>8. DOMAIN y.cache \subseteq DOMAIN x.cache /\ ReplayMail(x) => ReplayMail(y)
  <2> SUFFICES ASSUME DOMAIN y.cache \subseteq DOMAIN x.cache, ReplayMail(x)
               PROVE  ReplayMail(y)
    OBVIOUS
  <2>1. \A i \in Wanted(y, "replay") : /\ at(i) \in Wanted(x, "replay") /\ y.inbox[i].path = x.inbox[at(i)].path
                                        /\ i \in DOMAIN y.inbox
    BY <1>2, <1>4, <1>6 DEF Wanted
  <2> QED
    BY <1>3, <2>1 DEF ReplayMail
<1>9. (x.commit.pc = "fold" => y.commit.pc = "fold") /\ FoldMail(x) => FoldMail(y)
  BY <1>2, <1>3, <1>4, <1>6 DEF FoldMail, NoFold
<1> QED
  BY <1>5, <1>7, <1>8, <1>9, <1>10

LEMMA FewerSame ==
  ASSUME NEW m, OwnShape(m)
  PROVE  Fewer(m, m)
<1>1. \A i \in DOMAIN m.inbox : i + 0 = i
  BY SeqDomain DEF OwnShape
<1>2. \A i \in DOMAIN m.inbox :
        /\ i + 0 \in DOMAIN m.inbox
        /\ m.inbox[i].kind = m.inbox[i + 0].kind /\ m.inbox[i].on = m.inbox[i + 0].on
        /\ m.inbox[i].op = m.inbox[i + 0].op /\ m.inbox[i].path = m.inbox[i + 0].path
        /\ m.inbox[i].wanted => m.inbox[i + 0].wanted
  BY <1>1
<1>3. 0 \in Nat
  OBVIOUS
<1> QED
  BY <1>2, <1>3 DEF Fewer

LEMMA FewerThen ==
  ASSUME NEW x, NEW y, NEW z, Fewer(x, y), Fewer(y, z), OwnShape(z)
  PROVE  Fewer(x, z)
<1> DEFINE From(u, v, k) ==
             \A i \in DOMAIN v.inbox : v.inbox[i].kind # "release" =>
               /\ i + k \in DOMAIN u.inbox
               /\ v.inbox[i].kind = u.inbox[i + k].kind /\ v.inbox[i].on = u.inbox[i + k].on
               /\ v.inbox[i].op = u.inbox[i + k].op /\ v.inbox[i].path = u.inbox[i + k].path
               /\ v.inbox[i].wanted => u.inbox[i + k].wanted
<1>1. PICK k \in Nat : From(x, y, k)
  BY DEF Fewer
<1>2. PICK l \in Nat : From(y, z, l)
  BY DEF Fewer
<1>3. l + k \in Nat /\ \A i \in DOMAIN z.inbox : i + (l + k) = i + l + k
  BY SeqDomain DEF OwnShape
<1>4. From(x, z, l + k)
  <2> SUFFICES ASSUME NEW i \in DOMAIN z.inbox, z.inbox[i].kind # "release"
               PROVE  /\ i + (l + k) \in DOMAIN x.inbox
                      /\ z.inbox[i].kind = x.inbox[i + (l + k)].kind /\ z.inbox[i].on = x.inbox[i + (l + k)].on
                      /\ z.inbox[i].op = x.inbox[i + (l + k)].op /\ z.inbox[i].path = x.inbox[i + (l + k)].path
                      /\ z.inbox[i].wanted => x.inbox[i + (l + k)].wanted
    OBVIOUS
  <2> DEFINE j == i + l
  <2>1. /\ j \in DOMAIN y.inbox /\ z.inbox[i].kind = y.inbox[j].kind /\ z.inbox[i].on = y.inbox[j].on
        /\ z.inbox[i].op = y.inbox[j].op /\ z.inbox[i].path = y.inbox[j].path
        /\ z.inbox[i].wanted => y.inbox[j].wanted
    BY <1>2
  <2>2. i + (l + k) = j + k
    BY <1>3
  <2> HIDE DEF j
  <2>3. /\ j + k \in DOMAIN x.inbox /\ y.inbox[j].kind = x.inbox[j + k].kind /\ y.inbox[j].on = x.inbox[j + k].on
        /\ y.inbox[j].op = x.inbox[j + k].op /\ y.inbox[j].path = x.inbox[j + k].path
        /\ y.inbox[j].wanted => x.inbox[j + k].wanted
    BY <1>1, <2>1
  <2> QED
    BY <2>1, <2>2, <2>3
<1> HIDE DEF From
<1>5. \E n \in Nat : From(x, z, n)
  BY <1>3, <1>4
<1> QED
  BY <1>5 DEF Fewer, From

\* A field an operator does not touch.
LEMMA OwnSame ==
  ASSUME NEW x, NEW y, NEW T, Only(x, y, T), OwnShape(x)
  PROVE  OwnFields \subseteq DOMAIN y /\ \A f \in OwnFields \ T : y[f] = x[f]
  BY DEF Only, OwnShape

LEMMA OwnShapeStill ==
  ASSUME NEW x, NEW y, NEW T, Only(x, y, T), OwnShape(x),
         T \cap {"landed", "gen", "adoptions", "commit", "hover", "pending", "inbox"} = {}
  PROVE  OwnShape(y)
<1>1. DOMAIN y = DOMAIN x /\ \A f \in OwnFields \ T : y[f] = x[f]
  BY DEF Only, OwnShape
<1>2. /\ y.landed = x.landed /\ y.gen = x.gen /\ y.adoptions = x.adoptions /\ y.commit = x.commit
      /\ y.hover = x.hover /\ y.pending = x.pending /\ y.inbox = x.inbox
  BY <1>1 DEF OwnFields
<1> QED
  BY <1>1, <1>2 DEF OwnShape

LEMMA NothingLanded ==
  /\ ~Landed(NoState) /\ ~Landed(Broken) /\ Idle.status = "idle" /\ Idle.state = NoState /\ "status" \in DOMAIN Idle
  /\ NoHover.pc = "none" /\ NoHover.from = NoFrom /\ {"pc", "op", "from"} \subseteq DOMAIN NoHover
  /\ NoCommit.pc = "none" /\ NoCommit.from = NoFrom /\ NoCommit.state = NoState
  /\ {"pc", "op", "from", "state"} \subseteq DOMAIN NoCommit /\ NoState # Broken
  BY DEF NoState, Broken, Idle, NoHover, NoCommit, Landed

LEMMA FreeFacts ==
  ASSUME NEW m, NEW X, NEW U, Balanced(m, X, U)
  PROVE  /\ InCache(m) \cup InOffers(m) \cup (InPreview(m) \ U) \cup InOrders(m) \cup X \subseteq Free(m)
         /\ \A st \in Free(m) : Landed(st) /\ st.gen = m.gen /\ st.n \in 1..m.landed
         /\ \A S \in SUBSET Free(m) : IsFiniteSet(S) /\ OfEngine(m, S) = S
<1>1. Free(m) \subseteq m.table /\ IsFiniteSet(m.table) /\ \A st \in m.table : st.gen = m.gen /\ st.n \in 1..m.landed
  BY DEF Balanced, Free
<1>2. \A st \in Free(m) : Landed(st) /\ st.gen = m.gen /\ st.n \in 1..m.landed
  BY <1>1 DEF Landed
<1>3. ASSUME NEW S \in SUBSET Free(m)
      PROVE  IsFiniteSet(S) /\ OfEngine(m, S) = S
  <2>1. S \subseteq m.table
    BY <1>1
  <2>2. IsFiniteSet(S)
    BY <1>1, <2>1, FS_Subset
  <2> QED
    BY <1>2, <2>2 DEF OfEngine
<1>4. InCache(m) \cup InOffers(m) \cup (InPreview(m) \ U) \cup InOrders(m) \cup X \subseteq Free(m)
  BY DEF Balanced, Split
<1> QED
  BY <1>2, <1>3, <1>4

StayFields == {"up", "stray", "landed", "gen", "pending", "taken", "queued", "commit", "hover", "ids", "run", "progress"}

\* An owner lets go of what it had, D, or of some of what is on its way.
LEMMA LetsGo ==
  ASSUME NEW m, NEW y, NEW X, NEW U, NEW X2, NEW U2, NEW D, Owned(m, X, U), OwnShape(y),
         Fewer(m, y), y.table \subseteq m.table, Leaving(y) \subseteq Leaving(m) \cup D, D \subseteq Free(m),
         \A f \in StayFields : y[f] = m[f],
         DOMAIN y.cache \subseteq DOMAIN m.cache, y.adoptions \subseteq m.adoptions, OfferOK(y), U2 \subseteq {m.taken},
         Split(Free(y), InCache(y), InOffers(y), InPreview(y) \ U2, InOrders(y), X2)
  PROVE  Owned(y, X2, U2) /\ Carried(m, y)
<1>1. /\ y.up = m.up /\ y.stray = m.stray /\ y.landed = m.landed /\ y.gen = m.gen /\ y.pending = m.pending
      /\ y.taken = m.taken /\ y.queued = m.queued /\ y.commit = m.commit /\ y.hover = m.hover
      /\ y.ids = m.ids /\ y.run = m.run /\ y.progress = m.progress
  BY DEF StayFields
<1>2. Balanced(m, X, U) /\ Mail(m)
  BY DEF Owned
<1>3. Balanced(y, X2, U2)
  <2>1. IsFiniteSet(y.table)
    BY <1>2, FS_Subset DEF Balanced
  <2>2. \A st \in D : st.n \in 1..m.landed
    BY <1>2, FreeFacts
  <2> QED
    BY <1>1, <1>2, <2>1, <2>2 DEF Balanced
<1>4. Mail(y)
  <2>1. PreviewMail(y) /\ ReplayMail(y) /\ FoldMail(y)
    BY <1>1, <1>2, FewerMail DEF Mail
  <2>2. AsksFirst(y) /\ (~y.up => y.inbox = <<>> /\ y.table = {})
    BY <1>1, <1>2 DEF Mail, Fewer
  <2>3. PendingOK(y)
    BY <1>1, <1>2 DEF Mail, PendingOK
  <2> QED
    BY <1>1, <1>2, <2>1, <2>2, <2>3 DEF Mail
<1>5. (NoFold(m) => NoFold(y)) /\ (Wanted(m, "preview") = {} => Wanted(y, "preview") = {})
  BY FewerMail DEF NoFold
<1>6. Carried(m, y)
  BY <1>1, <1>5 DEF Carried, Taking, Placed
<1> QED
  BY <1>3, <1>4, <1>6 DEF Owned

\* What is on its way to nobody is let go of.
LEMMA ReleaseLoose ==
  ASSUME NEW m, NEW X, NEW U, NEW sts, Owned(m, X, U), OfEngine(m, sts) \subseteq X
  PROVE  LET y == ReleaseAll(m, sts) IN Owned(y, X \ OfEngine(m, sts), U) /\ Carried(m, y)
<1> DEFINE D == OfEngine(m, sts)
           y == ReleaseAll(m, sts)
<1>1. Balanced(m, X, U) /\ OwnShape(m) /\ OfferOK(m)
  BY DEF Owned, Mail
<1>2. D \subseteq Free(m) /\ IsFiniteSet(D)
  BY <1>1, FreeFacts
<1>3. /\ Only(m, y, {"table", "inbox"}) /\ OwnShape(y) /\ Fewer(m, y)
      /\ y.table \subseteq m.table /\ Free(y) = Free(m) \ D /\ Leaving(y) \subseteq Leaving(m) \cup D
  BY <1>1, <1>2, ReleaseAllFrees
<1> HIDE DEF y
<1>4. \A f \in OwnFields \ {"table", "inbox"} : y[f] = m[f]
  BY <1>1, <1>3, OwnSame
<1>5. y.cache = m.cache /\ y.adoptions = m.adoptions /\ y.offer = m.offer /\ y.pending = m.pending /\ y.taken = m.taken /\ y.gen = m.gen
  BY <1>4 DEF OwnFields
<1>6. \A f \in StayFields : y[f] = m[f]
  BY <1>4 DEF OwnFields, StayFields
<1>7. Split(Free(y), InCache(y), InOffers(y), InPreview(y) \ U, InOrders(y), X \ D)
  <2>1. InCache(y) = InCache(m) /\ InOffers(y) = InOffers(m) /\ InPreview(y) = InPreview(m) /\ InOrders(y) = InOrders(m)
    BY <1>5 DEF InCache, InOffers, InPreview, InOrders
  <2>2. Split(Free(m), InCache(m), InOffers(m), InPreview(m) \ U, InOrders(m), X)
    BY <1>1 DEF Balanced
  <2> HIDE DEF D
  <2>3. D \subseteq X
    BY DEF D
  <2> QED
    BY <1>3, <2>1, <2>2, <2>3 DEF Split
<1>8. OfferOK(y) /\ U \subseteq {m.taken}
  BY <1>1, <1>5 DEF OfferOK, Balanced
<1> HIDE DEF D
<1> QED
  BY <1>2, <1>3, <1>5, <1>6, <1>7, <1>8, LetsGo DEF y, D

\* The offer of an order resolution goes, and its state.
LEMMA DropOfferMinds ==
  ASSUME NEW m
  PROVE  Minds(m, DropOffer(m))
<1> SUFFICES ASSUME NEW X, NEW U, Owned(m, X, U)
             PROVE  Owned(DropOffer(m), X, U) /\ Carried(m, DropOffer(m))
  BY DEF Minds
<1> DEFINE D == OfEngine(m, {m.offer.state})
           a == Release(m, m.offer.state)
           y == DropOffer(m)
<1>1. Balanced(m, X, U) /\ OwnShape(m)
  BY DEF Owned
<1>2. D = InOrders(m)
  BY <1>1, FreeFacts DEF OfEngine, InOrders
<1>3. D \subseteq Free(m)
  BY <1>1, <1>2, FreeFacts
<1>4. /\ Only(m, a, {"table", "inbox"}) /\ OwnShape(a) /\ Fewer(m, a)
      /\ a.table \subseteq m.table /\ Free(a) = Free(m) \ D /\ Leaving(a) \subseteq Leaving(m) \cup D
  BY <1>1, ReleaseFrees
<1>5. y = [a EXCEPT !.offer = Idle]
  BY DEF DropOffer
<1> HIDE DEF a, y
<1>6. y.offer = Idle /\ \A f \in OwnFields \ {"offer"} : y[f] = a[f]
  BY <1>4, <1>5 DEF OwnShape, OwnFields
<1>7. \A f \in OwnFields \ {"table", "inbox"} : a[f] = m[f]
  BY <1>1, <1>4, OwnSame
<1>8. \A f \in StayFields \cup {"cache", "adoptions"} : y[f] = m[f]
  BY <1>6, <1>7 DEF OwnFields, StayFields
<1>9. y.inbox = a.inbox /\ y.table = a.table /\ y.stray = a.stray
  BY <1>6 DEF OwnFields
<1>10. OwnShape(y)
  <2>1. OwnFields \subseteq DOMAIN y
    BY <1>4, <1>5 DEF OwnShape
  <2>2. y.landed = m.landed /\ y.gen = m.gen /\ y.adoptions = m.adoptions /\ y.commit = m.commit /\ y.hover = m.hover /\ y.pending = m.pending
    BY <1>8 DEF StayFields
  <2> QED
    BY <1>1, <1>4, <1>9, <2>1, <2>2 DEF OwnShape
<1>11. Fewer(m, y) /\ Leaving(y) = Leaving(a) /\ Free(y) = Free(a)
  BY <1>4, <1>9 DEF Fewer, AsksFirst, Leaving, Free
<1>12. Split(Free(y), InCache(y), InOffers(y), InPreview(y) \ U, InOrders(y), X)
  <2>1. InCache(y) = InCache(m) /\ InOffers(y) = InOffers(m) /\ InPreview(y) = InPreview(m) /\ InOrders(y) = {}
    BY <1>6, <1>8, NothingLanded DEF InCache, InOffers, InPreview, InOrders, StayFields
  <2>2. Split(Free(m), InCache(m), InOffers(m), InPreview(m) \ U, InOrders(m), X)
    BY <1>1 DEF Balanced
  <2> HIDE DEF D
  <2> QED
    BY <1>2, <1>4, <1>11, <2>1, <2>2 DEF Split
<1>13. OfferOK(y) /\ U \subseteq {m.taken} /\ y.table \subseteq m.table /\ \A f \in StayFields : y[f] = m[f]
  BY <1>1, <1>4, <1>6, <1>8, <1>9, NothingLanded DEF OfferOK, Balanced
<1>14. DOMAIN y.cache \subseteq DOMAIN m.cache /\ y.adoptions \subseteq m.adoptions
  BY <1>8
<1>15. Leaving(y) \subseteq Leaving(m) \cup D
  BY <1>4, <1>11
<1> HIDE DEF D
<1> QED
  BY <1>3, <1>10, <1>11, <1>12, <1>13, <1>14, <1>15, LetsGo DEF y

\* A replayer that is cleared, and offers nobody adopted.
LEMMA ClearReplayerMinds ==
  ASSUME NEW m
  PROVE  /\ Minds(m, ClearReplayer(m))
         /\ OwnShape(m) => ClearReplayer(m).cache = <<>>
<1> DEFINE held == {m.cache[p] : p \in DOMAIN m.cache}
           D == OfEngine(m, held)
           a == ReleaseAll(m, held)
           b == Unwanted(a, "replay")
           y == ClearReplayer(m)
<1>1. y = [b EXCEPT !.cache = <<>>]
  BY DEF ClearReplayer
<1>2. ASSUME OwnShape(m), NEW X, NEW U, Balanced(m, X, U), Mail(m)
      PROVE  Owned(y, X, U) /\ Carried(m, y)
  <2>1. D = InCache(m)
    BY <1>2, FreeFacts DEF OfEngine, InCache
  <2>2. D \subseteq Free(m) /\ IsFiniteSet(D)
    BY <1>2, <2>1, FreeFacts
  <2>3. /\ Only(m, a, {"table", "inbox"}) /\ OwnShape(a) /\ Fewer(m, a)
        /\ a.table \subseteq m.table /\ Free(a) = Free(m) \ D /\ Leaving(a) \subseteq Leaving(m) \cup D
    BY <1>2, <2>2, ReleaseAllFrees
  <2> HIDE DEF a
  <2>4. Only(a, b, {"inbox"}) /\ OwnShape(b) /\ Fewer(a, b) /\ Free(b) = Free(a) /\ Leaving(b) = Leaving(a)
    BY <2>3, UnwantedFrees
  <2> HIDE DEF b, y
  <2>5. /\ \A f \in OwnFields \ {"table", "inbox"} : a[f] = m[f]
        /\ \A f \in OwnFields \ {"inbox"} : b[f] = a[f]
    BY <1>2, <2>3, <2>4, OwnSame
  <2>6. y.cache = <<>> /\ \A f \in OwnFields \ {"cache"} : y[f] = b[f]
    BY <1>1, <2>4 DEF OwnShape, OwnFields
  <2>7. \A f \in StayFields \cup {"adoptions", "offer"} : y[f] = m[f]
    BY <2>5, <2>6 DEF OwnFields, StayFields
  <2>8. y.inbox = b.inbox /\ y.table = a.table /\ y.table = b.table /\ y.stray = b.stray
    BY <2>5, <2>6 DEF OwnFields
  <2>9. OwnShape(y)
    <3>1. OwnFields \subseteq DOMAIN y
      BY <1>1, <2>4 DEF OwnShape
    <3>2. y.landed = m.landed /\ y.gen = m.gen /\ y.adoptions = m.adoptions /\ y.commit = m.commit /\ y.hover = m.hover /\ y.pending = m.pending
      BY <2>7 DEF StayFields
    <3> QED
      BY <1>2, <2>4, <2>8, <3>1, <3>2 DEF OwnShape
  <2>10. Fewer(m, b)
    BY <2>3, <2>4, FewerThen
  <2>11. Fewer(m, y) /\ Leaving(y) = Leaving(b) /\ Free(y) = Free(b)
    BY <2>8, <2>10 DEF Fewer, AsksFirst, Leaving, Free
  <2>12. Split(Free(y), InCache(y), InOffers(y), InPreview(y) \ U, InOrders(y), X)
    <3>1. InCache(y) = {} /\ InOffers(y) = InOffers(m) /\ InPreview(y) = InPreview(m) /\ InOrders(y) = InOrders(m)
      BY <2>6, <2>7 DEF InCache, InOffers, InPreview, InOrders, StayFields
    <3>2. Split(Free(m), InCache(m), InOffers(m), InPreview(m) \ U, InOrders(m), X)
      BY <1>2 DEF Balanced
    <3> HIDE DEF D
    <3> QED
      BY <2>1, <2>3, <2>4, <2>11, <3>1, <3>2 DEF Split
  <2>13. OfferOK(y) /\ U \subseteq {m.taken} /\ y.table \subseteq m.table /\ \A f \in StayFields : y[f] = m[f]
    BY <1>2, <2>3, <2>7, <2>8 DEF OfferOK, Balanced, Mail
  <2>14. DOMAIN y.cache \subseteq DOMAIN m.cache /\ y.adoptions \subseteq m.adoptions
    BY <2>6, <2>7
  <2>15. Leaving(y) \subseteq Leaving(m) \cup D
    BY <2>3, <2>4, <2>11
  <2>16. Owned(m, X, U)
    BY <1>2 DEF Owned
  <2> HIDE DEF D
  <2> QED
    BY <2>2, <2>9, <2>11, <2>12, <2>13, <2>14, <2>15, <2>16, LetsGo
<1>3. OwnShape(m) => y.cache = <<>>
  <2> SUFFICES ASSUME OwnShape(m)
               PROVE  y.cache = <<>>
    OBVIOUS
  <2>1. DOMAIN a = DOMAIN m /\ DOMAIN b = DOMAIN a
    BY ReleaseAllKeeps, UnwantedKeeps DEF Keeps, Only
  <2> HIDE DEF a, b, y
  <2> QED
    BY <1>1, <2>1 DEF OwnShape, OwnFields
<1> HIDE DEF y
<1>4. Minds(m, y)
  BY <1>2 DEF Minds, Owned
<1> QED
  BY <1>3, <1>4 DEF y

\* The preview goes, and with it what was asked for it; its state is let go of unless a
\* commit has taken it.
LEMMA DropPendingMinds ==
  ASSUME NEW m
  PROVE  LET y == DropPending(m) IN
         /\ Minds(m, y)
         /\ OwnShape(m) =>
              /\ OwnShape(y) /\ y.pending = Idle /\ y.queued = NoRequest /\ Wanted(y, "preview") = {} /\ y.hover = NoHover
              /\ Fewer(m, y) /\ y.table \subseteq m.table
              /\ y.commit.pc = (IF m.commit.pc = "queued" THEN "answered" ELSE m.commit.pc)
              /\ y.commit.from = m.commit.from /\ y.commit.state = m.commit.state
<1> SUFFICES ASSUME OwnShape(m)
             PROVE  LET y == DropPending(m) IN
                    /\ OwnShape(y) /\ y.pending = Idle /\ y.queued = NoRequest /\ Wanted(y, "preview") = {} /\ y.hover = NoHover
                    /\ Fewer(m, y) /\ y.table \subseteq m.table
                    /\ y.commit.pc = (IF m.commit.pc = "queued" THEN "answered" ELSE m.commit.pc)
                    /\ y.commit.from = m.commit.from /\ y.commit.state = m.commit.state
                    /\ \A X, U : Owned(m, X, U) => Owned(y, X, U)
                    /\ Carried(m, y)
  BY DEF Minds, Owned
<1> DEFINE gone == m.pending.status = "landed" /\ m.pending.state # m.taken
           a == IF gone THEN Release(m, m.pending.state) ELSE m
           b == Unwanted(a, "preview")
           D == IF gone THEN OfEngine(m, {m.pending.state}) ELSE {}
           c == [b.commit EXCEPT !.pc = IF @ = "queued" THEN "answered" ELSE @]
           y == DropPending(m)
<1>1. /\ OwnShape(a) /\ Only(m, a, {"table", "inbox"}) /\ Fewer(m, a) /\ a.table \subseteq m.table
      /\ Free(a) = Free(m) \ D /\ Leaving(a) \subseteq Leaving(m) \cup D
  <2> DEFINE w == Release(m, m.pending.state)
  <2>1. /\ OwnShape(w) /\ Only(m, w, {"table", "inbox"}) /\ Fewer(m, w) /\ w.table \subseteq m.table
        /\ Free(w) = Free(m) \ OfEngine(m, {m.pending.state})
        /\ Leaving(w) \subseteq Leaving(m) \cup OfEngine(m, {m.pending.state})
    BY ReleaseFrees
  <2>2. Fewer(m, m) /\ Only(m, m, {"table", "inbox"})
    BY FewerSame DEF Only
  <2> HIDE DEF w, gone
  <2>3. a = IF gone THEN w ELSE m
    BY DEF w
  <2> HIDE DEF a
  <2>4. CASE gone
    <3>1. a = w /\ D = OfEngine(m, {m.pending.state})
      BY <2>3, <2>4
    <3> QED
      BY <2>1, <3>1
  <2>5. CASE ~gone
    <3>1. a = m /\ D = {}
      BY <2>3, <2>5
    <3> QED
      BY <2>2, <3>1
  <2> QED
    BY <2>4, <2>5
<1>2. y = [b EXCEPT !.pending = Idle, !.print = "none", !.queued = NoRequest, !.hover = NoHover, !.commit = c]
  BY DEF DropPending
<1> HIDE DEF a, y
<1>3. OwnShape(b) /\ Only(a, b, {"inbox"}) /\ Fewer(a, b) /\ Free(b) = Free(a) /\ Leaving(b) = Leaving(a) /\ Wanted(b, "preview") = {}
  BY <1>1, UnwantedFrees
<1> HIDE DEF b
<1>4. Fewer(m, b)
  BY <1>1, <1>3, FewerThen
<1>5. /\ y.pending = Idle /\ y.queued = NoRequest /\ y.hover = NoHover /\ y.commit = c
      /\ \A f \in OwnFields \ {"pending", "queued", "hover", "commit"} : y[f] = b[f]
      /\ OwnFields \subseteq DOMAIN y
  BY <1>2, <1>3 DEF OwnShape, OwnFields
<1>6. /\ \A f \in OwnFields \ {"table", "inbox"} : b[f] = m[f]
      /\ b.table \subseteq m.table
  <2>1. \A f \in OwnFields \ {"table", "inbox"} : a[f] = m[f]
    BY <1>1, OwnSame
  <2>2. \A f \in OwnFields \ {"inbox"} : b[f] = a[f]
    BY <1>1, <1>3, OwnSame
  <2> QED
    BY <1>1, <2>1, <2>2 DEF OwnFields
<1>7. /\ c.pc = (IF m.commit.pc = "queued" THEN "answered" ELSE m.commit.pc)
      /\ c.from = m.commit.from /\ c.state = m.commit.state /\ {"pc", "op", "from", "state"} \subseteq DOMAIN c
  <2>1. b.commit = m.commit
    BY <1>6 DEF OwnFields
  <2> QED
    BY <2>1 DEF OwnShape
<1> HIDE DEF c
<1>8. /\ y.up = m.up /\ y.inbox = b.inbox /\ y.table = b.table /\ y.stray = m.stray /\ y.landed = m.landed
      /\ y.gen = m.gen /\ y.cache = m.cache /\ y.adoptions = m.adoptions /\ y.taken = m.taken /\ y.offer = m.offer
      /\ b.stray = m.stray /\ y.ids = m.ids /\ y.run = m.run /\ y.progress = m.progress
  BY <1>5, <1>6 DEF OwnFields
<1>9. OwnShape(y) /\ Fewer(m, y) /\ Wanted(y, "preview") = {}
  BY <1>3, <1>4, <1>5, <1>7, <1>8, NothingLanded DEF OwnShape, Fewer, AsksFirst, Wanted, Posts
<1>10. Free(y) = Free(m) \ D /\ Leaving(y) \subseteq Leaving(m) \cup D
  <2>1. Leaving(y) = Leaving(b)
    BY <1>8 DEF Leaving
  <2>2. Free(y) = Free(b)
    BY <1>8, <2>1 DEF Free
  <2> HIDE DEF D
  <2> QED
    BY <1>1, <1>3, <2>1, <2>2
<1>11. ASSUME NEW X, NEW U, Owned(m, X, U)
       PROVE  Owned(y, X, U)
  <2>1. /\ InCache(y) = InCache(m) /\ InOffers(y) = InOffers(m) /\ InOrders(y) = InOrders(m)
        /\ InPreview(y) = {st \in {m.taken} : Landed(st) /\ st.gen = m.gen}
    BY <1>5, <1>8, NothingLanded DEF InCache, InOffers, InOrders, InPreview
  <2>2. Split(Free(m), InCache(m), InOffers(m), InPreview(m) \ U, InOrders(m), X) /\ U \subseteq {m.taken}
    BY <1>11 DEF Owned, Balanced
  <2>3. m.pending.status = "landed" <=> Landed(m.pending.state)
    BY <1>11 DEF Owned, Mail, PendingOK
  <2>4. \A st \in Free(m) : st.gen = m.gen
    BY <1>11 DEF Owned, Balanced, Free
  <2>5. Split(Free(y), InCache(y), InOffers(y), InPreview(y) \ U, InOrders(y), X)
    <3>1. CASE gone
      <4>1. D = {m.pending.state}
        <5>1. m.pending.state \in InPreview(m) \ U
          BY <2>2, <2>3, <3>1 DEF InPreview
        <5>2. m.pending.state \in Free(m)
          BY <2>2, <5>1 DEF Split
        <5> QED
          BY <2>3, <2>4, <3>1, <5>2 DEF OfEngine
      <4>2. InPreview(y) \ U = (InPreview(m) \ U) \ D
        BY <2>1, <2>3, <3>1, <4>1 DEF InPreview
      <4>3. D \subseteq InPreview(m) \ U
        BY <2>2, <2>3, <3>1, <4>1 DEF InPreview
      <4> HIDE DEF D, gone
      <4> QED
        BY <1>10, <2>1, <2>2, <4>2, <4>3 DEF Split
    <3>2. CASE ~gone
      <4>1. InPreview(y) \ U = InPreview(m) \ U
        <5>1. CASE Landed(m.pending.state)
          <6>1. m.pending.state = m.taken
            BY <2>3, <3>2, <5>1
          <6>2. m.taken \notin U => m.taken.gen = m.gen
            BY <2>2, <2>4, <5>1, <6>1 DEF InPreview, Split
          <6> QED
            BY <2>1, <2>2, <5>1, <6>1, <6>2 DEF InPreview
        <5>2. CASE ~Landed(m.pending.state)
          BY <2>1, <5>2 DEF InPreview
        <5> QED
          BY <5>1, <5>2
      <4>2. Free(y) = Free(m)
        BY <1>10, <3>2
      <4> QED
        BY <2>1, <2>2, <4>1, <4>2
    <3> QED
      BY <3>1, <3>2
  <2>12. D \subseteq Free(m)
    <3>1. gone => m.pending.state \in InPreview(m) \ U
      BY <2>2, <2>3 DEF InPreview
    <3> QED
      BY <2>2, <3>1 DEF OfEngine, Split
  <2>6. /\ \A p, q \in y.adoptions : p.state = q.state => p = q
        /\ IsFiniteSet(y.table) /\ \A st \in y.table : st.gen = y.gen /\ st.n \in 1..y.landed
        /\ U \subseteq {y.taken} /\ \A st \in Leaving(y) \cup y.stray : st.n \in 1..y.landed
    <3>1. IsFiniteSet(y.table)
      BY <1>6, <1>8, <1>11, FS_Subset DEF Owned, Balanced
    <3>2. \A st \in D : st.n \in 1..m.landed
      BY <1>11, <2>12, FreeFacts DEF Owned
    <3> HIDE DEF D
    <3> QED
      BY <1>6, <1>8, <1>10, <1>11, <2>2, <3>1, <3>2 DEF Owned, Balanced
  <2>7. Balanced(y, X, U)
    BY <2>5, <2>6 DEF Balanced
  <2>8. Mail(m)
    BY <1>11 DEF Owned
  <2>9. PreviewMail(y)
    <3>1. \A i \in Posts(y, "preview") \cup Posts(y, "orders") : Landed(y.inbox[i].on)
      BY <1>9, <2>8 DEF Fewer, Posts, Mail, PreviewMail
    <3> QED
      BY <1>5, <1>9, <3>1, NothingLanded DEF PreviewMail
  <2>10. ReplayMail(y) /\ FoldMail(y)
    BY <1>5, <1>7, <1>8, <1>9, <2>8, FewerMail DEF Mail
  <2>11. PendingOK(y) /\ OfferOK(y) /\ FromOK(y.commit.from) /\ FromOK(y.hover.from) /\ (~y.up => y.inbox = <<>> /\ y.table = {}) /\ AsksFirst(y)
        /\ (Landed(y.taken) => y.taken.gen \in Nat /\ y.taken.gen <= y.gen)
    BY <1>5, <1>6, <1>7, <1>8, <1>9, <2>8, NothingLanded DEF Mail, PendingOK, OfferOK, FromOK, Fewer
  <2> QED
    BY <1>9, <2>7, <2>9, <2>10, <2>11 DEF Owned, Mail
<1>12. Carried(m, y)
  <2>1. NoFold(m) => NoFold(y)
    BY <1>9, FewerMail DEF NoFold
  <2> QED
    BY <1>5, <1>6, <1>7, <1>8, <1>9, <2>1 DEF Carried, Taking, Placed
<1> QED
  BY <1>5, <1>6, <1>7, <1>8, <1>9, <1>11, <1>12 DEF y

\* Offers to the replay are withdrawn.
LEMMA OffersGo ==
  ASSUME NEW m, NEW left \in SUBSET m.adoptions, NEW rest, rest = m.adoptions \ left
  PROVE  Minds(m, [ReleaseAll(m, {a.state : a \in left}) EXCEPT !.adoptions = rest])
<1> DEFINE sts == {a.state : a \in left}
           D == OfEngine(m, sts)
           a == ReleaseAll(m, sts)
           y == [a EXCEPT !.adoptions = rest]
<1> SUFFICES ASSUME NEW X, NEW U, Owned(m, X, U)
             PROVE  Owned(y, X, U) /\ Carried(m, y)
  BY DEF Minds
<1>1. Balanced(m, X, U) /\ OwnShape(m) /\ Mail(m)
  BY DEF Owned
<1>2. sts \subseteq InOffers(m)
  BY DEF InOffers
<1>3. sts \subseteq Free(m)
  <2> HIDE DEF sts
  <2> QED
    BY <1>1, <1>2, FreeFacts
<1>4. D = sts /\ IsFiniteSet(D)
  <2> HIDE DEF sts
  <2> QED
    BY <1>1, <1>3, FreeFacts
<1>5. InOffers(m) \ sts = {b.state : b \in rest} /\ rest \subseteq m.adoptions
  BY <1>1 DEF InOffers, Balanced
<1> HIDE DEF sts, D
<1>6. /\ Only(m, a, {"table", "inbox"}) /\ OwnShape(a) /\ Fewer(m, a)
      /\ a.table \subseteq m.table /\ Free(a) = Free(m) \ D /\ Leaving(a) \subseteq Leaving(m) \cup D
  BY <1>1, <1>4, ReleaseAllFrees DEF D
<1> HIDE DEF a
<1>7. y.adoptions = rest /\ \A f \in OwnFields \ {"adoptions"} : y[f] = a[f]
  BY <1>6 DEF OwnShape, OwnFields
<1>8. OwnFields \subseteq DOMAIN y
  BY <1>6 DEF OwnShape
<1> HIDE DEF y
<1>9. \A f \in OwnFields \ {"table", "inbox"} : a[f] = m[f]
  BY <1>1, <1>6, OwnSame
<1>10. \A f \in StayFields \cup {"cache", "offer"} : y[f] = m[f]
  BY <1>7, <1>9 DEF OwnFields, StayFields
<1>11. y.inbox = a.inbox /\ y.table = a.table /\ y.stray = a.stray
  BY <1>7 DEF OwnFields
<1>12. OwnShape(y)
  <2>1. y.landed = m.landed /\ y.gen = m.gen /\ y.commit = m.commit /\ y.hover = m.hover /\ y.pending = m.pending
    BY <1>10 DEF StayFields
  <2> QED
    BY <1>1, <1>5, <1>6, <1>7, <1>8, <1>11, <2>1 DEF OwnShape
<1>13. Fewer(m, y) /\ Leaving(y) = Leaving(a) /\ Free(y) = Free(a)
  BY <1>6, <1>11 DEF Fewer, AsksFirst, Leaving, Free
<1>14. Split(Free(y), InCache(y), InOffers(y), InPreview(y) \ U, InOrders(y), X)
  <2>1. InCache(y) = InCache(m) /\ InPreview(y) = InPreview(m) /\ InOrders(y) = InOrders(m)
    BY <1>10 DEF InCache, InPreview, InOrders, StayFields
  <2>2. InOffers(y) = InOffers(m) \ D
    BY <1>4, <1>5, <1>7 DEF InOffers
  <2>3. Split(Free(m), InCache(m), InOffers(m), InPreview(m) \ U, InOrders(m), X)
    BY <1>1 DEF Balanced
  <2> QED
    BY <1>2, <1>4, <1>6, <1>13, <2>1, <2>2, <2>3 DEF Split
<1>15. OfferOK(y) /\ U \subseteq {m.taken} /\ y.table \subseteq m.table /\ \A f \in StayFields : y[f] = m[f]
  BY <1>1, <1>6, <1>10, <1>11 DEF OfferOK, Balanced, Mail
<1>16. DOMAIN y.cache \subseteq DOMAIN m.cache /\ y.adoptions \subseteq m.adoptions
  BY <1>5, <1>7, <1>10
<1>17. Leaving(y) \subseteq Leaving(m) \cup D /\ D \subseteq Free(m)
  BY <1>3, <1>4, <1>6, <1>13
<1> QED
  BY <1>12, <1>13, <1>14, <1>15, <1>16, <1>17, LetsGo

\* What is asked is not wanted any more.
LEMMA UnwantedMinds ==
  ASSUME NEW m, NEW kind
  PROVE  Minds(m, Unwanted(m, kind))
<1> DEFINE y == Unwanted(m, kind)
<1> SUFFICES ASSUME NEW X, NEW U, Owned(m, X, U)
             PROVE  Owned(y, X, U) /\ Carried(m, y)
  BY DEF Minds
<1>1. Balanced(m, X, U) /\ OwnShape(m) /\ Mail(m)
  BY DEF Owned
<1>2. Only(m, y, {"inbox"}) /\ OwnShape(y) /\ Fewer(m, y) /\ Free(y) = Free(m) /\ Leaving(y) = Leaving(m)
  BY <1>1, UnwantedFrees
<1> HIDE DEF y
<1>3. \A f \in OwnFields \ {"inbox"} : y[f] = m[f]
  BY <1>1, <1>2, OwnSame
<1>4. \A f \in StayFields \cup {"cache", "adoptions", "offer", "table"} : y[f] = m[f]
  BY <1>3 DEF OwnFields, StayFields
<1>5. Split(Free(y), InCache(y), InOffers(y), InPreview(y) \ U, InOrders(y), X)
  <2>1. y.cache = m.cache /\ y.adoptions = m.adoptions /\ y.offer = m.offer /\ y.pending = m.pending
        /\ y.taken = m.taken /\ y.gen = m.gen
    BY <1>4 DEF StayFields
  <2> QED
    BY <1>1, <1>2, <2>1 DEF InCache, InOffers, InPreview, InOrders, Balanced
<1>6. OfferOK(y) /\ U \subseteq {m.taken}
  BY <1>1, <1>4 DEF OfferOK, Balanced, Mail
<1>7. {} \subseteq Free(m) /\ Leaving(y) \subseteq Leaving(m) \cup {}
  BY <1>2
<1> QED
  BY <1>2, <1>4, <1>5, <1>6, <1>7, LetsGo

\* A call that may be made.
MayAsk(m, kind, on, path) ==
  CASE kind = "preview" -> Wanted(m, "preview") = {} /\ m.queued = NoRequest /\ m.pending.status # "landed" /\ Landed(on)
    [] kind = "orders" -> Landed(on)
    [] kind = "replay" -> path \notin DOMAIN m.cache /\ \A i \in Wanted(m, "replay") : m.inbox[i].path # path
    [] kind = "fold" -> NoFold(m) /\ m.commit.pc = "fold"
    [] kind \in {"version", "print"} -> TRUE
    [] OTHER -> FALSE

LEMMA AskOwned ==
  ASSUME NEW m, NEW kind, NEW on, NEW op, NEW path, NEW X, NEW U, Owned(m, X, U), MayAsk(m, kind, on, path)
  PROVE  LET y == Ask(m, kind, on, op, path) IN
         /\ Owned(y, X, U) /\ (kind \notin {"fold", "preview"} => Carried(m, y))
         /\ \A f \in OwnFields \ {"up", "inbox"} : y[f] = m[f]
         /\ \A k : k # kind => (Posts(m, k) = {} => Posts(y, k) = {}) /\ (Wanted(m, k) = {} => Wanted(y, k) = {})
<1> DEFINE y == Ask(m, kind, on, op, path)
           n == Len(m.inbox) + 1
<1>1. Balanced(m, X, U) /\ OwnShape(m) /\ Mail(m)
  BY DEF Owned
<1>2. kind \in {"preview", "orders", "replay", "fold", "version", "print"}
  BY DEF MayAsk
<1>3. /\ Only(m, y, {"up", "inbox"}) /\ OwnShape(y) /\ Free(y) = Free(m) /\ Leaving(y) = Leaving(m) /\ y.up
      /\ n \notin DOMAIN m.inbox /\ DOMAIN y.inbox = DOMAIN m.inbox \cup {n}
      /\ \A i \in DOMAIN m.inbox : y.inbox[i] = m.inbox[i]
      /\ y.inbox[n] = [kind |-> kind, on |-> on, op |-> op, path |-> path, wanted |-> TRUE]
  BY <1>1, <1>2, AskPosts
<1>4. \A f \in OwnFields \ {"up", "inbox"} : y[f] = m[f]
  BY <1>1, <1>3, OwnSame
<1> HIDE DEF y, n
<1>5. /\ y.table = m.table /\ y.stray = m.stray /\ y.landed = m.landed
      /\ y.gen = m.gen /\ y.cache = m.cache /\ y.adoptions = m.adoptions /\ y.pending = m.pending
      /\ y.taken = m.taken /\ y.offer = m.offer /\ y.queued = m.queued /\ y.commit = m.commit /\ y.hover = m.hover
      /\ y.ids = m.ids /\ y.run = m.run /\ y.progress = m.progress
  BY <1>4 DEF OwnFields
<1>6. Balanced(y, X, U)
  BY <1>1, <1>3, <1>5 DEF Balanced, InCache, InOffers, InPreview, InOrders
<1>7. /\ y.inbox[n].kind = kind /\ y.inbox[n].on = on /\ y.inbox[n].path = path /\ y.inbox[n].wanted
  BY <1>3
<1>8. \A k : /\ k # kind => Posts(y, k) = Posts(m, k) /\ Wanted(y, k) = Wanted(m, k)
             /\ Posts(y, kind) = Posts(m, kind) \cup {n} /\ Wanted(y, kind) = Wanted(m, kind) \cup {n}
  BY <1>3, <1>7 DEF Posts, Wanted
<1>9. \A k : \A i \in Posts(m, k) : i \in DOMAIN m.inbox /\ y.inbox[i] = m.inbox[i]
  BY <1>3 DEF Posts
<1>10. \A k : Wanted(m, k) \subseteq Posts(m, k)
  BY DEF Wanted
<1>11. PreviewMail(y)
  <2>1. PreviewMail(m)
    BY <1>1 DEF Mail
  <2>2. \A i \in Posts(y, "preview") \cup Posts(y, "orders") : Landed(y.inbox[i].on)
    <3>1. \A i \in Posts(m, "preview") \cup Posts(m, "orders") : Landed(y.inbox[i].on)
      BY <1>9, <2>1 DEF PreviewMail
    <3>2. kind \in {"preview", "orders"} => Landed(on)
      BY DEF MayAsk
    <3>3. \A i \in Posts(y, "preview") \cup Posts(y, "orders") :
            i \in Posts(m, "preview") \cup Posts(m, "orders") \/ (i = n /\ kind \in {"preview", "orders"})
      BY <1>8
    <3> QED
      BY <1>7, <3>1, <3>2, <3>3
  <2>3. CASE kind = "preview"
    <3>1. Wanted(m, "preview") = {} /\ m.queued = NoRequest /\ m.pending.status # "landed"
      BY <2>3 DEF MayAsk
    <3>2. Wanted(y, "preview") = {n}
      BY <1>8, <2>3, <3>1
    <3> QED
      BY <1>5, <2>2, <3>1, <3>2 DEF PreviewMail
  <2>4. CASE kind # "preview"
    <3>1. Wanted(y, "preview") = Wanted(m, "preview")
      BY <1>8, <2>4
    <3> QED
      BY <1>5, <2>1, <2>2, <3>1 DEF PreviewMail
  <2> QED
    BY <2>3, <2>4
<1>12. ReplayMail(y)
  <2>1. ReplayMail(m)
    BY <1>1 DEF Mail
  <2>2. \A i \in Wanted(m, "replay") : y.inbox[i] = m.inbox[i]
    BY <1>9, <1>10
  <2>3. CASE kind = "replay"
    <3>1. path \notin DOMAIN m.cache /\ \A i \in Wanted(m, "replay") : m.inbox[i].path # path
      BY <2>3 DEF MayAsk
    <3>2. Wanted(y, "replay") = Wanted(m, "replay") \cup {n}
      BY <1>8, <2>3
    <3> QED
      BY <1>5, <1>7, <2>1, <2>2, <3>1, <3>2 DEF ReplayMail
  <2>4. CASE kind # "replay"
    <3>1. Wanted(y, "replay") = Wanted(m, "replay")
      BY <1>8, <2>4
    <3> QED
      BY <1>5, <2>1, <2>2, <3>1 DEF ReplayMail
  <2> QED
    BY <2>3, <2>4
<1>13. FoldMail(y)
  <2>1. FoldMail(m)
    BY <1>1 DEF Mail
  <2>2. CASE kind = "fold"
    <3>1. NoFold(m) /\ m.commit.pc = "fold"
      BY <2>2 DEF MayAsk
    <3>2. Posts(y, "fold") = {n}
      BY <1>8, <2>2, <3>1 DEF NoFold
    <3> QED
      BY <1>5, <3>1, <3>2 DEF FoldMail
  <2>3. CASE kind # "fold"
    BY <1>5, <1>8, <2>1, <2>3 DEF FoldMail, NoFold
  <2> QED
    BY <2>2, <2>3
<1>14. AsksFirst(y)
  BY <1>1, <1>2, <1>3, <1>7 DEF AsksFirst, Mail
<1>15. Mail(y)
  BY <1>1, <1>3, <1>5, <1>11, <1>12, <1>13, <1>14 DEF Mail, PendingOK, OfferOK
<1>16. kind \notin {"fold", "preview"} => Carried(m, y)
  BY <1>5, <1>8 DEF Carried, Taking, NoFold, Placed
<1> QED
  BY <1>3, <1>4, <1>6, <1>8, <1>15, <1>16 DEF y, Owned

\* A call that nothing depends on.
LEMMA AskMinds ==
  ASSUME NEW m, NEW kind, NEW on, NEW op, NEW path,
         kind \in {"version", "print"} \/ (kind = "orders" /\ Landed(on))
  PROVE  Minds(m, Ask(m, kind, on, op, path))
<1>1. MayAsk(m, kind, on, path) /\ kind \notin {"fold", "preview"}
  BY DEF MayAsk
<1> QED
  BY <1>1, AskOwned DEF Minds

----------------------------------------------------------------------------
(* Publishing, and letting everything go.                                  *)

\* A commit or a preview that waits, goes on or is over, but not while it folds or awaits
\* a fingerprint.
WaiterMoves(v, w) ==
  /\ FromOK(v.from) => FromOK(w.from)
  /\ v.pc = "fold" => w.pc = "fold"
  /\ (v.pc = "print") = (w.pc = "print") /\ (w.pc = "print" => w.state = v.state)

LEMMA WaitersMinds ==
  ASSUME NEW x, NEW y, NEW T, Only(x, y, T), T \cap OwnFields \subseteq {"commit", "hover"},
         OwnShape(x) => /\ {"pc", "op", "from", "state"} \subseteq DOMAIN y.commit /\ {"pc", "op", "from"} \subseteq DOMAIN y.hover
                        /\ WaiterMoves(x.commit, y.commit) /\ (FromOK(x.hover.from) => FromOK(y.hover.from))
  PROVE  Minds(x, y)
<1> SUFFICES ASSUME OwnShape(x)
             PROVE  \A X, U : Owned(x, X, U) => Owned(y, X, U) /\ Carried(x, y)
  BY DEF Minds, Owned
<1>1. DOMAIN y = DOMAIN x /\ \A f \in OwnFields \ {"commit", "hover"} : y[f] = x[f]
  BY DEF Only, OwnShape
<1>2. /\ y.up = x.up /\ y.inbox = x.inbox /\ y.table = x.table /\ y.stray = x.stray /\ y.landed = x.landed
      /\ y.gen = x.gen /\ y.cache = x.cache /\ y.adoptions = x.adoptions /\ y.pending = x.pending
      /\ y.taken = x.taken /\ y.offer = x.offer /\ y.queued = x.queued
      /\ y.ids = x.ids /\ y.run = x.run /\ y.progress = x.progress
  BY <1>1 DEF OwnFields
<1>3. OwnShape(y)
  BY <1>1, <1>2 DEF OwnShape
<1>4. \A U, X : Balanced(x, X, U) => Balanced(y, X, U)
  BY <1>2 DEF Balanced, Free, Leaving, InCache, InOffers, InPreview, InOrders
<1>5. ASSUME Mail(x)
      PROVE  Mail(y)
  <2>1. PreviewMail(y) /\ ReplayMail(y) /\ AsksFirst(y) /\ PendingOK(y) /\ OfferOK(y)
    BY <1>2, <1>5 DEF Mail, PreviewMail, ReplayMail, AsksFirst, PendingOK, OfferOK, Posts, Wanted
  <2>2. FoldMail(y)
    BY <1>2, <1>5 DEF Mail, FoldMail, NoFold, Posts, WaiterMoves
  <2>3. FromOK(y.commit.from) /\ FromOK(y.hover.from)
    BY <1>5 DEF Mail, WaiterMoves
  <2> QED
    BY <1>2, <1>5, <2>1, <2>2, <2>3 DEF Mail
<1>6. Carried(x, y)
  <2>1. Taking(x) => Taking(y)
    BY <1>2 DEF Taking, WaiterMoves
  <2> QED
    BY <1>2, <2>1 DEF Carried, NoFold, Posts, Wanted, Placed
<1> QED
  BY <1>3, <1>4, <1>5, <1>6 DEF Owned

LEMMA WakeMoves ==
  ASSUME NEW m, NEW w, {"pc", "op", "from"} \subseteq DOMAIN w
  PROVE  /\ DOMAIN Wake(m, w) = DOMAIN w
         /\ WaiterMoves(w, Wake(m, w))
<1>1. FromOK(FoldingFrom(m).from)
  BY DEF FoldingFrom, FromOK, NoFrom
<1> DEFINE f == FoldingFrom(m).from
<1>2. Wake(m, w) = IF w.pc = "waiting" /\ ReadyToFold(m) THEN [w EXCEPT !.pc = "woken", !.from = f] ELSE w
  BY DEF Wake
<1>3. FromOK(f)
  BY <1>1
<1> HIDE DEF f
<1> QED
  BY <1>2, <1>3 DEF WaiterMoves

LEMMA WakeWaitersMinds ==
  ASSUME NEW m
  PROVE  Minds(m, WakeWaiters(m)) /\ Only(m, WakeWaiters(m), {"commit", "hover"})
<1> DEFINE c == Wake(m, m.commit)
           h == Wake(m, m.hover)
           y == WakeWaiters(m)
<1>1. y = [m EXCEPT !.commit = c, !.hover = h]
  BY DEF WakeWaiters, Wake
<1> HIDE DEF c, h, y
<1>2. Only(m, y, {"commit", "hover"})
  BY <1>1 DEF Only
<1>3. ASSUME OwnShape(m)
      PROVE  /\ {"pc", "op", "from", "state"} \subseteq DOMAIN y.commit /\ {"pc", "op", "from"} \subseteq DOMAIN y.hover
             /\ WaiterMoves(m.commit, y.commit) /\ (FromOK(m.hover.from) => FromOK(y.hover.from))
  <2>1. y.commit = c /\ y.hover = h
    BY <1>1, <1>3 DEF OwnShape, OwnFields
  <2>2. DOMAIN c = DOMAIN m.commit /\ WaiterMoves(m.commit, c)
    BY <1>3, WakeMoves DEF OwnShape, c
  <2>3. DOMAIN h = DOMAIN m.hover /\ WaiterMoves(m.hover, h)
    BY <1>3, WakeMoves DEF OwnShape, h
  <2> QED
    BY <1>3, <2>1, <2>2, <2>3 DEF OwnShape, WaiterMoves
<1>4. Minds(m, y)
  BY <1>2, <1>3, WaitersMinds
<1> QED
  BY <1>2, <1>4 DEF y

LEMMA AnnounceMinds ==
  ASSUME NEW m
  PROVE  Minds(m, Announce(m)) /\ Only(m, Announce(m), {"commit", "hover", "snap"})
<1> DEFINE snap == SnapshotOf(m)
           a == [m EXCEPT !.snap = snap]
<1>1. Announce(m) = WakeWaiters(a)
  BY DEF Announce
<1> HIDE DEF snap
<1>2. Only(m, a, {"snap"})
  BY DEF Only
<1> HIDE DEF a
<1>3. Minds(m, a)
  BY <1>2, OnlyMinds DEF OwnFields
<1>4. Minds(a, WakeWaiters(a)) /\ Only(a, WakeWaiters(a), {"commit", "hover"})
  BY WakeWaitersMinds
<1>5. Only(m, WakeWaiters(a), {"commit", "hover", "snap"})
  BY <1>2, <1>4 DEF Only
<1> QED
  BY <1>1, <1>3, <1>4, <1>5, MindsThen

LEMMA PublishMinds ==
  ASSUME NEW m
  PROVE  Minds(m, Publish(m)) /\ Only(m, Publish(m), {"commit", "hover", "snap"})
  BY AnnounceMinds, MindsSame DEF Publish, Only

\* The pending step and the offer go with what they were folded from.
LEMMA WithoutMinds ==
  ASSUME NEW m
  PROVE  Minds(m, WithoutPending(WithoutOffer(m)))
<1> DEFINE a == WithoutOffer(m)
<1>1. Minds(m, a)
  BY DropOfferMinds, MindsSame DEF WithoutOffer
<1> HIDE DEF a
<1>2. Minds(a, WithoutPending(a))
  BY DropPendingMinds, MindsSame DEF WithoutPending
<1> QED
  BY <1>1, <1>2, MindsThen DEF a

LEMMA RenderMinds ==
  ASSUME NEW m
  PROVE  Minds(m, Render(m)) /\ Minds(m, RenderEdited(m))
<1> DEFINE a == WithoutPending(WithoutOffer(m))
<1>1. Minds(m, a)
  BY WithoutMinds
<1>2. Render(m) = Publish(a) /\ RenderEdited(m) = Announce(a)
  BY DEF Render, RenderEdited
<1> HIDE DEF a
<1> QED
  BY <1>1, <1>2, PublishMinds, AnnounceMinds, MindsThen

LEMMA ForgetMinds ==
  ASSUME NEW m
  PROVE  Minds(m, ForgetStates(m))
<1> DEFINE p == DropPending(m)
           o == DropOffer(p)
           v == Unwanted(o, "version")
           y == ForgetStates(m)
<1>1. y = [v EXCEPT !.ahead = NoAhead, !.run = NoRun, !.progress = NoProgress, !.starting = FALSE]
  BY DEF ForgetStates
<1>2. Minds(m, p)
  BY DropPendingMinds
<1> HIDE DEF p
<1>3. Minds(p, o)
  BY DropOfferMinds
<1> HIDE DEF o
<1>4. Minds(o, v)
  BY UnwantedMinds
<1> HIDE DEF v, y
<1>5. Only(v, y, {"ahead", "run", "progress", "starting"})
  BY <1>1 DEF Only
<1>6. ASSUME OwnShape(v)
      PROVE  Placed(y)
  <2>1. y.run = NoRun /\ y.progress = NoProgress
    BY <1>1, <1>6 DEF OwnShape, OwnFields
  <2>2. "made" \in DOMAIN NoProgress /\ DOMAIN NoProgress.made = {} /\ NoRun.on = FALSE /\ "on" \in DOMAIN NoRun
    BY DEF NoProgress, NoRun
  <2> QED
    BY <2>1, <2>2 DEF Placed
<1>7. Minds(v, y)
  BY <1>5, <1>6, RunMinds DEF OwnFields
<1> QED
  BY <1>2, <1>3, <1>4, <1>7, MindsThen DEF y

LEMMA ReleaseUnadoptedMinds ==
  ASSUME NEW m
  PROVE  Minds(m, ReleaseUnadopted(m))
<1> DEFINE left == {a \in m.adoptions : a.older}
           r == ReleaseAll(m, {a.state : a \in left})
           rest == m.adoptions \ left
           z == [r EXCEPT !.adoptions = rest]
           y == ReleaseUnadopted(m)
<1>1. y = [r EXCEPT !.adoptions = @ \ left]
  BY DEF ReleaseUnadopted
<1>2. Only(m, r, {"table", "inbox"})
  BY ReleaseAllKeeps DEF Keeps
<1>3. Minds(m, z)
  BY OffersGo
<1> HIDE DEF left, r, y
<1>4. OwnShape(m) => y = z
  <2>1. OwnShape(m) => r.adoptions = m.adoptions
    BY <1>2 DEF Only, OwnShape, OwnFields
  <2> QED
    BY <1>1, <2>1
<1> HIDE DEF z
<1> QED
  BY <1>3, <1>4 DEF Minds, Owned, y

\* What a run that is on has landed is published.
LEMMA ReportMinds ==
  ASSUME NEW m, m.run.on, NEW done
  PROVE  Minds(m, Report(m, done))
<1> DEFINE progress == [load |-> m.run.load, done |-> done, made |-> m.run.made]
           y == [m EXCEPT !.progress = progress]
<1>1. Report(m, done) = Render(y)
  BY DEF Report
<1>2. progress.made = m.run.made /\ "made" \in DOMAIN progress
  OBVIOUS
<1> HIDE DEF progress
<1>3. Only(m, y, {"progress"}) /\ (OwnShape(m) => y.progress = progress /\ y.run = m.run /\ y.ids = m.ids)
  BY DEF Only, OwnShape, OwnFields
<1> HIDE DEF y
<1>4. OwnShape(m) /\ Placed(m) => Placed(y)
  BY <1>2, <1>3 DEF Placed
<1>5. Minds(m, y)
  BY <1>3, <1>4, RunMinds DEF OwnFields
<1> QED
  BY <1>1, <1>5, RenderMinds, MindsThen

\* A run is over.
LEMMA NoRunMinds ==
  ASSUME NEW x, NEW y, NEW T, Only(x, y, T), T \cap OwnFields \subseteq {"run"}, OwnShape(x) => y.run = NoRun
  PROVE  Minds(x, y)
<1>1. ASSUME OwnShape(x), Placed(x)
      PROVE  Placed(y)
  <2>1. y.progress = x.progress /\ y.ids = x.ids /\ y.run = NoRun
    BY <1>1 DEF Only, OwnShape, OwnFields
  <2>2. NoRun.on = FALSE /\ "on" \in DOMAIN NoRun
    BY DEF NoRun
  <2> QED
    BY <1>1, <2>1, <2>2 DEF Placed
<1> QED
  BY <1>1, RunMinds

LEMMA FinishMinds ==
  ASSUME NEW m, m.run.on
  PROVE  Minds(m, Finish(m))
<1> DEFINE r == Report(m, TRUE)
           s2 == Settled(r)
           u == ReleaseUnadopted(s2)
<1>1. Finish(m) = Render(u)
  BY DEF Finish
<1>2. Minds(m, r)
  BY ReportMinds
<1> HIDE DEF r
<1>3. Only(r, s2, {"run", "ahead"}) /\ (OwnShape(r) => s2.run = NoRun)
  BY DEF Settled, Only, OwnShape, OwnFields
<1>4. Minds(r, s2)
  BY <1>3, NoRunMinds DEF OwnFields
<1> HIDE DEF s2
<1>5. Minds(s2, u)
  BY ReleaseUnadoptedMinds
<1> HIDE DEF u
<1>6. Minds(u, Render(u))
  BY RenderMinds
<1> QED
  BY <1>1, <1>2, <1>4, <1>5, <1>6, MindsThen

\* What a run lands is of its order.
LEMMA MadeMinds ==
  ASSUME NEW m, NEW k, m.run.on, k \in DOMAIN m.run.order, NEW st
  PROVE  Minds(m, Made(m, m.run.order[k], st)) /\ Only(m, Made(m, m.run.order[k], st), {"run"})
<1> DEFINE id == m.run.order[k]
           made == Put(m.run.made, id, [path |-> PathOf(m.run.steps, id), state |-> st])
           run == [m.run EXCEPT !.made = made]
           y == Made(m, id, st)
<1>1. y = [m EXCEPT !.run = run]
  BY DEF Made
<1>2. DOMAIN made = {id} \cup DOMAIN m.run.made
  BY DEF Put
<1> HIDE DEF made, y
<1>3. DOMAIN run = DOMAIN m.run /\ ("made" \in DOMAIN m.run => run.made = made) /\ \A f \in DOMAIN m.run \ {"made"} : run[f] = m.run[f]
  OBVIOUS
<1> HIDE DEF run
<1>4. Only(m, y, {"run"}) /\ (OwnShape(m) => y.run = run /\ y.ids = m.ids /\ y.progress = m.progress)
  BY <1>1 DEF Only, OwnShape, OwnFields
<1>5. ASSUME OwnShape(m), Placed(m)
      PROVE  Placed(y)
  <2>1. {"made", "order", "on"} \subseteq DOMAIN m.run /\ id \in 0..m.ids
    BY <1>5 DEF Placed
  <2>2. run.order = m.run.order /\ run.made = made /\ DOMAIN run = DOMAIN m.run
    BY <1>3, <2>1
  <2> HIDE DEF id
  <2> QED
    BY <1>2, <1>4, <1>5, <2>1, <2>2 DEF Placed
<1>6. Minds(m, y)
  BY <1>4, <1>5, RunMinds DEF OwnFields
<1> QED
  BY <1>4, <1>6 DEF y

\* A run stops at a node, or goes on from it.
LEMMA RunStopsMinds ==
  ASSUME NEW m, NEW run,
         DOMAIN run = DOMAIN m.run, \A f \in DOMAIN m.run \ {"at", "waits"} : run[f] = m.run[f]
  PROVE  Minds(m, [m EXCEPT !.run = run])
<1> DEFINE y == [m EXCEPT !.run = run]
<1>1. Only(m, y, {"run"}) /\ (OwnShape(m) => y.run = run /\ y.ids = m.ids /\ y.progress = m.progress)
  BY DEF Only, OwnShape, OwnFields
<1> HIDE DEF y
<1>2. OwnShape(m) /\ Placed(m) => Placed(y)
  BY <1>1 DEF Placed
<1>3. Minds(m, y)
  BY <1>1, <1>2, RunMinds DEF OwnFields
<1> QED
  BY <1>3 DEF y

\* A run adopts what a commit offered.
LEMMA AdoptMinds ==
  ASSUME NEW m, NEW a \in m.adoptions, NEW path, path \notin DOMAIN m.cache,
         OwnShape(m) => \A i \in Wanted(m, "replay") : m.inbox[i].path # path
  PROVE  LET y == [m EXCEPT !.cache = Put(@, path, a.state), !.adoptions = @ \ {a}] IN
         Minds(m, y) /\ Only(m, y, {"cache", "adoptions"})
<1> DEFINE y == [m EXCEPT !.cache = Put(@, path, a.state), !.adoptions = @ \ {a}]
<1>1. Only(m, y, {"cache", "adoptions"})
  BY DEF Only
<1> SUFFICES ASSUME NEW X, NEW U, Owned(m, X, U)
             PROVE  Owned(y, X, U) /\ Carried(m, y)
  BY <1>1 DEF Minds
<1>2. Balanced(m, X, U) /\ OwnShape(m) /\ Mail(m)
  BY DEF Owned
<1>3. y.cache = Put(m.cache, path, a.state) /\ y.adoptions = m.adoptions \ {a}
  BY <1>2 DEF OwnShape, OwnFields
<1> HIDE DEF y
<1>4. \A f \in OwnFields \ {"cache", "adoptions"} : y[f] = m[f]
  BY <1>1, <1>2, OwnSame
<1>5. /\ y.up = m.up /\ y.inbox = m.inbox /\ y.table = m.table /\ y.stray = m.stray /\ y.landed = m.landed
      /\ y.gen = m.gen /\ y.pending = m.pending /\ y.taken = m.taken /\ y.offer = m.offer /\ y.queued = m.queued
      /\ y.commit = m.commit /\ y.hover = m.hover /\ y.ids = m.ids /\ y.run = m.run /\ y.progress = m.progress
  BY <1>4 DEF OwnFields
<1>6. /\ DOMAIN y.cache = DOMAIN m.cache \cup {path} /\ y.cache[path] = a.state
      /\ \A p \in DOMAIN m.cache : y.cache[p] = m.cache[p]
  BY <1>3 DEF Put
<1>7. a.state \in InOffers(m) /\ Landed(a.state)
  <2>1. a.state \in InOffers(m)
    BY DEF InOffers
  <2> QED
    BY <1>2, <2>1, FreeFacts
<1>8. InCache(y) = InCache(m) \cup {a.state}
  <2>1. \A st : (\E p \in DOMAIN y.cache : st = y.cache[p]) <=> (st = a.state \/ \E p \in DOMAIN m.cache : st = m.cache[p])
    BY <1>6
  <2> QED
    BY <1>7, <2>1 DEF InCache
<1>9. InOffers(y) = InOffers(m) \ {a.state}
  BY <1>2, <1>3 DEF InOffers, Balanced
<1>10. Balanced(y, X, U)
  <2>1. InPreview(y) = InPreview(m) /\ InOrders(y) = InOrders(m) /\ Free(y) = Free(m) /\ Leaving(y) = Leaving(m)
    BY <1>5 DEF InPreview, InOrders, Free, Leaving
  <2>2. Split(Free(y), InCache(y), InOffers(y), InPreview(y) \ U, InOrders(y), X)
    BY <1>2, <1>7, <1>8, <1>9, <2>1 DEF Split, Balanced
  <2> QED
    BY <1>2, <1>3, <1>5, <2>1, <2>2 DEF Balanced
<1>11. OwnShape(y)
  <2>1. OwnFields \subseteq DOMAIN y
    BY <1>1, <1>2 DEF Only, OwnShape
  <2> QED
    BY <1>2, <1>3, <1>5, <2>1 DEF OwnShape
<1>12. Mail(y)
  <2>1. PreviewMail(y) /\ FoldMail(y) /\ AsksFirst(y) /\ PendingOK(y) /\ OfferOK(y)
    BY <1>2, <1>5 DEF Mail, PreviewMail, FoldMail, NoFold, AsksFirst, PendingOK, OfferOK, Posts, Wanted
  <2>2. ReplayMail(y)
    <3>1. Wanted(y, "replay") = Wanted(m, "replay")
      BY <1>5 DEF Wanted, Posts
    <3> QED
      BY <1>2, <1>5, <1>6, <3>1 DEF ReplayMail, Mail
  <2> QED
    BY <1>2, <1>5, <2>1, <2>2 DEF Mail
<1>13. Carried(m, y)
  BY <1>5 DEF Carried, Taking, NoFold, Posts, Wanted, Placed
<1> QED
  BY <1>10, <1>11, <1>12, <1>13 DEF Owned

\* One node of a run.
LEMMA VisitMinds ==
  ASSUME NEW m, NEW k, Shape(m), m.run.on, k \in DOMAIN m.run.order
  PROVE  Minds(m, Visit(m, k))
<1> DEFINE id == m.run.order[k]
           path == PathOf(m.run.steps, id)
           step == IF id = 0 THEN [op |-> "none", parent |-> 0] ELSE StepOf(m.run.steps, id)
           parent == IF id = 0 THEN NoState ELSE m.run.made[step.parent].state
           offered == {a \in m.adoptions : a.parent = parent /\ a.op = step.op}
           a == CHOOSE a \in offered : TRUE
           adopted == [Made(m, id, a.state) EXCEPT !.cache = Put(@, path, a.state), !.adoptions = @ \ {a}]
           asked == Ask(m, "replay", parent, step.op, path)
           fresh == path \notin DOMAIN m.cache
                    /\ ~\E i \in DOMAIN m.inbox : m.inbox[i].kind = "replay" /\ m.inbox[i].wanted /\ m.inbox[i].path = path
<1>1. \/ Visit(m, k) = m
      \/ \E st : Visit(m, k) = Made(m, id, st)
      \/ Visit(m, k) = [m EXCEPT !.run.at = k, !.run.waits = TRUE]
      \/ Visit(m, k) = Report(adopted, FALSE) /\ a \in m.adoptions /\ fresh
      \/ Visit(m, k) = [asked EXCEPT !.run.at = k, !.run.waits = TRUE] /\ fresh
  <2>1. offered # {} => a \in m.adoptions
    OBVIOUS
  <2> QED
    BY <2>1, Zenon DEF Visit
<1>2. ASSUME NEW x, x.run.on = m.run.on
      PROVE  Minds(x, [x EXCEPT !.run.at = k, !.run.waits = TRUE])
  <2> DEFINE run == [x.run EXCEPT !.at = k, !.waits = TRUE]
  <2>1. DOMAIN run = DOMAIN x.run /\ \A f \in DOMAIN x.run \ {"at", "waits"} : run[f] = x.run[f]
    OBVIOUS
  <2>2. [x EXCEPT !.run.at = k, !.run.waits = TRUE] = [x EXCEPT !.run = run]
    OBVIOUS
  <2> HIDE DEF run
  <2> QED
    BY <2>1, <2>2, RunStopsMinds
<1>3. CASE Visit(m, k) = m
  BY <1>3, MindsSame
<1>4. CASE \E st : Visit(m, k) = Made(m, id, st)
  BY <1>4, MadeMinds
<1>5. CASE Visit(m, k) = [m EXCEPT !.run.at = k, !.run.waits = TRUE]
  BY <1>2, <1>5
<1>6. CASE Visit(m, k) = Report(adopted, FALSE) /\ a \in m.adoptions /\ fresh
  <2> DEFINE b == Made(m, id, a.state)
             c == [b EXCEPT !.cache = Put(@, path, a.state), !.adoptions = @ \ {a}]
  <2>1. adopted = c
    OBVIOUS
  <2> HIDE DEF adopted, a, path
  <2>2. Minds(m, b) /\ Only(m, b, {"run"})
    BY MadeMinds
  <2>3. Shape(m) => b.run.on
    BY MadeKeeps DEF GoesOn
  <2>4. OwnShape(m) => b.cache = m.cache /\ b.adoptions = m.adoptions /\ b.inbox = m.inbox
    BY <2>2 DEF Only, OwnShape, OwnFields
  <2> SUFFICES ASSUME OwnShape(m)
               PROVE  Minds(m, Report(adopted, FALSE))
    BY <1>6 DEF Minds, Owned
  <2>5. \A i \in Wanted(b, "replay") : b.inbox[i].path # path
    BY <1>6, <2>4 DEF Wanted, Posts
  <2> HIDE DEF b, id
  <2>6. Minds(b, c) /\ Only(b, c, {"cache", "adoptions"})
    BY <1>6, <2>4, <2>5, AdoptMinds
  <2>7. c.run.on
    <3>1. "run" \in DOMAIN b
      BY <2>2 DEF Only, OwnShape, OwnFields
    <3> QED
      BY <2>3, <2>6, <3>1 DEF Only
  <2> HIDE DEF c
  <2>8. Minds(c, Report(c, FALSE))
    BY <2>7, ReportMinds
  <2> QED
    BY <2>1, <2>2, <2>6, <2>8, MindsThen
<1>7. CASE Visit(m, k) = [asked EXCEPT !.run.at = k, !.run.waits = TRUE] /\ fresh
  <2> HIDE DEF path, parent, step
  <2>1. MayAsk(m, "replay", parent, path)
    BY <1>7 DEF MayAsk, Wanted, Posts
  <2>2. Minds(m, asked)
    BY <2>1, AskOwned DEF Minds
  <2>3. asked.run.on = m.run.on
    <3>1. Only(m, asked, {"up", "inbox"})
      BY AskKeeps DEF Keeps
    <3> QED
      BY <3>1 DEF Only, Shape, Fields
  <2> HIDE DEF asked
  <2> QED
    BY <1>2, <1>7, <2>2, <2>3, MindsThen
<1> HIDE DEF id, adopted, asked, fresh, a
<1> QED
  BY <1>1, <1>3, <1>4, <1>5, <1>6, <1>7, Zenon

LEMMA AdvanceMinds ==
  ASSUME NEW m, NEW from \in Nat \ {0}, Shape(m), m.run.on, from <= Len(m.run.order) + 1, Current(m), Heard(m)
  PROVE  Minds(m, Advance(m, from))
<1> DEFINE b == from - 1
           n == Len(m.run.order)
           v == CHOOSE v : v = [k \in b..n |-> Visiting(m, from, v, k)]
           Good(y) == Keeps(m, y, ReplaySlots) /\ GoesOn(m, y) /\ Current(y) /\ Heard(y) /\ Minds(m, y)
           T == {k \in b..n : Good(v[k])}
<1>1. n \in Nat /\ DOMAIN m.run.order = 1..n /\ b \in Nat /\ b <= n
  BY SeqDomain DEF Shape, RunShape
<1>2. v = [k \in b..n |-> Visiting(m, from, v, k)]
  <2>1. \E u : u = [k \in b..n |-> Visiting(m, from, u, k)]
    BY <1>1, VisitsExist
  <2> QED
    BY <2>1
<1>3. Advance(m, from) = FinishOrWait(v[n])
  BY DEF Advance, Visiting
<1> HIDE DEF v
<1>4. b \in T
  <2>1. b \in b..n /\ b < from
    BY <1>1
  <2>2. v[b] = m
    BY <1>2, <2>1 DEF Visiting
  <2>3. Good(m)
    BY KeepsSame, KeepsMore, MindsSame DEF GoesOn
  <2> QED
    BY <2>1, <2>2, <2>3
<1>5. ASSUME NEW k \in b..(n - 1), k \in T
      PROVE  k + 1 \in T
  <2> DEFINE x == v[k]
             y == Visit(x, k + 1)
  <2>1. k + 1 \in b..n /\ ~(k + 1 < from) /\ k + 1 - 1 = k /\ k + 1 \in 1..n
    BY <1>1, <1>5
  <2>2. v[k + 1] = y
    BY <1>2, <2>1 DEF Visiting
  <2>3. Good(x)
    BY <1>5
  <2> HIDE DEF x
  <2>4. Shape(x) /\ x.run.on /\ k + 1 \in DOMAIN x.run.order
    BY <1>1, <2>1, <2>3 DEF Keeps, GoesOn
  <2>5. Keeps(x, y, ReplaySlots) /\ GoesOn(x, y) /\ Current(y) /\ Heard(y)
    BY <2>3, <2>4, VisitGoes
  <2>6. Minds(x, y)
    BY <2>4, VisitMinds
  <2> HIDE DEF y
  <2>7. Good(y)
    BY <2>3, <2>5, <2>6, KeepsThen, MindsThen DEF GoesOn
  <2> QED
    BY <2>1, <2>2, <2>7
<1>6. Good(v[n])
  <2>1. \A k \in b..n : k \in T
    <3> HIDE DEF T, n, b
    <3> QED
      BY <1>1, <1>4, <1>5, Climb
  <2>2. n \in b..n
    BY <1>1
  <2> QED
    BY <2>1, <2>2
<1> DEFINE x == v[n]
<1>7. Minds(m, x) /\ x.run.on
  BY <1>6 DEF GoesOn
<1> HIDE DEF x
<1>8. Minds(x, FinishOrWait(x))
  BY <1>7, FinishMinds, MindsSame DEF FinishOrWait
<1> QED
  BY <1>3, <1>7, <1>8, MindsThen DEF x

\* Offers to the replay get older.
LEMMA OlderMinds ==
  ASSUME NEW m, NEW y, NEW T, Only(m, y, T), T \cap OwnFields \subseteq {"adoptions", "run"},
         OwnShape(m) => y.adoptions = {[a EXCEPT !.older = TRUE] : a \in m.adoptions},
         OwnShape(m) /\ Placed(m) => Placed(y)
  PROVE  Minds(m, y)
<1> DEFINE older(a) == [a EXCEPT !.older = TRUE]
<1> SUFFICES ASSUME NEW X, NEW U, Owned(m, X, U)
             PROVE  Owned(y, X, U) /\ Carried(m, y)
  BY DEF Minds
<1>1. Balanced(m, X, U) /\ OwnShape(m) /\ Mail(m)
  BY DEF Owned
<1>2. DOMAIN y = DOMAIN m /\ \A f \in OwnFields \ {"adoptions", "run"} : y[f] = m[f]
  BY <1>1 DEF Only, OwnShape
<1>3. /\ y.up = m.up /\ y.inbox = m.inbox /\ y.table = m.table /\ y.stray = m.stray /\ y.landed = m.landed
      /\ y.gen = m.gen /\ y.cache = m.cache /\ y.pending = m.pending
      /\ y.taken = m.taken /\ y.offer = m.offer /\ y.queued = m.queued /\ y.commit = m.commit /\ y.hover = m.hover
  BY <1>2 DEF OwnFields
<1>4. /\ \A a \in m.adoptions : older(a).state = a.state /\ "state" \in DOMAIN older(a)
      /\ y.adoptions = {older(a) : a \in m.adoptions}
  BY <1>1 DEF OwnShape
<1> HIDE DEF older
<1>5. OwnShape(y)
  BY <1>1, <1>2, <1>3, <1>4 DEF OwnShape
<1>6. InOffers(y) = InOffers(m)
  BY <1>1, <1>4 DEF InOffers
<1>7. \A a, b \in y.adoptions : a.state = b.state => a = b
  BY <1>1, <1>4 DEF Balanced
<1>8. Balanced(y, X, U)
  BY <1>1, <1>3, <1>6, <1>7 DEF Balanced, Free, Leaving, InCache, InPreview, InOrders
<1>9. Mail(y)
  BY <1>1, <1>3 DEF Mail, PreviewMail, ReplayMail, FoldMail, NoFold, AsksFirst, PendingOK, OfferOK, Posts, Wanted
<1>10. Carried(m, y)
  BY <1>1, <1>3 DEF Carried, Taking, NoFold, Posts, Wanted
<1> QED
  BY <1>5, <1>8, <1>9, <1>10 DEF Owned

LEMMA ReplayMinds ==
  ASSUME NEW m, Shape(m), Sound(m), Await(m)
  PROVE  Minds(m, Replay(m))
<1>1. CASE Replay(m) = m
  BY <1>1, MindsSame
<1>2. CASE Replay(m) # m
  <2> DEFINE run == [on |-> TRUE, load |-> m.load, steps |-> m.steps, order |-> ReplayOrder(m.steps, m.tip),
                     at |-> 1, waits |-> FALSE, made |-> <<>>]
             older == {[o EXCEPT !.older = TRUE] : o \in m.adoptions}
             ahead == [m.ahead EXCEPT !.older = m.ahead # NoAhead]
             a == [m EXCEPT !.owed = FALSE, !.run = run, !.error = NoError, !.ahead = ahead, !.adoptions = older]
             r == Render(a)
  <2>1. Replay(m) = Advance(r, 1)
    BY <1>2 DEF Replay
  <2>2. RunShape(run) /\ run.on /\ "on" \in DOMAIN run
    BY RunOfPlaces DEF RunShape
  <2>3. {"made", "order"} \subseteq DOMAIN run /\ DOMAIN run.made = {} /\ run.order = ReplayOrder(m.steps, m.tip)
    OBVIOUS
  <2>4. \A k \in DOMAIN run.order : run.order[k] \in 0..m.ids
    BY <2>3, OrderIsSeq DEF Sound
  <2> HIDE DEF run, ahead
  <2>5. Only(m, a, {"owed", "run", "error", "ahead", "adoptions"})
    BY DEF Only
  <2>6. a.run = run /\ a.commit = m.commit /\ a.hover = m.hover /\ a.snap = m.snap /\ Fields \subseteq DOMAIN a
    BY DEF Shape, Fields
  <2>7. OwnShape(m) => a.adoptions = older /\ a.ids = m.ids /\ a.progress = m.progress
    BY DEF OwnShape, OwnFields
  <2> HIDE DEF a
  <2>8. OwnShape(m) /\ Placed(m) => Placed(a)
    BY <2>2, <2>3, <2>4, <2>6, <2>7 DEF Placed
  <2>9. Minds(m, a)
    BY <2>5, <2>7, <2>8, OlderMinds DEF OwnFields
  <2>10. Shape(a)
    BY <2>2, <2>6 DEF Shape
  <2>11. Heard(a)
    BY <2>2, <2>6 DEF Heard, Await, Waits, Going
  <2>12. Keeps(a, r, RenderSlots) /\ Heard(r) /\ Current(r) /\ Minds(a, r)
    BY <2>10, <2>11, RenderHears, RenderMinds
  <2> HIDE DEF r
  <2>13. Shape(r)
    BY <2>10, <2>12 DEF Keeps
  <2>14. r.run = run
    BY <2>6, <2>10, <2>12, Kept DEF Fields, RenderSlots, OfferSlots, PendingSlots
  <2>15. Len(r.run.order) \in Nat
    BY <2>2, <2>13, <2>14, SeqDomain DEF Shape, RunShape
  <2>16. 1 \in Nat \ {0} /\ 1 <= Len(r.run.order) + 1
    BY <2>15
  <2>17. Minds(r, Advance(r, 1))
    BY <2>2, <2>12, <2>13, <2>14, <2>16, AdvanceMinds
  <2> QED
    BY <2>1, <2>9, <2>12, <2>17, MindsThen
<1> QED
  BY <1>1, <1>2

----------------------------------------------------------------------------
(* Who owns a state: starting, failing, landing everything again.          *)

LEMMA StartMinds ==
  ASSUME NEW m
  PROVE  Minds(m, Start(m)) /\ Minds(m, ScheduleReplay(m))
<1> DEFINE b == [m EXCEPT !.scheduled = TRUE]
           a == Ask(m, "version", NoState, "none", <<>>)
           c == [a EXCEPT !.starting = TRUE]
<1>1. Minds(m, b)
  <2>1. Only(m, b, {"scheduled"})
    BY DEF Only
  <2> QED
    BY <2>1, OnlyMinds DEF OwnFields
<1>2. Minds(m, c)
  <2>1. Minds(m, a)
    BY AskMinds
  <2> HIDE DEF a
  <2>2. Only(a, c, {"starting"})
    BY DEF Only
  <2>3. Minds(a, c)
    BY <2>2, OnlyMinds DEF OwnFields
  <2> QED
    BY <2>1, <2>3, MindsThen
<1>3. Minds(m, ScheduleReplay(m))
  BY <1>1, MindsSame DEF ScheduleReplay
<1> HIDE DEF b
<1> QED
  BY <1>2, <1>3, MindsSame DEF Start

LEMMA FailMinds ==
  ASSUME NEW m
  PROVE  Minds(m, Fail(m))
<1> DEFINE error == Failure(m)
           a == [m EXCEPT !.error = error]
<1>1. Fail(m) = Render(a)
  BY DEF Fail
<1> HIDE DEF error
<1>2. Only(m, a, {"error"})
  BY DEF Only
<1> HIDE DEF a
<1> QED
  BY <1>1, <1>2, OnlyMinds, RenderMinds, MindsThen DEF OwnFields

LEMMA RestartMinds ==
  ASSUME NEW m, NEW why
  PROVE  Minds(m, RestartOrHalt(m, why))
<1> DEFINE restarts == m.restarts + 1
           a == [m EXCEPT !.restarts = restarts]
           h == [m EXCEPT !.restarts = restarts, !.halted = TRUE, !.error = why]
<1>1. RestartOrHalt(m, why) \in {Start(a), h}
  BY DEF RestartOrHalt
<1> HIDE DEF restarts
<1>2. Only(m, a, {"restarts"}) /\ Only(m, h, {"restarts", "halted", "error"})
  BY DEF Only
<1> HIDE DEF a, h
<1>3. Minds(m, a) /\ Minds(m, h)
  BY <1>2, OnlyMinds DEF OwnFields
<1>4. Minds(m, Start(a))
  BY <1>3, StartMinds, MindsThen
<1> QED
  BY <1>1, <1>3, <1>4

LEMMA RelandMinds ==
  ASSUME NEW m
  PROVE  Minds(m, Reland(m))
<1> DEFINE f == ForgetStates(m)
           c == ClearReplayer(f)
           a == [c EXCEPT !.relanded = TRUE]
           b == RestartOrHalt(a, Failure(m))
<1>1. Reland(m) \in {m, Render(b)}
  BY DEF Reland
<1>2. Minds(m, f)
  BY ForgetMinds
<1> HIDE DEF f
<1>3. Minds(f, c)
  BY ClearReplayerMinds
<1> HIDE DEF c
<1>4. Only(c, a, {"relanded"})
  BY DEF Only
<1> HIDE DEF a
<1>5. Minds(c, a)
  BY <1>4, OnlyMinds DEF OwnFields
<1>6. Minds(a, b)
  BY RestartMinds
<1> HIDE DEF b
<1>7. Minds(b, Render(b))
  BY RenderMinds
<1>8. Minds(m, Render(b))
  BY <1>2, <1>3, <1>5, <1>6, <1>7, MindsThen
<1> QED
  BY <1>1, <1>8, MindsSame

----------------------------------------------------------------------------
(* Who owns a state: the engine going away.                                *)

\* An engine that is gone has nothing to let go of.
Blank(m) == OwnShape(m) /\ m.inbox = <<>> /\ m.table = {}

LEMMA BlankReleases ==
  ASSUME NEW m, NEW sts, Blank(m)
  PROVE  Only(m, ReleaseAll(m, sts), {"table"}) /\ Blank(ReleaseAll(m, sts))
<1> DEFINE held == {st \in sts : Landed(st) /\ st.gen = m.gen}
           y == [m EXCEPT !.table = @ \ held]
<1>1. ReleaseAll(m, sts) = y
  BY DEF ReleaseAll, Blank
<1> HIDE DEF held
<1>2. Only(m, y, {"table"})
  BY DEF Only
<1>3. y.table = {}
  BY DEF Blank, OwnShape, OwnFields
<1> HIDE DEF y
<1>4. OwnShape(y)
  BY <1>2, OwnShapeStill DEF Blank
<1>5. y.inbox = m.inbox
  BY <1>2 DEF Only, Blank, OwnShape, OwnFields
<1> QED
  BY <1>1, <1>2, <1>3, <1>4, <1>5 DEF Blank

LEMMA BlankForgets ==
  ASSUME NEW m, Blank(m)
  PROVE  LET y == ForgetStates(m) IN
         /\ Blank(y) /\ y.pending = Idle /\ y.queued = NoRequest /\ y.hover = NoHover /\ y.offer = Idle
         /\ y.run = NoRun /\ y.progress = NoProgress
         /\ y.commit.pc = (IF m.commit.pc = "queued" THEN "answered" ELSE m.commit.pc)
         /\ y.commit.from = m.commit.from /\ y.commit.state = m.commit.state
         /\ \A f \in {"up", "stray", "landed", "gen", "taken", "cache", "adoptions", "ids"} : y[f] = m[f]
<1> DEFINE p == DropPending(m)
           r == Release(p, p.offer.state)
           o == DropOffer(p)
           v == Unwanted(o, "version")
           y == ForgetStates(m)
<1>1. y = [v EXCEPT !.ahead = NoAhead, !.run = NoRun, !.progress = NoProgress, !.starting = FALSE]
  BY DEF ForgetStates
<1>2. /\ OwnShape(p) /\ p.pending = Idle /\ p.queued = NoRequest /\ p.hover = NoHover
      /\ Fewer(m, p) /\ p.table \subseteq m.table
      /\ p.commit.pc = (IF m.commit.pc = "queued" THEN "answered" ELSE m.commit.pc)
      /\ p.commit.from = m.commit.from /\ p.commit.state = m.commit.state
  BY DropPendingMinds DEF Blank
<1>3. Blank(p)
  BY <1>2 DEF Blank, Fewer
<1>4. Only(m, p, PendingSlots)
  BY DropPendingKeeps DEF Keeps
<1> HIDE DEF p
<1>5. Only(p, r, {"table"}) /\ Blank(r)
  BY <1>3, BlankReleases DEF Release
<1>6. o = [r EXCEPT !.offer = Idle]
  BY DEF DropOffer
<1> HIDE DEF r, o
<1>7. Only(r, o, {"offer"}) /\ o.offer = Idle
  BY <1>5, <1>6 DEF Only, Blank, OwnShape, OwnFields
<1>8. Blank(o)
  <2>1. OwnShape(o)
    BY <1>5, <1>7, OwnShapeStill DEF Blank
  <2>2. o.inbox = r.inbox /\ o.table = r.table
    BY <1>5, <1>7 DEF Only, Blank, OwnShape, OwnFields
  <2> QED
    BY <1>5, <2>1, <2>2 DEF Blank
<1>9. Only(o, v, {"inbox"}) /\ Blank(v)
  <2>1. Only(o, v, {"inbox"}) /\ OwnShape(v) /\ Fewer(o, v)
    BY <1>8, UnwantedFrees DEF Blank
  <2>2. v.table = o.table
    BY <1>8, <2>1 DEF Only, Blank, OwnShape, OwnFields
  <2> QED
    BY <1>8, <2>1, <2>2 DEF Blank, Fewer
<1> HIDE DEF v, y
<1>10. Only(v, y, {"ahead", "run", "progress", "starting"}) /\ y.run = NoRun /\ y.progress = NoProgress
  BY <1>1, <1>9 DEF Only, Blank, OwnShape, OwnFields
<1>11. Blank(y)
  <2>1. OwnShape(y)
    BY <1>9, <1>10, OwnShapeStill DEF Blank
  <2>2. y.inbox = v.inbox /\ y.table = v.table
    BY <1>9, <1>10 DEF Only, Blank, OwnShape, OwnFields
  <2> QED
    BY <1>9, <2>1, <2>2 DEF Blank
<1>12. Only(p, y, {"table", "inbox", "offer", "ahead", "run", "progress", "starting"}) /\ y.offer = Idle
  <2>1. Only(p, v, {"table", "inbox", "offer"})
    BY <1>5, <1>7, <1>9 DEF Only
  <2>2. v.offer = o.offer /\ y.offer = v.offer
    BY <1>8, <1>9, <1>10 DEF Only, Blank, OwnShape, OwnFields
  <2> QED
    BY <1>7, <1>10, <2>1, <2>2 DEF Only
<1>13. y.pending = p.pending /\ y.queued = p.queued /\ y.hover = p.hover /\ y.commit = p.commit
  BY <1>2, <1>12 DEF Only, OwnShape, OwnFields
<1>14. Only(m, y, PendingSlots \cup {"offer", "ahead", "run", "progress", "starting"})
  BY <1>4, <1>12 DEF Only, PendingSlots
<1>15. \A f \in {"up", "stray", "landed", "gen", "taken", "cache", "adoptions", "ids"} : y[f] = m[f]
  BY <1>14 DEF Only, Blank, OwnShape, OwnFields, PendingSlots
<1> QED
  BY <1>2, <1>10, <1>11, <1>12, <1>13, <1>15 DEF y

\* An engine gone for good: what is left is what a commit had taken.
LEMMA DropWorkerOwned ==
  ASSUME NEW m, Owned(m, {}, {})
  PROVE  LET y == DropWorker(m) IN
         /\ Owned(y, {}, {}) /\ y.table = {} /\ NoFold(y)
         /\ (Taking(m) => Taking(y)) /\ (Placed(m) => Placed(y))
<1> DEFINE g == [m EXCEPT !.up = FALSE, !.gen = @ + 1, !.inbox = <<>>, !.table = {}, !.stray = {}, !.relanded = FALSE]
           f == ForgetStates(g)
           c == ClearReplayer(f)
           y == DropWorker(m)
<1>1. Balanced(m, {}, {}) /\ OwnShape(m) /\ Mail(m)
  BY DEF Owned
<1>2. CASE ~m.up
  <2>1. y = m /\ m.inbox = <<>> /\ m.table = {}
    BY <1>1, <1>2 DEF DropWorker, Mail
  <2>2. DOMAIN m.inbox = {}
    BY <2>1
  <2> QED
    BY <2>1, <2>2 DEF NoFold, Posts
<1>3. CASE m.up
  <2>1. y = [c EXCEPT !.adoptions = {}]
    BY <1>3 DEF DropWorker
  <2>2. Only(m, g, {"up", "gen", "inbox", "table", "stray", "relanded"})
    BY DEF Only
  <2>3. g.up = FALSE /\ g.gen = m.gen + 1 /\ g.inbox = <<>> /\ g.table = {} /\ g.stray = {}
    BY <1>1 DEF OwnShape, OwnFields
  <2> HIDE DEF g
  <2>4. \A k \in OwnFields \ {"up", "gen", "inbox", "table", "stray"} : g[k] = m[k]
    BY <1>1, <2>2 DEF Only, OwnShape, OwnFields
  <2>5. Blank(g)
    <3>1. /\ g.landed = m.landed /\ g.adoptions = m.adoptions /\ g.commit = m.commit /\ g.hover = m.hover /\ g.pending = m.pending
          /\ OwnFields \subseteq DOMAIN g
      BY <1>1, <2>2, <2>4 DEF OwnFields, Only, OwnShape
    <3>2. m.gen + 1 \in Nat
      BY <1>1 DEF OwnShape
    <3>3. IsSeq(<<>>) /\ DOMAIN <<>> = {}
      BY DEF IsSeq
    <3> QED
      BY <1>1, <2>3, <3>1, <3>2, <3>3 DEF Blank, OwnShape
  <2>6. /\ Blank(f) /\ f.pending = Idle /\ f.queued = NoRequest /\ f.hover = NoHover /\ f.offer = Idle
        /\ f.run = NoRun /\ f.progress = NoProgress
        /\ f.commit.pc = (IF g.commit.pc = "queued" THEN "answered" ELSE g.commit.pc)
        /\ f.commit.from = g.commit.from /\ f.commit.state = g.commit.state
        /\ \A k \in {"up", "stray", "landed", "gen", "taken", "cache", "adoptions", "ids"} : f[k] = g[k]
    BY <2>5, BlankForgets
  <2> HIDE DEF f
  <2>7. c.cache = <<>> /\ Only(f, c, {"table", "inbox", "cache"}) /\ Blank(c)
    <3> DEFINE e == ReleaseAll(f, {f.cache[p] : p \in DOMAIN f.cache})
               u == Unwanted(e, "replay")
    <3>1. Only(f, e, {"table"}) /\ Blank(e)
      BY <2>6, BlankReleases
    <3>2. c = [u EXCEPT !.cache = <<>>]
      BY DEF ClearReplayer
    <3> HIDE DEF e
    <3>3. Only(e, u, {"inbox"}) /\ OwnShape(u) /\ Fewer(e, u)
      BY <3>1, UnwantedFrees DEF Blank
    <3> HIDE DEF u, c
    <3>4. Only(u, c, {"cache"}) /\ c.cache = <<>>
      BY <3>2, <3>3 DEF Only, OwnShape, OwnFields
    <3>5. OwnShape(c)
      BY <3>3, <3>4, OwnShapeStill
    <3>6. c.inbox = u.inbox /\ c.table = u.table /\ u.table = e.table
      BY <3>1, <3>3, <3>4 DEF Only, Blank, OwnShape, OwnFields
    <3>7. Only(f, c, {"table", "inbox", "cache"})
      BY <3>1, <3>3, <3>4 DEF Only
    <3> QED
      BY <3>1, <3>3, <3>4, <3>5, <3>6, <3>7 DEF Blank, Fewer
  <2> HIDE DEF c, y
  <2>8. Only(c, y, {"adoptions"}) /\ y.adoptions = {}
    BY <2>1, <2>7 DEF Only, Blank, OwnShape, OwnFields
  <2>9. /\ \A k \in OwnFields \ {"adoptions"} : y[k] = c[k]
        /\ \A k \in OwnFields \ {"table", "inbox", "cache"} : c[k] = f[k]
        /\ OwnFields \subseteq DOMAIN y
    BY <2>6, <2>7, <2>8 DEF Only, Blank, OwnShape
  <2>10. /\ y.up = FALSE /\ y.gen = m.gen + 1 /\ y.inbox = <<>> /\ y.table = {} /\ y.stray = {}
         /\ y.pending = Idle /\ y.queued = NoRequest /\ y.hover = NoHover /\ y.offer = Idle
         /\ y.run = NoRun /\ y.progress = NoProgress /\ y.cache = <<>> /\ y.adoptions = {}
         /\ y.commit = f.commit /\ y.landed = m.landed /\ y.taken = m.taken /\ y.ids = m.ids
    BY <2>3, <2>4, <2>6, <2>7, <2>8, <2>9 DEF OwnFields, Blank
  <2>11. f.commit.from = m.commit.from /\ f.commit.state = m.commit.state
         /\ f.commit.pc = (IF m.commit.pc = "queued" THEN "answered" ELSE m.commit.pc)
    BY <2>4, <2>6 DEF OwnFields
  <2>12. OwnShape(y)
    <3>1. /\ y.landed = c.landed /\ y.gen = c.gen /\ y.commit = c.commit /\ y.hover = c.hover
          /\ y.pending = c.pending /\ y.inbox = c.inbox
      BY <2>9 DEF OwnFields
    <3> QED
      BY <2>7, <2>8, <2>9, <3>1 DEF Blank, OwnShape
  <2>13. DOMAIN y.inbox = {} /\ DOMAIN y.cache = {}
    BY <2>10
  <2>14. Posts(y, "fold") = {} /\ (\A k : Posts(y, k) = {} /\ Wanted(y, k) = {})
    BY <2>13 DEF Posts, Wanted
  <2>15. Balanced(y, {}, {})
    <3>1. Free(y) = {} /\ InCache(y) = {} /\ InOffers(y) = {} /\ InOrders(y) = {}
      BY <2>10, <2>13, NothingLanded DEF Free, InCache, InOffers, InOrders
    <3>2. InPreview(y) = {}
      <4>1. Landed(m.taken) => m.taken.gen # m.gen + 1
        BY <1>1 DEF Mail, OwnShape
      <4> QED
        BY <2>10, <4>1, NothingLanded DEF InPreview
    <3>3. IsFiniteSet(y.table)
      BY <2>10, FS_EmptySet
    <3>4. Leaving(y) = {}
      BY <2>13 DEF Leaving
    <3> QED
      BY <2>10, <3>1, <3>2, <3>3, <3>4 DEF Balanced, Split
  <2>16. Mail(y)
    <3>1. PreviewMail(y) /\ ReplayMail(y) /\ FoldMail(y) /\ AsksFirst(y)
      BY <2>10, <2>13, <2>14 DEF PreviewMail, ReplayMail, FoldMail, NoFold, AsksFirst
    <3>2. PendingOK(y) /\ OfferOK(y) /\ FromOK(y.commit.from) /\ FromOK(y.hover.from)
      BY <1>1, <2>10, <2>11, NothingLanded DEF Mail, PendingOK, OfferOK, FromOK
    <3>3. Landed(y.taken) => y.taken.gen \in Nat /\ y.taken.gen <= y.gen
      BY <1>1, <2>10 DEF Mail, OwnShape
    <3> QED
      BY <2>10, <3>1, <3>2, <3>3 DEF Mail
  <2>17. Taking(m) => Taking(y)
    BY <2>10, <2>11 DEF Taking
  <2>18. Placed(y)
    <3>1. "made" \in DOMAIN NoProgress /\ DOMAIN NoProgress.made = {} /\ NoRun.on = FALSE /\ "on" \in DOMAIN NoRun
      BY DEF NoProgress, NoRun
    <3> QED
      BY <2>10, <3>1 DEF Placed
  <2> QED
    BY <2>10, <2>12, <2>14, <2>15, <2>16, <2>17, <2>18 DEF Owned, NoFold, y
<1> QED
  BY <1>2, <1>3

\* What the session owns, whole: nothing is on its way, and a commit awaits the
\* fingerprint of what it has taken.
WholeBut(m, X) == Owned(m, X, {}) /\ Taking(m) /\ TakenNow(m) /\ Placed(m)
Whole(m) == WholeBut(m, {})

LEMMA MindsWhole ==
  ASSUME NEW x, NEW y, Minds(x, y)
  PROVE  (Whole(x) => Whole(y)) /\ \A X : WholeBut(x, X) => WholeBut(y, X)
<1> SUFFICES ASSUME NEW X, WholeBut(x, X)
             PROVE  WholeBut(y, X)
  BY DEF Whole
<1>1. Owned(y, X, {}) /\ Carried(x, y)
  BY DEF WholeBut, Minds
<1> QED
  BY <1>1 DEF WholeBut, Carried, TakenNow

\* A commit that the engine took with it lets go of what it had.
LEMMA CommitLostWhole ==
  ASSUME NEW m, Owned(m, {}, {}), m.table = {}, NoFold(m), Taking(m), Placed(m)
  PROVE  Whole(CommitLost(m)) /\ CommitLost(m).commit.pc \in {"none", "waiting", "woken"}
<1> DEFINE u == m.up \/ (m.commit.pc # "fold" /\ (m.holders > 0 \/ m.lingering))
           y == [m EXCEPT !.commit = NoCommit, !.taken = NoState, !.queued = NoRequest, !.up = u]
<1>1. Balanced(m, {}, {}) /\ OwnShape(m) /\ Mail(m)
  BY DEF Owned
<1>2. CASE m.commit.pc \in {"none", "waiting", "woken"}
  <2>1. CommitLost(m) = m /\ m.taken = NoState
    BY <1>2 DEF CommitLost, Taking
  <2> QED
    BY <1>2, <2>1, NothingLanded DEF Whole, WholeBut, TakenNow
<1>3. CASE m.commit.pc \notin {"none", "waiting", "woken"}
  <2>1. CommitLost(m) = y
    BY <1>3 DEF CommitLost
  <2>2. m.up => u
    OBVIOUS
  <2> HIDE DEF u
  <2>3. y.commit = NoCommit /\ y.taken = NoState /\ y.queued = NoRequest /\ y.up = u
    BY <1>1 DEF OwnShape, OwnFields
  <2>4. Only(m, y, {"commit", "taken", "queued", "up"})
    BY DEF Only
  <2> HIDE DEF y
  <2>5. OwnFields \subseteq DOMAIN y /\ \A f \in OwnFields \ {"commit", "taken", "queued", "up"} : y[f] = m[f]
    BY <1>1, <2>4 DEF Only, OwnShape
  <2>6. /\ y.inbox = m.inbox /\ y.table = m.table /\ y.stray = m.stray /\ y.landed = m.landed
        /\ y.gen = m.gen /\ y.cache = m.cache /\ y.adoptions = m.adoptions /\ y.pending = m.pending
        /\ y.offer = m.offer /\ y.hover = m.hover /\ y.ids = m.ids /\ y.run = m.run /\ y.progress = m.progress
    BY <2>5 DEF OwnFields
  <2>7. OwnShape(y)
    BY <1>1, <2>3, <2>5, <2>6, NothingLanded DEF OwnShape
  <2>8. Balanced(y, {}, {})
    <3>1. Free(m) = {}
      BY DEF Free
    <3>2. InCache(m) = {} /\ InOffers(m) = {} /\ InPreview(m) = {} /\ InOrders(m) = {}
      BY <1>1, <3>1 DEF Balanced, Split
    <3>3. InPreview(y) = {}
      BY <2>3, <2>6, <3>2, NothingLanded DEF InPreview
    <3>4. InCache(y) = {} /\ InOffers(y) = {} /\ InOrders(y) = {}
      BY <2>6, <3>2 DEF InCache, InOffers, InOrders
    <3>5. Leaving(y) = Leaving(m)
      BY <2>6 DEF Leaving
    <3>6. Free(y) = {}
      BY <2>6 DEF Free
    <3> QED
      BY <1>1, <2>6, <3>3, <3>4, <3>5, <3>6 DEF Balanced, Split
  <2>9. Mail(y)
    <3>1. PreviewMail(y)
      BY <1>1, <2>3, <2>6 DEF Mail, PreviewMail, Posts, Wanted
    <3>2. ReplayMail(y) /\ AsksFirst(y) /\ PendingOK(y) /\ OfferOK(y)
      BY <1>1, <2>6 DEF Mail, ReplayMail, AsksFirst, PendingOK, OfferOK, Posts, Wanted
    <3>3. FoldMail(y)
      BY <2>6 DEF FoldMail, NoFold, Posts
    <3>4. FromOK(y.commit.from) /\ FromOK(y.hover.from)
      BY <1>1, <2>3, <2>6, NothingLanded DEF Mail, FromOK
    <3> QED
      BY <1>1, <2>2, <2>3, <2>6, <3>1, <3>2, <3>3, <3>4, NothingLanded DEF Mail
  <2>10. Taking(y) /\ TakenNow(y)
    BY <2>3, NothingLanded DEF Taking, TakenNow
  <2>11. Placed(y)
    BY <2>6 DEF Placed
  <2> QED
    BY <2>1, <2>3, <2>7, <2>8, <2>9, <2>10, <2>11, NothingLanded DEF Whole, WholeBut, Owned
<1> QED
  BY <1>2, <1>3

\* A session that stops lets go of everything.
LEMMA StopWhole ==
  ASSUME NEW m, Owned(m, {}, {}), Taking(m), Placed(m)
  PROVE  Whole(Stop(m)) /\ Stop(m).commit.pc \in {"none", "waiting", "woken"}
<1> DEFINE a == [m EXCEPT !.lingering = FALSE, !.owed = FALSE]
           f == ForgetStates(a)
           c == ClearReplayer(f)
           g == [ReleaseAll(c, {o.state : o \in c.adoptions}) EXCEPT !.adoptions = {}]
           d == DropWorker(g)
           r == Render(d)
<1>1. Stop(m) = CommitLost(r)
  BY DEF Stop
<1>2. Minds(m, a)
  <2>1. Only(m, a, {"lingering", "owed"})
    BY DEF Only
  <2> QED
    BY <2>1, OnlyMinds DEF OwnFields
<1> HIDE DEF a
<1>3. Minds(a, f)
  BY ForgetMinds
<1> HIDE DEF f
<1>4. Minds(f, c)
  BY ClearReplayerMinds
<1> HIDE DEF c
<1>5. Minds(c, g)
  <2>1. c.adoptions \in SUBSET c.adoptions /\ {} = c.adoptions \ c.adoptions
    OBVIOUS
  <2> QED
    BY <2>1, OffersGo
<1> HIDE DEF g
<1>6. Minds(m, g)
  BY <1>2, <1>3, <1>4, <1>5, MindsThen
<1>7. Owned(g, {}, {}) /\ Taking(g) /\ Placed(g)
  BY <1>6 DEF Minds, Carried
<1>8. Owned(d, {}, {}) /\ d.table = {} /\ NoFold(d) /\ Taking(d) /\ Placed(d)
  BY <1>7, DropWorkerOwned
<1> HIDE DEF d
<1>9. Owned(r, {}, {}) /\ Carried(d, r)
  BY <1>8, RenderMinds DEF Minds
<1>10. r.table = {} /\ NoFold(r) /\ Taking(r) /\ Placed(r)
  BY <1>8, <1>9 DEF Carried
<1> HIDE DEF r
<1> QED
  BY <1>1, <1>9, <1>10, CommitLostWhole

LEMMA LingerMinds ==
  ASSUME NEW m
  PROVE  Minds(m, StartLingering(m))
<1> DEFINE owed == m.owed \/ m.run.on \/ m.scheduled \/ m.starting \/ ~(m.progress.done /\ m.progress.load = m.load)
           a == [m EXCEPT !.owed = owed]
           p == DropPending(a)
           o == DropOffer(p)
           b == [o EXCEPT !.lingering = TRUE, !.run = NoRun]
<1>1. StartLingering(m) = Render(b)
  BY DEF StartLingering
<1> HIDE DEF owed
<1>2. Only(m, a, {"owed"})
  BY DEF Only
<1> HIDE DEF a
<1>3. Minds(m, a) /\ Minds(a, p)
  BY <1>2, OnlyMinds, DropPendingMinds DEF OwnFields
<1> HIDE DEF p
<1>4. Minds(p, o)
  BY DropOfferMinds
<1> HIDE DEF o
<1>5. Only(o, b, {"lingering", "run"}) /\ (OwnShape(o) => b.run = NoRun)
  BY DEF Only, OwnShape, OwnFields
<1> HIDE DEF b
<1>6. Minds(o, b)
  BY <1>5, NoRunMinds DEF OwnFields
<1>7. Minds(b, Render(b))
  BY RenderMinds
<1> QED
  BY <1>1, <1>3, <1>4, <1>6, <1>7, MindsThen

----------------------------------------------------------------------------
(* Who owns a state: a document that changes.                              *)

LEMMA ForgivenMinds ==
  ASSUME NEW m
  PROVE  Minds(m, Stale(m)) /\ Minds(m, Forgiven(m))
<1>1. Minds(m, Stale(m))
  <2> DEFINE p == m.progress
             kept == {id \in DOMAIN p.made \cap ({0} \cup IdsOf(m.steps)) : p.made[id].path = PathOf(m.steps, id)}
             made == [id \in kept |-> p.made[id]]
             progress == StillValid(m)
             y == [m EXCEPT !.owed = TRUE, !.progress = progress]
  <2>1. Stale(m) \in {m, y}
    BY DEF Stale
  <2>2. progress \in {p, [p EXCEPT !.made = made, !.done = FALSE]}
    BY DEF StillValid
  <2>3. DOMAIN made \subseteq DOMAIN p.made
    OBVIOUS
  <2> HIDE DEF made, progress
  <2>4. "made" \in DOMAIN p => "made" \in DOMAIN progress /\ DOMAIN progress.made \subseteq DOMAIN p.made
    BY <2>2, <2>3
  <2>5. Only(m, y, {"owed", "progress"}) /\ (OwnShape(m) => y.progress = progress /\ y.run = m.run /\ y.ids = m.ids)
    BY DEF Only, OwnShape, OwnFields
  <2> HIDE DEF y
  <2>6. OwnShape(m) /\ Placed(m) => Placed(y)
    BY <2>4, <2>5 DEF Placed
  <2>7. Minds(m, y)
    BY <2>5, <2>6, RunMinds DEF OwnFields
  <2> QED
    BY <2>1, <2>7, MindsSame
<1>2. Minds(m, Forgiven(m))
  <2>1. Only(m, Forgiven(m), {"halted", "restarts"})
    BY DEF Only, Forgiven
  <2> QED
    BY <2>1, OnlyMinds DEF OwnFields
<1> QED
  BY <1>1, <1>2

\* The listener, when the session does not stop.
LEMMA HearMinds ==
  ASSUME NEW b, NEW m, NEW edited, NEW silent, ~(m.lingering /\ m.load # b.load)
  PROVE  Minds(m, Hear(b, m, edited, silent))
<1> DEFINE replay == m.load # b.load \/ m.steps # b.steps
           retry == replay \/ (edited /\ (m.halted \/ m.error # NoError))
           stale == IF replay THEN Stale(m) ELSE m
           f == IF edited THEN Forgiven(stale) ELSE stale
           x == IF silent THEN f ELSE IF edited THEN RenderEdited(f) ELSE Render(f)
           y == Hear(b, m, edited, silent)
<1>1. y = IF retry THEN Start(x) ELSE IF m.tip # b.tip /\ x.run.on THEN ScheduleReplay(x) ELSE x
  BY DEF Hear
<1> HIDE DEF replay, retry, y
<1>2. Minds(m, stale)
  BY ForgivenMinds, MindsSame
<1> HIDE DEF stale
<1>3. Minds(stale, f)
  BY ForgivenMinds, MindsSame
<1> HIDE DEF f
<1>4. Minds(f, x)
  BY RenderMinds, MindsSame
<1> HIDE DEF x
<1>5. Minds(x, y)
  BY <1>1, StartMinds, MindsSame
<1> QED
  BY <1>2, <1>3, <1>4, <1>5, MindsThen DEF y

LEMMA HearWhole ==
  ASSUME NEW b, NEW m, NEW edited, NEW silent, Whole(m)
  PROVE  Whole(Hear(b, m, edited, silent))
<1>1. CASE m.lingering /\ m.load # b.load
  <2>1. Hear(b, m, edited, silent) = Stop(m)
    BY <1>1 DEF Hear
  <2> QED
    BY <2>1, StopWhole DEF Whole, WholeBut
<1>2. CASE ~(m.lingering /\ m.load # b.load)
  BY <1>2, HearMinds, MindsWhole
<1> QED
  BY <1>1, <1>2

\* The document changes, and its ids grow.
LEMMA DocMinds ==
  ASSUME NEW x, NEW y, NEW T, Only(x, y, T), T \cap OwnFields \subseteq {"ids"},
         OwnShape(x) => \A i : i \in 0..x.ids => i \in 0..y.ids
  PROVE  Minds(x, y)
<1>1. ASSUME OwnShape(x), Placed(x)
      PROVE  Placed(y)
  <2>1. y.run = x.run /\ y.progress = x.progress
    BY <1>1 DEF Only, OwnShape, OwnFields
  <2> QED
    BY <1>1, <2>1 DEF Placed
<1> QED
  BY <1>1, RunMinds

----------------------------------------------------------------------------
(* Who owns a state: previews.                                             *)

\* One owner hands a state over to another, or lets go of it.
LEMMA HandsOver ==
  ASSUME NEW m, NEW y, NEW X, NEW U, NEW X2, NEW U2, NEW D, Owned(m, X, U), OwnShape(y),
         Fewer(m, y), y.table \subseteq m.table, Leaving(y) \subseteq Leaving(m) \cup D, D \subseteq Free(m),
         \A f \in {"up", "stray", "landed", "gen", "cache"} : y[f] = m[f],
         \A a, b \in y.adoptions : a.state = b.state => a = b,
         PendingOK(y), OfferOK(y), FromOK(y.commit.from), FromOK(y.hover.from), U2 \subseteq {y.taken},
         Wanted(m, "preview") # {} => y.queued = NoRequest /\ y.pending.status # "landed",
         y.queued # NoRequest => y.pending.status # "landed" /\ Landed(y.queued.on),
         NoFold(m) \/ y.commit.pc = "fold",
         Landed(y.taken) => y.taken.gen \in Nat /\ y.taken.gen <= m.gen,
         Split(Free(y), InCache(m), InOffers(y), InPreview(y) \ U2, InOrders(y), X2)
  PROVE  Owned(y, X2, U2)
<1>1. y.up = m.up /\ y.stray = m.stray /\ y.landed = m.landed /\ y.gen = m.gen /\ y.cache = m.cache
  OBVIOUS
<1>2. Balanced(m, X, U) /\ Mail(m)
  BY DEF Owned
<1>3. Balanced(y, X2, U2)
  <2>1. IsFiniteSet(y.table)
    BY <1>2, FS_Subset DEF Balanced
  <2>2. \A st \in D : st.n \in 1..m.landed
    BY <1>2, FreeFacts
  <2>3. InCache(y) = InCache(m)
    BY <1>1 DEF InCache
  <2> QED
    BY <1>1, <1>2, <2>1, <2>2, <2>3 DEF Balanced
<1>4. PreviewMail(y)
  <2>1. PICK k \in Nat : \A i \in DOMAIN y.inbox : y.inbox[i].kind # "release" =>
         /\ i + k \in DOMAIN m.inbox
         /\ y.inbox[i].kind = m.inbox[i + k].kind /\ y.inbox[i].on = m.inbox[i + k].on
         /\ y.inbox[i].wanted => m.inbox[i + k].wanted
    BY DEF Fewer
  <2> DEFINE at(i) == i + k
  <2>2. \A i \in DOMAIN y.inbox : y.inbox[i].kind # "release" =>
         /\ at(i) \in DOMAIN m.inbox
         /\ y.inbox[i].kind = m.inbox[at(i)].kind /\ y.inbox[i].on = m.inbox[at(i)].on
         /\ y.inbox[i].wanted => m.inbox[at(i)].wanted
    BY <2>1
  <2>3. \A i, j \in DOMAIN y.inbox : at(i) = at(j) => i = j
    BY SeqDomain DEF OwnShape
  <2> HIDE DEF at
  <2>4. \A i \in Wanted(y, "preview") : at(i) \in Wanted(m, "preview") /\ i \in DOMAIN y.inbox
    BY <2>2 DEF Wanted, Posts
  <2>5. \A i \in Posts(y, "preview") \cup Posts(y, "orders") : Landed(y.inbox[i].on)
    BY <1>2, <2>2 DEF Posts, Mail, PreviewMail
  <2>6. \A i, j \in Wanted(y, "preview") : i = j
    BY <1>2, <2>3, <2>4 DEF Mail, PreviewMail
  <2> QED
    BY <2>4, <2>5, <2>6 DEF PreviewMail
<1>5. ReplayMail(y)
  BY <1>1, <1>2, FewerMail DEF Mail
<1>6. FoldMail(y)
  <2>1. NoFold(m) => FoldMail(y)
    BY FewerMail DEF NoFold, FoldMail
  <2>2. y.commit.pc = "fold" => FoldMail(y)
    BY <1>2, FewerMail DEF Mail, FoldMail
  <2> QED
    BY <2>1, <2>2
<1>7. AsksFirst(y) /\ (~y.up => y.inbox = <<>> /\ y.table = {})
  BY <1>1, <1>2 DEF Mail, Fewer
<1> QED
  BY <1>1, <1>3, <1>4, <1>5, <1>6, <1>7 DEF Owned, Mail

HandFields == {"adoptions", "pending", "taken", "offer", "queued", "commit", "hover"}

LEMMA ChangesHands ==
  ASSUME NEW m, NEW y, NEW T, NEW X, NEW U, NEW X2, NEW U2, Owned(m, X, U), OwnShape(y),
         Only(m, y, T), T \cap OwnFields \subseteq HandFields,
         \A a, b \in y.adoptions : a.state = b.state => a = b,
         PendingOK(y), OfferOK(y), FromOK(y.commit.from), FromOK(y.hover.from), U2 \subseteq {y.taken},
         Wanted(m, "preview") # {} => y.queued = NoRequest /\ y.pending.status # "landed",
         y.queued # NoRequest => y.pending.status # "landed" /\ Landed(y.queued.on),
         NoFold(m) \/ y.commit.pc = "fold",
         Landed(y.taken) => y.taken.gen \in Nat /\ y.taken.gen <= m.gen,
         Split(Free(m), InCache(m), InOffers(y), InPreview(y) \ U2, InOrders(y), X2)
  PROVE  /\ Owned(y, X2, U2) /\ y.inbox = m.inbox /\ y.table = m.table /\ y.gen = m.gen /\ y.up = m.up
         /\ y.ids = m.ids /\ y.run = m.run /\ y.progress = m.progress
<1>1. OwnShape(m)
  BY DEF Owned
<1>2. \A f \in OwnFields \ HandFields : y[f] = m[f]
  BY <1>1 DEF Only, OwnShape
<1>3. /\ y.inbox = m.inbox /\ y.table = m.table /\ y.gen = m.gen /\ y.up = m.up
      /\ y.ids = m.ids /\ y.run = m.run /\ y.progress = m.progress
      /\ y.stray = m.stray /\ y.landed = m.landed /\ y.cache = m.cache
  BY <1>2 DEF OwnFields, HandFields
<1>4. Leaving(y) = Leaving(m) /\ Free(y) = Free(m)
  BY <1>3 DEF Leaving, Free
<1>5. Fewer(m, y)
  BY <1>1, <1>3, FewerSame DEF Fewer, AsksFirst
<1>6. \A f \in {"up", "stray", "landed", "gen", "cache"} : y[f] = m[f]
  BY <1>3
<1>7. Leaving(y) \subseteq Leaving(m) \cup {} /\ {} \subseteq Free(m)
  BY <1>4
<1>8. Owned(y, X2, U2)
  BY <1>3, <1>4, <1>5, <1>6, <1>7, HandsOver
<1> QED
  BY <1>3, <1>8

\* A preview that is asked, refused or landed: a state on its way has reached it.
LEMMA PendingSet ==
  ASSUME NEW m, NEW y, NEW X, NEW T, WholeBut(m, X), Only(m, y, T), T \cap OwnFields \subseteq {"pending", "queued"},
         m.pending.status # "landed", Wanted(m, "preview") = {},
         "status" \in DOMAIN y.pending, PendingOK(y), Landed(y.pending.state) => y.pending.state \in X,
         y.queued # NoRequest => y.pending.status # "landed" /\ Landed(y.queued.on)
  PROVE  WholeBut(y, X \ {y.pending.state}) /\ y.inbox = m.inbox
<1> DEFINE st == y.pending.state
           X2 == X \ {st}
<1>1. Balanced(m, X, {}) /\ OwnShape(m) /\ Mail(m) /\ Owned(m, X, {}) /\ Taking(m) /\ TakenNow(m) /\ Placed(m)
  BY DEF WholeBut, Owned
<1>2. DOMAIN y = DOMAIN m /\ \A f \in OwnFields \ {"pending", "queued"} : y[f] = m[f]
  BY <1>1 DEF Only, OwnShape
<1>3. /\ y.adoptions = m.adoptions /\ y.taken = m.taken /\ y.offer = m.offer /\ y.commit = m.commit /\ y.hover = m.hover
      /\ y.landed = m.landed /\ y.gen = m.gen /\ y.inbox = m.inbox
  BY <1>2 DEF OwnFields
<1>4. OwnShape(y)
  BY <1>1, <1>2, <1>3 DEF OwnShape
<1>5. Split(Free(m), InCache(m), InOffers(y), InPreview(y) \ {}, InOrders(y), X2)
  <2>1. ~Landed(m.pending.state)
    BY <1>1 DEF Mail, PendingOK
  <2>2. InOffers(y) = InOffers(m) /\ InOrders(y) = InOrders(m)
    BY <1>3 DEF InOffers, InOrders
  <2>3. InPreview(y) = InPreview(m) \cup (IF Landed(st) THEN {st} ELSE {})
    BY <1>3, <2>1 DEF InPreview
  <2>4. ~Landed(st) => X2 = X
    BY <1>1, FreeFacts
  <2>5. Split(Free(m), InCache(m), InOffers(m), InPreview(m) \ {}, InOrders(m), X)
    BY <1>1 DEF Balanced
  <2> HIDE DEF st
  <2>6. Landed(st) => st \in X
    BY DEF st
  <2>7. CASE Landed(st)
    <3> DEFINE P == InPreview(m)
               C == InCache(m)
               A == InOffers(m)
               O == InOrders(m)
               F == Free(m)
    <3>1. Split(F, C, A, P \cup {st}, O, X \ {st})
      <4>1. Split(F, C, A, P \ {}, O, X) /\ st \in X
        BY <2>5, <2>6, <2>7
      <4> HIDE DEF F, C, A, P, O
      <4> QED
        BY <4>1 DEF Split
    <3>2. InPreview(y) \ {} = P \cup {st}
      BY <2>3, <2>7
    <3> QED
      BY <2>2, <3>1, <3>2
  <2>8. CASE ~Landed(st)
    BY <2>2, <2>3, <2>4, <2>5, <2>8
  <2> QED
    BY <2>7, <2>8
<1>6. \A a, b \in y.adoptions : a.state = b.state => a = b
  BY <1>1, <1>3 DEF Balanced
<1>7. NoFold(m) \/ y.commit.pc = "fold"
  BY <1>1, <1>3 DEF Mail, FoldMail
<1>8. /\ FromOK(y.commit.from) /\ FromOK(y.hover.from) /\ {} \subseteq {y.taken} /\ OfferOK(y)
      /\ Landed(y.taken) => y.taken.gen \in Nat /\ y.taken.gen <= m.gen
  BY <1>1, <1>3 DEF Mail, OfferOK
<1>9. T \cap OwnFields \subseteq HandFields
  BY DEF HandFields
<1> HIDE DEF X2, st
<1>10. Owned(y, X2, {}) /\ y.run = m.run /\ y.progress = m.progress /\ y.ids = m.ids
  BY <1>1, <1>4, <1>5, <1>6, <1>7, <1>8, <1>9, ChangesHands
<1>11. Taking(y) /\ TakenNow(y) /\ Placed(y)
  BY <1>1, <1>3, <1>10 DEF Taking, TakenNow, Placed
<1> QED
  BY <1>3, <1>10, <1>11 DEF WholeBut, X2, st

\* What an order resolution folded is offered, or taken up.
LEMMA OfferSet ==
  ASSUME NEW m, NEW y, NEW X, NEW X2, NEW T, WholeBut(m, X), Only(m, y, T), T \cap OwnFields \subseteq {"offer"},
         OfferOK(y), InOrders(y) \cup X2 = InOrders(m) \cup X, InOrders(y) \cap X2 = {}
  PROVE  WholeBut(y, X2) /\ OwnShape(y) /\ y.inbox = m.inbox /\ y.pending = m.pending /\ y.queued = m.queued
<1>1. Balanced(m, X, {}) /\ OwnShape(m) /\ Mail(m) /\ Owned(m, X, {}) /\ Taking(m) /\ TakenNow(m) /\ Placed(m)
  BY DEF WholeBut, Owned
<1>2. DOMAIN y = DOMAIN m /\ \A f \in OwnFields \ {"offer"} : y[f] = m[f]
  BY <1>1 DEF Only, OwnShape
<1>3. /\ y.adoptions = m.adoptions /\ y.taken = m.taken /\ y.pending = m.pending /\ y.commit = m.commit /\ y.hover = m.hover
      /\ y.landed = m.landed /\ y.gen = m.gen /\ y.inbox = m.inbox /\ y.queued = m.queued
  BY <1>2 DEF OwnFields
<1>4. OwnShape(y)
  BY <1>1, <1>2, <1>3 DEF OwnShape
<1>5. Split(Free(m), InCache(m), InOffers(y), InPreview(y) \ {}, InOrders(y), X2)
  <2>1. InOffers(y) = InOffers(m) /\ InPreview(y) = InPreview(m)
    BY <1>3 DEF InOffers, InPreview
  <2>2. Split(Free(m), InCache(m), InOffers(m), InPreview(m) \ {}, InOrders(m), X)
    BY <1>1 DEF Balanced
  <2> DEFINE P == InPreview(m) \ {}
             C == InCache(m)
             A == InOffers(m)
             O == InOrders(m)
             O2 == InOrders(y)
             F == Free(m)
  <2>3. Split(F, C, A, P, O, X) /\ O2 \cup X2 = O \cup X /\ O2 \cap X2 = {}
    BY <2>2
  <2>4. Split(F, C, A, P, O2, X2)
    <3> HIDE DEF F, C, A, P, O, O2
    <3> QED
      BY <2>3 DEF Split
  <2> QED
    BY <2>1, <2>4
<1>6. \A a, b \in y.adoptions : a.state = b.state => a = b
  BY <1>1, <1>3 DEF Balanced
<1>7. NoFold(m) \/ y.commit.pc = "fold"
  BY <1>1, <1>3 DEF Mail, FoldMail
<1>8. /\ FromOK(y.commit.from) /\ FromOK(y.hover.from) /\ {} \subseteq {y.taken} /\ PendingOK(y)
      /\ Landed(y.taken) => y.taken.gen \in Nat /\ y.taken.gen <= m.gen
      /\ Wanted(m, "preview") # {} => y.queued = NoRequest /\ y.pending.status # "landed"
      /\ y.queued # NoRequest => y.pending.status # "landed" /\ Landed(y.queued.on)
  BY <1>1, <1>3 DEF Mail, PendingOK, PreviewMail
<1>9. T \cap OwnFields \subseteq HandFields
  BY DEF HandFields
<1>10. Owned(y, X2, {}) /\ y.run = m.run /\ y.progress = m.progress /\ y.ids = m.ids
  BY <1>1, <1>4, <1>5, <1>6, <1>7, <1>8, <1>9, ChangesHands
<1>11. Taking(y) /\ TakenNow(y) /\ Placed(y)
  BY <1>1, <1>3, <1>10 DEF Taking, TakenNow, Placed
<1> QED
  BY <1>3, <1>4, <1>10, <1>11 DEF WholeBut

LandedOf(st) == {x \in {st} : Landed(x)}

\* A landed preview is shown, and its fingerprint is asked.
LEMMA ShowPreviewWhole ==
  ASSUME NEW m, NEW parent, NEW op, NEW st, WholeBut(m, LandedOf(st)),
         m.pending.status # "landed", Wanted(m, "preview") = {}, m.queued = NoRequest,
         Landed(parent), parent # st
  PROVE  Whole(ShowPreview(m, parent, op, st))
<1> DEFINE pending == [status |-> IF Landed(st) THEN "landed" ELSE "refused",
                       parent |-> parent, op |-> op, state |-> st]
           print == IF Landed(st) THEN "asked" ELSE "none"
           y == [m EXCEPT !.pending = pending, !.print = print]
           a == Ask(y, "print", st, "none", <<>>)
<1>1. ShowPreview(m, parent, op, st) = Render(IF Landed(st) THEN a ELSE y)
  BY DEF ShowPreview
<1>2. /\ pending.status = "landed" <=> Landed(st)
      /\ pending.state = st /\ pending.parent = parent /\ "status" \in DOMAIN pending
  OBVIOUS
<1> HIDE DEF pending, print
<1>3. Only(m, y, {"pending", "print"})
  BY DEF Only
<1>4. y.pending = pending /\ y.queued = m.queued
  BY DEF WholeBut, Owned, OwnShape, OwnFields
<1> HIDE DEF y
<1>5. PendingOK(y)
  BY <1>2, <1>4 DEF PendingOK
<1>6. Landed(st) => st \in LandedOf(st)
  BY DEF LandedOf
<1>7. WholeBut(y, LandedOf(st) \ {st})
  BY <1>2, <1>3, <1>4, <1>5, <1>6, PendingSet DEF OwnFields
<1>8. Whole(y)
  <2>1. LandedOf(st) \ {st} = {}
    BY DEF LandedOf
  <2> QED
    BY <1>7, <2>1 DEF Whole
<1>9. Whole(a)
  BY <1>8, AskMinds, MindsWhole
<1> HIDE DEF a
<1> QED
  BY <1>1, <1>8, <1>9, RenderMinds, MindsWhole

\* What may be asked is asked of what is whole.
LEMMA AskWhole ==
  ASSUME NEW m, NEW kind, NEW on, NEW op, NEW path, NEW X, WholeBut(m, X), MayAsk(m, kind, on, path)
  PROVE  WholeBut(Ask(m, kind, on, op, path), X)
<1> DEFINE y == Ask(m, kind, on, op, path)
<1>1. Owned(m, X, {}) /\ Taking(m) /\ TakenNow(m) /\ Placed(m)
  BY DEF WholeBut
<1>2. Owned(y, X, {}) /\ \A f \in OwnFields \ {"up", "inbox"} : y[f] = m[f]
  <2>1. Owned(m, X, {})
    BY <1>1
  <2>2. Owned(y, X, {})
    BY <2>1, AskOwned
  <2>3. Only(m, y, {"up", "inbox"}) /\ OwnShape(m)
    BY <2>1, AskKeeps DEF Keeps, Owned
  <2> HIDE DEF y
  <2>4. \A f \in OwnFields \ {"up", "inbox"} : y[f] = m[f]
    BY <2>3 DEF Only, OwnShape
  <2> QED
    BY <2>2, <2>4
<1> HIDE DEF y
<1>3. /\ y.commit = m.commit /\ y.taken = m.taken /\ y.gen = m.gen
      /\ y.ids = m.ids /\ y.run = m.run /\ y.progress = m.progress
  BY <1>2 DEF OwnFields
<1>4. Taking(y) /\ TakenNow(y) /\ Placed(y)
  BY <1>1, <1>3 DEF Taking, TakenNow, Placed
<1>5. WholeBut(y, X)
  BY <1>2, <1>4 DEF WholeBut
<1> QED
  BY <1>5 DEF y

LEMMA PreviewFromWhole ==
  ASSUME NEW m, NEW from, NEW op, Whole(m), FromOK(from)
  PROVE  Whole(PreviewFrom(m, from, op))
<1> DEFINE parent == from.parent
           taken == m.offer.status # "idle" /\ m.offer.op = op /\ m.offer.parent = parent
           o == [m EXCEPT !.offer = Idle]
           t == DropPending(o)
           d == DropPending(m)
           pending == [Idle EXCEPT !.status = "working", !.parent = parent, !.op = op]
           w == [d EXCEPT !.pending = pending]
           r == Render(w)
           q == [on |-> parent, op |-> op]
           y == [r EXCEPT !.queued = q]
<1>1. \/ PreviewFrom(m, from, op) = m
      \/ taken /\ from # NoFrom /\ PreviewFrom(m, from, op) = ShowPreview(t, parent, op, m.offer.state)
      \/ from # NoFrom /\ PreviewFrom(m, from, op) = y
      \/ from # NoFrom /\ PreviewFrom(m, from, op) = Ask(r, "preview", parent, op, <<>>)
  BY DEF PreviewFrom
<1>2. from # NoFrom => Landed(parent)
  BY DEF FromOK
<1>3. OwnShape(m) /\ WholeBut(m, {}) /\ Balanced(m, {}, {}) /\ Mail(m)
  BY DEF Whole, WholeBut, Owned
<1>4. ASSUME taken, Landed(parent)
      PROVE  Whole(ShowPreview(t, parent, op, m.offer.state))
  <2> DEFINE st == m.offer.state
  <2>1. Only(m, o, {"offer"}) /\ o.offer = Idle
    BY <1>3 DEF Only, OwnShape, OwnFields
  <2> HIDE DEF o
  <2>2. InOrders(o) = {} /\ InOrders(m) = LandedOf(st) /\ OfferOK(o)
    BY <2>1, NothingLanded DEF InOrders, LandedOf, OfferOK
  <2>3. WholeBut(o, LandedOf(st)) /\ OwnShape(o)
    BY <1>3, <2>1, <2>2, OfferSet DEF OwnFields
  <2>4. WholeBut(t, LandedOf(st))
    BY <2>3, DropPendingMinds, MindsWhole
  <2>5. t.pending = Idle /\ t.queued = NoRequest /\ Wanted(t, "preview") = {}
    BY <2>3, DropPendingMinds
  <2>6. parent # st
    BY <1>3, <1>4 DEF Mail, OfferOK
  <2> HIDE DEF t, st, parent
  <2>7. t.pending.status # "landed"
    BY <2>5, NothingLanded
  <2>8. Whole(ShowPreview(t, parent, op, st))
    BY <1>4, <2>4, <2>5, <2>6, <2>7, ShowPreviewWhole
  <2> QED
    BY <2>8 DEF st
<1>5. ASSUME Landed(parent)
      PROVE  Whole(y) /\ Whole(Ask(r, "preview", parent, op, <<>>))
  <2>1. Whole(d) /\ OwnShape(d) /\ d.pending = Idle /\ d.queued = NoRequest /\ Wanted(d, "preview") = {}
    BY <1>3, DropPendingMinds, MindsWhole
  <2> HIDE DEF d
  <2>2. pending.status = "working" /\ pending.state = NoState /\ "status" \in DOMAIN pending
    BY DEF Idle
  <2> HIDE DEF pending
  <2>3. Only(d, w, {"pending"}) /\ w.pending = pending /\ w.queued = d.queued
    BY <2>1 DEF Only, OwnShape, OwnFields
  <2> HIDE DEF w
  <2>4. PendingOK(w) /\ d.pending.status # "landed"
    BY <2>1, <2>2, <2>3, NothingLanded DEF PendingOK
  <2>5. WholeBut(w, {} \ {w.pending.state}) /\ w.inbox = d.inbox
    BY <2>1, <2>2, <2>3, <2>4, NothingLanded, PendingSet DEF Whole, OwnFields
  <2>6. Whole(w) /\ Wanted(w, "preview") = {}
    <3>1. {} \ {w.pending.state} = {}
      OBVIOUS
    <3> QED
      BY <2>1, <2>5, <3>1 DEF Whole, Wanted, Posts
  <2>7. Whole(r) /\ r.pending \in {w.pending, Idle} /\ r.queued \in {w.queued, NoRequest} /\ Wanted(r, "preview") = {}
    <3>1. Minds(w, r)
      BY RenderMinds
    <3>2. Carried(w, r)
      BY <2>6, <3>1 DEF Whole, WholeBut, Minds
    <3> QED
      BY <2>6, <3>1, <3>2, MindsWhole DEF Carried
  <2> HIDE DEF r
  <2>8. r.pending.status # "landed" /\ r.queued = NoRequest /\ OwnShape(r) /\ PendingOK(r) /\ WholeBut(r, {})
    BY <2>1, <2>2, <2>3, <2>7, NothingLanded DEF Whole, WholeBut, Owned, Mail
  <2>9. q.on = parent
    OBVIOUS
  <2> HIDE DEF q
  <2>10. Only(r, y, {"queued"}) /\ y.queued = q /\ y.pending = r.pending
    BY <2>8 DEF Only, OwnShape, OwnFields
  <2> HIDE DEF y, parent
  <2>11. WholeBut(y, {} \ {y.pending.state})
    <3>1. PendingOK(y) /\ "status" \in DOMAIN y.pending /\ ~Landed(y.pending.state)
      BY <2>8, <2>10 DEF PendingOK, OwnShape
    <3> QED
      BY <1>5, <2>7, <2>8, <2>9, <2>10, <3>1, PendingSet DEF OwnFields
  <2>12. {} \ {y.pending.state} = {}
    OBVIOUS
  <2>13. Whole(y)
    BY <2>11, <2>12 DEF Whole
  <2>14. Whole(Ask(r, "preview", parent, op, <<>>))
    <3>1. MayAsk(r, "preview", parent, <<>>)
      BY <1>5, <2>7, <2>8 DEF MayAsk, parent
    <3> QED
      BY <2>8, <3>1, AskWhole DEF Whole
  <2> QED
    BY <2>13, <2>14
<1> HIDE DEF t, y, r, taken, parent
<1> QED
  BY <1>1, <1>2, <1>4, <1>5

----------------------------------------------------------------------------
(* Who owns a state: offers and commits.                                  *)

LEMMA PreviewNowWhole ==
  ASSUME NEW m, NEW op, Whole(m)
  PROVE  Whole(PreviewNow(m, op))
<1> DEFINE from == FoldingFrom(m).from
           d == DropPending(m)
           w == [NoHover EXCEPT !.pc = "waiting", !.op = op]
           y == [d EXCEPT !.hover = w]
<1>1. PreviewNow(m, op) = IF ReadyToFold(m) THEN PreviewFrom(m, from, op) ELSE y
  BY DEF PreviewNow
<1>2. FromOK(from)
  BY DEF FoldingFrom, FromOK
<1>3. Whole(d) /\ OwnShape(d)
  BY DropPendingMinds, MindsWhole DEF Whole, WholeBut, Owned
<1> HIDE DEF d, from
<1>4. w.from = NoFrom /\ {"pc", "op", "from"} \subseteq DOMAIN w
  BY DEF NoHover
<1> HIDE DEF w
<1>5. Only(d, y, {"hover"}) /\ y.hover = w /\ y.commit = d.commit
  BY <1>3 DEF Only, OwnShape, OwnFields
<1> HIDE DEF y
<1>6. Minds(d, y)
  <2>1. WaiterMoves(d.commit, y.commit) /\ FromOK(y.hover.from) /\ {"pc", "op", "from"} \subseteq DOMAIN y.hover
    BY <1>4, <1>5 DEF WaiterMoves, FromOK
  <2>2. {"pc", "op", "from", "state"} \subseteq DOMAIN y.commit
    BY <1>3, <1>5 DEF OwnShape
  <2>3. {"hover"} \cap OwnFields \subseteq {"commit", "hover"}
    OBVIOUS
  <2> QED
    BY <1>5, <2>1, <2>2, <2>3, WaitersMinds
<1>7. Whole(y)
  BY <1>3, <1>6, MindsWhole
<1> QED
  BY <1>1, <1>2, <1>7, PreviewFromWhole

\* What an order resolution folded is kept, or let go of.
LEMMA KeepOfferWhole ==
  ASSUME NEW m, NEW parent, NEW op, NEW st, WholeBut(m, LandedOf(st)), Landed(parent), parent # st
  PROVE  Whole(KeepOffer(m, parent, op, st))
<1> DEFINE r == Release(m, st)
           d == DropOffer(m)
           offer == [status |-> IF Landed(st) THEN "landed" ELSE "refused", parent |-> parent, op |-> op, state |-> st]
           y == [d EXCEPT !.offer = offer]
<1>1. KeepOffer(m, parent, op, st) \in {r, y}
  BY DEF KeepOffer
<1>2. Owned(m, LandedOf(st), {}) /\ Balanced(m, LandedOf(st), {}) /\ Taking(m) /\ TakenNow(m) /\ Placed(m)
  BY DEF WholeBut, Owned
<1>3. Whole(r)
  <2>1. OfEngine(m, {st}) = LandedOf(st)
    <3>1. \A x \in LandedOf(st) : x.gen = m.gen
      BY <1>2, FreeFacts
    <3> QED
      BY <3>1 DEF OfEngine, LandedOf
  <2>2. Owned(r, LandedOf(st) \ LandedOf(st), {}) /\ Carried(m, r)
    BY <1>2, <2>1, ReleaseLoose DEF Release
  <2>3. LandedOf(st) \ LandedOf(st) = {}
    OBVIOUS
  <2> HIDE DEF r
  <2> QED
    BY <1>2, <2>2, <2>3 DEF Whole, WholeBut, Carried, TakenNow
<1>4. Whole(y)
  <2>1. WholeBut(d, LandedOf(st)) /\ OwnShape(d)
    <3>1. WholeBut(d, LandedOf(st))
      BY DropOfferMinds, MindsWhole
    <3> QED
      BY <3>1 DEF WholeBut, Owned
  <2>2. d.offer = Idle
    <3>1. d = [Release(m, m.offer.state) EXCEPT !.offer = Idle]
      BY DEF DropOffer
    <3>2. OwnShape(Release(m, m.offer.state))
      BY <1>2, ReleaseFrees DEF Owned
    <3> QED
      BY <3>1, <3>2 DEF OwnShape, OwnFields
  <2> HIDE DEF d
  <2>3. offer.state = st /\ offer.parent = parent
    OBVIOUS
  <2> HIDE DEF offer
  <2>4. Only(d, y, {"offer"}) /\ y.offer = offer
    BY <2>1 DEF Only, OwnShape, OwnFields
  <2> HIDE DEF y
  <2>5. OfferOK(y) /\ InOrders(y) = LandedOf(st) /\ InOrders(d) = {}
    BY <2>2, <2>3, <2>4, NothingLanded DEF OfferOK, InOrders, LandedOf
  <2>6. InOrders(y) \cup {} = InOrders(d) \cup LandedOf(st) /\ InOrders(y) \cap {} = {}
    BY <2>5
  <2>7. {"offer"} \cap OwnFields \subseteq {"offer"}
    OBVIOUS
  <2>8. WholeBut(y, {})
    BY <2>1, <2>4, <2>5, <2>6, <2>7, OfferSet
  <2> QED
    BY <2>8 DEF Whole
<1> QED
  BY <1>1, <1>3, <1>4

\* What a commit has in hand: a preview it has taken, or a state the engine just landed.
InHand(m, st) ==
  /\ Landed(st) /\ st.gen = m.gen /\ NoFold(m) /\ Placed(m)
  /\ \/ Owned(m, {}, {}) /\ m.taken = st
     \/ Owned(m, {st}, {}) /\ m.taken = NoState

\* The end of a commit: what it had taken is somebody else's by now.
LEMMA CommitOver ==
  ASSUME NEW z, NEW y, NEW U, NEW T, Owned(z, {}, U), NoFold(z), Placed(z),
         z.taken \in U \/ ~Landed(z.taken), Landed(z.pending.state) => z.pending.state \notin U,
         Only(z, y, T), T \cap OwnFields \subseteq {"taken", "commit"}, y.taken = NoState, y.commit = NoCommit
  PROVE  Whole(y)
<1>1. OwnShape(z) /\ Mail(z) /\ Balanced(z, {}, U)
  BY DEF Owned
<1>2. OwnFields \subseteq DOMAIN y /\ \A f \in OwnFields \ {"taken", "commit"} : y[f] = z[f]
  BY <1>1 DEF Only, OwnShape
<1>3. /\ y.adoptions = z.adoptions /\ y.pending = z.pending /\ y.offer = z.offer /\ y.queued = z.queued /\ y.hover = z.hover
      /\ y.landed = z.landed /\ y.gen = z.gen /\ y.inbox = z.inbox
  BY <1>2 DEF OwnFields
<1>4. OwnShape(y)
  BY <1>1, <1>2, <1>3, NothingLanded DEF OwnShape
<1>5. InPreview(y) \ {} = InPreview(z) \ U
  BY <1>3, NothingLanded DEF InPreview
<1>6. Split(Free(z), InCache(z), InOffers(y), InPreview(y) \ {}, InOrders(y), {})
  <2>1. InOffers(y) = InOffers(z) /\ InOrders(y) = InOrders(z)
    BY <1>3 DEF InOffers, InOrders
  <2> QED
    BY <1>1, <1>5, <2>1 DEF Balanced
<1>7. \A a, b \in y.adoptions : a.state = b.state => a = b
  BY <1>1, <1>3 DEF Balanced
<1>8. /\ PendingOK(y) /\ OfferOK(y) /\ FromOK(y.commit.from) /\ FromOK(y.hover.from) /\ {} \subseteq {y.taken}
      /\ Wanted(z, "preview") # {} => y.queued = NoRequest /\ y.pending.status # "landed"
      /\ y.queued # NoRequest => y.pending.status # "landed" /\ Landed(y.queued.on)
      /\ Landed(y.taken) => y.taken.gen \in Nat /\ y.taken.gen <= z.gen
  BY <1>1, <1>3, NothingLanded DEF Mail, PreviewMail, PendingOK, OfferOK, FromOK
<1>9. T \cap OwnFields \subseteq HandFields
  BY DEF HandFields
<1>10. /\ Owned(y, {}, {}) /\ y.ids = z.ids /\ y.run = z.run /\ y.progress = z.progress
  BY <1>4, <1>6, <1>7, <1>8, <1>9, ChangesHands
<1>11. Taking(y) /\ TakenNow(y) /\ Placed(y)
  BY <1>10, NothingLanded DEF Taking, TakenNow, Placed
<1> QED
  BY <1>10, <1>11 DEF Whole, WholeBut

\* A commit that did not happen lets go of what it has in hand.
LEMMA LetGoWhole ==
  ASSUME NEW m, NEW st, InHand(m, st)
  PROVE  Whole([LetGo(m, st) EXCEPT !.commit = NoCommit])
<1> DEFINE free == IF m.taken = st THEN [m EXCEPT !.taken = NoState] ELSE m
           p == DropPending(free)
           r == Render(p)
           l == Release(free, st)
           shown == free.pending.status = "landed" /\ free.pending.state = st
           z == LetGo(m, st)
           y == [z EXCEPT !.commit = NoCommit]
<1>1. z = IF shown THEN r ELSE l
  BY DEF LetGo
<1>2. Landed(st) /\ st.gen = m.gen /\ NoFold(m) /\ Placed(m) /\ OwnShape(m) /\ Mail(m)
  BY DEF InHand, Owned
<1>3. /\ NoFold(free) /\ Placed(free) /\ free.taken = NoState /\ free.gen = m.gen /\ OwnShape(free) /\ PendingOK(free)
      /\ \/ Owned(free, {}, {}) /\ free.pending.state = st
         \/ Owned(free, {st}, {}) /\ free.pending.state # st
  <2>1. CASE Owned(m, {st}, {}) /\ m.taken = NoState
    <3>1. free = m
      BY <1>2, <2>1, NothingLanded
    <3>2. m.pending.state # st
      BY <1>2, <2>1 DEF Owned, Balanced, Split, InPreview
    <3> QED
      BY <1>2, <2>1, <3>1, <3>2 DEF Mail
  <2>2. CASE Owned(m, {}, {}) /\ m.taken = st
    <3>1. Only(m, free, {"taken"}) /\ free.taken = NoState
      BY <1>2, <2>2 DEF Only, OwnShape, OwnFields
    <3> HIDE DEF free
    <3>2. OwnFields \subseteq DOMAIN free /\ \A f \in OwnFields \ {"taken"} : free[f] = m[f]
      BY <1>2, <3>1 DEF Only, OwnShape
    <3>3. /\ free.adoptions = m.adoptions /\ free.pending = m.pending /\ free.offer = m.offer /\ free.queued = m.queued
          /\ free.hover = m.hover /\ free.commit = m.commit
          /\ free.landed = m.landed /\ free.gen = m.gen /\ free.inbox = m.inbox
      BY <3>2 DEF OwnFields
    <3>4. OwnShape(free)
      BY <1>2, <3>2, <3>3 DEF OwnShape
    <3> DEFINE X == IF m.pending.state = st THEN {} ELSE {st}
    <3>5. Split(Free(m), InCache(m), InOffers(free), InPreview(free) \ {}, InOrders(free), X)
      <4>1. InOffers(free) = InOffers(m) /\ InOrders(free) = InOrders(m)
        BY <3>3 DEF InOffers, InOrders
      <4>2. InPreview(m) = InPreview(free) \cup X /\ InPreview(free) \cap X = {}
        BY <1>2, <2>2, <3>1, <3>3, NothingLanded DEF InPreview
      <4>3. Split(Free(m), InCache(m), InOffers(m), InPreview(m) \ {}, InOrders(m), {})
        BY <2>2 DEF Owned, Balanced
      <4> DEFINE F == Free(m)
                 C == InCache(m)
                 A == InOffers(m)
                 P == InPreview(m)
                 P2 == InPreview(free)
                 O == InOrders(m)
      <4>4. Split(F, C, A, P2 \ {}, O, X)
        <5>1. Split(F, C, A, P \ {}, O, {}) /\ P = P2 \cup X /\ P2 \cap X = {}
          BY <4>2, <4>3
        <5> HIDE DEF F, C, A, P, P2, O, X
        <5> QED
          BY <5>1 DEF Split
      <4> QED
        BY <4>1, <4>4
    <3> HIDE DEF X
    <3>6. \A a, b \in free.adoptions : a.state = b.state => a = b
      BY <2>2, <3>3 DEF Owned, Balanced
    <3>7. /\ PendingOK(free) /\ OfferOK(free) /\ FromOK(free.commit.from) /\ FromOK(free.hover.from) /\ {} \subseteq {free.taken}
          /\ Wanted(m, "preview") # {} => free.queued = NoRequest /\ free.pending.status # "landed"
          /\ free.queued # NoRequest => free.pending.status # "landed" /\ Landed(free.queued.on)
          /\ Landed(free.taken) => free.taken.gen \in Nat /\ free.taken.gen <= m.gen
      BY <1>2, <3>1, <3>3, NothingLanded DEF Mail, PreviewMail, PendingOK, OfferOK, FromOK
    <3>8. {"taken"} \cap OwnFields \subseteq HandFields
      BY DEF HandFields
    <3>9. /\ Owned(free, X, {}) /\ free.ids = m.ids /\ free.run = m.run /\ free.progress = m.progress
      BY <1>2, <2>2, <3>1, <3>4, <3>5, <3>6, <3>7, <3>8, ChangesHands
    <3>10. NoFold(free) /\ Placed(free)
      BY <1>2, <3>3, <3>9 DEF NoFold, Posts, Placed
    <3> QED
      BY <3>1, <3>3, <3>4, <3>7, <3>9, <3>10 DEF X
  <2> QED
    BY <2>1, <2>2 DEF InHand
<1>4. Owned(z, {}, {}) /\ NoFold(z) /\ Placed(z) /\ z.taken = NoState
  <2>1. CASE shown
    <3>1. Owned(free, {}, {})
      BY <1>3, <2>1
    <3> HIDE DEF free
    <3>2. Owned(p, {}, {}) /\ Carried(free, p)
      BY <3>1, DropPendingMinds DEF Minds
    <3> HIDE DEF p
    <3>3. Owned(r, {}, {}) /\ Carried(p, r)
      BY <3>2, RenderMinds DEF Minds
    <3> HIDE DEF r
    <3> QED
      BY <1>1, <1>3, <2>1, <3>2, <3>3 DEF Carried
  <2>2. CASE ~shown
    <3>1. free.pending.state # st
      BY <1>2, <1>3, <2>2 DEF PendingOK
    <3>2. Owned(free, {st}, {})
      BY <1>3, <3>1
    <3> HIDE DEF free
    <3>3. OfEngine(free, {st}) = {st}
      BY <1>2, <1>3 DEF OfEngine
    <3>4. Owned(l, {st} \ {st}, {}) /\ Carried(free, l)
      BY <3>2, <3>3, ReleaseLoose DEF Release
    <3>5. {st} \ {st} = {}
      OBVIOUS
    <3> HIDE DEF l
    <3> QED
      BY <1>1, <1>3, <2>2, <3>4, <3>5 DEF Carried
  <2> QED
    BY <2>1, <2>2
<1> HIDE DEF z
<1>5. Only(z, y, {"taken", "commit"}) /\ y.taken = NoState /\ y.commit = NoCommit
  BY <1>4 DEF Only, Owned, OwnShape, OwnFields
<1>6. Whole(y)
  BY <1>4, <1>5, NothingLanded, CommitOver
<1> QED
  BY <1>6 DEF y, z

\* A listener that leaves the publishing to the commit.
LEMMA SilentHearKeeps ==
  ASSUME NEW b, NEW m, m.load = b.load, Shape(m), m.holders \in Nat
  PROVE  LET y == Hear(b, m, TRUE, TRUE) IN
         /\ Only(m, y, {"owed", "progress", "halted", "restarts"} \cup StartSlots)
         /\ "progress" \in DOMAIN m /\ "made" \in DOMAIN m.progress =>
              "made" \in DOMAIN y.progress /\ DOMAIN y.progress.made \subseteq DOMAIN m.progress.made
<1> DEFINE replay == m.load # b.load \/ m.steps # b.steps
           retry == replay \/ (m.halted \/ m.error # NoError)
           stale == IF replay THEN Stale(m) ELSE m
           f == Forgiven(stale)
           y == Hear(b, m, TRUE, TRUE)
<1>1. y = IF retry THEN Start(f) ELSE IF m.tip # b.tip /\ f.run.on THEN ScheduleReplay(f) ELSE f
  BY DEF Hear
<1> HIDE DEF y, retry, replay
<1>2. Only(m, stale, {"owed", "progress"}) /\ Shape(stale)
      /\ ("progress" \in DOMAIN m /\ "made" \in DOMAIN m.progress =>
            "made" \in DOMAIN stale.progress /\ DOMAIN stale.progress.made \subseteq DOMAIN m.progress.made)
  <2> DEFINE p == m.progress
             kept == {id \in DOMAIN p.made \cap ({0} \cup IdsOf(m.steps)) : p.made[id].path = PathOf(m.steps, id)}
             made == [id \in kept |-> p.made[id]]
             progress == StillValid(m)
             z == [m EXCEPT !.owed = TRUE, !.progress = progress]
  <2>1. stale \in {m, z}
    BY DEF Stale
  <2>2. progress \in {p, [p EXCEPT !.made = made, !.done = FALSE]}
    BY DEF StillValid
  <2>3. DOMAIN made \subseteq DOMAIN p.made
    OBVIOUS
  <2> HIDE DEF made, progress
  <2>4. "made" \in DOMAIN p => "made" \in DOMAIN progress /\ DOMAIN progress.made \subseteq DOMAIN p.made
    BY <2>2, <2>3
  <2>5. Only(m, z, {"owed", "progress"}) /\ ("progress" \in DOMAIN m => z.progress = progress)
    BY DEF Only
  <2> HIDE DEF z, stale
  <2>6. Keeps(m, z, {"owed", "progress"})
    BY <2>5, OnlyKeeps
  <2>7. Shape(z)
    BY <2>6 DEF Keeps
  <2> QED
    BY <2>1, <2>4, <2>5, <2>7 DEF Only
<1> HIDE DEF stale
<1>3. Only(stale, f, {"halted", "restarts"}) /\ Shape(f)
  <2>1. Keeps(stale, f, {"halted", "restarts"})
    BY ForgivenKeeps
  <2> QED
    BY <1>2, <2>1 DEF Keeps
<1> HIDE DEF f
<1>4. Only(m, f, {"owed", "progress", "halted", "restarts"})
  BY <1>2, <1>3 DEF Only
<1>5. f.holders \in Nat
  BY <1>4 DEF Only, Shape, Fields
<1>6. Only(f, y, StartSlots)
  <2>1. Only(f, Start(f), StartSlots)
    BY <1>5, StartHears DEF Keeps
  <2>2. Only(f, ScheduleReplay(f), {"scheduled"})
    BY DEF ScheduleReplay, Only
  <2> QED
    BY <1>1, <2>1, <2>2 DEF Only, StartSlots
<1>7. Only(m, y, {"owed", "progress", "halted", "restarts"} \cup StartSlots)
  BY <1>4, <1>6 DEF Only
<1>8. "progress" \in DOMAIN m => y.progress = stale.progress
  BY <1>2, <1>3, <1>6 DEF Only, StartSlots
<1> QED
  BY <1>2, <1>7, <1>8 DEF y

\* What is shown for a step that is landed ahead of its replay.
LEMMA ShownAhead ==
  ASSUME NEW m, NEW id \in Places(m.steps), m.ahead.id = id, id \notin DOMAIN m.progress.made
  PROVE  ShownIn(m)[id] \in {m.ahead.state, NoState}
<1> DEFINE p == IF m.progress.load = m.load THEN m.progress ELSE NoProgress
           made(i) == IF i \in DOMAIN p.made THEN p.made[i].state ELSE NoState
<1>1. DOMAIN NoProgress.made = {}
  BY DEF NoProgress
<1>2. id \notin DOMAIN p.made
  BY <1>1
<1>3. ShownIn(m) = [i \in {0} \cup IdsOf(m.steps) |->
        IF m.ahead.load = m.load /\ m.ahead.id = i /\ p # NoProgress /\ made(i) = NoState
          THEN m.ahead.state ELSE made(i)]
  BY DEF ShownIn
<1>4. made(id) = NoState
  BY <1>2
<1> HIDE DEF p, made
<1> QED
  BY <1>3, <1>4 DEF Places

\* A preview that is not of what is shown goes with the next render.
LEMMA OutgrownGoes ==
  ASSUME NEW m, NEW X, NEW U, Owned(m, X, U), Shape(m), m.pending.status # "idle",
         m.pending.parent # ShownIn(m)[m.cursor]
  PROVE  Render(m).pending = Idle
<1> DEFINE o == WithoutOffer(m)
           d == DropPending(o)
           y == Render(m)
<1>1. Only(m, o, {"table", "inbox", "offer"}) /\ Owned(o, X, U)
  <2>1. Keeps(m, DropOffer(m), {"table", "inbox", "offer"})
    BY DropOfferKeeps
  <2>2. Owned(DropOffer(m), X, U)
    BY DropOfferMinds DEF Minds
  <2> QED
    BY <2>1, <2>2 DEF WithoutOffer, Keeps, Only
<1> HIDE DEF o
<1>2. OwnShape(m) /\ OwnShape(o)
  BY <1>1 DEF Owned
<1>3. /\ o.pending = m.pending /\ o.cursor = m.cursor /\ o.progress = m.progress /\ o.load = m.load
      /\ o.steps = m.steps /\ o.ahead = m.ahead
  BY <1>1, <1>2 DEF Only, OwnShape, OwnFields, Shape, Fields
<1>4. ShownIn(o) = ShownIn(m)
  BY <1>3 DEF ShownIn
<1>5. Outgrown(o, o.pending)
  BY <1>3, <1>4 DEF Outgrown
<1>6. y = Publish(d)
  BY <1>5 DEF Render, WithoutPending, o
<1>7. d.pending = Idle /\ OwnShape(d)
  BY <1>2, DropPendingMinds
<1> HIDE DEF d, y
<1>8. Only(d, y, {"commit", "hover", "snap"})
  BY <1>6, PublishMinds
<1>9. y.pending = Idle
  BY <1>7, <1>8 DEF Only, OwnShape, OwnFields
<1> QED
  BY <1>9 DEF y

Replaced(m, from, op) == {a \in m.adoptions : a.parent = from.parent /\ a.op = op}
OfferedBy(m, from, op, st) ==
  [ReleaseAll(m, {a.state : a \in Replaced(m, from, op)}) EXCEPT
     !.adoptions = (@ \ Replaced(m, from, op)) \cup
                     {[parent |-> from.parent, op |-> op, state |-> st, older |-> FALSE]}]
WithdrawnBy(m, from, op, st) ==
  [Release(OfferedBy(m, from, op, st), st) EXCEPT !.taken = NoState,
     !.pending = IF m.pending.status = "landed" /\ m.pending.state = st THEN Idle ELSE @,
     !.adoptions = {a \in @ : a.state # st}]
TakenOf(m, st) == IF m.taken = st THEN {st} ELSE {}

\* What a commit has in hand is the replay's to adopt.
LEMMA OfferedOwned ==
  ASSUME NEW m, NEW from, NEW op, NEW st, InHand(m, st)
  PROVE  LET o == OfferedBy(m, from, op, st) IN
         /\ Owned(o, {}, TakenOf(m, st)) /\ NoFold(o) /\ Placed(o) /\ st \in InOffers(o)
         /\ Only(m, o, {"table", "inbox", "adoptions"})
<1> DEFINE replaced == Replaced(m, from, op)
           rest == m.adoptions \ replaced
           r == ReleaseAll(m, {a.state : a \in replaced})
           w == [r EXCEPT !.adoptions = rest]
           a0 == [parent |-> from.parent, op |-> op, state |-> st, older |-> FALSE]
           o == OfferedBy(m, from, op, st)
           U == TakenOf(m, st)
           X == IF m.taken = st THEN {} ELSE {st}
<1>1. o = [r EXCEPT !.adoptions = (@ \ replaced) \cup {a0}]
  BY DEF OfferedBy
<1>2. Landed(st) /\ st.gen = m.gen /\ NoFold(m) /\ Placed(m) /\ OwnShape(m)
  BY DEF InHand, Owned
<1>3. Owned(m, X, {}) /\ (m.taken = st \/ m.taken = NoState)
  BY <1>2, NothingLanded DEF InHand
<1>4. replaced \in SUBSET m.adoptions
  BY DEF Replaced
<1> HIDE DEF replaced
<1>5. Minds(m, w)
  BY <1>4, OffersGo
<1>6. Only(m, r, {"table", "inbox"})
  BY ReleaseAllKeeps DEF Keeps
<1>7. a0.state = st /\ "state" \in DOMAIN a0
  OBVIOUS
<1> HIDE DEF r, a0, o
<1>8. Only(m, w, {"table", "inbox", "adoptions"}) /\ w.adoptions = rest
      /\ Only(m, o, {"table", "inbox", "adoptions"}) /\ o.adoptions = rest \cup {a0} /\ Only(w, o, {"adoptions"})
  BY <1>1, <1>2, <1>6 DEF Only, OwnShape, OwnFields
<1> HIDE DEF w
<1>9. Owned(w, X, {}) /\ Carried(m, w)
  BY <1>3, <1>5 DEF Minds
<1>10. OwnShape(w) /\ Balanced(w, X, {}) /\ Mail(w) /\ NoFold(w) /\ Placed(w) /\ w.taken = m.taken /\ w.gen = m.gen
  BY <1>2, <1>9 DEF Owned, Carried
<1>11. OwnFields \subseteq DOMAIN o /\ \A f \in OwnFields \ {"adoptions"} : o[f] = w[f]
  BY <1>8, <1>10 DEF Only, OwnShape
<1>12. /\ o.pending = w.pending /\ o.offer = w.offer /\ o.queued = w.queued /\ o.hover = w.hover /\ o.commit = w.commit
       /\ o.taken = w.taken /\ o.landed = w.landed /\ o.gen = w.gen /\ o.inbox = w.inbox
  BY <1>11 DEF OwnFields
<1>13. OwnShape(o)
  BY <1>7, <1>8, <1>10, <1>11, <1>12 DEF OwnShape
<1>14. InOffers(o) = InOffers(w) \cup {st} /\ InPreview(o) = InPreview(w) /\ InOrders(o) = InOrders(w)
  BY <1>7, <1>8, <1>12 DEF InOffers, InPreview, InOrders
<1>15. Split(Free(w), InCache(w), InOffers(w), InPreview(w) \ {}, InOrders(w), X)
  BY <1>10 DEF Balanced
<1>16. m.taken = st => st \in InPreview(w)
  BY <1>2, <1>10 DEF InPreview
<1>17. Split(Free(w), InCache(w), InOffers(o), InPreview(o) \ U, InOrders(o), {}) /\ st \notin InOffers(w)
  <2> DEFINE F == Free(w)
             C == InCache(w)
             A == InOffers(w)
             P == InPreview(w)
             O == InOrders(w)
  <2>1. Split(F, C, A, P \ {}, O, X)
    BY <1>15
  <2>2. Split(F, C, A \cup {st}, P \ U, O, {}) /\ st \notin A
    <3> HIDE DEF F, C, A, P, O
    <3>1. CASE m.taken = st
      <4>1. X = {} /\ U = {st} /\ st \in P
        BY <1>16, <3>1 DEF TakenOf, P
      <4> QED
        BY <2>1, <4>1 DEF Split
    <3>2. CASE m.taken # st
      <4>1. X = {st} /\ U = {}
        BY <3>2 DEF TakenOf
      <4> QED
        BY <2>1, <4>1 DEF Split
    <3> QED
      BY <3>1, <3>2
  <2> QED
    BY <1>14, <2>2
<1>18. \A a, b \in o.adoptions : a.state = b.state => a = b
  <2>1. \A a, b \in rest : a.state = b.state => a = b
    BY <1>8, <1>10 DEF Balanced
  <2>2. \A a \in rest : a.state # st
    BY <1>8, <1>17 DEF InOffers
  <2> HIDE DEF rest
  <2> QED
    BY <1>7, <1>8, <2>1, <2>2
<1>19. /\ PendingOK(o) /\ OfferOK(o) /\ FromOK(o.commit.from) /\ FromOK(o.hover.from) /\ U \subseteq {o.taken}
       /\ Wanted(w, "preview") # {} => o.queued = NoRequest /\ o.pending.status # "landed"
       /\ o.queued # NoRequest => o.pending.status # "landed" /\ Landed(o.queued.on)
       /\ Landed(o.taken) => o.taken.gen \in Nat /\ o.taken.gen <= w.gen
  BY <1>10, <1>12 DEF Mail, PreviewMail, PendingOK, OfferOK, FromOK, TakenOf
<1>20. {"adoptions"} \cap OwnFields \subseteq HandFields
  BY DEF HandFields
<1> HIDE DEF U, X
<1>21. Owned(o, {}, U) /\ o.ids = w.ids /\ o.run = w.run /\ o.progress = w.progress
  BY <1>8, <1>9, <1>10, <1>13, <1>17, <1>18, <1>19, <1>20, ChangesHands
<1>22. NoFold(o) /\ Placed(o)
  BY <1>10, <1>12, <1>21 DEF NoFold, Posts, Placed
<1> QED
  BY <1>8, <1>14, <1>21, <1>22 DEF o, U

\* With its parent gone, the step a commit has in hand is let go of.
LEMMA WithdrawnWhole ==
  ASSUME NEW m, NEW from, NEW op, NEW st, InHand(m, st)
  PROVE  Whole([Render(WithdrawnBy(m, from, op, st)) EXCEPT !.taken = NoState, !.commit = NoCommit])
<1> DEFINE o == OfferedBy(m, from, op, st)
           U == TakenOf(m, st)
           shown == m.pending.status = "landed" /\ m.pending.state = st
           w == Release(o, st)
           v == [w EXCEPT !.taken = NoState, !.pending = IF shown THEN Idle ELSE @, !.adoptions = {a \in @ : a.state # st}]
           z == Render(v)
           y == [z EXCEPT !.taken = NoState, !.commit = NoCommit]
<1>1. Landed(st) /\ st.gen = m.gen /\ OwnShape(m) /\ Mail(m) /\ (m.taken = st \/ m.taken = NoState)
  BY DEF InHand, Owned
<1>2. Owned(o, {}, U) /\ NoFold(o) /\ Placed(o) /\ st \in InOffers(o) /\ Only(m, o, {"table", "inbox", "adoptions"})
  BY OfferedOwned
<1> HIDE DEF o
<1>3. OwnShape(o) /\ Balanced(o, {}, U) /\ Mail(o)
  BY <1>2 DEF Owned
<1>4. o.gen = m.gen /\ o.taken = m.taken /\ o.pending = m.pending
  BY <1>1, <1>2 DEF Only, OwnShape, OwnFields
<1>5. OfEngine(o, {st}) = {st}
  BY <1>1, <1>4 DEF OfEngine
<1>6. /\ Only(o, w, {"table", "inbox"}) /\ OwnShape(w) /\ Fewer(o, w)
      /\ w.table \subseteq o.table /\ Free(w) = Free(o) \ {st} /\ Leaving(w) \subseteq Leaving(o) \cup {st}
  BY <1>3, <1>5, ReleaseFrees
<1> HIDE DEF w
<1>7. \A f \in OwnFields \ {"table", "inbox"} : w[f] = o[f]
  BY <1>3, <1>6 DEF Only, OwnShape
<1>8. Only(w, v, {"taken", "pending", "adoptions"}) /\ v.taken = NoState /\ v.pending = (IF shown THEN Idle ELSE m.pending)
      /\ v.adoptions = {a \in o.adoptions : a.state # st}
  <2>1. w.pending = m.pending /\ w.adoptions = o.adoptions /\ {"taken", "pending", "adoptions"} \subseteq DOMAIN w
    BY <1>4, <1>6, <1>7 DEF OwnShape, OwnFields
  <2> HIDE DEF shown
  <2> QED
    BY <2>1 DEF Only
<1> HIDE DEF v
<1>9. OwnFields \subseteq DOMAIN v /\ \A f \in OwnFields \ {"taken", "pending", "adoptions"} : v[f] = w[f]
  BY <1>6, <1>8 DEF Only, OwnShape
<1>10. /\ v.offer = o.offer /\ v.queued = o.queued /\ v.hover = o.hover /\ v.commit = o.commit /\ v.landed = o.landed
       /\ v.gen = o.gen /\ v.inbox = w.inbox /\ v.table = w.table /\ v.stray = w.stray /\ v.up = o.up /\ v.stray = o.stray
       /\ v.cache = o.cache /\ v.ids = o.ids /\ v.run = o.run /\ v.progress = o.progress
       /\ w.landed = o.landed /\ w.gen = o.gen /\ w.commit = o.commit /\ w.hover = o.hover
  BY <1>7, <1>9 DEF OwnFields
<1>11. OwnShape(v)
  <2>1. "status" \in DOMAIN v.pending
    BY <1>1, <1>8, NothingLanded DEF OwnShape
  <2>2. \A a \in v.adoptions : "state" \in DOMAIN a
    BY <1>3, <1>8 DEF OwnShape
  <2> QED
    BY <1>6, <1>9, <1>10, <2>1, <2>2 DEF OwnShape
<1>12. Fewer(o, v) /\ v.table \subseteq o.table /\ Leaving(v) \subseteq Leaving(o) \cup {st} /\ Free(v) = Free(o) \ {st}
  <2>1. v.inbox = w.inbox /\ v.table = w.table /\ v.stray = w.stray
    BY <1>10
  <2>2. Fewer(o, v)
    BY <1>6, <2>1 DEF Fewer, AsksFirst
  <2>3. Leaving(v) = Leaving(w)
    BY <2>1 DEF Leaving
  <2> QED
    BY <1>6, <2>1, <2>2, <2>3 DEF Free
<1>13. {st} \subseteq Free(o)
  BY <1>2, <1>3, FreeFacts
<1>14. PendingOK(o) /\ (shown => ~Landed(v.pending.state))
       /\ (~shown => v.pending = o.pending /\ (Landed(o.pending.state) => o.pending.state # st))
  BY <1>3, <1>4, <1>8, NothingLanded DEF Mail, PendingOK
<1>15. Split(Free(v), InCache(o), InOffers(v), InPreview(v) \ {}, InOrders(v), {})
  <2>1. InOffers(v) = InOffers(o) \ {st} /\ InOrders(v) = InOrders(o)
    BY <1>8, <1>10 DEF InOffers, InOrders
  <2>2. InPreview(v) = InPreview(o) \ {st}
    <3>1. InPreview(v) = LandedOf(v.pending.state)
      BY <1>8, NothingLanded DEF InPreview, LandedOf
    <3>2. InPreview(o) \ {st} = LandedOf(o.pending.state) \ {st}
      BY <1>1, <1>4, NothingLanded DEF InPreview, LandedOf
    <3>3. LandedOf(o.pending.state) \ {st} = LandedOf(v.pending.state)
      BY <1>4, <1>14 DEF LandedOf
    <3> QED
      BY <3>1, <3>2, <3>3
  <2>3. U \subseteq {st}
    BY DEF TakenOf
  <2>4. Split(Free(o), InCache(o), InOffers(o), InPreview(o) \ U, InOrders(o), {})
    BY <1>3 DEF Balanced
  <2> DEFINE F == Free(o)
             C == InCache(o)
             A == InOffers(o)
             P == InPreview(o)
             O == InOrders(o)
  <2>5. Split(F \ {st}, C, A \ {st}, (P \ {st}) \ {}, O, {})
    <3>1. Split(F, C, A, P \ U, O, {}) /\ st \in A
      BY <1>2, <2>4
    <3> HIDE DEF F, C, A, P, O, U
    <3> QED
      BY <2>3, <3>1 DEF Split
  <2> QED
    BY <1>12, <2>1, <2>2, <2>5
<1>16. \A a, b \in v.adoptions : a.state = b.state => a = b
  BY <1>3, <1>8 DEF Balanced
<1>17. /\ PendingOK(v) /\ OfferOK(v) /\ FromOK(v.commit.from) /\ FromOK(v.hover.from) /\ {} \subseteq {v.taken}
       /\ Wanted(o, "preview") # {} => v.queued = NoRequest /\ v.pending.status # "landed"
       /\ v.queued # NoRequest => v.pending.status # "landed" /\ Landed(v.queued.on)
       /\ Landed(v.taken) => v.taken.gen \in Nat /\ v.taken.gen <= o.gen
  BY <1>3, <1>4, <1>8, <1>10, <1>14, NothingLanded DEF Mail, PreviewMail, PendingOK, OfferOK, FromOK
<1>18. \A f \in {"up", "stray", "landed", "gen", "cache"} : v[f] = o[f]
  BY <1>10
<1> HIDE DEF U, shown
<1>19. Owned(v, {}, {})
  BY <1>2, <1>11, <1>12, <1>13, <1>15, <1>16, <1>17, <1>18, HandsOver
<1>20. NoFold(v) /\ Placed(v) /\ ~Landed(v.taken)
  <2>1. NoFold(v)
    BY <1>2, <1>3, <1>11, <1>12, FewerMail DEF NoFold
  <2> QED
    BY <1>2, <1>8, <1>10, <2>1, NothingLanded DEF Placed
<1>21. Owned(z, {}, {}) /\ Carried(v, z)
  BY <1>19, RenderMinds DEF Minds
<1> HIDE DEF z
<1>22. NoFold(z) /\ Placed(z) /\ ~Landed(z.taken)
  BY <1>20, <1>21 DEF Carried
<1>23. Only(z, y, {"taken", "commit"}) /\ y.taken = NoState /\ y.commit = NoCommit
  BY <1>21 DEF Only, Owned, OwnShape, OwnFields
<1> HIDE DEF y
<1>24. Whole(y)
  BY <1>21, <1>22, <1>23, CommitOver
<1>25. v = WithdrawnBy(m, from, op, st)
  BY DEF v, w, o, shown, WithdrawnBy
<1> QED
  BY <1>24, <1>25 DEF y, z

\* The step a commit has in hand is appended, and shown ahead of the replay that adopts it.
LEMMA AheadWhole ==
  ASSUME NEW m, NEW from, NEW op, NEW st, InHand(m, st), Shape(m), Sound(m), from.id \in Places(m.steps)
  PROVE  LET o == OfferedBy(m, from, op, st)
             ahead == [load |-> m.load, id |-> m.ids + 1, state |-> st, older |-> FALSE]
         IN Whole([Render([Hear(o, Appended(o, from.id, op), TRUE, TRUE) EXCEPT !.ahead = ahead])
                     EXCEPT !.taken = NoState, !.commit = NoCommit])
<1> DEFINE o == OfferedBy(m, from, op, st)
           U == TakenOf(m, st)
           id == m.ids + 1
           ahead == [load |-> m.load, id |-> id, state |-> st, older |-> FALSE]
           p == Appended(o, from.id, op)
           h == Hear(o, p, TRUE, TRUE)
           b == [h EXCEPT !.ahead = ahead]
           z == Render(b)
           y == [z EXCEPT !.taken = NoState, !.commit = NoCommit]
<1>1. Landed(st) /\ OwnShape(m) /\ (m.taken = st \/ m.taken = NoState)
  BY DEF InHand, Owned
<1>2. Owned(o, {}, U) /\ NoFold(o) /\ Placed(o) /\ Only(m, o, {"table", "inbox", "adoptions"})
  BY OfferedOwned
<1>3. Shape(o) /\ o.ids = m.ids /\ o.steps = m.steps /\ o.taken = m.taken /\ o.holders = m.holders
  <2>1. Keeps(m, o, {"table", "inbox", "adoptions"})
    BY <1>2, OnlyKeeps
  <2> HIDE DEF o
  <2>2. Shape(o)
    BY <2>1 DEF Keeps
  <2> QED
    BY <1>1, <1>2, <2>2 DEF Only, Shape, Fields, OwnShape, OwnFields
<1>4. o.ids \in Nat /\ o.holders \in Nat /\ Tree(o.steps, o.ids)
  BY <1>3 DEF Sound, Tree
<1> HIDE DEF o
<1>5. /\ Only(o, p, DocSlots) /\ p.ids = id /\ p.cursor = id /\ p.load = o.load
      /\ p.steps = Append(o.steps, [id |-> o.ids + 1, parent |-> from.id, op |-> op])
  BY <1>3 DEF Appended, Only, DocSlots, Shape, Fields
<1>6. id \in Places(p.steps)
  BY <1>3, <1>4, <1>5, TreeAppend
<1> HIDE DEF p
<1>7. Minds(o, p)
  <2>1. DocSlots \cap OwnFields \subseteq {"ids"}
    BY DEF DocSlots, OwnFields
  <2>2. \A i : i \in 0..o.ids => i \in 0..p.ids
    BY <1>3, <1>4, <1>5
  <2> QED
    BY <1>5, <2>1, <2>2, DocMinds
<1>8. Owned(p, {}, U) /\ NoFold(p) /\ Placed(p) /\ p.taken = o.taken
  BY <1>2, <1>7 DEF Minds, Carried
<1>9. Shape(p) /\ p.holders = o.holders /\ p.progress = o.progress
  <2>1. Keeps(o, p, DocSlots)
    BY <1>5, OnlyKeeps DEF DocSlots
  <2>2. OwnShape(o)
    BY <1>2 DEF Owned
  <2> QED
    BY <1>3, <1>5, <2>1, <2>2 DEF Keeps, Only, DocSlots, Shape, Fields, OwnShape, OwnFields
<1>10. Minds(p, h)
  BY <1>5, HearMinds
<1>11. /\ Only(p, h, {"owed", "progress", "halted", "restarts"} \cup StartSlots)
       /\ DOMAIN h.progress.made \subseteq DOMAIN p.progress.made
  <2>1. "progress" \in DOMAIN p /\ "made" \in DOMAIN p.progress
    BY <1>8 DEF Owned, OwnShape, OwnFields, Placed
  <2> QED
    BY <1>4, <1>5, <1>9, <2>1, SilentHearKeeps
<1> HIDE DEF h
<1>12. Only(h, b, {"ahead"}) /\ b.ahead = ahead
  <2>1. "ahead" \in DOMAIN h
    BY <1>9, <1>11 DEF Only, Shape, Fields
  <2> QED
    BY <2>1 DEF Only
<1>13. ahead.id = id /\ ahead.state = st
  OBVIOUS
<1> HIDE DEF b, ahead
<1>14. Minds(h, b)
  BY <1>12, OnlyMinds DEF OwnFields
<1>15. Minds(p, b)
  BY <1>10, <1>14, MindsThen
<1>16. Owned(b, {}, U) /\ NoFold(b) /\ Placed(b) /\ b.taken = m.taken
  BY <1>3, <1>8, <1>15 DEF Minds, Carried
<1>17. b.cursor = id /\ b.steps = p.steps /\ b.progress = h.progress
  <2>1. Only(h, b, {"ahead"}) /\ "progress" \in DOMAIN b
    BY <1>12, <1>16 DEF Owned, OwnShape, OwnFields
  <2> QED
    BY <1>5, <1>9, <1>11, <2>1 DEF Only, Shape, Fields, StartSlots
<1>18. Shape(b)
  <2>1. Only(p, b, {"owed", "progress", "halted", "restarts", "ahead"} \cup StartSlots)
    BY <1>11, <1>12 DEF Only
  <2>2. Keeps(p, b, {"owed", "progress", "halted", "restarts", "ahead"} \cup StartSlots)
    BY <2>1, OnlyKeeps DEF StartSlots
  <2> QED
    BY <1>9, <2>2 DEF Keeps
<1>19. id \notin DOMAIN b.progress.made
  <2>1. DOMAIN o.progress.made \subseteq 0..o.ids
    BY <1>2 DEF Placed
  <2>2. id \notin 0..o.ids
    BY <1>3, <1>4
  <2> QED
    BY <1>9, <1>11, <1>17, <2>1, <2>2
<1>20. ShownIn(b)[b.cursor] \in {st, NoState}
  BY <1>6, <1>12, <1>13, <1>17, <1>19, ShownAhead
<1>21. Owned(z, {}, U) /\ Carried(b, z)
  BY <1>16, RenderMinds DEF Minds
<1>22. Landed(z.pending.state) => z.pending.state \notin U
  <2> SUFFICES ASSUME Landed(z.pending.state), z.pending.state \in U
               PROVE  FALSE
    OBVIOUS
  <2>1. z.pending.state = st
    BY DEF TakenOf
  <2>2. z.pending = b.pending
    BY <1>21, NothingLanded DEF Carried
  <2>3. b.pending.status = "landed" /\ Landed(b.pending.parent) /\ b.pending.parent # st
    BY <1>16, <2>1, <2>2 DEF Owned, Mail, PendingOK
  <2>4. b.pending.parent # ShownIn(b)[b.cursor] /\ b.pending.status # "idle"
    BY <1>20, <2>3, NothingLanded
  <2>5. z.pending = Idle
    BY <1>16, <1>18, <2>4, OutgrownGoes
  <2> QED
    BY <2>5, NothingLanded
<1>23. NoFold(z) /\ Placed(z) /\ (z.taken \in U \/ ~Landed(z.taken))
  BY <1>1, <1>16, <1>21, NothingLanded DEF Carried, TakenOf
<1> HIDE DEF z, U
<1>24. Only(z, y, {"taken", "commit"}) /\ y.taken = NoState /\ y.commit = NoCommit
  BY <1>21 DEF Only, Owned, OwnShape, OwnFields
<1> HIDE DEF y
<1>25. Whole(y)
  <2>1. {"taken", "commit"} \cap OwnFields \subseteq {"taken", "commit"}
    OBVIOUS
  <2> QED
    BY <1>21, <1>22, <1>23, <1>24, <2>1, CommitOver
<1> QED
  BY <1>25 DEF y, z, b, h, p, o, ahead

LEMMA CommittedWhole ==
  ASSUME NEW m, NEW from, NEW op, NEW st, InHand(m, st), Shape(m), Sound(m)
  PROVE  Whole(Committed(m, from, op, st))
<1> DEFINE o == OfferedBy(m, from, op, st)
           ahead == [load |-> m.load, id |-> m.ids + 1, state |-> st, older |-> FALSE]
           b == [Hear(o, Appended(o, from.id, op), TRUE, TRUE) EXCEPT !.ahead = ahead]
           v == WithdrawnBy(m, from, op, st)
<1>1. Committed(m, from, op, st) =
        [(IF from.id \in Places(m.steps) THEN Render(b) ELSE Render(v)) EXCEPT !.taken = NoState, !.commit = NoCommit]
  BY DEF Committed, OfferedBy, WithdrawnBy, Replaced, Places
<1>2. from.id \in Places(m.steps) => Whole([Render(b) EXCEPT !.taken = NoState, !.commit = NoCommit])
  BY AheadWhole
<1>3. Whole([Render(v) EXCEPT !.taken = NoState, !.commit = NoCommit])
  BY WithdrawnWhole
<1> HIDE DEF b, v
<1> QED
  BY <1>1, <1>2, <1>3

LEMMA CommitLandedWhole ==
  ASSUME NEW m, NEW from, NEW op, NEW st, InHand(m, st), Shape(m), Sound(m)
  PROVE  Whole(CommitLanded(m, from, op, st))
  BY CommittedWhole, LetGoWhole DEF CommitLanded

Unbusy(m) == m.commit.pc \notin {"fold", "print"}

\* A commit that waits, or folds, has nothing in hand.
LEMMA BusyMinds ==
  ASSUME NEW m, NEW w, {"pc", "op", "from", "state"} \subseteq DOMAIN w, Unbusy(m), w.pc # "print", FromOK(w.from)
  PROVE  Minds(m, [m EXCEPT !.commit = w]) /\ Only(m, [m EXCEPT !.commit = w], {"commit"})
<1> DEFINE y == [m EXCEPT !.commit = w]
<1>1. Only(m, y, {"commit"}) /\ (OwnShape(m) => y.commit = w /\ y.hover = m.hover)
  BY DEF Only, OwnShape, OwnFields
<1> HIDE DEF y
<1>2. OwnShape(m) => /\ {"pc", "op", "from", "state"} \subseteq DOMAIN y.commit /\ {"pc", "op", "from"} \subseteq DOMAIN y.hover
                     /\ WaiterMoves(m.commit, y.commit) /\ (FromOK(m.hover.from) => FromOK(y.hover.from))
  BY <1>1 DEF WaiterMoves, Unbusy, OwnShape
<1>3. {"commit"} \cap OwnFields \subseteq {"commit", "hover"}
  OBVIOUS
<1>4. Minds(m, y)
  BY <1>1, <1>2, <1>3, WaitersMinds
<1> QED
  BY <1>1, <1>4 DEF y

LEMMA UnbusyHasNothing ==
  ASSUME NEW m, Whole(m), Unbusy(m)
  PROVE  /\ NoFold(m) /\ m.taken = NoState /\ Owned(m, {}, {}) /\ Placed(m)
         /\ Whole([m EXCEPT !.commit = NoCommit])
<1>1. NoFold(m) /\ m.taken = NoState /\ Owned(m, {}, {}) /\ Placed(m)
  BY DEF Whole, WholeBut, Owned, Mail, FoldMail, Taking, Unbusy
<1> DEFINE y == [m EXCEPT !.commit = NoCommit]
<1>2. Only(m, y, {"taken", "commit"}) /\ y.taken = NoState /\ y.commit = NoCommit
  BY <1>1 DEF Only, Owned, OwnShape, OwnFields
<1> HIDE DEF y
<1>3. Whole(y)
  BY <1>1, <1>2, NothingLanded, CommitOver
<1> QED
  BY <1>1, <1>3 DEF y

\* A landed preview is taken.
LEMMA TakingInHand ==
  ASSUME NEW m, Whole(m), Unbusy(m), m.pending.status = "landed"
  PROVE  LET st == m.pending.state IN
         /\ InHand([m EXCEPT !.taken = st], st)
         /\ \A w : /\ {"pc", "op", "from", "state"} \subseteq DOMAIN w /\ w.pc = "print" /\ w.state = st /\ FromOK(w.from)
                   => Whole([[m EXCEPT !.taken = st] EXCEPT !.commit = w])
<1> DEFINE st == m.pending.state
           t == [m EXCEPT !.taken = st]
<1>1. NoFold(m) /\ m.taken = NoState /\ Owned(m, {}, {}) /\ OwnShape(m) /\ Mail(m) /\ Balanced(m, {}, {}) /\ Placed(m)
  BY UnbusyHasNothing DEF Owned
<1>2. Landed(st) /\ st \in InPreview(m) /\ InPreview(m) = {st}
  BY <1>1, NothingLanded DEF Mail, PendingOK, InPreview
<1>3. st.gen = m.gen
  BY <1>1, <1>2, FreeFacts
<1> HIDE DEF st
<1>4. Only(m, t, {"taken"}) /\ t.taken = st /\ t.commit = m.commit
  BY <1>1 DEF Only, OwnShape, OwnFields
<1> HIDE DEF t
<1>5. ASSUME NEW y, Only(m, y, {"taken", "commit"}), y.taken = st,
             {"pc", "op", "from", "state"} \subseteq DOMAIN y.commit, FromOK(y.commit.from)
      PROVE  Owned(y, {}, {}) /\ NoFold(y) /\ Placed(y) /\ y.gen = m.gen
  <2>1. OwnFields \subseteq DOMAIN y /\ \A f \in OwnFields \ {"taken", "commit"} : y[f] = m[f]
    BY <1>1, <1>5 DEF Only, OwnShape
  <2>2. /\ y.adoptions = m.adoptions /\ y.pending = m.pending /\ y.offer = m.offer /\ y.queued = m.queued /\ y.hover = m.hover
        /\ y.landed = m.landed /\ y.gen = m.gen /\ y.inbox = m.inbox
    BY <2>1 DEF OwnFields
  <2>3. OwnShape(y)
    BY <1>1, <1>5, <2>1, <2>2 DEF OwnShape
  <2>4. InPreview(y) = {st} /\ InOffers(y) = InOffers(m) /\ InOrders(y) = InOrders(m)
    BY <1>2, <1>3, <1>5, <2>2 DEF InPreview, InOffers, InOrders, st
  <2>5. Split(Free(m), InCache(m), InOffers(y), InPreview(y) \ {}, InOrders(y), {})
    BY <1>1, <1>2, <2>4 DEF Balanced
  <2>6. \A a, b \in y.adoptions : a.state = b.state => a = b
    BY <1>1, <2>2 DEF Balanced
  <2>7. /\ PendingOK(y) /\ OfferOK(y) /\ FromOK(y.commit.from) /\ FromOK(y.hover.from) /\ {} \subseteq {y.taken}
        /\ Wanted(m, "preview") # {} => y.queued = NoRequest /\ y.pending.status # "landed"
        /\ y.queued # NoRequest => y.pending.status # "landed" /\ Landed(y.queued.on)
        /\ Landed(y.taken) => y.taken.gen \in Nat /\ y.taken.gen <= m.gen
    <3>1. m.gen \in Nat
      BY <1>1 DEF OwnShape
    <3> QED
      BY <1>1, <1>3, <1>5, <2>2, <3>1 DEF Mail, PreviewMail, PendingOK, OfferOK, FromOK
  <2>8. {"taken", "commit"} \cap OwnFields \subseteq HandFields
    BY DEF HandFields
  <2>9. Owned(y, {}, {}) /\ y.ids = m.ids /\ y.run = m.run /\ y.progress = m.progress
    <3> DEFINE T == {"taken", "commit"}
               E == {}
    <3>1. Owned(m, E, E) /\ Only(m, y, T) /\ NoFold(m) /\ T \cap OwnFields \subseteq HandFields
      BY <1>1, <1>5, <2>8
    <3>2. Split(Free(m), InCache(m), InOffers(y), InPreview(y) \ E, InOrders(y), E) /\ E \subseteq {y.taken}
      BY <2>5
    <3> HIDE DEF T, E
    <3>3. Owned(y, E, E) /\ y.ids = m.ids /\ y.run = m.run /\ y.progress = m.progress
      BY <2>3, <2>6, <2>7, <3>1, <3>2, ChangesHands
    <3> QED
      BY <3>3 DEF E
  <2>10. NoFold(y) /\ Placed(y)
    BY <1>1, <2>2, <2>9 DEF NoFold, Posts, Placed
  <2> QED
    BY <2>2, <2>9, <2>10
<1>6. InHand(t, st)
  <2>1. Only(m, t, {"taken", "commit"})
    BY <1>4 DEF Only
  <2>2. {"pc", "op", "from", "state"} \subseteq DOMAIN t.commit /\ FromOK(t.commit.from)
    BY <1>1, <1>4 DEF OwnShape, Mail
  <2>3. Owned(t, {}, {}) /\ NoFold(t) /\ Placed(t) /\ t.gen = m.gen
    BY <1>4, <1>5, <2>1, <2>2
  <2> QED
    BY <1>2, <1>3, <1>4, <2>3 DEF InHand
<1>7. ASSUME NEW w, {"pc", "op", "from", "state"} \subseteq DOMAIN w, w.pc = "print", w.state = st, FromOK(w.from)
      PROVE  Whole([t EXCEPT !.commit = w])
  <2> DEFINE y == [t EXCEPT !.commit = w]
  <2>1. Only(m, y, {"taken", "commit"}) /\ y.taken = st /\ y.commit = w
    BY <1>1, <1>4 DEF Only, OwnShape, OwnFields
  <2> HIDE DEF y
  <2>2. Owned(y, {}, {}) /\ Placed(y) /\ y.gen = m.gen
    BY <1>5, <1>7, <2>1
  <2>3. Taking(y) /\ TakenNow(y)
    BY <1>2, <1>3, <1>7, <2>1, <2>2 DEF Taking, TakenNow
  <2>4. Whole(y)
    BY <2>2, <2>3 DEF Whole, WholeBut
  <2> QED
    BY <2>4 DEF y
<1> QED
  BY <1>6, <1>7 DEF t, st

LEMMA TakenStill ==
  ASSUME NEW m, NEW st, Shape(m), Sound(m)
  PROVE  Shape([m EXCEPT !.taken = st]) /\ Sound([m EXCEPT !.taken = st])
<1> DEFINE y == [m EXCEPT !.taken = st]
<1>1. Only(m, y, {"taken"})
  BY DEF Only
<1> HIDE DEF y
<1>2. Keeps(m, y, {"taken"})
  BY <1>1, OnlyKeeps
<1>3. y.run = m.run /\ y.scheduled = m.scheduled
  BY <1>2, Kept DEF Fields
<1>4. Shape(y) /\ Sound(y)
  BY <1>2, <1>3, StillSound DEF Keeps, Sound
<1> QED
  BY <1>4 DEF y

LEMMA CommitTakingWhole ==
  ASSUME NEW m, NEW from, NEW op, Whole(m), Shape(m), Sound(m), Unbusy(m), FromOK(from)
  PROVE  Whole(CommitTaking(m, from, op))
<1> DEFINE st == m.pending.state
           t == [m EXCEPT !.taken = st]
           p == [pc |-> "print", op |-> op, from |-> from, state |-> st]
           f == [pc |-> "fold", op |-> op, from |-> from, state |-> NoState]
           c == [m EXCEPT !.commit = f]
           a == Ask(m, "fold", from.parent, op, <<>>)
<1>1. \/ m.pending.status = "landed" /\ CommitTaking(m, from, op) = [t EXCEPT !.commit = p]
      \/ m.pending.status = "landed" /\ CommitTaking(m, from, op) = CommitLanded(t, from, op, st)
      \/ CommitTaking(m, from, op) = [m EXCEPT !.commit = NoCommit]
      \/ CommitTaking(m, from, op) = [a EXCEPT !.commit = f]
  BY DEF CommitTaking
<1>2. m.pending.status = "landed" => Whole([t EXCEPT !.commit = p])
  <2>1. {"pc", "op", "from", "state"} \subseteq DOMAIN p /\ p.pc = "print" /\ p.state = st /\ p.from = from
    OBVIOUS
  <2> HIDE DEF p
  <2> QED
    BY <2>1, TakingInHand
<1>3. m.pending.status = "landed" => Whole(CommitLanded(t, from, op, st))
  <2>1. m.pending.status = "landed" => InHand(t, st)
    BY TakingInHand
  <2>2. Shape(t) /\ Sound(t)
    BY TakenStill
  <2> HIDE DEF t, st
  <2> QED
    BY <2>1, <2>2, CommitLandedWhole
<1>4. Whole([m EXCEPT !.commit = NoCommit])
  BY UnbusyHasNothing
<1>5. Whole([a EXCEPT !.commit = f])
  <2>1. {"pc", "op", "from", "state"} \subseteq DOMAIN f /\ f.pc = "fold" /\ f.from = from
    OBVIOUS
  <2>2. OwnShape(m) /\ NoFold(m)
    BY UnbusyHasNothing DEF Owned
  <2> HIDE DEF f
  <2>3. Minds(m, c) /\ c.commit = f /\ c.inbox = m.inbox
    <3>1. Minds(m, c)
      BY <2>1, BusyMinds
    <3>2. c.commit = f /\ c.inbox = m.inbox
      BY <2>2 DEF OwnShape, OwnFields
    <3> QED
      BY <3>1, <3>2
  <2>4. [a EXCEPT !.commit = f] = Ask(c, "fold", from.parent, op, <<>>)
    BY <2>2 DEF Ask, OwnShape, OwnFields
  <2> HIDE DEF c, a
  <2>5. Whole(c)
    BY <2>3, MindsWhole
  <2>6. MayAsk(c, "fold", from.parent, <<>>)
    BY <2>1, <2>2, <2>3 DEF MayAsk, NoFold, Posts
  <2>7. Whole(Ask(c, "fold", from.parent, op, <<>>))
    BY <2>5, <2>6, AskWhole DEF Whole
  <2> QED
    BY <2>4, <2>7
<1> HIDE DEF t, p, f, a
<1> QED
  BY <1>1, <1>2, <1>3, <1>4, <1>5

LEMMA CommitWhole ==
  ASSUME NEW m, NEW from, NEW op, Whole(m), Shape(m), Sound(m), Unbusy(m), FromOK(from)
  PROVE  Whole(Commit(m, from, op))
<1> DEFINE w == [pc |-> IF m.queued = NoRequest THEN "flight" ELSE "queued", op |-> op, from |-> from, state |-> NoState]
<1>1. Commit(m, from, op) \in {[m EXCEPT !.commit = NoCommit], [m EXCEPT !.commit = w], CommitTaking(m, from, op)}
  BY DEF Commit
<1>2. {"pc", "op", "from", "state"} \subseteq DOMAIN w /\ w.pc # "print" /\ w.from = from
  OBVIOUS
<1> HIDE DEF w
<1>3. Whole([m EXCEPT !.commit = w])
  BY <1>2, BusyMinds, MindsWhole
<1> QED
  BY <1>1, <1>3, UnbusyHasNothing, CommitTakingWhole

LEMMA CommitNowWhole ==
  ASSUME NEW m, NEW op, Whole(m), Shape(m), Sound(m), Unbusy(m)
  PROVE  Whole(CommitNow(m, op))
<1> DEFINE w == [NoCommit EXCEPT !.pc = "waiting", !.op = op]
           from == FoldingFrom(m).from
<1>1. CommitNow(m, op) = IF ReadyToFold(m) THEN Commit(m, from, op) ELSE [m EXCEPT !.commit = w]
  BY DEF CommitNow
<1>2. FromOK(from)
  BY DEF FoldingFrom, FromOK
<1>3. {"pc", "op", "from", "state"} \subseteq DOMAIN w /\ w.pc # "print" /\ FromOK(w.from)
  BY DEF NoCommit, FromOK
<1> HIDE DEF w, from
<1>4. Whole([m EXCEPT !.commit = w])
  BY <1>3, BusyMinds, MindsWhole
<1> QED
  BY <1>1, <1>2, <1>4, CommitWhole

----------------------------------------------------------------------------
(* Who owns a state: answers.                                             *)

\* The releases right after the first message end where another message begins.
LEMMA ReleasesEnd ==
  ASSUME NEW q, IsSeq(q), q # <<>>
  PROVE  LET n == Len(q)
             after == {i \in 2..n : \A j \in 2..i : q[j].kind = "release"}
         IN \E k \in Nat : /\ k \in 1..n /\ after = 2..k /\ Cardinality(after) + 2 = k + 1
                           /\ k + 1 \in DOMAIN q => q[k + 1].kind # "release"
<1> DEFINE n == Len(q)
           after == {i \in 2..n : \A j \in 2..i : q[j].kind = "release"}
           T == {k \in 1..n : k + 1 \in 1..n => q[k + 1].kind # "release"}
<1>1. n \in Nat /\ DOMAIN q = 1..n
  BY SeqDomain
<1>2. n # 0
  <2>1. q \in Seq({q[i] : i \in DOMAIN q})
    BY DEF IsSeq
  <2> QED
    BY <2>1, EmptySeq
<1>3. n \in T /\ T \in SUBSET Nat
  BY <1>1, <1>2
<1>4. PICK k \in T : \A j \in T : k <= j
  <2> HIDE DEF T
  <2>1. T # {}
    BY <1>3
  <2> QED
    BY <1>3, <2>1, Least
<1>5. k \in 1..n /\ (k + 1 \in DOMAIN q => q[k + 1].kind # "release") /\ k \in Nat
  BY <1>1, <1>4
<1>6. \A j \in 2..k : q[j].kind = "release"
  <2> TAKE j \in 2..k
  <2>1. j - 1 \in 1..n /\ j - 1 < k /\ (j - 1) + 1 = j /\ j \in 1..n
    BY <1>1, <1>5
  <2>2. j - 1 \notin T
    <3> HIDE DEF T
    <3>1. j - 1 \in T => k <= j - 1
      BY <1>4
    <3>2. j - 1 \in Int /\ k \in Int /\ j - 1 < k
      BY <1>5, <2>1
    <3> QED
      BY <3>1, <3>2
  <2> QED
    BY <2>1, <2>2
<1>7. after = 2..k
  <2>1. \A i \in 2..k : i \in 2..n /\ \A j \in 2..i : j \in 2..k
    BY <1>1, <1>5
  <2>2. ASSUME NEW i \in after
        PROVE  i \in 2..k
    <3>1. i \in 2..n /\ \A j \in 2..i : q[j].kind = "release"
      OBVIOUS
    <3>2. CASE i > k
      <4>1. k + 1 \in 2..i /\ k + 1 \in DOMAIN q
        BY <1>1, <1>5, <3>1, <3>2
      <4> QED
        BY <1>5, <3>1, <4>1
    <3> QED
      BY <1>1, <1>5, <3>1, <3>2
  <2> QED
    BY <1>6, <2>1, <2>2
<1>8. Cardinality(2..k) = k - 1
  <2>1. 2 \in Int /\ k \in Int
    BY <1>5
  <2>2. Cardinality(2..k) = IF 2 > k THEN 0 ELSE k - 2 + 1
    <3> HIDE DEF T
    <3> QED
      BY <2>1, FS_Interval
  <2> QED
    BY <1>5, <2>2
<1>9. Cardinality(after) + 2 = k + 1
  <2> HIDE DEF after
  <2> QED
    BY <1>5, <1>7, <1>8
<1> QED
  BY <1>5, <1>7, <1>9

\* A message is answered, and the releases that follow it are done.
LEMMA PoppedMinds ==
  ASSUME NEW m, OwnShape(m), AsksFirst(m), m.inbox # <<>>
  PROVE  LET y == Popped(m)
             h == Head(m.inbox)
         IN /\ Minds(m, y) /\ Only(m, y, {"inbox", "table"}) /\ OwnShape(y)
            /\ h = m.inbox[1] /\ 1 \in DOMAIN m.inbox
            /\ FoldMail(m) /\ h.kind = "fold" => NoFold(y)
            /\ PreviewMail(m) /\ h.kind = "preview" /\ h.wanted => Wanted(y, "preview") = {}
            /\ ReplayMail(m) /\ h.kind = "replay" /\ h.wanted =>
                 \A i \in Wanted(y, "replay") : y.inbox[i].path # h.path
<1> DEFINE q == m.inbox
           n == Len(q)
           after == {i \in 2..n : \A j \in 2..i : q[j].kind = "release"}
           y == Popped(m)
<1>1. IsSeq(q) /\ n \in Nat /\ DOMAIN q = 1..n /\ \A i \in DOMAIN q : MailFields \subseteq DOMAIN q[i]
  BY SeqDomain DEF OwnShape
<1>2. PICK k \in Nat : /\ k \in 1..n /\ after = 2..k /\ Cardinality(after) + 2 = k + 1
                       /\ k + 1 \in DOMAIN q => q[k + 1].kind # "release"
  BY <1>1, ReleasesEnd
<1>3. y = [m EXCEPT !.inbox = SubSeq(q, Cardinality(after) + 2, n), !.table = @ \ {q[i].on : i \in after}]
  BY DEF Popped
<1>4. after \subseteq DOMAIN q /\ \A i \in after : q[i].kind = "release"
  BY <1>1, <1>2
<1> HIDE DEF after, y
<1>5. y = [m EXCEPT !.inbox = SubSeq(q, k + 1, n), !.table = @ \ {q[i].on : i \in after}]
  BY <1>2, <1>3
<1>6. /\ Only(m, y, {"inbox", "table"}) /\ y.inbox = SubSeq(q, k + 1, n) /\ y.table = m.table \ {q[i].on : i \in after}
  BY <1>5 DEF Only, OwnShape, OwnFields
<1>7. \A f \in OwnFields \ {"inbox", "table"} : y[f] = m[f]
  BY <1>6 DEF Only, OwnShape
<1>8. /\ IsSeq(y.inbox) /\ DOMAIN y.inbox = 1..(n - k)
      /\ \A i \in DOMAIN y.inbox : i + k \in DOMAIN q /\ y.inbox[i] = q[i + k]
  <2> DEFINE E == {q[i] : i \in DOMAIN q}
  <2>1. q \in Seq(E)
    BY <1>1 DEF IsSeq
  <2> HIDE DEF E, q, n
  <2>2. n - k \in Nat /\ \A i \in 1..(n - k) : i + k \in 1..n /\ (k + 1) + i - 1 = i + k
    BY <1>1, <1>2
  <2>3. SubSeq(q, k + 1, n) = [i \in 1..(n - (k + 1) + 1) |-> q[k + 1 + i - 1]]
    BY <1>1, <1>2
  <2>4. n - (k + 1) + 1 = n - k
    BY <1>1, <1>2
  <2> DEFINE r == SubSeq(q, k + 1, n)
  <2>5. DOMAIN r = 1..(n - k) /\ \A i \in 1..(n - k) : r[i] = q[i + k]
    BY <2>2, <2>3, <2>4
  <2>6. r = [i \in 1..(n - k) |-> q[k + 1 + i - 1]]
    BY <2>3, <2>4
  <2> HIDE DEF r
  <2>7. r \in [1..(n - k) -> {r[i] : i \in DOMAIN r}]
    BY <2>5, <2>6
  <2>8. IsSeq(r)
    <3>1. r \in UNION {[1..i -> {r[j] : j \in DOMAIN r}] : i \in Nat}
      BY <2>2, <2>7
    <3> QED
      BY <3>1 DEF IsSeq
  <2> QED
    BY <1>1, <1>6, <2>2, <2>5, <2>8 DEF r
<1>9. OwnShape(y)
  <2>1. /\ y.landed = m.landed /\ y.gen = m.gen /\ y.adoptions = m.adoptions /\ y.commit = m.commit /\ y.hover = m.hover
        /\ y.pending = m.pending /\ OwnFields \subseteq DOMAIN y
    BY <1>6, <1>7 DEF OwnFields, OwnShape, Only
  <2>2. \A i \in DOMAIN y.inbox : MailFields \subseteq DOMAIN y.inbox[i]
    BY <1>1, <1>8
  <2> QED
    BY <1>8, <2>1, <2>2 DEF OwnShape
<1>10. Head(m.inbox) = q[1] /\ 1 \in DOMAIN q /\ q[1].kind # "release"
  BY <1>1, <1>2 DEF AsksFirst
<1>11. Fewer(m, y)
  <2>1. \A i \in DOMAIN y.inbox :
          /\ i + k \in DOMAIN m.inbox
          /\ y.inbox[i].kind = m.inbox[i + k].kind /\ y.inbox[i].on = m.inbox[i + k].on
          /\ y.inbox[i].op = m.inbox[i + k].op /\ y.inbox[i].path = m.inbox[i + k].path
          /\ y.inbox[i].wanted => m.inbox[i + k].wanted
    BY <1>8
  <2>2. AsksFirst(y)
    <3>1. 1 \in DOMAIN y.inbox => y.inbox[1] = q[1 + k] /\ 1 + k \in DOMAIN q
      BY <1>8
    <3>2. 1 + k = k + 1
      OBVIOUS
    <3> QED
      BY <1>2, <3>1, <3>2 DEF AsksFirst
  <2> QED
    BY <2>1, <2>2 DEF Fewer
<1>12. Leaving(m) = Leaving(y) \cup {q[i].on : i \in after}
  <2>1. \A st \in Leaving(y) : st \in Leaving(m)
    BY <1>8 DEF Leaving
  <2>2. \A i \in after : q[i].on \in Leaving(m)
    BY <1>4 DEF Leaving
  <2>3. ASSUME NEW st \in Leaving(m)
        PROVE  st \in Leaving(y) \cup {q[i].on : i \in after}
    <3>1. PICK i \in DOMAIN q : q[i].kind = "release" /\ q[i].on = st
      BY DEF Leaving
    <3>2. i \in 1..n /\ i # 1
      BY <1>1, <1>10, <3>1
    <3>3. CASE i <= k
      <4>1. i \in after
        BY <1>1, <1>2, <3>2, <3>3
      <4> QED
        BY <3>1, <4>1
    <3>4. CASE ~(i <= k)
      <4>1. i - k \in 1..(n - k) /\ (i - k) + k = i
        BY <1>1, <1>2, <3>2, <3>4
      <4>2. i - k \in DOMAIN y.inbox /\ y.inbox[i - k] = q[i]
        BY <1>8, <4>1
      <4> QED
        BY <3>1, <4>2 DEF Leaving
    <3> QED
      BY <3>3, <3>4
  <2> QED
    BY <2>1, <2>2, <2>3
<1>13. Free(y) = Free(m) /\ y.table \subseteq m.table /\ Leaving(y) \subseteq Leaving(m)
  <2>1. y.stray = m.stray
    BY <1>7 DEF OwnFields
  <2> QED
    BY <1>6, <1>12, <2>1 DEF Free
<1>14. Minds(m, y)
  <2> SUFFICES ASSUME NEW X, NEW U, Owned(m, X, U)
               PROVE  Owned(y, X, U) /\ Carried(m, y)
    BY DEF Minds
  <2>1. Balanced(m, X, U) /\ Mail(m)
    BY DEF Owned
  <2>2. /\ y.cache = m.cache /\ y.adoptions = m.adoptions /\ y.offer = m.offer /\ y.pending = m.pending
        /\ y.taken = m.taken /\ y.gen = m.gen
    BY <1>7 DEF OwnFields
  <2>3. \A f \in StayFields : y[f] = m[f]
    BY <1>7 DEF StayFields, OwnFields
  <2>4. Split(Free(y), InCache(y), InOffers(y), InPreview(y) \ U, InOrders(y), X)
    BY <1>13, <2>1, <2>2 DEF Balanced, InCache, InOffers, InPreview, InOrders
  <2>5. OfferOK(y) /\ U \subseteq {m.taken} /\ DOMAIN y.cache \subseteq DOMAIN m.cache /\ y.adoptions \subseteq m.adoptions
    BY <2>1, <2>2 DEF Mail, OfferOK, Balanced
  <2>6. {} \subseteq Free(m) /\ Leaving(y) \subseteq Leaving(m) \cup {}
    BY <1>13
  <2> QED
    BY <1>9, <1>11, <1>13, <2>3, <2>4, <2>5, <2>6, LetsGo
<1>15. ASSUME NEW i \in DOMAIN y.inbox
       PROVE  i + k \in DOMAIN q /\ i + k # 1 /\ y.inbox[i] = q[i + k]
  BY <1>1, <1>2, <1>8
<1>16. FoldMail(m) /\ q[1].kind = "fold" => NoFold(y)
  BY <1>10, <1>15 DEF FoldMail, NoFold, Posts
<1>17. PreviewMail(m) /\ q[1].kind = "preview" /\ q[1].wanted => Wanted(y, "preview") = {}
  BY <1>10, <1>15 DEF PreviewMail, Wanted, Posts
<1>18. ReplayMail(m) /\ q[1].kind = "replay" /\ q[1].wanted =>
         \A i \in Wanted(y, "replay") : y.inbox[i].path # q[1].path
  BY <1>10, <1>15 DEF ReplayMail, Wanted, Posts
<1> QED
  BY <1>6, <1>9, <1>10, <1>14, <1>16, <1>17, <1>18 DEF y

\* The engine lands a state, which is nobody's yet.
LEMMA LandWhole ==
  ASSUME NEW m, NEW st, Whole(m), m.up, st.n = m.landed + 1, st.gen = m.gen
  PROVE  LET y == [m EXCEPT !.landed = @ + 1, !.table = @ \cup {st}] IN
         /\ WholeBut(y, {st}) /\ LandedOf(st) = {st} /\ Only(m, y, {"landed", "table"}) /\ st \notin m.table
<1> DEFINE y == [m EXCEPT !.landed = @ + 1, !.table = @ \cup {st}]
<1>1. Owned(m, {}, {}) /\ Taking(m) /\ TakenNow(m) /\ Placed(m) /\ OwnShape(m) /\ Balanced(m, {}, {}) /\ Mail(m)
  BY DEF Whole, WholeBut, Owned
<1>2. Only(m, y, {"landed", "table"}) /\ y.landed = m.landed + 1 /\ y.table = m.table \cup {st}
  BY <1>1 DEF Only, OwnShape, OwnFields
<1> HIDE DEF y
<1>3. OwnFields \subseteq DOMAIN y /\ \A f \in OwnFields \ {"landed", "table"} : y[f] = m[f]
  BY <1>1, <1>2 DEF Only, OwnShape
<1>4. /\ y.inbox = m.inbox /\ y.stray = m.stray /\ y.up = m.up
      /\ y.gen = m.gen /\ y.cache = m.cache /\ y.adoptions = m.adoptions /\ y.pending = m.pending
      /\ y.taken = m.taken /\ y.offer = m.offer /\ y.queued = m.queued /\ y.commit = m.commit /\ y.hover = m.hover
      /\ y.ids = m.ids /\ y.run = m.run /\ y.progress = m.progress
  BY <1>3 DEF OwnFields
<1>5. m.landed \in Nat /\ m.landed + 1 \in Nat /\ Landed(st) /\ st.n \in 1..(m.landed + 1) /\ ~(st.n <= m.landed)
  BY <1>1 DEF OwnShape, Landed
<1>6. OwnShape(y)
  BY <1>1, <1>2, <1>3, <1>4, <1>5 DEF OwnShape
<1>7. st \notin m.table /\ st \notin Leaving(m) \cup m.stray
  BY <1>1, <1>5 DEF Balanced
<1>8. Leaving(y) = Leaving(m) /\ Free(y) = Free(m) \cup {st} /\ st \notin Free(m)
  <2>1. Leaving(y) = Leaving(m)
    BY <1>4 DEF Leaving
  <2> QED
    BY <1>2, <1>4, <1>7, <2>1 DEF Free
<1>9. Balanced(y, {st}, {})
  <2>1. InCache(y) = InCache(m) /\ InOffers(y) = InOffers(m) /\ InPreview(y) = InPreview(m) /\ InOrders(y) = InOrders(m)
    BY <1>4 DEF InCache, InOffers, InPreview, InOrders
  <2>2. Split(Free(y), InCache(y), InOffers(y), InPreview(y) \ {}, InOrders(y), {st})
    <3> DEFINE F == Free(m)
               C == InCache(m)
               A == InOffers(m)
               P == InPreview(m)
               O == InOrders(m)
    <3>1. Split(F \cup {st}, C, A, P \ {}, O, {st})
      <4>1. Split(F, C, A, P \ {}, O, {}) /\ st \notin F
        BY <1>1, <1>8 DEF Balanced
      <4> HIDE DEF F, C, A, P, O
      <4> QED
        BY <4>1 DEF Split
    <3> QED
      BY <1>8, <2>1, <3>1
  <2>3. IsFiniteSet(y.table)
    BY <1>1, <1>2, FS_AddElement DEF Balanced
  <2>4. \A x \in y.table : x.gen = y.gen /\ x.n \in 1..y.landed
    <3>1. \A i : i \in 1..m.landed => i \in 1..(m.landed + 1)
      BY <1>5
    <3> QED
      BY <1>1, <1>2, <1>4, <1>5, <3>1 DEF Balanced
  <2>5. \A x \in Leaving(y) \cup y.stray : x.n \in 1..y.landed
    <3>1. \A i : i \in 1..m.landed => i \in 1..(m.landed + 1)
      BY <1>5
    <3> QED
      BY <1>1, <1>2, <1>4, <1>8, <3>1 DEF Balanced
  <2> QED
    BY <1>1, <1>4, <2>2, <2>3, <2>4, <2>5 DEF Balanced
<1>10. Mail(y)
  BY <1>1, <1>4, <1>2 DEF Mail, PreviewMail, ReplayMail, FoldMail, NoFold, AsksFirst, PendingOK, OfferOK, Posts, Wanted
<1>11. Taking(y) /\ TakenNow(y) /\ Placed(y)
  BY <1>1, <1>4 DEF Taking, TakenNow, Placed
<1>12. WholeBut(y, {st})
  BY <1>6, <1>9, <1>10, <1>11 DEF WholeBut, Owned
<1>13. LandedOf(st) = {st}
  BY <1>5 DEF LandedOf
<1> QED
  BY <1>2, <1>7, <1>12, <1>13 DEF y

\* A run whose call is answered goes on.
LEMMA RunGoesOnMinds ==
  ASSUME NEW m, NEW st, Settling(m), m.run.on
  PROVE  Minds(m, Advance(Report([Made(m, m.run.order[m.run.at], st) EXCEPT !.run.waits = FALSE], FALSE), m.run.at + 1))
<1> DEFINE id == m.run.order[m.run.at]
           a == Made(m, id, st)
           b == [a EXCEPT !.run.waits = FALSE]
           no == FALSE
           r == Report(b, no)
           y == Advance(r, m.run.at + 1)
<1>1. y = Advance(Report([Made(m, id, st) EXCEPT !.run.waits = FALSE], FALSE), m.run.at + 1)
  OBVIOUS
<1> HIDE DEF no
<1>2. Shape(m) /\ Sound(m) /\ Heard(m) /\ Current(m)
  BY DEF Settling
<1>3. m.run.at \in DOMAIN m.run.order /\ IsSeq(m.run.order)
  BY <1>2 DEF Shape, RunShape
<1>4. Keeps(m, a, {"run"}) /\ GoesOn(m, a) /\ Minds(m, a)
  BY <1>2, <1>3, MadeKeeps, MadeMinds
<1> HIDE DEF a
<1>5. Shape(a)
  BY <1>2, <1>4 DEF Keeps
<1>6. Keeps(a, b, {"run"}) /\ GoesOn(a, b)
  BY <1>5, GoesAgainKeeps
<1>7. Minds(a, b)
  <2> DEFINE run == [a.run EXCEPT !.waits = FALSE]
  <2>1. b = [a EXCEPT !.run = run]
    OBVIOUS
  <2>2. DOMAIN run = DOMAIN a.run /\ \A f \in DOMAIN a.run \ {"at", "waits"} : run[f] = a.run[f]
    OBVIOUS
  <2> HIDE DEF run, b
  <2> QED
    BY <2>1, <2>2, RunStopsMinds
<1> HIDE DEF b
<1>8. Keeps(m, b, {"run"}) /\ GoesOn(m, b)
  BY <1>4, <1>6, KeepsThen DEF GoesOn
<1>9. Shape(b) /\ Current(b) /\ Heard(b) /\ b.run.on
  BY <1>2, <1>8, StillGoes DEF Keeps, GoesOn
<1>10. Keeps(b, r, RenderSlots \cup {"progress"}) /\ Heard(r) /\ Current(r) /\ Minds(b, r)
  BY <1>9, ReportHears, ReportMinds
<1> HIDE DEF r
<1>11. Shape(r) /\ r.run = b.run
  BY <1>9, <1>10, Kept DEF Keeps, Fields, RenderSlots, OfferSlots, PendingSlots
<1>12. r.run.on /\ r.run.order = m.run.order
  BY <1>8, <1>11 DEF GoesOn
<1>13. m.run.at + 1 \in Nat \ {0} /\ m.run.at + 1 <= Len(r.run.order) + 1
  <2>1. m.run.at \in 1..Len(m.run.order) /\ Len(m.run.order) \in Nat
    BY <1>3, SeqDomain
  <2>2. \A n \in Nat : \A k \in 1..n : k + 1 \in Nat \ {0} /\ k + 1 <= n + 1
    OBVIOUS
  <2> QED
    BY <1>12, <2>1, <2>2
<1>14. Minds(r, y)
  BY <1>10, <1>11, <1>12, <1>13, AdvanceMinds
<1> HIDE DEF y
<1> QED
  BY <1>1, <1>4, <1>7, <1>10, <1>14, MindsThen

\* What a run asked for is the cache's.
LEMMA CachedWhole ==
  ASSUME NEW m, NEW path, NEW st, WholeBut(m, LandedOf(st)), path \notin DOMAIN m.cache,
         \A i \in Wanted(m, "replay") : m.inbox[i].path # path
  PROVE  Whole([m EXCEPT !.cache = Put(@, path, st)])
<1> DEFINE cache == Put(m.cache, path, st)
           y == [m EXCEPT !.cache = cache]
           X == LandedOf(st)
<1>1. Owned(m, X, {}) /\ Taking(m) /\ TakenNow(m) /\ Placed(m) /\ OwnShape(m) /\ Balanced(m, X, {}) /\ Mail(m)
  BY DEF WholeBut, Owned
<1>2. DOMAIN cache = DOMAIN m.cache \cup {path} /\ cache[path] = st /\ \A p \in DOMAIN m.cache : cache[p] = m.cache[p]
  BY DEF Put
<1> HIDE DEF cache
<1>3. Only(m, y, {"cache"}) /\ y.cache = cache
  BY <1>1 DEF Only, OwnShape, OwnFields
<1>a. y = [m EXCEPT !.cache = Put(@, path, st)]
  BY DEF cache
<1> HIDE DEF y
<1>4. OwnFields \subseteq DOMAIN y /\ \A f \in OwnFields \ {"cache"} : y[f] = m[f]
  BY <1>1, <1>3 DEF Only, OwnShape
<1>5. /\ y.inbox = m.inbox /\ y.stray = m.stray /\ y.up = m.up /\ y.table = m.table /\ y.landed = m.landed
      /\ y.gen = m.gen /\ y.adoptions = m.adoptions /\ y.pending = m.pending
      /\ y.taken = m.taken /\ y.offer = m.offer /\ y.queued = m.queued /\ y.commit = m.commit /\ y.hover = m.hover
      /\ y.ids = m.ids /\ y.run = m.run /\ y.progress = m.progress
  BY <1>4 DEF OwnFields
<1>6. OwnShape(y)
  BY <1>1, <1>4, <1>5 DEF OwnShape
<1>7. InCache(y) = InCache(m) \cup X
  BY <1>2, <1>3 DEF InCache, LandedOf
<1>8. Balanced(y, {}, {})
  <2>1. InOffers(y) = InOffers(m) /\ InPreview(y) = InPreview(m) /\ InOrders(y) = InOrders(m)
        /\ Leaving(y) = Leaving(m) /\ Free(y) = Free(m)
    BY <1>5 DEF InOffers, InPreview, InOrders, Leaving, Free
  <2>2. Split(Free(y), InCache(y), InOffers(y), InPreview(y) \ {}, InOrders(y), {})
    <3> DEFINE F == Free(m)
               C == InCache(m)
               A == InOffers(m)
               P == InPreview(m)
               O == InOrders(m)
    <3>1. Split(F, C \cup X, A, P \ {}, O, {})
      <4>1. Split(F, C, A, P \ {}, O, X)
        BY <1>1 DEF Balanced
      <4> HIDE DEF F, C, A, P, O, X
      <4> QED
        BY <4>1 DEF Split
    <3> QED
      BY <1>7, <2>1, <3>1
  <2> QED
    BY <1>1, <1>5, <2>1, <2>2 DEF Balanced
<1>9. Mail(y)
  <2>1. ReplayMail(y)
    BY <1>1, <1>2, <1>3, <1>5 DEF Mail, ReplayMail, Posts, Wanted
  <2>2. PreviewMail(y) /\ FoldMail(y) /\ AsksFirst(y) /\ PendingOK(y) /\ OfferOK(y)
    BY <1>1, <1>5 DEF Mail, PreviewMail, FoldMail, NoFold, AsksFirst, PendingOK, OfferOK, Posts, Wanted
  <2> QED
    BY <1>1, <1>5, <2>1, <2>2 DEF Mail
<1>10. Taking(y) /\ TakenNow(y) /\ Placed(y)
  BY <1>1, <1>5 DEF Taking, TakenNow, Placed
<1>11. Whole(y)
  BY <1>6, <1>8, <1>9, <1>10 DEF Whole, WholeBut, Owned
<1> QED
  BY <1>11, <1>a

\* What a cleared run had asked for is nobody's.
LEMMA StrayWhole ==
  ASSUME NEW m, NEW st, WholeBut(m, {st})
  PROVE  Whole([m EXCEPT !.stray = @ \cup {st}])
<1> DEFINE y == [m EXCEPT !.stray = @ \cup {st}]
<1>1. Owned(m, {st}, {}) /\ Taking(m) /\ TakenNow(m) /\ Placed(m) /\ OwnShape(m) /\ Balanced(m, {st}, {}) /\ Mail(m)
  BY DEF WholeBut, Owned
<1>2. Only(m, y, {"stray"}) /\ y.stray = m.stray \cup {st}
  BY <1>1 DEF Only, OwnShape, OwnFields
<1> HIDE DEF y
<1>3. OwnFields \subseteq DOMAIN y /\ \A f \in OwnFields \ {"stray"} : y[f] = m[f]
  BY <1>1, <1>2 DEF Only, OwnShape
<1>4. /\ y.inbox = m.inbox /\ y.cache = m.cache /\ y.up = m.up /\ y.table = m.table /\ y.landed = m.landed
      /\ y.gen = m.gen /\ y.adoptions = m.adoptions /\ y.pending = m.pending
      /\ y.taken = m.taken /\ y.offer = m.offer /\ y.queued = m.queued /\ y.commit = m.commit /\ y.hover = m.hover
      /\ y.ids = m.ids /\ y.run = m.run /\ y.progress = m.progress
  BY <1>3 DEF OwnFields
<1>5. OwnShape(y)
  BY <1>1, <1>3, <1>4 DEF OwnShape
<1>6. Balanced(y, {}, {})
  <2>1. InCache(y) = InCache(m) /\ InOffers(y) = InOffers(m) /\ InPreview(y) = InPreview(m) /\ InOrders(y) = InOrders(m)
        /\ Leaving(y) = Leaving(m)
    BY <1>4 DEF InCache, InOffers, InPreview, InOrders, Leaving
  <2>2. Free(y) = Free(m) \ {st}
    BY <1>2, <1>4, <2>1 DEF Free
  <2>3. Split(Free(y), InCache(y), InOffers(y), InPreview(y) \ {}, InOrders(y), {})
    <3> DEFINE F == Free(m)
               C == InCache(m)
               A == InOffers(m)
               P == InPreview(m)
               O == InOrders(m)
    <3>1. Split(F \ {st}, C, A, P \ {}, O, {})
      <4>1. Split(F, C, A, P \ {}, O, {st})
        BY <1>1 DEF Balanced
      <4> HIDE DEF F, C, A, P, O
      <4> QED
        BY <4>1 DEF Split
    <3> QED
      BY <2>1, <2>2, <3>1
  <2>4. st \in m.table
    BY <1>1, FreeFacts DEF Free
  <2>5. \A x \in Leaving(y) \cup y.stray : x.n \in 1..y.landed
    BY <1>1, <1>2, <1>4, <2>1, <2>4 DEF Balanced
  <2> QED
    BY <1>1, <1>4, <2>3, <2>5 DEF Balanced
<1>7. Mail(y)
  BY <1>1, <1>4 DEF Mail, PreviewMail, ReplayMail, FoldMail, NoFold, AsksFirst, PendingOK, OfferOK, Posts, Wanted
<1>8. Taking(y) /\ TakenNow(y) /\ Placed(y)
  BY <1>1, <1>4 DEF Taking, TakenNow, Placed
<1>9. Whole(y)
  BY <1>5, <1>6, <1>7, <1>8 DEF Whole, WholeBut, Owned
<1> QED
  BY <1>9 DEF y

LEMMA HearReplayWhole ==
  ASSUME NEW m, NEW h, NEW st, WholeBut(m, LandedOf(st)), Settling(m),
         h.wanted => h.path \notin DOMAIN m.cache /\ \A i \in Wanted(m, "replay") : m.inbox[i].path # h.path
  PROVE  Whole(HearReplay(m, h, st))
<1> DEFINE c == [m EXCEPT !.cache = Put(@, h.path, st)]
           l == [m EXCEPT !.stray = @ \cup {st}]
           kept == IF h.wanted THEN c ELSE IF Landed(st) THEN l ELSE m
           y == Advance(Report([Made(kept, kept.run.order[kept.run.at], st) EXCEPT !.run.waits = FALSE], FALSE), kept.run.at + 1)
<1>1. HearReplay(m, h, st) = IF h.wanted /\ RunAwaits(kept, h.path) THEN y ELSE kept
  BY DEF HearReplay
<1>2. Only(m, c, {"cache"}) /\ Only(m, l, {"stray"})
  BY DEF Only
<1>3. h.wanted => Whole(c)
  BY CachedWhole
<1>4. Landed(st) => Whole(l)
  <2>1. Landed(st) => LandedOf(st) = {st}
    BY DEF LandedOf
  <2> HIDE DEF l
  <2>2. Landed(st) => WholeBut(m, {st})
    BY <2>1
  <2> QED
    BY <2>2, StrayWhole DEF l
<1>5. ~Landed(st) => Whole(m)
  <2>1. ~Landed(st) => LandedOf(st) = {}
    BY DEF LandedOf
  <2> QED
    BY <2>1 DEF Whole
<1> HIDE DEF c, l
<1>6. Whole(kept) /\ kept \in {c, l, m}
  BY <1>3, <1>4, <1>5
<1> HIDE DEF kept
<1>7. Mild(m, kept)
  BY <1>2, <1>6, OnlyMild, MildSame DEF ToolSlots, RenderSlots, OfferSlots, PendingSlots
<1>8. Settling(kept)
  BY <1>7, MildSettling
<1>9. RunAwaits(kept, h.path) => Whole(y)
  <2> SUFFICES ASSUME RunAwaits(kept, h.path)
               PROVE  Whole(y)
    OBVIOUS
  <2>1. kept.run.on
    BY DEF RunAwaits
  <2>2. Minds(kept, y)
    BY <1>8, <2>1, RunGoesOnMinds
  <2> HIDE DEF y
  <2> QED
    BY <1>6, <2>2, MindsWhole
<1> QED
  BY <1>1, <1>6, <1>9

LEMMA PcMinds ==
  ASSUME NEW m, NEW pc, Unbusy(m), pc \notin {"fold", "print"}
  PROVE  Minds(m, [m EXCEPT !.commit.pc = pc]) /\ Only(m, [m EXCEPT !.commit.pc = pc], {"commit"})
<1> DEFINE c == [m.commit EXCEPT !.pc = pc]
           y == [m EXCEPT !.commit = c]
<1>1. [m EXCEPT !.commit.pc = pc] = y
  OBVIOUS
<1>2. "pc" \in DOMAIN m.commit => c.pc = pc
  OBVIOUS
<1>3. DOMAIN c = DOMAIN m.commit /\ c.from = m.commit.from /\ c.state = m.commit.state
  OBVIOUS
<1> HIDE DEF c
<1>4. Only(m, y, {"commit"}) /\ ("commit" \in DOMAIN m => y.commit = c)
  BY DEF Only
<1> HIDE DEF y
<1>5. ASSUME OwnShape(m)
      PROVE  /\ {"pc", "op", "from", "state"} \subseteq DOMAIN y.commit /\ {"pc", "op", "from"} \subseteq DOMAIN y.hover
             /\ WaiterMoves(m.commit, y.commit) /\ (FromOK(m.hover.from) => FromOK(y.hover.from))
  <2>1. y.commit = c /\ y.hover = m.hover /\ "pc" \in DOMAIN m.commit
    BY <1>4, <1>5 DEF OwnShape, OwnFields, Only
  <2>2. {"pc", "op", "from", "state"} \subseteq DOMAIN m.commit /\ {"pc", "op", "from"} \subseteq DOMAIN m.hover
    BY <1>5 DEF OwnShape
  <2>3. WaiterMoves(m.commit, c)
    BY <1>2, <1>3, <2>1 DEF WaiterMoves, Unbusy
  <2> QED
    BY <1>3, <2>1, <2>2, <2>3
<1>6. {"commit"} \cap OwnFields \subseteq {"commit", "hover"}
  OBVIOUS
<1>7. Minds(m, y)
  BY <1>4, <1>5, <1>6, WaitersMinds
<1> QED
  BY <1>1, <1>4, <1>7

\* The request that waited in the channel is sent.
LEMMA NextPreviewWhole ==
  ASSUME NEW m, Whole(m)
  PROVE  Whole(NextPreview(m))
<1> DEFINE a == [m EXCEPT !.commit.pc = "answered"]
           f == [m EXCEPT !.commit.pc = "flight"]
           told == IF m.commit.pc = "flight" THEN a ELSE IF m.commit.pc = "queued" THEN f ELSE m
           on == m.queued.on
           op == m.queued.op
           path == <<>>
           q == [told EXCEPT !.queued = NoRequest]
           y == Ask(q, "preview", on, op, path)
           z == [Ask(told, "preview", on, op, path) EXCEPT !.queued = NoRequest]
<1>1. NextPreview(m) = IF m.queued = NoRequest THEN told ELSE z
  BY DEF NextPreview
<1>2. m.commit.pc \in {"flight", "queued"} => Unbusy(m)
  BY DEF Unbusy
<1>3. Whole(told) /\ Only(m, told, {"commit"})
  <2>1. CASE m.commit.pc = "flight"
    <3>1. Minds(m, a) /\ Only(m, a, {"commit"})
      BY <1>2, <2>1, PcMinds
    <3> HIDE DEF a
    <3> QED
      BY <2>1, <3>1, MindsWhole
  <2>2. CASE m.commit.pc = "queued"
    <3>1. Minds(m, f) /\ Only(m, f, {"commit"})
      BY <1>2, <2>2, PcMinds
    <3> HIDE DEF f
    <3> QED
      BY <2>2, <3>1, MindsWhole
  <2>3. CASE m.commit.pc \notin {"flight", "queued"}
    BY <2>3 DEF Only
  <2> QED
    BY <2>1, <2>2, <2>3
<1> HIDE DEF told
<1>4. /\ Owned(m, {}, {}) /\ OwnShape(m) /\ Owned(told, {}, {}) /\ OwnShape(told)
      /\ PreviewMail(m) /\ PendingOK(m)
  BY <1>3 DEF Whole, WholeBut, Owned, Mail
<1>5. told.inbox = m.inbox /\ told.pending = m.pending /\ told.queued = m.queued
  BY <1>3, <1>4 DEF Only, OwnShape, OwnFields
<1>6. ASSUME m.queued # NoRequest
      PROVE  Whole(z)
  <2>1. Wanted(told, "preview") = {} /\ told.pending.status # "landed" /\ Landed(on)
    BY <1>4, <1>5, <1>6 DEF PreviewMail, Wanted, Posts
  <2>2. z = y
    BY <1>4 DEF Ask, OwnShape, OwnFields
  <2>3. Only(told, q, {"queued"}) /\ q.queued = NoRequest /\ q.pending = told.pending
    BY <1>4 DEF Only, OwnShape, OwnFields
  <2> HIDE DEF q
  <2>4. "status" \in DOMAIN q.pending /\ PendingOK(q) /\ ~Landed(q.pending.state)
    BY <1>4, <1>5, <2>1, <2>3 DEF OwnShape, PendingOK
  <2>5. {"queued"} \cap OwnFields \subseteq {"pending", "queued"}
    OBVIOUS
  <2>6. WholeBut(q, {} \ {q.pending.state}) /\ q.inbox = told.inbox
    BY <1>3, <2>1, <2>3, <2>4, <2>5, PendingSet DEF Whole
  <2>7. {} \ {q.pending.state} = {}
    OBVIOUS
  <2>8. WholeBut(q, {}) /\ Wanted(q, "preview") = {}
    BY <2>1, <2>6, <2>7 DEF Wanted, Posts
  <2>9. MayAsk(q, "preview", on, path)
    BY <2>1, <2>3, <2>8 DEF MayAsk
  <2> HIDE DEF on, op, path
  <2>10. Whole(y)
    BY <2>8, <2>9, AskWhole DEF Whole
  <2> QED
    BY <2>2, <2>10
<1> QED
  BY <1>1, <1>3, <1>6

\* What nobody waits for is let go of.
LEMMA ReleaseWhole ==
  ASSUME NEW m, NEW st, WholeBut(m, LandedOf(st))
  PROVE  Whole(Release(m, st))
<1> DEFINE r == Release(m, st)
<1>1. Owned(m, LandedOf(st), {}) /\ Balanced(m, LandedOf(st), {}) /\ Taking(m) /\ TakenNow(m) /\ Placed(m)
  BY DEF WholeBut, Owned
<1>2. OfEngine(m, {st}) = LandedOf(st)
  <2>1. \A x \in LandedOf(st) : x.gen = m.gen
    BY <1>1, FreeFacts
  <2> QED
    BY <2>1 DEF OfEngine, LandedOf
<1>3. Owned(r, LandedOf(st) \ LandedOf(st), {}) /\ Carried(m, r)
  BY <1>1, <1>2, ReleaseLoose DEF Release
<1>4. LandedOf(st) \ LandedOf(st) = {}
  OBVIOUS
<1> HIDE DEF r
<1>5. Whole(r)
  BY <1>1, <1>3, <1>4 DEF Whole, WholeBut, Carried, TakenNow
<1> QED
  BY <1>5 DEF r

LEMMA HearPreviewWhole ==
  ASSUME NEW m, NEW h, NEW st, WholeBut(m, LandedOf(st)), Landed(h.on), h.on # st,
         h.wanted => m.pending.status # "landed" /\ Wanted(m, "preview") = {} /\ m.queued = NoRequest
  PROVE  Whole(NextPreview(HearPreview(m, h, st)))
<1> DEFINE p == HearPreview(m, h, st)
<1>1. h.wanted => Whole(ShowPreview(m, h.on, h.op, st))
  BY ShowPreviewWhole
<1>2. Whole(Release(m, st))
  BY ReleaseWhole
<1>3. Whole(p)
  BY <1>1, <1>2 DEF HearPreview
<1> HIDE DEF p
<1>4. Whole(NextPreview(p))
  BY <1>3, NextPreviewWhole
<1> QED
  BY <1>4 DEF p

\* The commit that folded is over, refused.
LEMMA HearFoldWhole ==
  ASSUME NEW m, NEW h, NEW st, WholeBut(m, LandedOf(st)), Landed(st) => st.gen = m.gen, NoFold(m), m.taken = NoState,
         Shape(m), Sound(m)
  PROVE  Whole(HearFold(m, h, st))
<1> DEFINE d == DropPending(m)
           o == [d EXCEPT !.commit = NoCommit]
           p == [status |-> "refused", parent |-> h.on, op |-> h.op, state |-> st]
           e == [o EXCEPT !.pending = p]
           landed == CommitLanded(m, m.commit.from, h.op, st)
<1>1. HearFold(m, h, st) = IF Landed(st) THEN landed ELSE Render(e)
  BY DEF HearFold
<1>2. Owned(m, LandedOf(st), {}) /\ OwnShape(m) /\ Placed(m)
  BY DEF WholeBut, Owned
<1>3. ASSUME Landed(st)
      PROVE  Whole(landed)
  <2>1. LandedOf(st) = {st}
    BY <1>3 DEF LandedOf
  <2>2. InHand(m, st)
    BY <1>2, <1>3, <2>1 DEF InHand
  <2> QED
    BY <2>2, CommitLandedWhole
<1>4. ASSUME ~Landed(st)
      PROVE  Whole(Render(e))
  <2>1. LandedOf(st) = {}
    BY <1>4 DEF LandedOf
  <2>2. Whole(m)
    BY <2>1 DEF Whole
  <2>3. Minds(m, d) /\ d.pending = Idle /\ d.queued = NoRequest /\ Wanted(d, "preview") = {}
    BY <1>2, DropPendingMinds
  <2>4. Owned(d, {}, {}) /\ NoFold(d) /\ Placed(d) /\ d.taken = NoState
    BY <1>2, <2>1, <2>3 DEF Minds, Carried
  <2>5. OwnShape(d)
    BY <2>4 DEF Owned
  <2> HIDE DEF d
  <2>6. Only(d, o, {"commit"}) /\ o.commit = NoCommit /\ o.taken = NoState /\ o.pending = Idle /\ o.queued = NoRequest
        /\ o.inbox = d.inbox /\ DOMAIN o = DOMAIN d
    BY <2>3, <2>4, <2>5 DEF Only, OwnShape, OwnFields
  <2> HIDE DEF o
  <2>7. {"commit"} \cap OwnFields \subseteq {"taken", "commit"}
    OBVIOUS
  <2>8. Whole(o)
    BY <2>3, <2>4, <2>6, <2>7, NothingLanded, CommitOver
  <2>9. Wanted(o, "preview") = {} /\ o.pending.status # "landed"
    BY <2>3, <2>6, NothingLanded DEF Wanted, Posts
  <2>10. p.status = "refused" /\ p.state = st /\ "status" \in DOMAIN p
    OBVIOUS
  <2> HIDE DEF p
  <2>11. OwnShape(o)
    BY <2>8 DEF Whole, WholeBut, Owned
  <2>12. Only(o, e, {"pending"}) /\ e.pending = p /\ e.queued = NoRequest
    BY <2>6, <2>11 DEF Only, OwnShape, OwnFields
  <2> HIDE DEF e
  <2>13. PendingOK(e) /\ ~Landed(e.pending.state) /\ "status" \in DOMAIN e.pending
    BY <1>4, <2>10, <2>12 DEF PendingOK
  <2>14. {"pending"} \cap OwnFields \subseteq {"pending", "queued"}
    OBVIOUS
  <2>15. WholeBut(e, {} \ {e.pending.state})
    BY <2>8, <2>9, <2>12, <2>13, <2>14, PendingSet DEF Whole
  <2>16. {} \ {e.pending.state} = {}
    OBVIOUS
  <2>17. Whole(e)
    BY <2>15, <2>16 DEF Whole
  <2> QED
    BY <2>17, RenderMinds, MindsWhole
<1> HIDE DEF landed, e
<1> QED
  BY <1>1, <1>3, <1>4

LEMMA HearPrintWhole ==
  ASSUME NEW m, NEW h, Whole(m), Shape(m), Sound(m)
  PROVE  Whole(HearPrint(m, h))
<1> DEFINE k == [m EXCEPT !.print = "known"]
           known == IF m.pending.state = h.on THEN k ELSE m
           from == m.commit.from
           op == m.commit.op
           y == CommitLanded(known, from, op, h.on)
<1>1. HearPrint(m, h) = IF m.commit.pc = "print" /\ m.commit.state = h.on THEN y ELSE known
  BY DEF HearPrint
<1>2. Only(m, k, {"print"})
  BY DEF Only
<1> HIDE DEF k
<1>3. Only(m, known, {"print"})
  BY <1>2 DEF Only
<1> HIDE DEF known
<1>4. {"print"} \cap OwnFields = {}
  BY DEF OwnFields
<1>5. Whole(known)
  BY <1>3, <1>4, OnlyMinds, MindsWhole
<1>6. /\ Owned(m, {}, {}) /\ OwnShape(m) /\ Mail(m) /\ Taking(m) /\ TakenNow(m)
      /\ Owned(known, {}, {}) /\ OwnShape(known) /\ Placed(known) /\ FoldMail(known)
  BY <1>5 DEF Whole, WholeBut, Owned, Mail
<1>7. known.commit = m.commit /\ known.taken = m.taken /\ known.gen = m.gen
  BY <1>3, <1>6 DEF Only, OwnShape, OwnFields
<1>8. Keeps(m, known, {"print"})
  BY <1>3, OnlyKeeps
<1>9. Mild(m, known)
  BY <1>3, OnlyMild DEF ToolSlots, RenderSlots, OfferSlots, PendingSlots
<1>10. Shape(known) /\ Sound(known)
  <2>1. Shape(known) /\ known.run = m.run /\ known.scheduled = m.scheduled
    BY <1>9, MildKept
  <2>2. {"print"} \cap {"holders", "restarts", "steps", "ids", "tip", "ready", "lingering"} = {}
    OBVIOUS
  <2> QED
    BY <1>8, <2>1, <2>2, StillSound DEF Sound
<1> HIDE DEF from, op
<1>11. ASSUME m.commit.pc = "print", m.commit.state = h.on
       PROVE  Whole(y)
  <2>1. m.taken = h.on /\ Landed(h.on) /\ h.on.gen = m.gen
    BY <1>6, <1>11 DEF Taking, TakenNow
  <2>2. NoFold(known)
    BY <1>6, <1>7, <1>11 DEF FoldMail
  <2>3. InHand(known, h.on)
    BY <1>6, <1>7, <2>1, <2>2 DEF InHand
  <2> QED
    BY <1>10, <2>3, CommitLandedWhole
<1> HIDE DEF y
<1> QED
  BY <1>1, <1>5, <1>11

\* What the mail said of a message is so of what is left once it is answered.
Answers(m, h) ==
  /\ h.kind \in {"preview", "orders"} => Landed(h.on)
  /\ h.kind = "preview" /\ h.wanted => m.pending.status # "landed" /\ Wanted(m, "preview") = {} /\ m.queued = NoRequest
  /\ h.kind = "replay" /\ h.wanted => h.path \notin DOMAIN m.cache /\ \A i \in Wanted(m, "replay") : m.inbox[i].path # h.path
  /\ h.kind = "fold" => NoFold(m) /\ m.taken = NoState

LEMMA PoppedAnswers ==
  ASSUME NEW m, Whole(m), m.inbox # <<>>
  PROVE  Whole(Popped(m)) /\ Answers(Popped(m), Head(m.inbox)) /\ Popped(m).gen = m.gen /\ Popped(m).up = m.up
         /\ Popped(m).landed = m.landed /\ Popped(m).table \subseteq m.table
<1> DEFINE y == Popped(m)
           h == Head(m.inbox)
<1>1. /\ Owned(m, {}, {}) /\ OwnShape(m) /\ Mail(m) /\ AsksFirst(m) /\ PreviewMail(m) /\ ReplayMail(m) /\ FoldMail(m)
      /\ Taking(m) /\ TakenNow(m)
  BY DEF Whole, WholeBut, Owned, Mail
<1>2. /\ Minds(m, y) /\ Only(m, y, {"inbox", "table"}) /\ OwnShape(y) /\ h = m.inbox[1] /\ 1 \in DOMAIN m.inbox
      /\ h.kind = "fold" => NoFold(y)
      /\ h.kind = "preview" /\ h.wanted => Wanted(y, "preview") = {}
      /\ h.kind = "replay" /\ h.wanted => \A i \in Wanted(y, "replay") : y.inbox[i].path # h.path
  BY <1>1, PoppedMinds
<1>3. Whole(y) /\ y.table \subseteq m.table
  BY <1>1, <1>2, MindsWhole DEF Minds, Carried
<1> HIDE DEF y, h
<1>4. /\ y.pending = m.pending /\ y.queued = m.queued /\ y.cache = m.cache /\ y.taken = m.taken /\ y.commit = m.commit
      /\ y.gen = m.gen /\ y.up = m.up /\ y.landed = m.landed
  BY <1>1, <1>2 DEF Only, OwnShape, OwnFields
<1>5. h.kind \in {"preview", "orders"} => Landed(h.on)
  BY <1>1, <1>2 DEF PreviewMail, Posts
<1>6. h.kind = "preview" /\ h.wanted => m.pending.status # "landed" /\ m.queued = NoRequest
  BY <1>1, <1>2 DEF PreviewMail, Wanted, Posts
<1>7. h.kind = "replay" /\ h.wanted => h.path \notin DOMAIN m.cache
  BY <1>1, <1>2 DEF ReplayMail, Wanted, Posts
<1>8. h.kind = "fold" => m.taken = NoState
  BY <1>1, <1>2 DEF FoldMail, NoFold, Posts, Taking
<1>9. Answers(y, h)
  BY <1>2, <1>4, <1>5, <1>6, <1>7, <1>8 DEF Answers
<1> QED
  BY <1>3, <1>4, <1>9 DEF y, h

LEMMA HearAnswerWhole ==
  ASSUME NEW m, NEW h, NEW st, WholeBut(m, LandedOf(st)), Settling(m), Answers(m, h),
         Landed(st) => h.kind \in {"replay", "preview", "fold", "orders"} /\ st.gen = m.gen,
         Landed(h.on) => h.on # st
  PROVE  Whole(HearAnswer(m, h, st))
<1>1. Shape(m) /\ Sound(m)
  BY DEF Settling
<1>2. ~Landed(st) => Whole(m)
  <2>1. ~Landed(st) => LandedOf(st) = {}
    BY DEF LandedOf
  <2> QED
    BY <2>1 DEF Whole
<1>3. CASE h.kind = "version"
  <2> DEFINE a == [m EXCEPT !.starting = FALSE, !.ready = TRUE]
             y == ScheduleReplay(a)
  <2>1. HearAnswer(m, h, st) \in {y, m}
    BY <1>3 DEF HearAnswer
  <2>2. Only(m, a, {"starting", "ready"})
    BY DEF Only
  <2>3. {"starting", "ready"} \cap OwnFields = {}
    BY DEF OwnFields
  <2> HIDE DEF a
  <2>4. Minds(m, a) /\ Minds(a, y)
    BY <2>2, <2>3, OnlyMinds, StartMinds
  <2> HIDE DEF y
  <2>5. Whole(m)
    BY <1>2, <1>3
  <2> QED
    BY <2>1, <2>4, <2>5, MindsWhole
<1>4. CASE h.kind = "replay"
  <2>1. HearAnswer(m, h, st) = HearReplay(m, h, st)
    BY <1>4 DEF HearAnswer
  <2> QED
    BY <1>4, <2>1, HearReplayWhole DEF Answers
<1>5. CASE h.kind = "preview"
  <2>1. HearAnswer(m, h, st) = NextPreview(HearPreview(m, h, st))
    BY <1>5 DEF HearAnswer
  <2> QED
    BY <1>5, <2>1, HearPreviewWhole DEF Answers
<1>6. CASE h.kind = "fold"
  <2>1. HearAnswer(m, h, st) = HearFold(m, h, st)
    BY <1>6 DEF HearAnswer
  <2> QED
    BY <1>1, <1>6, <2>1, HearFoldWhole DEF Answers
<1>7. CASE h.kind = "orders"
  <2>1. HearAnswer(m, h, st) = KeepOffer(m, h.on, h.op, st)
    BY <1>7 DEF HearAnswer
  <2> QED
    BY <1>7, <2>1, KeepOfferWhole DEF Answers
<1>8. CASE h.kind = "print"
  <2>1. HearAnswer(m, h, st) = HearPrint(m, h)
    BY <1>8 DEF HearAnswer
  <2>2. Whole(m)
    BY <1>2, <1>8
  <2> QED
    BY <1>1, <2>1, <2>2, HearPrintWhole
<1>9. CASE h.kind \notin {"version", "replay", "preview", "fold", "orders", "print"}
  <2>1. HearAnswer(m, h, st) = m
    BY <1>9 DEF HearAnswer
  <2> QED
    BY <1>2, <1>9, <2>1
<1> QED
  BY <1>3, <1>4, <1>5, <1>6, <1>7, <1>8, <1>9

LEMMA HearFailureWhole ==
  ASSUME NEW m, NEW h, Whole(m), Answers(m, h), h.kind \in {"version", "replay", "preview", "fold"}
  PROVE  Whole(HearFailure(m, h))
<1>1. Owned(m, {}, {}) /\ OwnShape(m) /\ Mail(m) /\ PendingOK(m) /\ Placed(m)
  BY DEF Whole, WholeBut, Owned, Mail
<1>2. CASE h.kind = "version"
  <2> DEFINE a == [m EXCEPT !.starting = FALSE]
             y == Fail(a)
  <2>1. HearFailure(m, h) \in {y, m}
    BY <1>2 DEF HearFailure
  <2>2. Only(m, a, {"starting"})
    BY DEF Only
  <2>3. {"starting"} \cap OwnFields = {}
    BY DEF OwnFields
  <2> HIDE DEF a
  <2>4. Minds(m, a) /\ Minds(a, y)
    BY <2>2, <2>3, OnlyMinds, FailMinds
  <2> HIDE DEF y
  <2> QED
    BY <2>1, <2>4, MindsWhole
<1>3. CASE h.kind = "replay"
  <2> DEFINE a == [m EXCEPT !.run = NoRun]
             y == Fail(a)
  <2>1. HearFailure(m, h) \in {y, m}
    BY <1>3 DEF HearFailure
  <2>2. Only(m, a, {"run"}) /\ a.run = NoRun
    BY <1>1 DEF Only, OwnShape, OwnFields
  <2>3. {"run"} \cap OwnFields \subseteq {"run"}
    OBVIOUS
  <2> HIDE DEF a
  <2>4. Minds(m, a) /\ Minds(a, y)
    BY <2>2, <2>3, NoRunMinds, FailMinds
  <2> HIDE DEF y
  <2> QED
    BY <2>1, <2>4, MindsWhole
<1>4. CASE h.kind = "preview"
  <2> DEFINE p == [m.pending EXCEPT !.status = "failed"]
             a == [m EXCEPT !.pending = p]
             r == Render(a)
             x == IF h.wanted THEN r ELSE m
  <2>1. HearFailure(m, h) = NextPreview(x)
    <3>1. [m EXCEPT !.pending.status = "failed"] = a
      OBVIOUS
    <3> HIDE DEF a
    <3>2. HearFailure(m, h) = NextPreview(IF h.wanted THEN Render([m EXCEPT !.pending.status = "failed"]) ELSE m)
      BY <1>4 DEF HearFailure
    <3> QED
      BY <3>1, <3>2
  <2>2. p.status = "failed" /\ p.state = m.pending.state /\ DOMAIN p = DOMAIN m.pending
    BY <1>1 DEF OwnShape
  <2> HIDE DEF p
  <2>3. Only(m, a, {"pending"}) /\ a.pending = p /\ a.queued = m.queued
    BY <1>1 DEF Only, OwnShape, OwnFields
  <2> HIDE DEF a
  <2>4. h.wanted => Whole(a)
    <3> SUFFICES ASSUME h.wanted
                 PROVE  Whole(a)
      OBVIOUS
    <3>1. m.pending.status # "landed" /\ Wanted(m, "preview") = {} /\ m.queued = NoRequest
      BY <1>4 DEF Answers
    <3>2. PendingOK(a) /\ ~Landed(a.pending.state) /\ "status" \in DOMAIN a.pending
      BY <1>1, <2>2, <2>3, <3>1 DEF PendingOK, OwnShape
    <3>3. {"pending"} \cap OwnFields \subseteq {"pending", "queued"}
      OBVIOUS
    <3>4. WholeBut(a, {} \ {a.pending.state})
      BY <2>3, <3>1, <3>2, <3>3, PendingSet DEF Whole
    <3>5. {} \ {a.pending.state} = {}
      OBVIOUS
    <3> QED
      BY <3>4, <3>5 DEF Whole
  <2>5. h.wanted => Whole(r)
    BY <2>4, RenderMinds, MindsWhole
  <2> HIDE DEF r
  <2>6. Whole(x)
    BY <2>5
  <2> HIDE DEF x
  <2> QED
    BY <2>1, <2>6, NextPreviewWhole
<1>5. CASE h.kind = "fold"
  <2> DEFINE y == [m EXCEPT !.commit = NoCommit]
  <2>1. HearFailure(m, h) = y
    BY <1>5 DEF HearFailure
  <2>2. NoFold(m) /\ m.taken = NoState
    BY <1>5 DEF Answers
  <2>3. Only(m, y, {"commit"}) /\ y.taken = NoState /\ y.commit = NoCommit
    BY <1>1, <2>2 DEF Only, OwnShape, OwnFields
  <2> HIDE DEF y
  <2>4. {"commit"} \cap OwnFields \subseteq {"taken", "commit"}
    OBVIOUS
  <2>5. Whole(y)
    BY <1>1, <2>2, <2>3, <2>4, NothingLanded, CommitOver
  <2> QED
    BY <2>1, <2>5
<1> QED
  BY <1>2, <1>3, <1>4, <1>5

LEMMA HearUnknownWhole ==
  ASSUME NEW m, NEW h, Whole(m), Answers(m, h)
  PROVE  Whole(HearUnknown(m, h))
<1>1. OwnShape(m)
  BY DEF Whole, WholeBut, Owned
<1>2. CASE h.kind = "replay"
  <2> DEFINE a == [m EXCEPT !.run = NoRun]
             y == Reland(a)
  <2>1. HearUnknown(m, h) \in {y, m}
    BY <1>2 DEF HearUnknown
  <2>2. Only(m, a, {"run"}) /\ a.run = NoRun
    BY <1>1 DEF Only, OwnShape, OwnFields
  <2>3. {"run"} \cap OwnFields \subseteq {"run"}
    OBVIOUS
  <2> HIDE DEF a
  <2>4. Minds(m, a) /\ Minds(a, y)
    BY <2>2, <2>3, NoRunMinds, RelandMinds
  <2> HIDE DEF y
  <2> QED
    BY <2>1, <2>4, MindsWhole
<1>3. CASE h.kind = "orders"
  <2>1. HearUnknown(m, h) = Reland(m)
    BY <1>3 DEF HearUnknown
  <2> QED
    BY <2>1, RelandMinds, MindsWhole
<1>4. CASE h.kind \in {"preview", "fold"}
  <2>1. HearUnknown(m, h) = HearFailure(m, h)
    BY <1>4 DEF HearUnknown
  <2> QED
    BY <1>4, <2>1, HearFailureWhole
<1>5. CASE h.kind \notin {"replay", "orders", "preview", "fold"}
  <2>1. HearUnknown(m, h) = m
    BY <1>5 DEF HearUnknown
  <2> QED
    BY <2>1
<1> QED
  BY <1>2, <1>3, <1>4, <1>5

----------------------------------------------------------------------------
(* Who owns a state: the actions.                                         *)

OwnersInv == SessionInv /\ Whole(s)

LEMMA ActsWhole ==
  ASSUME NEW m, Did(m) \/ UserDid(m), Whole(m)
  PROVE  Whole(s)'
<1>1. s' = m
  BY DEF Did, UserDid
<1> QED
  BY <1>1

LEMMA ServeKeepsWhole ==
  ASSUME OwnersInv, Serve
  PROVE  Whole(s)'
<1> DEFINE h == Head(s.inbox)
           folds == h.kind \in {"replay", "preview", "fold", "orders"}
           sheet == h.kind = "replay" /\ h.path = <<>>
           st == [n |-> s.landed + 1, gen |-> s.gen, path |-> IF sheet THEN <<>> ELSE Append(h.on.path, h.op)]
           p == Popped(s)
           lands == folds /\ h.op \notin Refused
           l == [p EXCEPT !.landed = @ + 1, !.table = @ \cup {st}]
           m == IF lands THEN l ELSE p
           answer == IF lands THEN st ELSE IF folds THEN Broken ELSE NoState
           y == HearAnswer(m, h, answer)
<1>1. Did(y) /\ s.up /\ s.inbox # <<>> /\ Known(h)
  BY DEF Serve
<1>2. Settling(s) /\ Whole(s) /\ Balanced(s, {}, {})
  BY DEF OwnersInv, SessionInv, Whole, WholeBut, Owned
<1>3. Whole(p) /\ Answers(p, h) /\ p.gen = s.gen /\ p.up = s.up /\ p.landed = s.landed
  BY <1>1, <1>2, PoppedAnswers
<1>4. Settling(p)
  BY <1>2, PoppedMild, MildSettling
<1>5. st.n = s.landed + 1 /\ st.gen = s.gen
  OBVIOUS
<1>6. Landed(h.on) => h.on.n \in 1..s.landed
  BY <1>1, <1>2 DEF Known, Balanced
<1> HIDE DEF p, st, h
<1>7. WholeBut(l, {st}) /\ LandedOf(st) = {st} /\ Only(p, l, {"landed", "table"})
  BY <1>1, <1>3, <1>5, LandWhole
<1>8. OwnShape(p) /\ p.landed \in Nat
  BY <1>3 DEF Whole, WholeBut, Owned, OwnShape
<1>9. /\ l.pending = p.pending /\ l.inbox = p.inbox /\ l.queued = p.queued /\ l.cache = p.cache
      /\ l.taken = p.taken /\ l.gen = p.gen
  BY <1>7, <1>8 DEF Only, OwnShape, OwnFields
<1> HIDE DEF l
<1>10. Answers(l, h)
  BY <1>3, <1>9 DEF Answers, Wanted, Posts, NoFold
<1>11. Settling(l)
  <2>1. Mild(p, l)
    BY <1>7, OnlyMild DEF ToolSlots, RenderSlots, OfferSlots, PendingSlots
  <2> QED
    BY <1>4, <2>1, MildSettling
<1>12. CASE lands
  <2>1. Whole(HearAnswer(l, h, st))
    <3>1. WholeBut(l, LandedOf(st))
      BY <1>7
    <3>2. Landed(st) => h.kind \in {"replay", "preview", "fold", "orders"} /\ st.gen = l.gen
      BY <1>3, <1>5, <1>9, <1>12
    <3>3. Landed(h.on) => h.on # st
      BY <1>3, <1>5, <1>6, <1>8
    <3> QED
      BY <1>10, <1>11, <3>1, <3>2, <3>3, HearAnswerWhole
  <2>2. y = HearAnswer(l, h, st)
    BY <1>12
  <2> HIDE DEF y
  <2> QED
    BY <1>1, <2>1, <2>2, ActsWhole
<1>13. CASE ~lands
  <2> DEFINE a == IF folds THEN Broken ELSE NoState
  <2>1. ~Landed(a)
    BY NothingLanded
  <2> HIDE DEF a
  <2>2. LandedOf(a) = {}
    BY <2>1 DEF LandedOf
  <2>3. WholeBut(p, LandedOf(a))
    BY <1>3, <2>2 DEF Whole
  <2>4. Landed(h.on) => h.on # a
    BY <2>1
  <2>5. Whole(HearAnswer(p, h, a))
    BY <1>3, <1>4, <2>1, <2>3, <2>4, HearAnswerWhole
  <2>6. y = HearAnswer(p, h, a)
    BY <1>13 DEF a
  <2> HIDE DEF y
  <2> QED
    BY <1>1, <2>5, <2>6, ActsWhole
<1> QED
  BY <1>12, <1>13

LEMMA ServeFailureKeepsWhole ==
  ASSUME OwnersInv, ServeFailure
  PROVE  Whole(s)'
<1> DEFINE h == Head(s.inbox)
           p == Popped(s)
           y == HearFailure(p, h)
<1>1. Did(y) /\ s.inbox # <<>> /\ h.kind \in Failing
  BY DEF ServeFailure
<1>2. Whole(p) /\ Answers(p, h)
  BY <1>1, PoppedAnswers DEF OwnersInv
<1>3. h.kind \in {"version", "replay", "preview", "fold"}
  BY <1>1, FailingAssumption
<1>4. Whole(y)
  BY <1>2, <1>3, HearFailureWhole
<1> HIDE DEF y
<1> QED
  BY <1>1, <1>4, ActsWhole

LEMMA ServeUnknownKeepsWhole ==
  ASSUME OwnersInv, ServeUnknown
  PROVE  Whole(s)'
<1> DEFINE h == Head(s.inbox)
           p == Popped(s)
           y == HearUnknown(p, h)
<1>1. Did(y) /\ s.inbox # <<>>
  BY DEF ServeUnknown
<1>2. Whole(p) /\ Answers(p, h)
  BY <1>1, PoppedAnswers DEF OwnersInv
<1>3. Whole(y)
  BY <1>2, HearUnknownWhole
<1> HIDE DEF y
<1> QED
  BY <1>1, <1>3, ActsWhole

\* A worker is started.
LEMMA UpMinds ==
  ASSUME NEW x, NEW y, NEW T, Only(x, y, T), T \cap OwnFields \subseteq {"up"}, OwnShape(x) => (x.up => y.up)
  PROVE  Minds(x, y)
<1> SUFFICES ASSUME NEW X, NEW U, Owned(x, X, U)
             PROVE  Owned(y, X, U) /\ Carried(x, y)
  BY DEF Minds
<1>1. OwnShape(x) /\ Balanced(x, X, U) /\ Mail(x)
  BY DEF Owned
<1>2. OwnFields \subseteq DOMAIN y /\ \A f \in OwnFields \ T : y[f] = x[f]
  BY <1>1, OwnSame
<1>3. /\ y.inbox = x.inbox /\ y.table = x.table /\ y.stray = x.stray /\ y.landed = x.landed
      /\ y.gen = x.gen /\ y.cache = x.cache /\ y.adoptions = x.adoptions /\ y.pending = x.pending
      /\ y.taken = x.taken /\ y.offer = x.offer /\ y.queued = x.queued /\ y.commit = x.commit /\ y.hover = x.hover
      /\ y.ids = x.ids /\ y.run = x.run /\ y.progress = x.progress
  BY <1>2 DEF OwnFields
<1>4. OwnShape(y)
  BY <1>1, <1>2, <1>3 DEF OwnShape
<1>5. Leaving(y) = Leaving(x) /\ Free(y) = Free(x) /\ InCache(y) = InCache(x) /\ InOffers(y) = InOffers(x)
      /\ InPreview(y) = InPreview(x) /\ InOrders(y) = InOrders(x)
  BY <1>3 DEF Leaving, Free, InCache, InOffers, InPreview, InOrders
<1>6. Balanced(y, X, U)
  BY <1>1, <1>3, <1>5 DEF Balanced
<1>7. PreviewMail(y) /\ ReplayMail(y) /\ FoldMail(y) /\ AsksFirst(y) /\ PendingOK(y) /\ OfferOK(y)
  BY <1>1, <1>3 DEF Mail, PreviewMail, ReplayMail, FoldMail, NoFold, AsksFirst, PendingOK, OfferOK, Posts, Wanted
<1>8. Mail(y)
  BY <1>1, <1>3, <1>7 DEF Mail
<1>9. Carried(x, y)
  BY <1>3 DEF Carried, Taking, Placed, NoFold, Posts, Wanted
<1> QED
  BY <1>4, <1>6, <1>8, <1>9 DEF Owned

LEMMA HoldsKeepWhole ==
  ASSUME OwnersInv, Retain \/ RetainAgain \/ ReleaseHold \/ LingerEnds \/ Retry
  PROVE  Whole(s)'
<1>1. Whole(s) /\ Settling(s) /\ Shape(s) /\ OwnShape(s)
  BY DEF OwnersInv, SessionInv, Settling, Whole, WholeBut, Owned
<1>2. CASE Retain
  <2> DEFINE kept == s.lingering
             up == s.up \/ ~kept
             m == [s EXCEPT !.holders = 1, !.lingering = FALSE, !.up = up, !.halted = FALSE, !.restarts = 0, !.error = NoError]
             b == Start(m)
             x == IF ~kept \/ s.owed THEN b ELSE m
             y == Render(x)
  <2>1. UserDid(y)
    <3>1. m.owed = s.owed
      OBVIOUS
    <3> QED
      BY <1>2, <3>1 DEF Retain, Retained
  <2>2. s.up => up
    OBVIOUS
  <2> HIDE DEF up
  <2>3. Only(s, m, {"holders", "lingering", "up", "halted", "restarts", "error"}) /\ m.up = up
    BY <1>1 DEF Only, OwnShape, OwnFields
  <2>4. {"holders", "lingering", "up", "halted", "restarts", "error"} \cap OwnFields \subseteq {"up"}
    BY DEF OwnFields
  <2> HIDE DEF m
  <2>5. Minds(s, m)
    BY <2>2, <2>3, <2>4, UpMinds
  <2>6. Minds(m, b)
    BY StartMinds
  <2> HIDE DEF b
  <2>7. Minds(s, x)
    BY <2>5, <2>6, MindsThen
  <2> HIDE DEF x
  <2>8. Whole(y)
    BY <1>1, <2>7, RenderMinds, MindsWhole
  <2> HIDE DEF y
  <2> QED
    BY <2>1, <2>8, ActsWhole
<1>3. CASE RetainAgain
  <2> DEFINE y == [s EXCEPT !.holders = 2]
  <2>1. Did(y)
    BY <1>3 DEF RetainAgain
  <2>2. Only(s, y, {"holders"}) /\ {"holders"} \cap OwnFields = {}
    BY DEF Only, OwnFields
  <2> HIDE DEF y
  <2>3. Whole(y)
    BY <1>1, <2>2, OnlyMinds, MindsWhole
  <2> QED
    BY <2>1, <2>3, ActsWhole
<1>4. CASE ReleaseHold
  <2> DEFINE m == [s EXCEPT !.holders = @ - 1]
             l == StartLingering(m)
             t == Stop(m)
  <2>1. Did(m) \/ Did(l) \/ Did(t)
    BY <1>4 DEF ReleaseHold
  <2>2. Only(s, m, {"holders"}) /\ {"holders"} \cap OwnFields = {}
    BY DEF Only, OwnFields
  <2> HIDE DEF m
  <2>3. Whole(m)
    BY <1>1, <2>2, OnlyMinds, MindsWhole
  <2>4. Whole(l)
    BY <2>3, LingerMinds, MindsWhole
  <2>5. Whole(t)
    BY <2>3, StopWhole DEF Whole, WholeBut
  <2> HIDE DEF l, t
  <2> QED
    BY <2>1, <2>3, <2>4, <2>5, ActsWhole
<1>5. CASE LingerEnds
  <2>1. Did(Stop(s))
    BY <1>5 DEF LingerEnds
  <2>2. Whole(Stop(s))
    BY <1>1, StopWhole DEF Whole, WholeBut
  <2> QED
    BY <2>1, <2>2, ActsWhole
<1>6. CASE Retry
  <2> DEFINE m == [s EXCEPT !.halted = FALSE, !.restarts = 0, !.error = NoError]
             b == Start(m)
             y == Render(b)
  <2>1. UserDid(y)
    BY <1>6 DEF Retry
  <2>2. Only(s, m, {"halted", "restarts", "error"}) /\ {"halted", "restarts", "error"} \cap OwnFields = {}
    BY DEF Only, OwnFields
  <2> HIDE DEF m
  <2>3. Minds(s, m) /\ Minds(m, b)
    BY <2>2, OnlyMinds, StartMinds
  <2> HIDE DEF b
  <2>4. Whole(y)
    BY <1>1, <2>3, RenderMinds, MindsWhole
  <2> HIDE DEF y
  <2> QED
    BY <2>1, <2>4, ActsWhole
<1> QED
  BY <1>2, <1>3, <1>4, <1>5, <1>6

LEMMA CrashKeepsWhole ==
  ASSUME OwnersInv, EngineCrashed
  PROVE  Whole(s)'
<1> DEFINE gone == DropWorker(s)
           b == RestartOrHalt(gone, KeptStopping)
           r == Render(b)
           t == Stop(gone)
           y == CommitLost(r)
           z == CommitLost(t)
<1>1. Did(y) \/ Did(z)
  BY DEF EngineCrashed
<1>2. Owned(s, {}, {}) /\ Taking(s) /\ Placed(s)
  BY DEF OwnersInv, Whole, WholeBut
<1>3. Owned(gone, {}, {}) /\ gone.table = {} /\ NoFold(gone) /\ Taking(gone) /\ Placed(gone)
  BY <1>2, DropWorkerOwned
<1> HIDE DEF gone
<1>4. Minds(gone, b) /\ Minds(b, r)
  BY RestartMinds, RenderMinds
<1> HIDE DEF b, r
<1>5. Minds(gone, r)
  BY <1>4, MindsThen
<1>6. Owned(r, {}, {}) /\ Carried(gone, r)
  BY <1>3, <1>5 DEF Minds
<1>7. r.table = {} /\ NoFold(r) /\ Taking(r) /\ Placed(r)
  BY <1>3, <1>6 DEF Carried
<1>8. Whole(y)
  BY <1>6, <1>7, CommitLostWhole
<1>9. Whole(t) /\ t.commit.pc \in {"none", "waiting", "woken"}
  BY <1>3, StopWhole
<1> HIDE DEF t, y
<1>10. z = t
  BY <1>9 DEF CommitLost
<1> HIDE DEF z
<1> QED
  BY <1>1, <1>8, <1>9, <1>10, ActsWhole

LEMMA DocsKeepWhole ==
  ASSUME OwnersInv, Load \/ Undo \/ Rewrite \/ Annotate \/ MoveCursor
  PROVE  Whole(s)'
<1> DEFINE yes == TRUE
           no == FALSE
<1>1. Whole(s) /\ OwnShape(s) /\ Shape(s) /\ s.ids \in Nat
  BY DEF OwnersInv, SessionInv, Settling, Sound, Tree, Whole, WholeBut, Owned
<1>2. ASSUME NEW m, Minds(s, m), NEW edited, Did(Hear(s, m, edited, FALSE)) \/ UserDid(Hear(s, m, edited, FALSE))
      PROVE  Whole(s)'
  <2> DEFINE y == Hear(s, m, edited, no)
  <2>1. Did(y) \/ UserDid(y)
    BY <1>2
  <2> HIDE DEF no
  <2>2. Whole(y)
    BY <1>1, <1>2, MindsWhole, HearWhole
  <2> HIDE DEF y
  <2> QED
    BY <2>1, <2>2, ActsWhole
<1>3. CASE Load
  <2>1. PICK steps \in {<<>>} \cup {<<[id |-> s.ids + 1, parent |-> 0, op |-> op]>> : op \in Ops} :
          UserDid(Hear(s, [s EXCEPT !.load = @ + 1, !.steps = steps, !.ids = @ + Len(steps),
                                    !.cursor = 0, !.tip = IF steps = <<>> THEN 0 ELSE s.ids + 1], TRUE, FALSE))
    BY <1>3 DEF Load
  <2> DEFINE tip == IF steps = <<>> THEN 0 ELSE s.ids + 1
             m == [s EXCEPT !.load = @ + 1, !.steps = steps, !.ids = @ + Len(steps), !.cursor = 0, !.tip = tip]
             y == Hear(s, m, TRUE, FALSE)
  <2>2. UserDid(y)
    BY <2>1
  <2>3. Len(steps) \in Nat
    BY <2>1
  <2> HIDE DEF tip
  <2>4. Only(s, m, {"load", "steps", "ids", "cursor", "tip"}) /\ m.ids = s.ids + Len(steps)
    BY <1>1 DEF Only, OwnShape, OwnFields
  <2>5. {"load", "steps", "ids", "cursor", "tip"} \cap OwnFields \subseteq {"ids"}
    BY DEF OwnFields
  <2> HIDE DEF m
  <2>6. \A i : i \in 0..s.ids => i \in 0..m.ids
    BY <1>1, <2>3, <2>4
  <2>7. Minds(s, m)
    BY <2>4, <2>5, <2>6, DocMinds
  <2> QED
    BY <1>2, <2>2, <2>7
<1>4. CASE Undo
  <2> DEFINE gone == Last(s.steps)
             off(id) == IF id = gone.id THEN gone.parent ELSE id
             cursor == off(s.cursor)
             tip == off(s.tip)
             front == Front(s.steps)
             m == [s EXCEPT !.steps = front, !.cursor = cursor, !.tip = tip]
             y == Hear(s, m, TRUE, FALSE)
  <2>1. UserDid(y)
    BY <1>4 DEF Undo
  <2> HIDE DEF front, cursor, tip
  <2>2. Only(s, m, {"steps", "cursor", "tip"})
    BY DEF Only
  <2>3. {"steps", "cursor", "tip"} \cap OwnFields = {}
    BY DEF OwnFields
  <2> HIDE DEF m
  <2>4. Minds(s, m)
    BY <2>2, <2>3, OnlyMinds
  <2> QED
    BY <1>2, <2>1, <2>4
<1>5. CASE Rewrite
  <2>1. PICK i \in DOMAIN s.steps, op \in Ops : UserDid(Hear(s, [s EXCEPT !.steps[i].op = op], TRUE, FALSE))
    BY <1>5 DEF Rewrite
  <2> DEFINE steps == [s.steps EXCEPT ![i].op = op]
             m == [s EXCEPT !.steps = steps]
             y == Hear(s, m, TRUE, FALSE)
  <2>2. [s EXCEPT !.steps[i].op = op] = m
    OBVIOUS
  <2> HIDE DEF steps
  <2>3. Only(s, m, {"steps"})
    BY DEF Only
  <2>4. {"steps"} \cap OwnFields = {}
    BY DEF OwnFields
  <2>5. UserDid(y)
    BY <2>1, <2>2
  <2> HIDE DEF m
  <2>6. Minds(s, m)
    BY <2>3, <2>4, OnlyMinds
  <2> QED
    BY <1>2, <2>5, <2>6
<1>6. CASE Annotate
  <2>1. UserDid(Hear(s, s, TRUE, FALSE))
    BY <1>6 DEF Annotate
  <2> QED
    BY <1>2, <2>1, MindsSame
<1>7. CASE MoveCursor
  <2>1. PICK id \in ({0} \cup IdsOf(s.steps)) \ {s.cursor} :
          Did(Hear(s, [s EXCEPT !.cursor = id,
                        !.tip = IF id = 0 \/ id \in ToSet(LineOf(s.steps, s.tip)) THEN @ ELSE id], FALSE, FALSE))
    BY <1>7 DEF MoveCursor
  <2> DEFINE tip == IF id = 0 \/ id \in ToSet(LineOf(s.steps, s.tip)) THEN s.tip ELSE id
             m == [s EXCEPT !.cursor = id, !.tip = tip]
             y == Hear(s, m, FALSE, FALSE)
  <2>2. Did(y)
    BY <2>1
  <2> HIDE DEF tip
  <2>3. Only(s, m, {"cursor", "tip"})
    BY DEF Only
  <2>4. {"cursor", "tip"} \cap OwnFields = {}
    BY DEF OwnFields
  <2> HIDE DEF m
  <2>5. Minds(s, m)
    BY <2>3, <2>4, OnlyMinds
  <2> QED
    BY <1>2, <2>2, <2>5
<1> QED
  BY <1>3, <1>4, <1>5, <1>6, <1>7

LEMMA ToolsKeepWhole ==
  ASSUME OwnersInv, Preview \/ ResolveOrders \/ CommitStep \/ CancelTool
  PROVE  Whole(s)'
<1>1. Whole(s) /\ Shape(s) /\ Sound(s)
  BY DEF OwnersInv, SessionInv, Settling
<1>2. CASE Preview
  <2>1. PICK op \in Ops : Did(PreviewNow(s, op))
    BY <1>2 DEF Preview
  <2>2. Whole(PreviewNow(s, op))
    BY <1>1, PreviewNowWhole
  <2> QED
    BY <2>1, <2>2, ActsWhole
<1>3. CASE ResolveOrders
  <2>1. PICK op \in Ops : Did(Ask(s, "orders", FoldingFrom(s).from.parent, op, <<>>))
    BY <1>3 DEF ResolveOrders
  <2> DEFINE on == FoldingFrom(s).from.parent
             path == <<>>
             y == Ask(s, "orders", on, op, path)
  <2>2. FoldingFrom(s).status = "ok"
    BY <1>3 DEF ResolveOrders
  <2>3. Landed(on)
    BY <2>2 DEF FoldingFrom
  <2>4. Did(y)
    BY <2>1
  <2> HIDE DEF on, path
  <2>5. Minds(s, y)
    BY <2>3, AskMinds
  <2> HIDE DEF y
  <2> QED
    BY <1>1, <2>4, <2>5, MindsWhole, ActsWhole
<1>4. CASE CommitStep
  <2>1. PICK op \in Ops : Did(CommitNow(s, op))
    BY <1>4 DEF CommitStep
  <2>2. Unbusy(s)
    BY <1>4 DEF CommitStep, Unbusy
  <2>3. Whole(CommitNow(s, op))
    BY <1>1, <2>2, CommitNowWhole
  <2> QED
    BY <2>1, <2>3, ActsWhole
<1>5. CASE CancelTool
  <2> DEFINE p == DropPending(s)
             o == DropOffer(p)
             y == Render(o)
  <2>1. Did(y)
    BY <1>5 DEF CancelTool
  <2>2. Minds(s, p)
    BY DropPendingMinds
  <2> HIDE DEF p
  <2>3. Minds(p, o)
    BY DropOfferMinds
  <2> HIDE DEF o
  <2>4. Whole(y)
    BY <1>1, <2>2, <2>3, RenderMinds, MindsWhole
  <2> HIDE DEF y
  <2> QED
    BY <2>1, <2>4, ActsWhole
<1> QED
  BY <1>2, <1>3, <1>4, <1>5

LEMMA ResumeKeepsWhole ==
  ASSUME OwnersInv, Resume
  PROVE  Whole(s)'
<1>1. Whole(s) /\ Shape(s) /\ Sound(s) /\ Owned(s, {}, {}) /\ OwnShape(s) /\ Mail(s)
  BY DEF OwnersInv, SessionInv, Settling, Whole, WholeBut, Owned
<1>2. FromOK(s.commit.from) /\ FromOK(s.hover.from)
  BY <1>1 DEF Mail
<1>3. CASE s.hover.pc = "woken"
  <2> DEFINE o == [s EXCEPT !.hover = NoHover]
             from == s.hover.from
             op == s.hover.op
             y == PreviewFrom(o, from, op)
  <2>1. Did(y)
    BY <1>3 DEF Resume
  <2>2. Only(s, o, {"hover"}) /\ o.hover = NoHover /\ o.commit = s.commit
    BY <1>1 DEF Only, OwnShape, OwnFields
  <2> HIDE DEF o
  <2>3. {"hover"} \cap OwnFields \subseteq {"commit", "hover"}
    OBVIOUS
  <2>4. /\ {"pc", "op", "from", "state"} \subseteq DOMAIN o.commit /\ {"pc", "op", "from"} \subseteq DOMAIN o.hover
        /\ WaiterMoves(s.commit, o.commit) /\ (FromOK(s.hover.from) => FromOK(o.hover.from))
    BY <1>1, <2>2, NothingLanded DEF OwnShape, WaiterMoves, FromOK
  <2>5. Minds(s, o)
    BY <2>2, <2>3, <2>4, WaitersMinds
  <2>6. Whole(o)
    BY <1>1, <2>5, MindsWhole
  <2> HIDE DEF from, op
  <2>7. FromOK(from)
    BY <1>2 DEF from
  <2>8. Whole(y)
    BY <2>6, <2>7, PreviewFromWhole
  <2> HIDE DEF y
  <2> QED
    BY <2>1, <2>8, ActsWhole
<1>4. CASE s.hover.pc # "woken"
  <2> DEFINE from == s.commit.from
             op == s.commit.op
             y == Commit(s, from, op)
             z == CommitTaking(s, from, op)
  <2>1. Did(y) \/ Did(z)
    BY <1>4 DEF Resume
  <2>2. Unbusy(s)
    BY <1>4 DEF Resume, Quiet, Unbusy
  <2> HIDE DEF from, op
  <2>3. FromOK(from)
    BY <1>2 DEF from
  <2>4. Whole(y) /\ Whole(z)
    BY <1>1, <2>2, <2>3, CommitWhole, CommitTakingWhole
  <2> HIDE DEF y, z
  <2> QED
    BY <2>1, <2>4, ActsWhole
<1> QED
  BY <1>3, <1>4

LEMMA ReplayTaskKeepsWhole ==
  ASSUME OwnersInv, ReplayTask
  PROVE  Whole(s)'
<1> DEFINE a == [s EXCEPT !.scheduled = FALSE]
           y == Replay(a)
<1>1. s.scheduled /\ Did(y)
  BY DEF ReplayTask
<1>2. Whole(s) /\ Shape(s) /\ Sound(s) /\ Heard(s)
  BY DEF OwnersInv, SessionInv, Settling
<1>3. Only(s, a, {"scheduled"})
  BY DEF Only
<1>4. ~a.scheduled
  BY <1>2 DEF Shape, Fields
<1> HIDE DEF a
<1>5. {"scheduled"} \cap OwnFields = {}
  BY DEF OwnFields
<1>6. Whole(a)
  BY <1>2, <1>3, <1>5, OnlyMinds, MindsWhole
<1>7. Keeps(s, a, {"scheduled"})
  BY <1>3, OnlyKeeps
<1>8. Shape(a) /\ Await(a) /\ a.run = s.run
  BY <1>2, <1>7, StillAwait, Kept DEF Keeps, Heard, Fields
<1>9. Sound(a)
  BY <1>2, <1>4, <1>7, <1>8, StillSound
<1>10. Whole(y)
  BY <1>6, <1>8, <1>9, ReplayMinds, MindsWhole
<1> HIDE DEF y
<1> QED
  BY <1>1, <1>10, ActsWhole

LEMMA NextKeepsWhole ==
  ASSUME OwnersInv, [Next]_vars
  PROVE  Whole(s)'
<1>1. CASE UserActs
  BY <1>1, HoldsKeepWhole, ToolsKeepWhole, DocsKeepWhole DEF UserActs
<1>2. CASE Resume
  BY <1>2, ResumeKeepsWhole
<1>3. CASE ReplayTask
  BY <1>3, ReplayTaskKeepsWhole
<1>4. CASE Serve \/ ServeFailure \/ ServeUnknown
  BY <1>4, ServeKeepsWhole, ServeFailureKeepsWhole, ServeUnknownKeepsWhole
<1>5. CASE EngineCrashed
  BY <1>5, CrashKeepsWhole
<1>6. CASE UNCHANGED vars
  BY <1>6 DEF vars, OwnersInv
<1> QED
  BY <1>1, <1>2, <1>3, <1>4, <1>5, <1>6 DEF Next

LEMMA InitWhole ==
  ASSUME Init
  PROVE  Whole(s)
<1>1. OwnShape(s)
  BY NothingLanded DEF Init, OwnShape, OwnFields, IsSeq
<1>2. /\ s.inbox = <<>> /\ s.table = {} /\ s.stray = {} /\ s.cache = <<>> /\ s.adoptions = {} /\ s.pending = Idle
      /\ s.taken = NoState /\ s.offer = Idle /\ s.queued = NoRequest /\ s.commit = NoCommit /\ s.hover = NoHover
      /\ s.run = NoRun /\ s.progress = NoProgress
  BY DEF Init
<1>3. Free(s) = {} /\ InCache(s) = {} /\ InOffers(s) = {} /\ InPreview(s) = {} /\ InOrders(s) = {} /\ Leaving(s) = {}
  BY <1>2, NothingLanded DEF Free, InCache, InOffers, InPreview, InOrders, Leaving
<1>4. Balanced(s, {}, {})
  BY <1>2, <1>3, FS_EmptySet DEF Balanced, Split
<1>5. PreviewMail(s) /\ ReplayMail(s) /\ FoldMail(s) /\ AsksFirst(s)
  BY <1>2 DEF PreviewMail, ReplayMail, FoldMail, NoFold, AsksFirst, Posts, Wanted
<1>6. Mail(s)
  BY <1>2, <1>5, NothingLanded DEF Mail, PendingOK, OfferOK, FromOK
<1>7. Taking(s) /\ TakenNow(s)
  BY <1>2, NothingLanded DEF Taking, TakenNow
<1>8. Placed(s)
  BY <1>2 DEF Placed, NoRun, NoProgress
<1> QED
  BY <1>1, <1>4, <1>6, <1>7, <1>8 DEF Whole, WholeBut, Owned

\* What was asked of the engine, what it landed and what it was told to let go of, who took
\* what and who awaits what go together: the inductive invariant below EveryStateHasOneOwner.
THEOREM StatesAreAccountedFor == Spec => []OwnersInv
<1>1. Init => OwnersInv
  BY InitSettling, InitWhole DEF OwnersInv
<1>2. OwnersInv /\ [Next]_vars => OwnersInv'
  BY NextKeepsInv, NextKeepsWhole DEF OwnersInv
<1> QED
  BY <1>1, <1>2, PTL DEF Spec

\* Every state the engine holds has one owner - the replay's cache, a commit's offer to the
\* replay, the preview or the order resolution - or its release is on its way: whatever is
\* superseded, refused, failed, lost or stopped, no state is leaked and none is freed under
\* another owner.
THEOREM StatesHaveOneOwner == Spec => []EveryStateHasOneOwner
<1>1. OwnersInv => EveryStateHasOneOwner
  <2> SUFFICES ASSUME OwnersInv
               PROVE  EveryStateHasOneOwner
    OBVIOUS
  <2>1. Balanced(s, {}, {}) /\ TakenNow(s)
    BY DEF OwnersInv, Whole, WholeBut, Owned
  <2>2. Releasing = Leaving(s) /\ Adopted = InOffers(s) /\ Offered = InOrders(s)
        /\ {st \in Cached : Landed(st)} = InCache(s)
    BY DEF Releasing, Leaving, Adopted, InOffers, Offered, InOrders, Cached, InCache
  <2>3. Previewed = InPreview(s)
    BY <2>1 DEF Previewed, InPreview, TakenNow
  <2>4. \A st \in Adopted \cup Previewed \cup Offered : Landed(st)
    <3>1. \A st \in InOffers(s) : Landed(st)
      BY <2>1, FreeFacts
    <3> QED
      BY <2>2, <3>1 DEF Previewed, Offered
  <2> DEFINE F == Free(s)
             C == InCache(s)
             A == InOffers(s)
             P == InPreview(s)
             O == InOrders(s)
  <2>5. F = s.table \ (Releasing \cup s.stray)
    BY <2>2 DEF Free
  <2>6. \A st \in A \cup P \cup O : st \in Cached => st \in C
    BY <2>2, <2>3, <2>4
  <2>7. Split(F, C, A, P \ {}, O, {}) /\ C \subseteq Cached
    BY <2>1, <2>2 DEF Balanced
  <2> HIDE DEF F, C, A, P, O
  <2>8. F = C \cup A \cup P \cup O /\ Cached \cap A = {} /\ (Cached \cup A) \cap (P \cup O) = {} /\ P \cap O = {}
    BY <2>6, <2>7 DEF Split
  <2> QED
    BY <2>2, <2>3, <2>5, <2>8 DEF EveryStateHasOneOwner, F, C, A, P, O
<1> QED
  BY <1>1, StatesAreAccountedFor, PTL
=============================================================================
