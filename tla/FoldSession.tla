----------------------------- MODULE FoldSession -----------------------------
(***************************************************************************)
(* apps/web/src/fold/session/foldSession.ts with foldSessionEngine.ts and  *)
(* foldSessionState.ts: the one Fold session.  It holds the engine while a *)
(* surface is open and lingers after, replays the shown sequence, restarts *)
(* a crashed engine, and folds from the step on screen: previews, orders   *)
(* resolved ahead of a preview, commits that hand a landed state to the    *)
(* replay.                                                                 *)
(*                                                                         *)
(* The handlers of the code call each other and end in a publish, so the   *)
(* session, the sequence it shows and the worker it drives are one record, *)
(* s, and every function of the code that changes them maps a record to a  *)
(* record.  An action is a task of the JavaScript thread: a user's act, a  *)
(* document change, a message, a timer.  Promise continuations run before  *)
(* the next task; the one that resumes a waiter is an action of its own.   *)
(*                                                                         *)
(* A state is a number in an engine's table, the engine's generation, and  *)
(* what it is: the operations folded from the sheet.                       *)
(***************************************************************************)
EXTENDS Integers, Sequences, FiniteSets, SequencesExt

CONSTANTS
  Ops,          \* the operations a step may be
  Refused,      \* those the engine turns down
  Lingers,      \* whether the session has a linger
  Rewritable,   \* when a step may be rewritten in place: "held", "lingering", "ahead", "committing"
  Failing,      \* the kinds of call that may fail for another reason than a loss
  MaxSteps,     \* steps ever committed (a bound)
  Budget        \* per kind of act, how often it may happen (a bound)

MAX_RESTARTS == 2

ASSUME OpsAssumption == Refused \subseteq Ops
ASSUME FailingAssumption == Failing \subseteq {"version", "replay", "preview", "fold"}
ASSUME BoundsAssumption == MaxSteps \in Nat /\ \A a \in DOMAIN Budget : Budget[a] \in Nat

VARIABLES
  s,       \* the session, the sequence and the worker
  spent,   \* per kind of act, how often it has happened
  streak   \* restarts since the user last did anything about them (history)

vars == <<s, spent, streak>>

NoState == [n |-> 0, gen |-> 0, path |-> <<>>]      \* nothing landed yet: pending
Broken == [n |-> -1, gen |-> 0, path |-> <<>>]      \* refused, or below a refusal
Landed(st) == st.n > 0

NoRun == [on |-> FALSE]
NoProgress == [load |-> -1, done |-> FALSE, made |-> <<>>]
Idle == [status |-> "idle", parent |-> NoState, op |-> "none", state |-> NoState]
NoAhead == [load |-> -1, id |-> 0, state |-> NoState, older |-> FALSE]
NoFrom == [parent |-> NoState, id |-> 0, load |-> -1]
NoCommit == [pc |-> "none", op |-> "none", from |-> NoFrom, state |-> NoState]
NoHover == [pc |-> "none", op |-> "none", from |-> NoFrom]
NoRequest == [on |-> NoState, op |-> "none"]

\* What is wrong, as the snapshot tells it apart: the engine kept stopping, or a call
\* failed, and a failure is never the one published before it (envelopeOf makes it anew).
NoError == 0
KeptStopping == 3
Failure(m) == IF m.error = 1 THEN 2 ELSE 1

\* A map, with v for x.
Put(map, x, v) == [y \in DOMAIN map \cup {x} |-> IF y = x THEN v ELSE map[y]]

----------------------------------------------------------------------------
\* The sequence: steps by id, each after its parent; 0 is the sheet.

IdsOf(steps) == {steps[i].id : i \in DOMAIN steps}
StepOf(steps, id) == CHOOSE e \in ToSet(steps) : e.id = id

LineOf(steps, id) ==
  LET line[i \in {0} \cup IdsOf(steps)] ==
        IF i = 0 THEN <<>> ELSE Append(line[StepOf(steps, i).parent], i)
  IN line[id]

PathOf(steps, id) == [k \in DOMAIN LineOf(steps, id) |-> StepOf(steps, LineOf(steps, id)[k]).op]

\* replayOrder: the sheet, the active path, then the rest, each after its parent.
ReplayOrder(steps, tip) ==
  LET active == LineOf(steps, tip)
      rest[i \in 0..Len(steps)] ==
        IF i = 0 THEN <<>>
        ELSE IF steps[i].id \in ToSet(active) THEN rest[i - 1] ELSE Append(rest[i - 1], steps[i].id)
  IN <<0>> \o active \o rest[Len(steps)]

----------------------------------------------------------------------------
\* The worker, as foldSequenceRuntime runs it: messages answered in order.

\* A fresh worker if there is none, and a message to it.
Ask(m, kind, on, op, path) ==
  [m EXCEPT !.up = TRUE,
            !.inbox = Append(@, [kind |-> kind, on |-> on, op |-> op, path |-> path, wanted |-> TRUE])]

\* The port's release: of this engine's states only, after what was asked before.
ReleaseAll(m, sts) ==
  LET held == {st \in sts : Landed(st) /\ st.gen = m.gen}
      letting == [i \in DOMAIN SetToSeq(held) |->
                    [kind |-> "release", on |-> SetToSeq(held)[i], op |-> "none", path |-> <<>>, wanted |-> FALSE]]
  IN IF m.inbox = <<>> THEN [m EXCEPT !.table = @ \ held] ELSE [m EXCEPT !.inbox = @ \o letting]

Release(m, st) == ReleaseAll(m, {st})

Unwanted(m, kind) ==
  [m EXCEPT !.inbox = [i \in DOMAIN @ |-> IF @[i].kind = kind THEN [@[i] EXCEPT !.wanted = FALSE] ELSE @[i]]]

Posted(m, kind) == \E i \in DOMAIN m.inbox : m.inbox[i].kind = kind

----------------------------------------------------------------------------
\* What is shown, and letting go of it.

\* withLandedAhead over deriveFoldSessionNodes: the newest progress of this load, with
\* the step a commit just appended at the state it landed until a replay settles it.
ShownIn(m) ==
  LET p == IF m.progress.load = m.load THEN m.progress ELSE NoProgress
      made(id) == IF id \in DOMAIN p.made THEN p.made[id].state ELSE NoState
  IN [id \in {0} \cup IdsOf(m.steps) |->
        IF m.ahead.load = m.load /\ m.ahead.id = id /\ p # NoProgress /\ made(id) = NoState
          THEN m.ahead.state ELSE made(id)]

\* snapshotOf, as far as a waiter or a fold reads it.
SnapshotOf(m) ==
  [live |-> m.holders > 0, load |-> m.load, cursor |-> m.cursor, shown |-> ShownIn(m),
   replaying |-> m.run.on, error |-> m.error, pending |-> m.pending]

\* Fault: a preview that a commit has taken is let go of like any other.
DropPendingTaken(m) ==
  LET dropped == IF m.pending.status = "landed" THEN Release(m, m.pending.state) ELSE m
  IN [Unwanted(dropped, "preview") EXCEPT !.pending = Idle, !.print = "none",
        !.queued = NoRequest, !.hover = NoHover,
        !.commit.pc = IF @ = "queued" THEN "answered" ELSE @]

\* dropPending: its answer lands nothing; a landed state is released unless a commit took
\* it.  A request waiting in the channel is superseded at once, which a commit that awaits
\* it hears of.
DropPending(m) ==
  LET dropped == IF m.pending.status = "landed" /\ m.pending.state # m.taken
                   THEN Release(m, m.pending.state) ELSE m
  IN [Unwanted(dropped, "preview") EXCEPT !.pending = Idle, !.print = "none",
        !.queued = NoRequest, !.hover = NoHover,
        !.commit.pc = IF @ = "queued" THEN "answered" ELSE @]

DropOffer(m) == [Release(m, m.offer.state) EXCEPT !.offer = Idle]

\* foldingFrom, from what was last published.
FoldingFrom(m) ==
  LET st == m.snap.shown[m.snap.cursor] IN
  IF ~m.snap.live THEN [status |-> "not-live", from |-> NoFrom]
  ELSE IF ~Landed(st) \/ st.gen # m.gen THEN [status |-> "no-state", from |-> NoFrom]
  ELSE [status |-> "ok", from |-> [parent |-> st, id |-> m.snap.cursor, load |-> m.snap.load]]

Landing(m) == (m.run.on \/ m.scheduled \/ m.starting) /\ m.snap.shown[m.snap.cursor] = NoState

\* foldableFrom's `ready`: no need to wait for a replay.
ReadyToFold(m) == FoldingFrom(m).status # "no-state" \/ ~Landing(m)

\* What a publish tells those who wait in foldableFrom.
WakeWaiters(m) ==
  LET wake(w) == IF w.pc = "waiting" /\ ReadyToFold(m)
                   THEN [w EXCEPT !.pc = "woken", !.from = FoldingFrom(m).from] ELSE w
  IN [m EXCEPT !.commit = wake(@), !.hover = wake(@)]

Outgrown(m, folded) == folded.status # "idle" /\ folded.parent # ShownIn(m)[m.cursor]
Announce(m) == WakeWaiters([m EXCEPT !.snap = SnapshotOf(m)])
Publish(m) == IF SnapshotOf(m) = m.snap THEN m ELSE Announce(m)
WithoutOffer(m) == IF Outgrown(m, m.offer) THEN DropOffer(m) ELSE m
WithoutPending(m) == IF Outgrown(m, m.pending) THEN DropPending(m) ELSE m

\* render: the pending step and the offer go with the state they were folded from.
Render(m) == Publish(WithoutPending(WithoutOffer(m)))

\* The render of an edited document, which is another object whatever it says.
RenderEdited(m) == Announce(WithoutPending(WithoutOffer(m)))

ForgetStates(m) ==
  [Unwanted(DropOffer(DropPending(m)), "version")
     EXCEPT !.ahead = NoAhead, !.run = NoRun, !.progress = NoProgress, !.starting = FALSE]

\* The replayer's clear: what it cached is released, what it is asking will not be cached.
ClearReplayer(m) ==
  LET held == {m.cache[p] : p \in DOMAIN m.cache}
  IN [Unwanted(ReleaseAll(m, held), "replay") EXCEPT !.cache = <<>>]

----------------------------------------------------------------------------
\* Replay.

\* Fault: what a commit offered just now goes with what the run did not adopt.
ReleaseEveryOffer(m) ==
  [ReleaseAll(m, {a.state : a \in m.adoptions}) EXCEPT !.adoptions = {}]

\* releaseUnadopted: what commits offered before the newest run started.
ReleaseUnadopted(m) ==
  LET left == {a \in m.adoptions : a.older}
  IN [ReleaseAll(m, {a.state : a \in left}) EXCEPT !.adoptions = @ \ left]

Report(m, done) ==
  Render([m EXCEPT !.progress = [load |-> m.run.load, done |-> done, made |-> m.run.made]])

\* The run ends: it speaks for the step shown ahead of it, and what it left is let go of.
Settled(m) ==
  LET settled == /\ m.ahead.load = m.progress.load /\ m.ahead.id \in DOMAIN m.progress.made
                 /\ m.progress.made[m.ahead.id].state # NoState
  IN [m EXCEPT !.run = NoRun, !.ahead = IF @.older \/ settled THEN NoAhead ELSE @]
Finish(m) == Render(ReleaseUnadopted(Settled(Report(m, TRUE))))

\* What a run has landed for a node, by its path.
Made(m, id, st) == [m EXCEPT !.run.made = Put(@, id, [path |-> PathOf(m.run.steps, id), state |-> st])]

\* One node of a run: what its parent says, the cache, a call under way, a state a commit
\* offered (foldSessionEngine's port), or the engine.
Visit(m, k) ==
  LET id == m.run.order[k]
      path == PathOf(m.run.steps, id)
      step == IF id = 0 THEN [op |-> "none", parent |-> 0] ELSE StepOf(m.run.steps, id)
      parent == IF id = 0 THEN NoState ELSE m.run.made[step.parent].state
      offered == {a \in m.adoptions : a.parent = parent /\ a.op = step.op}
  IN IF m.run.waits THEN m
     ELSE IF parent = Broken THEN Made(m, id, Broken)
     ELSE IF path \in DOMAIN m.cache THEN Made(m, id, m.cache[path])
     ELSE IF \E i \in DOMAIN m.inbox : m.inbox[i].kind = "replay" /\ m.inbox[i].wanted /\ m.inbox[i].path = path
       THEN [m EXCEPT !.run.at = k, !.run.waits = TRUE]
     ELSE IF offered # {}
       THEN LET a == CHOOSE a \in offered : TRUE IN
            Report([Made(m, id, a.state) EXCEPT !.cache = Put(@, path, a.state), !.adoptions = @ \ {a}], FALSE)
     ELSE [Ask(m, "replay", parent, step.op, path) EXCEPT !.run.at = k, !.run.waits = TRUE]

FinishOrWait(m) == IF m.run.waits THEN m ELSE Finish(m)
Advance(m, from) ==
  LET visited[k \in (from - 1)..Len(m.run.order)] == IF k < from THEN m ELSE Visit(visited[k - 1], k)
  IN FinishOrWait(visited[Len(m.run.order)])

\* replay: the newest run takes over from the one before it.
Replay(m) ==
  IF ~m.ready \/ m.holders = 0 \/ m.halted THEN m
  ELSE LET run == [on |-> TRUE, load |-> m.load, steps |-> m.steps, order |-> ReplayOrder(m.steps, m.tip),
                   at |-> 1, waits |-> FALSE, made |-> <<>>]
       IN Advance(Render([m EXCEPT !.owed = FALSE, !.run = run, !.error = NoError, !.ahead.older = m.ahead # NoAhead,
                                   !.adoptions = {[a EXCEPT !.older = TRUE] : a \in @}]), 1)

ScheduleReplay(m) ==
  IF m.ready /\ m.holders > 0 /\ ~m.halted THEN [m EXCEPT !.scheduled = TRUE] ELSE m

\* start: the engine's version first, once.
Start(m) ==
  IF m.holders = 0 \/ m.halted THEN m
  ELSE IF m.ready THEN ScheduleReplay(m)
  ELSE IF m.starting THEN m
  ELSE [Ask(m, "version", NoState, "none", <<>>) EXCEPT !.starting = TRUE]

\* Fault: what failed is noted and not published.
FailUnheard(m) == [m EXCEPT !.error = Failure(m)]

Fail(m) == Render([m EXCEPT !.error = Failure(m)])

\* A restart that may be one too many.
\* Fault: the count is looked at before it is raised, as for a first loss.
RestartOrHaltLate(m, why) ==
  IF m.restarts <= MAX_RESTARTS THEN Start([m EXCEPT !.restarts = @ + 1])
  ELSE [m EXCEPT !.restarts = @ + 1, !.halted = TRUE, !.error = why]

RestartOrHalt(m, why) ==
  IF m.restarts + 1 <= MAX_RESTARTS THEN Start([m EXCEPT !.restarts = @ + 1])
  ELSE [m EXCEPT !.restarts = @ + 1, !.halted = TRUE, !.error = why]

\* reland: the engine did not know a state: land everything again.
Reland(m) ==
  IF ~m.ready \/ m.holders = 0 THEN m
  ELSE Render(RestartOrHalt([ClearReplayer(ForgetStates(m)) EXCEPT !.relanded = TRUE], Failure(m)))

----------------------------------------------------------------------------
\* The engine going away.

\* dropWorker, and the session's listener up to what becomes of the session: nothing is
\* released, since there is no one to tell.
DropWorker(m) ==
  IF ~m.up THEN m
  ELSE LET gone == [m EXCEPT !.up = FALSE, !.gen = @ + 1, !.inbox = <<>>, !.table = {},
                           !.stray = {}, !.relanded = FALSE]
       IN [ClearReplayer(ForgetStates(gone)) EXCEPT !.adoptions = {}]

\* The calls it took with it are rejected.  A commit under way fails and lets go of what
\* it has, asking a fresh worker on its way if it was not folding (a guarded ask refuses).
CommitLost(m) ==
  IF m.commit.pc \in {"none", "waiting", "woken"} THEN m
  ELSE [m EXCEPT !.commit = NoCommit, !.taken = NoState, !.queued = NoRequest,
                 !.up = @ \/ (m.commit.pc # "fold" /\ (m.holders > 0 \/ m.lingering))]

\* stop: every state is let go of, and the worker.
Stop(m) ==
  LET forgotten == ClearReplayer(ForgetStates([m EXCEPT !.lingering = FALSE, !.owed = FALSE]))
      let_go == [ReleaseAll(forgotten, {a.state : a \in forgotten.adoptions}) EXCEPT !.adoptions = {}]
  IN CommitLost(Render(DropWorker(let_go)))

\* startLingering: nothing is left running; what the next hold has to replay is noted.
StartLingering(m) ==
  LET shown == m.progress.done /\ m.progress.load = m.load
      owed == m.run.on \/ m.scheduled \/ m.starting \/ ~shown
      quiet == DropOffer(DropPending([m EXCEPT !.owed = @ \/ owed]))
  IN Render([quiet EXCEPT !.lingering = TRUE, !.run = NoRun])

\* foldProgressStillValid: only the steps whose path is still the one landed for.
StillValid(m) ==
  LET p == m.progress
      kept == {id \in DOMAIN p.made \cap ({0} \cup IdsOf(m.steps)) : p.made[id].path = PathOf(m.steps, id)}
  IN IF kept = DOMAIN p.made THEN p
     ELSE [p EXCEPT !.made = [id \in kept |-> p.made[id]], !.done = FALSE]

\* The document listener: b is the session before the change, m after it.  edited says
\* that more than the reader's place changed, silent that a commit publishes later.
Stale(m) == IF m.lingering THEN [m EXCEPT !.owed = TRUE, !.progress = StillValid(m)] ELSE m
Forgiven(m) == IF m.halted THEN [m EXCEPT !.halted = FALSE] ELSE [m EXCEPT !.restarts = 0]
Hear(b, m, edited, silent) ==
  LET reload == m.load # b.load
      replay == reload \/ m.steps # b.steps
      retry == replay \/ (edited /\ (m.halted \/ m.error # NoError))
      forgiven == LET stale == IF replay THEN Stale(m) ELSE m
                  IN IF edited THEN Forgiven(stale) ELSE stale
      goOn(x) == IF retry THEN Start(x) ELSE IF m.tip # b.tip /\ x.run.on THEN ScheduleReplay(x) ELSE x
  IN IF m.lingering /\ reload THEN Stop(m)
     ELSE goOn(IF silent THEN forgiven ELSE IF edited THEN RenderEdited(forgiven) ELSE Render(forgiven))

----------------------------------------------------------------------------
\* Previews.

\* The fingerprint of a landed preview is asked for at once.
ShowPreview(m, parent, op, st) ==
  LET shown == [m EXCEPT !.pending = [status |-> IF Landed(st) THEN "landed" ELSE "refused",
                                      parent |-> parent, op |-> op, state |-> st],
                         !.print = IF Landed(st) THEN "asked" ELSE "none"]
  IN Render(IF Landed(st) THEN Ask(shown, "print", st, "none", <<>>) ELSE shown)

\* previewFrom: what an order resolution folded is taken, else the engine is asked, one
\* request at a time and the newest waiting.
PreviewFrom(m, from, op) ==
  LET parent == from.parent
      taken == m.offer.status # "idle" /\ m.offer.op = op /\ m.offer.parent = parent
      clear == DropPending(IF taken THEN [m EXCEPT !.offer = Idle] ELSE m)
      working == Render([clear EXCEPT !.pending = [Idle EXCEPT !.status = "working", !.parent = parent, !.op = op]])
  IN IF from = NoFrom THEN m
     ELSE IF taken THEN ShowPreview(clear, parent, op, m.offer.state)
     ELSE IF Posted(m, "preview") THEN [working EXCEPT !.queued = [on |-> parent, op |-> op]]
     ELSE Ask(working, "preview", parent, op, <<>>)

PreviewNow(m, op) ==
  IF ReadyToFold(m) THEN PreviewFrom(m, FoldingFrom(m).from, op)
  ELSE [DropPending(m) EXCEPT !.hover = [NoHover EXCEPT !.pc = "waiting", !.op = op]]

\* keepOffer: the step an order resolution folded, if somebody may still preview it.
KeepOffer(m, parent, op, st) ==
  IF m.holders = 0 \/ m.snap.shown[m.snap.cursor] # parent THEN Release(m, st)
  ELSE [DropOffer(m) EXCEPT !.offer = [status |-> IF Landed(st) THEN "landed" ELSE "refused",
                                       parent |-> parent, op |-> op, state |-> st]]

----------------------------------------------------------------------------
\* Commits.

\* letGo: the commit did not happen.
LetGo(m, st) ==
  LET free == IF m.taken = st THEN [m EXCEPT !.taken = NoState] ELSE m
  IN IF free.pending.status = "landed" /\ free.pending.state = st THEN Render(DropPending(free))
     ELSE Release(free, st)

\* commitFoldStep: the step, and the cursor on it.
Appended(m, parent, op) ==
  [m EXCEPT !.steps = Append(@, [id |-> m.ids + 1, parent |-> parent, op |-> op]),
            !.ids = @ + 1, !.cursor = m.ids + 1, !.tip = m.ids + 1]

\* committed, with the adoption before it: the step is appended and shown at the state it
\* landed, which the replay is to adopt; with its parent gone, everything is withdrawn.
Committed(m, from, op, st) ==
  LET replaced == {a \in m.adoptions : a.parent = from.parent /\ a.op = op}
      offered == [ReleaseAll(m, {a.state : a \in replaced}) EXCEPT
                    !.adoptions = (@ \ replaced) \cup
                       {[parent |-> from.parent, op |-> op, state |-> st, older |-> FALSE]}]
      appended == Hear(offered, Appended(offered, from.id, op), TRUE, TRUE)
      ahead == [load |-> m.load, id |-> m.ids + 1, state |-> st, older |-> FALSE]
      shown == m.pending.status = "landed" /\ m.pending.state = st
      withdrawn == [Release(offered, st) EXCEPT !.taken = NoState,
                      !.pending = IF shown THEN Idle ELSE @, !.adoptions = {a \in @ : a.state # st}]
      over == IF from.id \in {0} \cup IdsOf(m.steps) THEN Render([appended EXCEPT !.ahead = ahead])
              ELSE Render(withdrawn)
  IN [over EXCEPT !.taken = NoState, !.commit = NoCommit]

\* The end of a commit: is it still of this load, and of this engine?
CommitLanded(m, from, op, st) ==
  IF m.load # from.load \/ st.gen # m.gen THEN [LetGo(m, st) EXCEPT !.commit = NoCommit]
  ELSE Committed(m, from, op, st)

IsThis(m, from, op) == m.pending.parent = from.parent /\ m.pending.op = op

\* After the preview, if it was awaited: take it, or fold the step.
CommitTaking(m, from, op) ==
  LET busy(pc, st) == [pc |-> pc, op |-> op, from |-> from, state |-> st] IN
  IF m.pending.status = "landed" /\ IsThis(m, from, op)
    THEN LET taking == [m EXCEPT !.taken = m.pending.state] IN
         IF m.print = "asked" THEN [taking EXCEPT !.commit = busy("print", m.pending.state)]
         ELSE CommitLanded(taking, from, op, m.pending.state)
  ELSE IF (m.pending.status = "refused" /\ IsThis(m, from, op)) \/ from.parent.gen # m.gen
    THEN [m EXCEPT !.commit = NoCommit]
  ELSE [Ask(m, "fold", from.parent, op, <<>>) EXCEPT !.commit = busy("fold", NoState)]

\* commit: wait for the preview of this step, if it is still folding.
Commit(m, from, op) ==
  IF from = NoFrom THEN [m EXCEPT !.commit = NoCommit]
  ELSE IF m.pending.status = "working" /\ IsThis(m, from, op)
    THEN [m EXCEPT !.commit = [pc |-> IF m.queued = NoRequest THEN "flight" ELSE "queued",
                               op |-> op, from |-> from, state |-> NoState]]
  ELSE CommitTaking(m, from, op)

CommitNow(m, op) ==
  IF ReadyToFold(m) THEN Commit(m, FoldingFrom(m).from, op)
  ELSE [m EXCEPT !.commit = [NoCommit EXCEPT !.pc = "waiting", !.op = op]]

----------------------------------------------------------------------------
\* Answers.

\* The message answered, and the releases posted right after it.
Popped(m) ==
  LET after == {i \in 2..Len(m.inbox) : \A j \in 2..i : m.inbox[j].kind = "release"}
  IN [m EXCEPT !.inbox = SubSeq(@, Cardinality(after) + 2, Len(@)),
               !.table = @ \ {m.inbox[i].on : i \in after}]

RunAwaits(m, path) == m.run.on /\ m.run.waits /\ PathOf(m.run.steps, m.run.order[m.run.at]) = path

\* The replayer hears of a path; after a clear the state is nobody's.
HearReplay(m, h, st) ==
  LET kept == IF h.wanted THEN [m EXCEPT !.cache = Put(@, h.path, st)]
              ELSE IF Landed(st) THEN [m EXCEPT !.stray = @ \cup {st}] ELSE m
      k == kept.run.at
  IN IF h.wanted /\ RunAwaits(kept, h.path)
       THEN Advance(Report([Made(kept, kept.run.order[k], st) EXCEPT !.run.waits = FALSE], FALSE), k + 1)
     ELSE kept

\* The channel sends the request that waited; a commit that awaited either hears.
NextPreview(m) ==
  LET told == IF m.commit.pc = "flight" THEN [m EXCEPT !.commit.pc = "answered"]
              ELSE IF m.commit.pc = "queued" THEN [m EXCEPT !.commit.pc = "flight"] ELSE m
  IN IF m.queued = NoRequest THEN told
     ELSE [Ask(told, "preview", m.queued.on, m.queued.op, <<>>) EXCEPT !.queued = NoRequest]

\* Fault: a preview that nobody wants any more is dropped without a word to the engine.
HearPreviewForgetful(m, h, st) ==
  IF h.wanted THEN ShowPreview(m, h.on, h.op, st) ELSE m

\* A preview superseded on its way back is let go of.
HearPreview(m, h, st) ==
  IF h.wanted THEN ShowPreview(m, h.on, h.op, st) ELSE Release(m, st)

\* A refusal is shown as a preview's is; a landed step is committed.
HearFold(m, h, st) ==
  IF Landed(st) THEN CommitLanded(m, m.commit.from, h.op, st)
  ELSE Render([DropPending(m) EXCEPT !.commit = NoCommit,
                 !.pending = [status |-> "refused", parent |-> h.on, op |-> h.op, state |-> st]])

HearPrint(m, h) ==
  LET known == IF m.pending.state = h.on THEN [m EXCEPT !.print = "known"] ELSE m
  IN IF m.commit.pc = "print" /\ m.commit.state = h.on
       THEN CommitLanded(known, m.commit.from, m.commit.op, h.on) ELSE known

\* What the session does with the answer to h, st being what a fold landed.
HearAnswer(m, h, st) ==
  CASE h.kind = "version" -> IF h.wanted THEN ScheduleReplay([m EXCEPT !.starting = FALSE, !.ready = TRUE]) ELSE m
    [] h.kind = "replay" -> HearReplay(m, h, st)
    [] h.kind = "preview" -> NextPreview(HearPreview(m, h, st))
    [] h.kind = "fold" -> HearFold(m, h, st)
    [] h.kind = "orders" -> KeepOffer(m, h.on, h.op, st)
    [] h.kind = "print" -> HearPrint(m, h)
    [] OTHER -> m      \* a release is not answered

\* A call that failed for another reason than a loss.
HearFailure(m, h) ==
  CASE h.kind = "version" -> IF h.wanted THEN Fail([m EXCEPT !.starting = FALSE]) ELSE m
    [] h.kind = "replay" -> IF h.wanted /\ RunAwaits(m, h.path) THEN Fail([m EXCEPT !.run = NoRun]) ELSE m
    [] h.kind = "preview" -> NextPreview(IF h.wanted THEN Render([m EXCEPT !.pending.status = "failed"]) ELSE m)
    [] h.kind = "fold" -> [m EXCEPT !.commit = NoCommit]

HearUnknown(m, h) ==
  CASE h.kind = "replay" -> IF h.wanted /\ RunAwaits(m, h.path) THEN Reland([m EXCEPT !.run = NoRun]) ELSE m
    [] h.kind = "orders" -> Reland(m)
    [] h.kind \in {"preview", "fold"} -> HearFailure(m, h)
    [] OTHER -> m

----------------------------------------------------------------------------
\* The actions.

Known(h) == Landed(h.on) => h.on \in s.table

Init ==
  /\ s = [load |-> 0, steps |-> <<>>, ids |-> 0, cursor |-> 0, tip |-> 0,
          holders |-> 0, lingering |-> FALSE, owed |-> FALSE, ready |-> FALSE, starting |-> FALSE,
          scheduled |-> FALSE, run |-> NoRun, progress |-> NoProgress, cache |-> <<>>,
          restarts |-> 0, halted |-> FALSE, error |-> NoError,
          pending |-> Idle, print |-> "none", queued |-> NoRequest, hover |-> NoHover, offer |-> Idle,
          commit |-> NoCommit, taken |-> NoState, ahead |-> NoAhead, adoptions |-> {},
          up |-> FALSE, gen |-> 0, inbox |-> <<>>, table |-> {}, landed |-> 0, stray |-> {}, relanded |-> FALSE,
          snap |-> [live |-> FALSE, load |-> 0, cursor |-> 0, shown |-> [id \in {0} |-> NoState],
                    replaying |-> FALSE, error |-> NoError, pending |-> Idle]]
  /\ spent = [a \in DOMAIN Budget |-> 0]
  /\ streak = 0

\* No promise continuation is due.
Quiet == s.commit.pc \notin {"woken", "answered"} /\ s.hover.pc # "woken"

Spend(kind) ==
  /\ spent[kind] < Budget[kind] /\ spent["all"] < Budget["all"]
  /\ spent' = [spent EXCEPT ![kind] = @ + 1, !["all"] = @ + 1]

\* What the user did about a run of losses ends it.
UserDid(m) == s' = m /\ streak' = 0
Did(m) ==
  /\ s' = m
  /\ streak' = IF m.steps # s.steps THEN 0
               ELSE IF m.restarts > s.restarts /\ ~m.halted THEN streak + 1 ELSE streak

\* Fault: a surface that comes back within the linger asks for nothing.
RetainedAsIs(m) ==
  LET kept == m.lingering
      held == [m EXCEPT !.holders = 1, !.lingering = FALSE, !.up = @ \/ ~kept,
                        !.halted = FALSE, !.restarts = 0, !.error = NoError]
  IN Render(IF ~kept THEN Start(held) ELSE held)

\* retain: the first hold starts the engine, or finds what was kept.
Retained(m) ==
  LET kept == m.lingering
      held == [m EXCEPT !.holders = 1, !.lingering = FALSE, !.up = @ \/ ~kept,
                        !.halted = FALSE, !.restarts = 0, !.error = NoError]
  IN Render(IF ~kept \/ m.owed THEN Start(held) ELSE held)

Retain == Quiet /\ s.holders = 0 /\ Spend("hold") /\ UserDid(Retained(s))

\* Another surface beside the first.
RetainAgain == Quiet /\ s.holders = 1 /\ Spend("hold") /\ Did([s EXCEPT !.holders = 2])

ReleaseHold ==
  /\ Quiet /\ s.holders > 0
  /\ UNCHANGED spent
  /\ LET m == [s EXCEPT !.holders = @ - 1] IN
       Did(IF m.holders > 0 THEN m ELSE IF Lingers /\ ~m.halted THEN StartLingering(m) ELSE Stop(m))

LingerEnds == Quiet /\ s.lingering /\ UNCHANGED spent /\ Did(Stop(s))

Retry ==
  /\ Quiet /\ s.error # NoError /\ Spend("hold")
  /\ UserDid(Render(Start([s EXCEPT !.halted = FALSE, !.restarts = 0, !.error = NoError])))

\* Another project: no steps, or one.
Load ==
  /\ Quiet /\ Spend("doc") /\ s.ids < MaxSteps
  /\ \E steps \in {<<>>} \cup {<<[id |-> s.ids + 1, parent |-> 0, op |-> op]>> : op \in Ops} :
       UserDid(Hear(s, [s EXCEPT !.load = @ + 1, !.steps = steps, !.ids = @ + Len(steps),
                                 !.cursor = 0, !.tip = IF steps = <<>> THEN 0 ELSE s.ids + 1], TRUE, FALSE))

\* The last step is undone, or deleted: the cursor and the active path leave it.
Undo ==
  /\ Quiet /\ s.steps # <<>> /\ Spend("doc")
  /\ LET gone == Last(s.steps)
         off(id) == IF id = gone.id THEN gone.parent ELSE id
     IN UserDid(Hear(s, [s EXCEPT !.steps = Front(@), !.cursor = off(@), !.tip = off(@)], TRUE, FALSE))

RewriteMoment ==
  IF s.commit.pc # "none" THEN "committing" ELSE IF s.ahead # NoAhead THEN "ahead"
  ELSE IF s.holders > 0 THEN "held" ELSE "lingering"

\* A step rewritten in place: updateFoldRepeat, updateFoldReturn, updateFoldCollapse.
Rewrite ==
  /\ Quiet /\ RewriteMoment \in Rewritable /\ Spend("doc")
  /\ \E i \in DOMAIN s.steps, op \in Ops :
       /\ op # s.steps[i].op
       /\ UserDid(Hear(s, [s EXCEPT !.steps[i].op = op], TRUE, FALSE))

\* A note, a spread or a title: nothing that replays.
Annotate == Quiet /\ s.restarts > 0 /\ Spend("doc") /\ UserDid(Hear(s, s, TRUE, FALSE))

\* moveFoldCursor: to another branch, whose path then comes first.
MoveCursor ==
  /\ Quiet /\ Spend("doc")
  /\ \E id \in ({0} \cup IdsOf(s.steps)) \ {s.cursor} :
       Did(Hear(s, [s EXCEPT !.cursor = id,
                     !.tip = IF id = 0 \/ id \in ToSet(LineOf(s.steps, s.tip)) THEN @ ELSE id], FALSE, FALSE))

Preview == Quiet /\ Spend("tool") /\ \E op \in Ops : Did(PreviewNow(s, op))

ResolveOrders ==
  /\ Quiet /\ Spend("tool") /\ FoldingFrom(s).status = "ok"
  /\ \E op \in Ops : Did(Ask(s, "orders", FoldingFrom(s).from.parent, op, <<>>))

CommitStep ==
  /\ Quiet /\ s.commit.pc = "none" /\ s.ids < MaxSteps /\ Spend("tool")
  /\ \E op \in Ops : Did(CommitNow(s, op))

CancelTool == Quiet /\ Spend("tool") /\ Did(Render(DropOffer(DropPending(s))))

\* A waiter of foldableFrom goes on with what the publish told it, or a commit with what
\* became of the preview it awaited.
Resume ==
  /\ ~Quiet /\ UNCHANGED spent
  /\ IF s.hover.pc = "woken" THEN Did(PreviewFrom([s EXCEPT !.hover = NoHover], s.hover.from, s.hover.op))
     ELSE IF s.commit.pc = "woken" THEN Did(Commit(s, s.commit.from, s.commit.op))
     ELSE Did(CommitTaking(s, s.commit.from, s.commit.op))

\* scheduleReplay's task.
ReplayTask == Quiet /\ s.scheduled /\ UNCHANGED spent /\ Did(Replay([s EXCEPT !.scheduled = FALSE]))

\* The worker answers the oldest message: a fold lands a state, or is refused.
Serve ==
  /\ Quiet /\ s.up /\ s.inbox # <<>> /\ Known(Head(s.inbox)) /\ UNCHANGED spent
  /\ LET h == Head(s.inbox)
         folds == h.kind \in {"replay", "preview", "fold", "orders"}
         sheet == h.kind = "replay" /\ h.path = <<>>
         st == [n |-> s.landed + 1, gen |-> s.gen, path |-> IF sheet THEN <<>> ELSE Append(h.on.path, h.op)]
         m == Popped(s)
         lands == folds /\ h.op \notin Refused
     IN Did(HearAnswer(IF lands THEN [m EXCEPT !.landed = @ + 1, !.table = @ \cup {st}] ELSE m,
                       h, IF lands THEN st ELSE IF folds THEN Broken ELSE NoState))

ServeFailure ==
  /\ Quiet /\ s.up /\ s.inbox # <<>> /\ Known(Head(s.inbox)) /\ Head(s.inbox).kind \in Failing /\ Spend("mishap")
  /\ Did(HearFailure(Popped(s), Head(s.inbox)))

\* The engine does not know a state: it says so of one let go of, and it may of others.
ServeUnknown ==
  /\ Quiet /\ s.up /\ s.inbox # <<>>
  /\ IF Known(Head(s.inbox)) THEN Head(s.inbox).kind \in {"replay", "orders"} /\ Spend("mishap")
     ELSE UNCHANGED spent
  /\ Did(HearUnknown(Popped(s), Head(s.inbox)))

\* A crash: the listener first, then the calls it took.
EngineCrashed ==
  /\ Quiet /\ s.up /\ Spend("crash")
  /\ LET gone == DropWorker(s) IN
       Did(CommitLost(IF s.holders > 0 THEN Render(RestartOrHalt(gone, KeptStopping)) ELSE Stop(gone)))

UserActs ==
  \/ Retain \/ RetainAgain \/ ReleaseHold \/ LingerEnds \/ Retry
  \/ Load \/ Undo \/ Rewrite \/ Annotate \/ MoveCursor
  \/ Preview \/ ResolveOrders \/ CommitStep \/ CancelTool

Next == UserActs \/ Resume \/ ReplayTask \/ Serve \/ ServeFailure \/ ServeUnknown \/ EngineCrashed

Spec == Init /\ [][Next]_vars

----------------------------------------------------------------------------
\* Properties.

\* A step shown at a state is shown at the state of its own operations, in the engine
\* that is on, which has not let go of it: over commits shown ahead of the replay,
\* crashes, and documents that change while nobody looks.
ShownIsItsPath ==
  \A id \in {0} \cup IdsOf(s.steps) :
    LET st == ShownIn(s)[id] IN
      Landed(st) => st.path = PathOf(s.steps, id) /\ st.gen = s.gen /\ st \in s.table

Releasing == {s.inbox[i].on : i \in {i \in DOMAIN s.inbox : s.inbox[i].kind = "release"}}

Cached == {s.cache[p] : p \in DOMAIN s.cache}
Adopted == {a.state : a \in s.adoptions}
\* A commit that awaits a fingerprint has taken the preview, shown or not.
Previewed == {st \in {s.pending.state, s.taken} : Landed(st)}
Offered == {st \in {s.offer.state} : Landed(st)}

\* Every state the engine holds has one owner - the replay's cache, a commit's offer to the
\* replay, the preview or the order resolution - or its release is on its way: none is
\* leaked, and none is freed under another owner.
EveryStateHasOneOwner ==
  /\ s.table \ (Releasing \cup s.stray) = ({st \in Cached : Landed(st)} \cup Adopted \cup Previewed \cup Offered)
  /\ Cached \cap Adopted = {} /\ (Cached \cup Adopted) \cap (Previewed \cup Offered) = {}
  /\ Previewed \cap Offered = {}

\* The state a commit folds from is no longer its step's: the step is gone from the
\* document, or a replay has settled it at another state.
Outdated ==
  \/ s.commit.from.load # s.load \/ s.commit.from.id \notin {0} \cup IdsOf(s.steps)
  \/ ShownIn(s)[s.commit.from.id] # s.commit.from.parent

\* Nothing is asked of a state the engine was told to let go of before, unless the session
\* has had this engine land everything again, or a commit outlived the state it folds from.
AskedIsHeld ==
  ~s.relanded => \A i \in DOMAIN s.inbox :
    Landed(s.inbox[i].on) /\ ~(s.inbox[i].kind = "fold" /\ Outdated) =>
      /\ s.inbox[i].on \in s.table
      /\ \A j \in 1..(i - 1) : s.inbox[j].kind = "release" => s.inbox[j].on # s.inbox[i].on

\* However the engine goes on crashing, it is restarted at most MAX_RESTARTS times before
\* the user does something about it.
RestartsBounded == streak <= MAX_RESTARTS

\* A commit or a preview waits for a replay only while one is under way or about to start,
\* unless the session gave up.
WaitersAreWoken ==
  s.commit.pc = "waiting" \/ s.hover.pc = "waiting" => Landing(s) \/ s.halted

AllShown == \A id \in {0} \cup IdsOf(s.steps) : ShownIn(s)[id] # NoState

\* A task, a continuation or an answer is due.
Busy == ~Quiet \/ s.scheduled \/ (s.up /\ s.inbox # <<>>)

\* A session that is held and has nothing left to do or to hear shows every step, or says
\* what is wrong: no crash, refusal, failed call or hold released and taken again leaves it
\* waiting for nothing.
HeldSessionSettles == s.holders > 0 /\ ~Busy => AllShown \/ s.error # NoError
=============================================================================
