--------------------------- MODULE DiagramCapture ---------------------------
(***************************************************************************)
(* apps/web/src/diagram/capture and store/workspaceStore/diagramCapture:   *)
(* how a diagram's steps get their pictures.  A capture is begun on a      *)
(* step, folds, and commits what it drew as an undo step unless the step   *)
(* has moved on.  Three actors begin captures: the user's verbs, Refresh   *)
(* all with its one undo entry, and the queue of pose edits of a step.     *)
(* The folds are FoldRuns', shared with those of the Edit canvas.          *)
(*                                                                         *)
(* The page's own state is one record, d, and each function of the code    *)
(* that changes it maps a record to a record.  An action is a task of the  *)
(* page: an act of the user, a message, a timer; what the code does before *)
(* its next await is part of it.                                           *)
(***************************************************************************)
EXTENDS FoldRuns, Integers, SequencesExt

CONSTANTS
  Steps,      \* the diagram's steps
  FoldSteps,  \* those linked to a Fold step, whose captures fold nothing
  Posed,      \* the step whose pose is edited
  Keys,       \* the fields a pose edit may be of, the orbit and the presentation among them
  Overlaps,   \* whether Refresh all may be asked again before it knows what is stale
  Budget      \* per kind of act, how often it may happen (a bound)

ASSUME CaptureAssumption == 
  /\ IsFiniteSet(Steps) /\ FoldSteps \subseteq Steps /\ Posed \in Steps
  /\ {"orbit", "presentation"} \subseteq Keys

VARIABLES d, spent
vars == <<d, spent, foldVars>>

NoStep == "none"
None == -1       \* no capture marked; and an upload, which is of no pattern
NoQueue == [on |-> FALSE, pending |-> <<>>, latest |-> [k \in Keys |-> 0], busy |-> 0]

\* A step: its source by an identity, its revision, and the version of the
\* pattern its picture was drawn from.
Fresh(n) == [s \in Steps |-> [rev |-> 0, src |-> n, drawn |-> 0]]

Init ==
  /\ FoldInit
  /\ spent = [a \in DOMAIN Budget |-> 0]
  /\ d = [steps |-> Fresh(1), past |-> <<>>, future |-> <<>>, load |-> 1,
          marks |-> [s \in Steps |-> None],
          caps |-> <<>>, refreshes |-> <<>>,
          cancel |-> 0,          \* the run Stop cancels: cancelRun
          refreshing |-> NoStep, \* the step whose capture Stop is for
          progress |-> FALSE,    \* diagramRefreshAll
          queue |-> NoQueue, edits |-> <<>>,
          inEdit |-> FALSE, pattern |-> 1, sources |-> 1, entries |-> 0]

\* The first run of Refresh all is not counted among the rest.
Spend(a) ==
  LET of == IF a = "refresh" /\ spent[a] = 0 THEN {a} ELSE {a, "all"}
  IN  /\ \A k \in of : spent[k] < Budget[k]
      /\ spent' = [k \in DOMAIN spent |-> IF k \in of THEN spent[k] + 1 ELSE spent[k]]

----------------------------------------------------------------------------
\* The document's history (projectDocumentHistory.ts, snapshotHistory.ts).

\* commit: an edit that changes nothing records nothing; one that extends the
\* newest entry leaves the history as it is.
Commit(x, by, steps, extend) ==
  IF steps = x.steps THEN x
  ELSE IF extend THEN [x EXCEPT !.steps = steps]
  ELSE [x EXCEPT !.steps = steps, !.future = <<>>, !.entries = @ + 1,
                 !.past = Append(@, [n |-> x.entries + 1, by |-> by, was |-> x.steps])]

Newest(x) == IF x.past = <<>> THEN 0 ELSE Last(x.past).n

\* Everything a run of Refresh all is not alone in: another's edit, a travel.
Disturb(x, by) ==
  [x EXCEPT !.refreshes = [r \in DOMAIN x.refreshes |-> [x.refreshes[r] EXCEPT !.alone = @ /\ r = by]]]

\* A capture under way is told of a travel (history).
Outdated(caps) == [c \in DOMAIN caps |-> IF caps[c].pc = "over" THEN caps[c] ELSE [caps[c] EXCEPT !.undone = TRUE]]

\* Undo and redo restore whole snapshots, the steps' revisions with them.
Undone(x) ==
  [x EXCEPT !.steps = Last(x.past).was, !.past = Front(@),
            !.future = <<x.steps>> \o @,
            !.caps = Outdated(@)]
Redone(x) ==
  [x EXCEPT !.steps = Head(x.future), !.future = Tail(@), !.entries = @ + 1,
            !.past = Append(@, [n |-> x.entries + 1, by |-> 0, was |-> x.steps]),
            !.caps = Outdated(@)]

----------------------------------------------------------------------------
\* The queue of pose edits (stepPoseQueue.ts).

DoneEdits(x, es) ==
  [x EXCEPT !.edits = [e \in DOMAIN x.edits |-> [x.edits[e] EXCEPT !.done = @ \/ e \in es]]]

\* The presentation drops an orbit that waits.
Dropped(key) == IF key = "presentation" THEN {"orbit"} ELSE {}
Undropped(x, key) ==
  LET q == x.queue.pending
      kept[i \in 0..Len(q)] ==
        IF i = 0 THEN <<>>
        ELSE IF x.edits[q[i]].key \in Dropped(key) THEN kept[i - 1] ELSE Append(kept[i - 1], q[i])
  IN  kept[Len(q)]

\* A newer edit of a field takes the older one's place.
Waiting(x, key, e) ==
  LET kept == Undropped(x, key)
      same == {i \in DOMAIN kept : x.edits[kept[i]].key = key}
  IN  IF same = {} THEN Append(kept, e)
      ELSE [i \in DOMAIN kept |-> IF i \in same THEN e ELSE kept[i]]

\* Fault: an edit whose place is taken is never told.
OfferedSilently(x, key) ==
  LET e == Len(x.edits) + 1
      kept == SelectSeq(x.queue.pending, LAMBDA i : x.edits[i].key # key)
  IN  [x EXCEPT
         !.edits = Append(@, [key |-> key, done |-> FALSE]),
         !.queue = [on |-> TRUE, pending |-> Append(kept, e),
                    latest |-> [x.queue.latest EXCEPT ![key] = e], busy |-> x.queue.busy]]

Offered(x, key) ==
  LET e == Len(x.edits) + 1
      pending == Waiting(x, key, e)
      gone == ToSet(x.queue.pending) \ ToSet(pending)
      latest == [k \in Keys |-> IF k = key THEN e ELSE IF k \in Dropped(key) THEN 0 ELSE x.queue.latest[k]]
  IN  [DoneEdits(x, gone) EXCEPT
         !.edits = Append(@, [key |-> key, done |-> FALSE]),
         !.queue = [on |-> TRUE, pending |-> pending, latest |-> latest, busy |-> x.queue.busy]]

\* The session ender: every edit the queue knows of finishes, and an edit
\* offered later makes a queue of its own.
SessionsEnded(x) ==
  [DoneEdits(x, {x.queue.latest[k] : k \in Keys}) EXCEPT !.queue = NoQueue]

\* Fault: a queue that has not been cancelled is all it asks for.
IsLatestLive(x, e) == x.queue.on

\* Whether an edit being written is still the newest of its field.
IsLatest(x, e) == x.queue.on /\ x.queue.latest[x.edits[e].key] = e

\* The edit written: it finishes, and the queue ends with its last.
Written(x, e) ==
  LET q == x.queue IN
  [DoneEdits(x, {e}) EXCEPT
     !.queue = IF q.busy # e THEN q
               ELSE IF q.pending = <<>> THEN NoQueue ELSE [q EXCEPT !.busy = 0]]

----------------------------------------------------------------------------
\* A run of Refresh all (captureQueue.ts).

\* The finally: Stop names no run, and the progress goes with its document.
RunEnds(x, r) ==
  [x EXCEPT !.refreshes[r].pc = "over", !.cancel = 0,
            !.progress = @ /\ x.load # x.refreshes[r].load]

NextStep(x, r) ==
  LET y == [x EXCEPT !.refreshes[r].todo = Tail(@), !.refreshes[r].pc = "turn"]
  IN  IF Len(x.refreshes[r].todo) = 1 THEN RunEnds(y, r) ELSE y

\* Fault: the entry to join is not remembered from one step to the next.
AfterCaptureForgetful(x, r, outcome) ==
  LET y == [x EXCEPT !.refreshing = NoStep]
  IN  IF outcome = "stopped" THEN RunEnds(y, r)
      ELSE NextStep([y EXCEPT !.progress = TRUE], r)

\* What the run makes of a capture's outcome: its first change is the entry
\* the next ones join, a stop ends it.
AfterCapture(x, r, outcome) ==
  LET run == x.refreshes[r]
      y == [x EXCEPT !.refreshing = NoStep,
                     !.refreshes[r].join = IF outcome = "changed" /\ @ = 0 THEN Newest(x) ELSE @]
  IN  IF outcome = "stopped" THEN RunEnds(y, r)
      ELSE NextStep([y EXCEPT !.progress = TRUE], r)

Ended == [pc |-> "over"]

\* endStepCapture, and whoever waits for the capture.  The mark is the step's,
\* whichever capture set it.
Finish(x, c, outcome) ==
  LET cap == x.caps[c]
      y == [x EXCEPT !.marks[cap.step] = None, !.caps[c] = Ended]
  IN  IF cap.edit > 0 THEN Written(y, cap.edit)
      ELSE IF cap.run > 0 THEN AfterCapture(y, cap.run, outcome)
      ELSE y

\* beginCaptureRun: not while the step is captured.  A refresh draws the
\* source it finds; a pose or a verb lands a source of its own.
Begun(x, s, run, edit) ==
  [x EXCEPT
    !.marks[s] = 0,
    !.sources = IF run > 0 THEN @ ELSE @ + 1,
    !.caps = Append(@, [step |-> s, load |-> x.load, rev |-> x.steps[s].rev, saw |-> x.steps[s].src,
                        lands |-> IF run > 0 THEN x.steps[s].src ELSE x.sources + 1,
                        drawn |-> x.pattern, run |-> run, edit |-> edit,
                        fold |-> 0, pc |-> "prepare", undone |-> FALSE])]

\* The step a run has come to, its turn taken and Edit waited for.
TryStep(x, r) ==
  LET run == x.refreshes[r]
      s == Head(run.todo)
  IN  IF run.cancelled \/ x.load # run.load THEN RunEnds(x, r)
      ELSE IF x.steps[s].drawn = None THEN NextStep(x, r)
      ELSE IF x.marks[s] # None THEN AfterCapture(x, r, "busy")
      ELSE [Begun(x, s, r, 0) EXCEPT !.refreshing = s, !.refreshes[r].pc = "capture"]

\* What is stale is captured, from the first turn on.
GoOn(x, r, stale) ==
  [x EXCEPT !.refreshes[r].pc = "turn", !.refreshes[r].todo = stale, !.cancel = r, !.progress = TRUE]

Stale(x) == SetToSeq({s \in Steps : x.steps[s].drawn \notin {None, x.pattern}})

Live(run) == run.pc \in {"turn", "edit", "capture"}

----------------------------------------------------------------------------
\* Actions: Refresh all.

\* Fault: the progress shown is what says a run is under way.
RefreshByProgress ==
  /\ ~d.progress
  /\ Overlaps \/ \A r \in DOMAIN d.refreshes : d.refreshes[r].pc \notin {"index", "confirm"}
  /\ Spend("refresh")
  /\ d' = [d EXCEPT !.refreshes = Append(@, [pc |-> "index", load |-> d.load, todo |-> <<>>,
                                              cancelled |-> FALSE, join |-> 0, alone |-> TRUE])]
  /\ UNCHANGED foldVars

Refresh ==
  /\ d.cancel = 0
  /\ Overlaps \/ \A r \in DOMAIN d.refreshes : d.refreshes[r].pc \notin {"index", "confirm"}
  /\ Spend("refresh")
  /\ d' = [d EXCEPT !.refreshes = Append(@, [pc |-> "index", load |-> d.load, todo |-> <<>>,
                                              cancelled |-> FALSE, join |-> 0, alone |-> TRUE])]
  /\ UNCHANGED foldVars

\* The sheets' index is there; a redo branch is asked about first.
Indexed(r) ==
  /\ d.refreshes[r].pc = "index"
  /\ d' = IF Stale(d) = <<>> THEN [d EXCEPT !.refreshes[r].pc = "over"]
          ELSE IF d.future # <<>> THEN [d EXCEPT !.refreshes[r].pc = "confirm", !.refreshes[r].todo = Stale(d)]
          ELSE GoOn(d, r, Stale(d))
  /\ UNCHANGED <<spent, foldVars>>

Confirmed(r) ==
  /\ d.refreshes[r].pc = "confirm"
  /\ d' = IF d.load = d.refreshes[r].load THEN GoOn(d, r, d.refreshes[r].todo)
          ELSE [d EXCEPT !.refreshes[r].pc = "over"]
  /\ UNCHANGED <<spent, foldVars>>

Declined(r) ==
  /\ d.refreshes[r].pc = "confirm"
  /\ d' = [d EXCEPT !.refreshes[r].pc = "over"]
  /\ UNCHANGED <<spent, foldVars>>

\* nextTurn; but for a step linked to a Fold step, it waits while Edit is open.
OfFold(x, s) == s \in FoldSteps /\ x.steps[s].drawn # None
Turn(r) ==
  /\ d.refreshes[r].pc = "turn"
  /\ d' = IF d.inEdit /\ ~OfFold(d, Head(d.refreshes[r].todo))
          THEN [d EXCEPT !.refreshes[r].pc = "edit"]
          ELSE TryStep(d, r)
  /\ UNCHANGED <<spent, foldVars>>

WaitedForEdit(r) ==
  /\ d.refreshes[r].pc = "edit"
  /\ d.refreshes[r].cancelled \/ ~d.inEdit
  /\ d' = TryStep(d, r)
  /\ UNCHANGED <<spent, foldVars>>

\* stopRefreshAll: the run is cancelled, and the fold it is on is stopped.
StopRefresh ==
  /\ d.cancel # 0
  /\ Spend("stop")
  /\ d' = [d EXCEPT !.refreshes[d.cancel].cancelled = TRUE]
  /\ LET fold == IF d.refreshing = NoStep THEN None ELSE d.marks[d.refreshing] IN
     IF fold \in listed THEN Stop({fold}) ELSE UNCHANGED foldVars

----------------------------------------------------------------------------
\* Actions: captures.

\* A verb, a link or Show as: the user's capture of a step, unless it is busy.
Verb(s) ==
  /\ d.marks[s] = None
  /\ Spend("verb")
  /\ d' = Begun(d, s, 0, 0)
  /\ UNCHANGED foldVars

OfferPose(key) ==
  /\ Spend("pose")
  /\ d' = Offered(d, key)
  /\ UNCHANGED foldVars

\* The queue's next edit, once no capture holds the step: it is written, or has
\* nothing to pose when the step is an upload.
DrainPose ==
  /\ d.queue.pending # <<>> /\ d.queue.busy = 0
  /\ d.marks[Posed] = None
  /\ LET e == Head(d.queue.pending)
         x == [d EXCEPT !.queue.pending = Tail(@), !.queue.busy = e]
     IN  d' = IF d.steps[Posed].drawn = None THEN Written(x, e) ELSE Begun(x, Posed, 0, e)
  /\ UNCHANGED <<spent, foldVars>>

Captures(pc) == {c \in DOMAIN d.caps : d.caps[c].pc = pc}

\* What the capture needs first is there: a Fold step's replay is drawn, any
\* other step's creases are folded.
Prepared(c) ==
  /\ d.caps[c].pc = "prepare"
  /\ LET s == d.caps[c].step IN
     \/ s \in FoldSteps /\ d' = [d EXCEPT !.caps[c].pc = "picture"] /\ UNCHANGED foldVars
     \/ /\ s \notin FoldSteps
        /\ BeginFold
        /\ d' = [d EXCEPT !.caps[c].pc = "fold", !.caps[c].fold = Len(work'),
                          !.marks[s] = IF @ = None THEN None ELSE Len(work')]
  /\ UNCHANGED spent

\* The capture's fold ends: what it drew goes on to its picture, unless a newer
\* edit of the view has come.
Folded(c) ==
  /\ d.caps[c].pc = "fold"
  /\ LET cap == d.caps[c] IN
     /\ EndFold(cap.fold)
     /\ d' = CASE work[cap.fold] = "stopped" -> Finish(d, c, "stopped")
               [] work[cap.fold] = "failed" -> Finish(d, c, "failed")
               [] cap.edit > 0 /\ ~IsLatest(d, cap.edit) -> Finish(d, c, "discarded")
               [] OTHER -> [d EXCEPT !.caps[c].pc = "picture"]
  /\ UNCHANGED spent

\* Fault: only the step's revision is compared.
CurrentAnyLoad(x, c) ==
  LET cap == x.caps[c] IN
  /\ x.steps[cap.step].rev = cap.rev
  /\ cap.edit = 0 \/ IsLatest(x, cap.edit)

\* commitStepCapture's guard: the same document, the same revision of the step,
\* and a view edit that is still the newest.
Current(x, c) ==
  LET cap == x.caps[c] IN
  /\ x.load = cap.load
  /\ x.steps[cap.step].rev = cap.rev
  /\ cap.edit = 0 \/ IsLatest(x, cap.edit)

\* setLinkedPicture: the step's source and picture become the capture's.
Pictured(x, cap) ==
  LET was == x.steps[cap.step] IN
  IF was.src = cap.lands /\ was.drawn = cap.drawn THEN x.steps
  ELSE [x.steps EXCEPT ![cap.step] = [rev |-> was.rev + 1, src |-> cap.lands, drawn |-> cap.drawn]]

\* The entry a refresh joins, while it is still the newest.
Joins(x, cap) ==
  cap.run > 0 /\ x.refreshes[cap.run].join # 0 /\ Newest(x) = x.refreshes[cap.run].join

\* The picture is kept and committed, or dropped.
Land(c) ==
  /\ d.caps[c].pc = "picture"
  /\ LET cap == d.caps[c]
         y == Commit(d, cap.run, Pictured(d, cap), Joins(d, cap))
     IN  d' = IF ~Current(d, c) THEN Finish(d, c, "discarded")
              ELSE IF y = d THEN Finish(d, c, "same")
              ELSE Disturb(Finish(y, c, "changed"), cap.run)
  /\ UNCHANGED <<spent, foldVars>>

\* A failure: of what it prepares, of its picture, or of a lost engine.
FailCapture(c) ==
  /\ \/ d.caps[c].pc \in {"prepare", "picture"} /\ Spend("fail")
     \/ d.caps[c].pc = "lost" /\ UNCHANGED spent
  /\ d' = Finish(d, c, "failed")
  /\ UNCHANGED foldVars

\* stopDiagramCapture, from the step's card.
StopCapture(s) ==
  /\ d.marks[s] \in listed
  /\ Spend("stop")
  /\ Stop({d.marks[s]})
  /\ UNCHANGED d

----------------------------------------------------------------------------
\* Actions: what else goes on in the page.

\* An edit that replaces a step's source: an upload.
EditSource(s) ==
  /\ Spend("edit")
  /\ LET n == d.sources + 1
         steps == [d.steps EXCEPT ![s] = [rev |-> @.rev + 1, src |-> n, drawn |-> None]]
     IN  d' = Disturb([Commit(d, 0, steps, FALSE) EXCEPT !.sources = n], 0)
  /\ UNCHANGED foldVars

Undo ==
  /\ d.past # <<>>
  /\ Spend("undo")
  /\ d' = Disturb(Undone(SessionsEnded(d)), 0)
  /\ UNCHANGED foldVars

Redo ==
  /\ d.future # <<>>
  /\ Spend("undo")
  /\ d' = Disturb(Redone(SessionsEnded(d)), 0)
  /\ UNCHANGED foldVars

\* The diagram's file is opened again, saved with other sources: its steps
\* keep their ids, and all that was scoped to the document goes.
Open ==
  /\ Spend("open")
  /\ d' = [SessionsEnded(d) EXCEPT
             !.load = @ + 1, !.steps = Fresh(d.sources + 1), !.sources = @ + 1,
             !.past = <<>>, !.future = <<>>, !.progress = FALSE,
             !.marks = [s \in Steps |-> None]]
  /\ UNCHANGED foldVars

GoToEdit ==
  /\ Spend("workspace")
  /\ d' = [d EXCEPT !.inEdit = ~@]
  /\ UNCHANGED foldVars

EditPattern ==
  /\ d.inEdit
  /\ Spend("pattern")
  /\ d' = [d EXCEPT !.pattern = @ + 1]
  /\ UNCHANGED foldVars

\* A fold of the Edit canvas, and the stop of all.
EditFold == Spend("editFold") /\ BeginFold /\ UNCHANGED d
StopAll == Spend("stop") /\ StopAllFolds /\ UNCHANGED d

\* Whatever a fold does; one no capture waits for ends by itself.
Owned(i) == \E c \in Captures("fold") : d.caps[c].fold = i
FoldGoesOn ==
  /\ \/ \E i \in DOMAIN work : CallKernel(i) \/ CallHost(i) \/ HostAnswers(i)
     \/ \E i \in DOMAIN work : ~Owned(i) /\ EndFold(i)
     \/ KernelAnswers \/ KernelStops
  /\ UNCHANGED <<d, spent>>

\* The engine is lost: every capture that waits on it is abandoned, and every
\* run of Refresh all is cancelled.
OnEngine(cap) == cap.pc = "fold" \/ (cap.pc = "prepare" /\ cap.step \notin FoldSteps)
LoseKernel ==
  /\ LoseEngine /\ Spend("loss")
  /\ d' = [d EXCEPT
             !.caps = [c \in DOMAIN d.caps |->
               IF OnEngine(d.caps[c]) THEN [d.caps[c] EXCEPT !.pc = "lost"] ELSE d.caps[c]],
             !.refreshes = [r \in DOMAIN d.refreshes |->
               IF Live(d.refreshes[r]) THEN [d.refreshes[r] EXCEPT !.cancelled = TRUE] ELSE d.refreshes[r]]]

Next ==
  \/ Refresh \/ StopRefresh
  \/ \E r \in DOMAIN d.refreshes : Indexed(r) \/ Confirmed(r) \/ Declined(r) \/ Turn(r) \/ WaitedForEdit(r)
  \/ \E s \in Steps : Verb(s) \/ StopCapture(s) \/ EditSource(s)
  \/ \E k \in Keys : OfferPose(k)
  \/ DrainPose
  \/ \E c \in DOMAIN d.caps : Prepared(c) \/ Folded(c) \/ Land(c) \/ FailCapture(c)
  \/ Undo \/ Redo \/ Open \/ GoToEdit \/ EditPattern
  \/ EditFold \/ StopAll \/ FoldGoesOn \/ LoseKernel

Spec == Init /\ [][Next]_vars

----------------------------------------------------------------------------
\* A capture lands on the source it was begun on: never on a step linked to
\* something else meanwhile, nor on the step of the same id in a file opened
\* since (diagramCapture.ts:336).  An undo or a redo since it began restores
\* revisions with the steps, so past one the revision no longer says so.
Landed(c) == d.caps[c].pc = "picture" /\ d'.caps[c].pc = "over"
             /\ d'.steps[d.caps[c].step] # d.steps[d.caps[c].step]
LandsOnItsSource ==
  [][\A c \in DOMAIN d.caps : Landed(c) /\ ~d.caps[c].undone =>
       d.load = d.caps[c].load /\ d.steps[d.caps[c].step].src = d.caps[c].saw]_vars

\* A pose edit that lands is the newest of its field: a capture of an older
\* view that ends late changes nothing (stepPoseQueue.ts:20).
NewestPoseWins ==
  [][\A c \in DOMAIN d.caps : Landed(c) /\ d.caps[c].edit > 0 =>
       ~\E e \in DOMAIN d.edits : e > d.caps[c].edit /\ d.edits[e].key = d.edits[d.caps[c].edit].key]_vars

\* Refresh all is one undo entry for the whole run, as long as nobody else
\* edits the diagram or travels its history meanwhile (captureQueue.ts:29).
OneEntryPerRun ==
  \A r \in DOMAIN d.refreshes : d.refreshes[r].alone =>
    Cardinality({i \in DOMAIN d.past : d.past[i].by = r}) <= 1

\* While a run captures, or waits to, Stop reaches it, and its progress shows in
\* its own document (captureQueue.ts:73).
StopReachesTheRun ==
  \A r \in DOMAIN d.refreshes : Live(d.refreshes[r]) =>
    d.cancel = r /\ (d.load = d.refreshes[r].load => d.progress)

\* Every pose edit finishes: one that has not is queued or being captured, and
\* a queue with an edit in it waits for nothing but a capture that goes on
\* (stepPoseQueue.ts:28, the caller awaits the edit).
EveryEditFinishes ==
  LET goesOn(s) == \E c \in DOMAIN d.caps : d.caps[c].pc # "over" /\ d.caps[c].step = s
      q == d.queue
  IN  /\ \A e \in DOMAIN d.edits : ~d.edits[e].done =>
           \/ e \in ToSet(q.pending)
           \/ \E c \in DOMAIN d.caps : d.caps[c].pc # "over" /\ d.caps[c].edit = e
      /\ q.pending # <<>> => (d.marks[Posed] # None \/ q.busy # 0 => goesOn(Posed))

\* The progress is a run's: there is none once every run has ended
\* (types.ts:2330, "Refresh all out-of-date steps, while it runs").
ProgressIsOfARun == d.progress => \E r \in DOMAIN d.refreshes : Live(d.refreshes[r])
=============================================================================
