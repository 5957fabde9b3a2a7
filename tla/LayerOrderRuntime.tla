------------------------- MODULE LayerOrderRuntime -------------------------
(***************************************************************************)
(* The Layer order engine's worker and the count of solutions that runs    *)
(* between its calls:                                                      *)
(* apps/web/src/layer-order/engine/layerOrderRuntime.ts (the pump),        *)
(* workers/layerOrderBridgeBackend.ts (the session and its cursor) and the *)
(* dialog, which turns the count on and off                                *)
(* (layer-order/dialog/useLayerOrderSession.ts).                           *)
(*                                                                         *)
(* Calls are anonymous, and of four kinds, by what they do to the cursor:  *)
(* open (openShowing, restore) closes the session and opens another;       *)
(* change (commit, commitPreview, show, restoreRecord) may drop the        *)
(* cursor; step (and position) starts one if there is none; a question     *)
(* leaves it alone.  A slice is the pump's own call.  A count is reduced   *)
(* to its cursor's epoch and the slices left to count.                     *)
(***************************************************************************)
EXTENDS Integers, Sequences, FiniteSets

CONSTANTS
  CountLength,   \* the slices a whole count takes
  MaxCalls,      \* calls and answers on their way at once (a bound)
  MaxRestarts,   \* opens and changes asked (a bound)
  MaxMishaps     \* losses, traps, defects and failed calls (a bound)

ASSUME BoundsAssumption ==
  /\ CountLength \in Nat \ {0}
  /\ {MaxCalls, MaxRestarts, MaxMishaps} \subseteq Nat

VARIABLES
  \* the main thread
  live,        \* there is a worker
  closed,      \* the runtime was disposed of
  counting,    \* the count is on (the source's `slice` is not null)
  counted,     \* the count published, or NoCount
  epochSeen,   \* the newest cursor published
  asking,      \* calls asked and not settled, slices aside
  slicing,     \* a slice is in the worker
  owed,        \* an answer came since the last slice
  more,        \* the last slice left more to count
  broken,      \* a slice failed for a defect
  timer,       \* the pump is due a task from now
  \* the worker
  session,     \* a session is open
  cursor,      \* its solutions cursor, or NoCount
  epoch,       \* cursors started so far
  \* between the two, oldest first
  inbox,       \* calls posted
  outbox,      \* answers not yet read
  \* bounds
  restarts,
  mishaps

pump == <<counting, slicing, owed, more, broken, timer>>
count == <<counted, epochSeen>>
worker == <<session, cursor, epoch>>
queues == <<inbox, outbox>>
bounds == <<restarts, mishaps>>
vars == <<live, closed, pump, count, asking, worker, queues, bounds>>

Calls == {"open", "change", "step", "question"}
Kinds == Calls \cup {"slice"}
\* `restarted` is an answer `restarting` publishes null for; `nothing` a slice
\* that found no session; `failed` any other envelope.
Results == {"answered", "restarted", "nothing", "failed", "trapped"}

Counts == [epoch : Nat, left : 0..CountLength]
NoCount == [epoch |-> 0, left |-> 0]
AnswersTo(kinds) == [kind : kinds, result : Results, count : Counts]
Answers == AnswersTo(Kinds)

\* How many elements of the sequence s are in S.
CountIn(s, S) == Cardinality({i \in 1..Len(s) : s[i] \in S})

TypeOK ==
  /\ live \in BOOLEAN /\ closed \in BOOLEAN /\ counting \in BOOLEAN
  /\ slicing \in BOOLEAN /\ owed \in BOOLEAN /\ more \in BOOLEAN
  /\ broken \in BOOLEAN /\ timer \in BOOLEAN /\ session \in BOOLEAN
  /\ counted \in Counts /\ cursor \in Counts
  /\ epochSeen \in Nat /\ epoch \in Nat /\ asking \in Nat
  /\ inbox \in Seq(Kinds) /\ outbox \in Seq(Answers)
  /\ restarts \in 0..MaxRestarts /\ mishaps \in 0..MaxMishaps

Init ==
  /\ live = FALSE /\ closed = FALSE /\ counting = FALSE
  /\ counted = NoCount /\ epochSeen = 0 /\ asking = 0
  /\ slicing = FALSE /\ owed = FALSE /\ more = FALSE /\ broken = FALSE
  /\ timer = FALSE
  /\ session = FALSE /\ cursor = NoCount /\ epoch = 0
  /\ inbox = <<>> /\ outbox = <<>>
  /\ restarts = 0 /\ mishaps = 0

----------------------------------------------------------------------------
(* The pump.                                                               *)

\* Fault: a slice is asked only when nothing else waits.
SliceDueIdle ==
  counting /\ ~closed /\ ~broken /\ ~slicing /\ live /\ (owed \/ more) /\ asking = 0
\* Fault: a slice is asked while one is in the worker.
SliceDueTwice ==
  counting /\ ~closed /\ ~broken /\ live /\ (owed \/ (more /\ asking = 0))
SliceDue ==
  counting /\ ~closed /\ ~broken /\ ~slicing /\ live /\ (owed \/ (more /\ asking = 0))

\* Fault: of the state before the handler has done.
ScheduleEarly == timer' = (timer \/ SliceDue)
\* Called last, of the state the handler leaves.
Schedule == timer' = (timer \/ SliceDue')

Publish(next) ==
  IF next.epoch < epochSeen
    THEN UNCHANGED count
    ELSE counted' = next /\ epochSeen' = next.epoch
PublishNull == counted' = NoCount /\ UNCHANGED epochSeen

Pump ==
  /\ timer
  /\ timer' = FALSE
  /\ IF SliceDue
       THEN /\ owed' = FALSE /\ slicing' = TRUE
            /\ inbox' = Append(inbox, "slice")
       ELSE UNCHANGED <<owed, slicing, inbox>>
  /\ UNCHANGED <<live, closed, counting, more, broken, count, asking, worker, outbox, bounds>>

----------------------------------------------------------------------------
(* A worker goes away: everything on it is rejected, and the count with it. *)

\* The calls not settled; rejected, each counts itself out.
Waiting == CountIn(inbox, Calls) + CountIn(outbox, AnswersTo(Calls))

Drop ==
  /\ live' = FALSE
  /\ inbox' = <<>> /\ outbox' = <<>>
  /\ asking' = asking - Waiting
  /\ slicing' = FALSE
  /\ owed' = FALSE /\ more' = FALSE /\ broken' = FALSE
  /\ counted' = NoCount /\ epochSeen' = 0
  /\ session' = FALSE /\ cursor' = NoCount /\ epoch' = 0

\* The worker's error event, or its owner's cancel.
EngineLost ==
  /\ live /\ mishaps < MaxMishaps
  /\ mishaps' = mishaps + 1
  /\ Drop
  /\ UNCHANGED <<closed, counting, timer, restarts>>

Dispose ==
  /\ ~closed
  /\ closed' = TRUE
  /\ timer' = FALSE
  /\ IF live THEN Drop
             ELSE UNCHANGED <<live, queues, asking, slicing, owed, more, broken, count, worker>>
  /\ UNCHANGED <<counting, bounds>>

----------------------------------------------------------------------------
(* What the dialog asks.                                                   *)

Room == Len(inbox) + Len(outbox) < MaxCalls

Post(kind) ==
  /\ ~closed /\ Room
  /\ live' = TRUE
  /\ asking' = asking + 1
  /\ inbox' = Append(inbox, kind)
  /\ restarts' = restarts + (IF kind \in {"open", "change"} THEN 1 ELSE 0)
  /\ restarts' <= MaxRestarts

Ask(kind) ==
  /\ Post(kind)
  /\ UNCHANGED <<closed, pump, count, worker, outbox, mishaps>>

TurnOff ==
  /\ IF counting
       THEN counting' = FALSE /\ owed' = FALSE /\ more' = FALSE /\ timer' = FALSE /\ PublishNull
       ELSE UNCHANGED <<counting, owed, more, timer, count>>
  /\ UNCHANGED <<slicing, broken>>

\* The dialog opens with the count off, until the open says how much there is.
Open ==
  /\ Post("open")
  /\ TurnOff
  /\ UNCHANGED <<closed, worker, outbox, mishaps>>

StopCounting ==
  /\ counting
  /\ TurnOff
  /\ UNCHANGED <<live, closed, asking, worker, queues, bounds>>

Opening == \/ \E i \in 1..Len(inbox) : inbox[i] = "open"
           \/ \E i \in 1..Len(outbox) : outbox[i].kind = "open"

\* The dialog turns the count on once an open or a commit has answered.
StartCounting ==
  /\ ~counting /\ ~Opening
  /\ counting' = TRUE /\ broken' = FALSE /\ owed' = TRUE
  /\ UNCHANGED <<live, closed, slicing, more, count, asking, worker, queues, bounds>>
  /\ Schedule

----------------------------------------------------------------------------
(* The worker serves the calls in order, until its engine traps.           *)

Poisoned == \E i \in 1..Len(outbox) : outbox[i].result = "trapped"

Serve(kind, result, of) ==
  /\ inbox # <<>> /\ Head(inbox) = kind /\ ~Poisoned
  /\ inbox' = Tail(inbox)
  /\ outbox' = Append(outbox, [kind |-> kind, result |-> result, count |-> of])
  /\ UNCHANGED <<live, closed, pump, count, asking, restarts>>

\* The session's cursor, started if there is none.
NextCursor == IF cursor = NoCount THEN [epoch |-> epoch + 1, left |-> CountLength] ELSE cursor
Counting(slices) == [NextCursor EXCEPT !.left = IF @ > slices THEN @ - slices ELSE 0]
StartCursor(slices) == cursor' = Counting(slices) /\ epoch' = NextCursor.epoch

\* A refusal is an answer too, and the session before it is closed all the same.
ServeOpen ==
  /\ session' \in BOOLEAN /\ cursor' = NoCount
  /\ Serve("open", "restarted", NoCount)
  /\ UNCHANGED <<epoch, mishaps>>

\* A commit, or a restore on the session, that lands counts other constraints
\* from now on; a show to the same constraints keeps the cursor.
ServeChange ==
  \/ /\ session /\ cursor' \in {cursor, NoCount}
     /\ Serve("change", "restarted", NoCount)
     /\ UNCHANGED <<session, epoch, mishaps>>
  \/ /\ Serve("change", IF session THEN "answered" ELSE "failed", NoCount)
     /\ UNCHANGED <<worker, mishaps>>

\* A step may count on.
ServeStep ==
  \/ /\ session /\ \E slices \in {0, 1} : StartCursor(slices)
     /\ Serve("step", "answered", NoCount)
     /\ UNCHANGED <<session, mishaps>>
  \/ /\ ~session /\ Serve("step", "failed", NoCount)
     /\ UNCHANGED <<worker, mishaps>>

ServeQuestion ==
  /\ Serve("question", IF session THEN "answered" ELSE "failed", NoCount)
  /\ UNCHANGED <<worker, mishaps>>

ServeSlice ==
  \/ /\ session /\ StartCursor(1)
     /\ Serve("slice", "answered", Counting(1))
     /\ UNCHANGED <<session, mishaps>>
  \/ /\ ~session /\ Serve("slice", "nothing", NoCount)
     /\ UNCHANGED <<worker, mishaps>>

\* A call throws: an envelope, or a trap, after which the worker serves nothing.
\* An open has closed the session by then, and a cursor may have been started;
\* its number is taken though the start throws.
ServeBadly ==
  /\ mishaps < MaxMishaps
  /\ mishaps' = mishaps + 1
  /\ \E kind \in Kinds, result \in {"failed", "trapped"} : Serve(kind, result, NoCount)
  /\ IF Head(inbox) = "open" THEN session' = FALSE /\ cursor' = NoCount /\ UNCHANGED epoch
     ELSE IF Head(inbox) \in {"step", "slice"} /\ session
       THEN cursor' \in {cursor, Counting(0)} /\ epoch' = NextCursor.epoch /\ UNCHANGED session
       ELSE UNCHANGED worker

Work == ServeOpen \/ ServeChange \/ ServeStep \/ ServeQuestion \/ ServeSlice \/ ServeBadly

----------------------------------------------------------------------------
(* The answers are read in order.                                          *)

Heard(kinds, results) ==
  /\ outbox # <<>> /\ Head(outbox).kind \in kinds /\ Head(outbox).result \in results

\* Fault: the restart publishes nothing.
RestartKept == UNCHANGED <<broken, count>>
\* What a restart does to the count.
Restart == broken' = FALSE /\ PublishNull

HearCall ==
  /\ Heard(Calls, Results \ {"trapped"})
  /\ outbox' = Tail(outbox)
  /\ owed' = (owed \/ Head(outbox).result # "failed")
  /\ asking' = asking - 1
  /\ IF Head(outbox).result = "restarted" THEN Restart ELSE UNCHANGED <<broken, count>>
  /\ UNCHANGED <<live, closed, counting, slicing, more, worker, inbox, bounds>>
  /\ Schedule

\* Whether a slice's answer still matters.
IsNews == counting

HearSlice ==
  /\ Heard({"slice"}, {"answered", "nothing", "failed"})
  /\ outbox' = Tail(outbox)
  /\ slicing' = FALSE
  /\ LET answer == Head(outbox) IN
       IF ~IsNews THEN UNCHANGED <<more, broken, count>>
       ELSE IF answer.result = "answered"
         THEN Publish(answer.count) /\ more' = (answer.count.left > 0) /\ UNCHANGED broken
         ELSE PublishNull /\ more' = FALSE /\ broken' = (broken \/ answer.result = "failed")
  /\ UNCHANGED <<live, closed, counting, owed, asking, worker, inbox, bounds>>
  /\ Schedule

HearTrap ==
  /\ Heard(Kinds, {"trapped"})
  /\ Drop
  /\ UNCHANGED <<closed, counting, timer, bounds>>

Hear == HearCall \/ HearSlice \/ HearTrap

----------------------------------------------------------------------------

Next ==
  \/ \E kind \in Calls \ {"open"} : Ask(kind)
  \/ Open \/ StartCounting \/ StopCounting \/ Dispose \/ EngineLost
  \/ Pump \/ Work \/ Hear

Spec == Init /\ [][Next]_vars

\* A live worker answers, its answers are read, and a timer fires.
FairSpec == Spec /\ WF_vars(Work) /\ WF_vars(Hear) /\ WF_vars(Pump)

----------------------------------------------------------------------------
(* Properties.                                                             *)

Slices == CountIn(inbox, {"slice"}) + CountIn(outbox, AnswersTo({"slice"}))

\* The pump knows what is under way, over losses and traps too: `asking` is
\* exactly the calls not settled, and there is a slice on its way exactly while
\* `slicing`, never two (layerOrderRuntime.ts:43-45).
PumpKnowsItsQueue == asking = Waiting /\ Slices = IF slicing THEN 1 ELSE 0

\* No wake-up is lost: whenever a slice is due, the pump is armed, or a call is
\* under way whose answer will arm it (schedule's callers, 414-417 and 432-435).
PumpIsArmed == SliceDue => timer \/ asking > 0

\* While the count is off it reads null and no pump is armed, whatever slice is
\* still in the worker (setCounting, 190-192).
OffIsQuiet == ~counting => counted = NoCount /\ ~timer

OfItsCursor(c) == session /\ c.epoch = cursor.epoch /\ c.left >= cursor.left

\* What is published is of the session open and of its present constraints, and
\* not ahead of the cursor, or the answer that publishes null is on its way
\* (the header, 46-50; count, 199-202).
CountIsOfItsCursor ==
  counted # NoCount =>
    \/ OfItsCursor(counted)
    \/ \E i \in 1..Len(outbox) : outbox[i].result = "restarted"
    \/ Poisoned

\* A count that is on is finished again and again, however many calls keep
\* coming: "a stream of previews never starves the count" (46-47).
CountFinishes ==
  []<>(~counting \/ closed \/ ~session \/ broken \/ (counted # NoCount /\ counted.left = 0))
============================================================================
