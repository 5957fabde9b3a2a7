----------------------------- MODULE FoldReplay -----------------------------
(***************************************************************************)
(* apps/web/src/fold/document/foldReplay.ts: every node's state, derived   *)
(* by replaying a document against the engine, cached by path, shared by   *)
(* the runs that overlap, and let go of when nobody needs it; with what    *)
(* fold/session/foldSession.ts does to it: runs that supersede each other, *)
(* a run cancelled when the last surface goes, everything forgotten when   *)
(* the engine is lost.                                                     *)
(*                                                                         *)
(* A path stands for the steps from the sheet to a node.  A document is    *)
(* the sequence of its paths in replay order.  A landed state is named     *)
(* after the engine call that landed it.                                   *)
(***************************************************************************)
EXTENDS Integers, Sequences, FiniteSets, SequencesExt

CONSTANTS
  Paths,      \* the paths there may be, Sheet among them
  Sheet,      \* the path of the flat sheet
  Parent,     \* [Paths \ {Sheet} -> Paths]
  Locked,     \* the paths whose own step this build cannot read
  Refused,    \* the paths the engine refuses to fold
  Documents,  \* the documents to replay: sequences of paths, parents first
  Runs,       \* the calls of `run`, numbered as they start (a bound)
  Capacity,   \* states kept beyond those of the newest finished run
  MaxCalls    \* engine calls (a bound)

ASSUME PathsAssumption == Sheet \in Paths /\ Parent \in [Paths \ {Sheet} -> Paths]

\* Every path comes down from the sheet: a parent is less deep.
ASSUME TreeAssumption ==
  /\ IsFiniteSet(Paths)
  /\ \E depth \in [Paths -> 0..Cardinality(Paths)] :
       \A p \in Paths \ {Sheet} : depth[Parent[p]] < depth[p]

\* Every replay begins with the sheet.
ASSUME DocumentsAssumption ==
  \A d \in Documents : d \in Seq(Paths) /\ d # <<>> /\ d[1] = Sheet

ASSUME BoundsAssumption == Runs \subseteq Nat /\ Capacity \in Nat /\ MaxCalls \in Nat

VARIABLES
  cache,     \* what was made of a path, least recently used first
  pinned,    \* the paths of the newest finished run
  inFlight,  \* per path, the engine call under way, 0 when none
  epoch,     \* moved by `clear`
  newest,    \* `generation`: the ticket of the newest run
  running,   \* runs that have not returned
  calls,     \* the engine calls: path, epoch, the state folded from, what came of it
  held,      \* the states the engine holds
  pc,        \* per run, where it stands
  ticket,    \* per run, its ticket
  doc,       \* per run, the document it replays
  at,        \* per run, the position it awaits
  answer,    \* per run, what it awaits: a call, or an outcome from the cache
  outcome,   \* per run and path, what was made of it
  shown      \* the progress last reported: per path, what was made of it

replayer == <<cache, pinned, inFlight, epoch, newest, running>>
run == <<pc, ticket, doc, at, answer, outcome>>
vars == <<replayer, calls, held, run, shown>>

States == 1..MaxCalls
RefusedOutcome == 0
Unknown == -1    \* not replayed, or never asked of the engine
Outcomes == States \cup {RefusedOutcome, Unknown}
Unreplayed == [p \in Paths |-> Unknown]
NoAnswer == [call |-> 0, made |-> Unknown]

Init ==
  /\ cache = <<>> /\ pinned = {}
  /\ inFlight = [p \in Paths |-> 0]
  /\ epoch = 0 /\ newest = 0 /\ running = 0
  /\ calls = <<>> /\ held = {}
  /\ pc = [r \in Runs |-> "unused"]
  /\ ticket = [r \in Runs |-> 0]
  /\ doc = [r \in Runs |-> <<>>]
  /\ at = [r \in Runs |-> 0]
  /\ answer = [r \in Runs |-> NoAnswer]
  /\ outcome = [r \in Runs |-> Unreplayed]
  /\ shown = Unreplayed

----------------------------------------------------------------------------
\* ReplayCache.

Cached(c) == {c[i].path : i \in DOMAIN c}
Made(c, p) == (CHOOSE e \in ToSet(c) : e.path = p).made
Without(c, ps) ==
  LET kept[i \in 0..Len(c)] ==
        IF i = 0 THEN <<>>
        ELSE IF c[i].path \in ps THEN kept[i - 1] ELSE Append(kept[i - 1], c[i])
  IN kept[Len(c)]
StatesOf(c, ps) == {Made(c, p) : p \in Cached(c) \cap ps} \cap States

\* Fault: the newest finished run's states are as good to let go as any.
EvictedUnpinned(c, pins) ==
  {c[i].path : i \in {i \in DOMAIN c : i <= Len(c) - Capacity}}

\* `trim`: the least recently used of the paths not pinned, beyond the capacity.
Evicted(c, pins) ==
  LET loose == {i \in DOMAIN c : c[i].path \notin pins}
      excess == Cardinality(loose) - Capacity
  IN {c[i].path : i \in {i \in loose : Cardinality({j \in loose : j <= i}) <= excess}}

\* Fault: the cache is trimmed whenever a run ends.
TrimDueAlways == TRUE

\* The run that ends is the only one under way.
TrimDue == running = 1

\* The run ends: `pin` what it touched if it finished, and trim when no run is left.
Ended(c, pins) ==
  /\ running' = running - 1
  /\ pinned' = pins
  /\ LET gone == IF TrimDue THEN Evicted(c, pins) ELSE {} IN
       /\ cache' = Without(c, gone)
       /\ held' = held \ StatesOf(c, gone)

----------------------------------------------------------------------------
\* `run`.

Above[p \in Paths] == IF p = Sheet THEN {} ELSE {Parent[p]} \cup Above[Parent[p]]

\* inheritedStatus: the first broken or locked node on the path decides for what is
\* below it, and none of it is asked of the engine.
Inherits(out, p) == \E q \in Above[p] \cup {p} : q \in Locked \/ (q # p /\ out[q] = RefusedOutcome)

\* The next position after i to ask for, 0 when the rest inherits its status.
NextAt(d, i, out) ==
  LET open == {j \in (i + 1)..Len(d) : ~Inherits(out, d[j])} IN
  IF open = {} THEN 0 ELSE CHOOSE j \in open : \A k \in open : j <= k

FoldedFrom(out, p) == IF p = Sheet THEN 0 ELSE out[Parent[p]]

\* A call of the port, by the path it folds.
NewCall(out, p) ==
  /\ Len(calls) < MaxCalls
  /\ calls' = Append(calls, [path |-> p, epoch |-> epoch, from |-> FoldedFrom(out, p),
                             fate |-> "asked", made |-> Unknown])
  /\ inFlight' = [inFlight EXCEPT ![p] = Len(calls) + 1]

\* Fault: a call another run made is not shared.
AwaitUnshared(r, out, p) ==
  IF p \in Cached(cache)
    THEN /\ cache' = Append(Without(cache, {p}), [path |-> p, made |-> Made(cache, p)])
         /\ answer' = [answer EXCEPT ![r] = [call |-> 0, made |-> Made(cache, p)]]
         /\ UNCHANGED <<inFlight, calls>>
    ELSE /\ NewCall(out, p)
         /\ answer' = [answer EXCEPT ![r] = [call |-> Len(calls'), made |-> Unknown]]
         /\ UNCHANGED cache

\* `outcomeOf`: from the cache, from a call under way, or from the engine.
Await(r, out, p) ==
  IF p \in Cached(cache)
    THEN /\ cache' = Append(Without(cache, {p}), [path |-> p, made |-> Made(cache, p)])
         /\ answer' = [answer EXCEPT ![r] = [call |-> 0, made |-> Made(cache, p)]]
         /\ UNCHANGED <<inFlight, calls>>
    ELSE /\ IF inFlight[p] # 0 THEN UNCHANGED <<inFlight, calls>> ELSE NewCall(out, p)
         /\ answer' = [answer EXCEPT ![r] = [call |-> inFlight'[p], made |-> Unknown]]
         /\ UNCHANGED cache

StartedRunning == running + 1

Start(r, d) ==
  /\ pc[r] = "unused" /\ \A q \in Runs : q < r => pc[q] # "unused"
  /\ newest' = newest + 1
  /\ running' = StartedRunning
  /\ pc' = [pc EXCEPT ![r] = "awaiting"]
  /\ ticket' = [ticket EXCEPT ![r] = newest + 1]
  /\ doc' = [doc EXCEPT ![r] = d]
  /\ at' = [at EXCEPT ![r] = 1]
  /\ Await(r, Unreplayed, Sheet)
  /\ UNCHANGED <<pinned, epoch, held, outcome, shown>>

\* No run started, and nothing was cancelled or cleared, since this run started.
Current(r) == ticket[r] = newest

\* Fault: a run does not hear that its call was rejected.
SettledIfAnswered(r) == answer[r].call # 0 => calls[answer[r].call].fate = "answered"

\* What the run awaits has come.
Settled(r) ==
  answer[r].call # 0 => calls[answer[r].call].fate \in {"answered", "failed"}
Failed(r) == answer[r].call # 0 /\ calls[answer[r].call].fate = "failed"
AnswerOf(r) == IF answer[r].call = 0 THEN answer[r].made ELSE calls[answer[r].call].made

\* What the run has made of its document with the answer it takes.
WithAnswer(r) == [outcome[r] EXCEPT ![doc[r][at[r]]] = AnswerOf(r)]

\* The run returns: its variables go.
Return(r) ==
  /\ pc' = [pc EXCEPT ![r] = "returned"]
  /\ ticket' = [ticket EXCEPT ![r] = 0]
  /\ doc' = [doc EXCEPT ![r] = <<>>]
  /\ at' = [at EXCEPT ![r] = 0]
  /\ answer' = [answer EXCEPT ![r] = NoAnswer]
  /\ outcome' = [outcome EXCEPT ![r] = Unreplayed]

\* A run that is no longer current reports nothing more.
Supersede(r) ==
  /\ pc[r] = "awaiting" /\ Settled(r) /\ ~Current(r)
  /\ Return(r)
  /\ Ended(cache, pinned)
  /\ UNCHANGED <<inFlight, epoch, newest, calls, shown>>

\* Fault: what was cached outlives the engine.
ClearKeepingCache ==
  /\ newest' = newest + 1
  /\ epoch' = epoch + 1
  /\ inFlight' = [p \in Paths |-> 0]
  /\ UNCHANGED cache
  /\ pinned' = {}
  /\ shown' = Unreplayed

\* `clear`: every state is forgotten, and let go of in the engine that is running.
Clear ==
  /\ newest' = newest + 1
  /\ epoch' = epoch + 1
  /\ inFlight' = [p \in Paths |-> 0]
  /\ cache' = <<>>
  /\ pinned' = {}
  /\ shown' = Unreplayed

\* The port rejected the current run's call.  The session says so, or, when the engine
\* did not know the state, forgets every state and replays (`reland`).
RunFails(r) ==
  /\ pc[r] = "awaiting" /\ Failed(r) /\ Current(r)
  /\ Return(r)
  /\ \/ Ended(cache, pinned) /\ UNCHANGED <<inFlight, epoch, newest, shown>>
     \/ Clear /\ running' = running - 1 /\ held' = held \ StatesOf(cache, Paths)
  /\ UNCHANGED calls

\* The run takes an answer and asks for the next node.
Advance(r) ==
  /\ pc[r] = "awaiting" /\ Settled(r) /\ ~Failed(r) /\ Current(r)
  /\ LET d == doc[r]
         out == WithAnswer(r)
         next == NextAt(d, at[r], out)
     IN
       /\ next # 0
       /\ outcome' = [outcome EXCEPT ![r] = out]
       /\ shown' = IF answer[r].call = 0 THEN shown ELSE out
       /\ at' = [at EXCEPT ![r] = next]
       /\ Await(r, out, d[next])
  /\ UNCHANGED <<pinned, epoch, newest, running, held, pc, ticket, doc>>

\* The run takes its last answer: it reports, and pins what it touched.
Finish(r) ==
  /\ pc[r] = "awaiting" /\ Settled(r) /\ ~Failed(r) /\ Current(r)
  /\ NextAt(doc[r], at[r], WithAnswer(r)) = 0
  /\ shown' = WithAnswer(r)
  /\ Ended(cache, {p \in Paths : WithAnswer(r)[p] # Unknown})
  /\ Return(r)
  /\ UNCHANGED <<inFlight, epoch, newest, calls>>

\* `cancel`: the last surface let go of the session.
Cancel ==
  /\ \E r \in Runs : pc[r] = "awaiting" /\ Current(r)
  /\ newest' = newest + 1
  /\ UNCHANGED <<cache, pinned, inFlight, epoch, running, calls, held, run, shown>>

----------------------------------------------------------------------------
\* The port.

Asked == {n \in DOMAIN calls : calls[n].fate = "asked"}

\* The table of calls under way after call n is settled, unless it was cleared since.
InFlightWithout(n) ==
  IF calls[n].epoch = epoch THEN [inFlight EXCEPT ![calls[n].path] = 0] ELSE inFlight

\* The engine answers in the order it was asked.
Answer(n) ==
  /\ n \in Asked /\ \A m \in Asked : n <= m
  /\ calls[n].from \in held \cup {0}
  /\ LET p == calls[n].path
         made == IF p \in Refused THEN RefusedOutcome ELSE n
     IN
       /\ calls' = [calls EXCEPT ![n].fate = "answered", ![n].made = made]
       /\ IF calls[n].epoch = epoch
            THEN /\ cache' = Append(Without(cache, {p}), [path |-> p, made |-> made])
                 /\ held' = (held \ StatesOf(cache, {p})) \cup ({made} \cap States)
            ELSE /\ held' = held \cup ({made} \cap States)
                 /\ cache' = cache
  /\ inFlight' = InFlightWithout(n)
  /\ UNCHANGED <<pinned, epoch, newest, running, run, shown>>

\* The call is rejected: the engine's start failed, or it did not know the state.
Reject(n) ==
  /\ n \in Asked /\ \A m \in Asked : n <= m
  /\ calls' = [calls EXCEPT ![n].fate = "failed"]
  /\ inFlight' = InFlightWithout(n)
  /\ UNCHANGED <<cache, pinned, epoch, newest, running, held, run, shown>>

\* Every call under way is rejected when its engine goes (FoldRuntime).
Rejected ==
  [n \in DOMAIN calls |->
     IF calls[n].fate = "asked" THEN [calls[n] EXCEPT !.fate = "failed"] ELSE calls[n]]

\* The engine goes with all its states, and the session's listener clears at once.
EngineLost ==
  /\ held # {} \/ Asked # {}
  /\ held' = {}
  /\ calls' = Rejected
  /\ Clear
  /\ UNCHANGED <<running, run>>

Next ==
  \/ \E r \in Runs, d \in Documents : Start(r, d)
  \/ \E r \in Runs : Supersede(r)
  \/ \E r \in Runs : RunFails(r)
  \/ \E r \in Runs : Advance(r)
  \/ \E r \in Runs : Finish(r)
  \/ Cancel
  \/ \E n \in DOMAIN calls : Answer(n)
  \/ \E n \in DOMAIN calls : Reject(n)
  \/ EngineLost

Spec == Init /\ [][Next]_vars

\* The engine answers what it is asked, and a run goes on when its answer is there.
Fairness ==
  /\ WF_vars(\E n \in DOMAIN calls : Answer(n) \/ Reject(n))
  /\ \A r \in Runs : WF_vars(Supersede(r) \/ RunFails(r) \/ Advance(r) \/ Finish(r))

FairSpec == Spec /\ Fairness

----------------------------------------------------------------------------
\* The engine holds what is cached and nothing else: no state is leaked, and none is
\* served that the engine has let go of.
HeldIsCached == held = StatesOf(cache, Paths)

\* What a run still under way has in hand is held: no trim takes a state from under it.
RunsHoldTheirStates ==
  \A r \in Runs : pc[r] = "awaiting" /\ Current(r) =>
    ({outcome[r][p] : p \in Paths} \cup {answer[r].made}) \cap States \subseteq held

\* What the newest finished run touched stays cached until the next one finishes, and
\* whenever no run is under way the cache holds no more than the capacity besides.
CacheBounded ==
  /\ pinned \subseteq Cached(cache)
  /\ running = 0 => Cardinality(Cached(cache) \ pinned) <= Capacity

\* A path is never asked of the engine while it is cached or under way, by whichever
\* runs overlap.
AskedOnce ==
  \A n \in Asked : calls[n].epoch = epoch =>
    /\ calls[n].path \notin Cached(cache)
    /\ \A m \in Asked \ {n} : calls[m].epoch = epoch => calls[m].path # calls[n].path

\* Every run returns, finished, superseded or failed, unless the bound on calls stops it.
EveryRunReturns == running > 0 ~> running = 0 \/ Len(calls) = MaxCalls

=============================================================================
