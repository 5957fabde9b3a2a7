---------------------------- MODULE FoldRuntime ----------------------------
(***************************************************************************)
(* The Fold engine's worker and the handles into it:                       *)
(* apps/web/src/store/workspaceStore/foldSequenceRuntime.ts (one worker,   *)
(* counted references, a generation that moves when a worker goes),        *)
(* fold/engine/foldEnginePort.ts (handles stamped with a generation,       *)
(* releases batched per microtask) and workers/foldSequenceWorker.ts (one  *)
(* changing call at a time, in the order they came; after a trap none).    *)
(*                                                                         *)
(* One element of Calls is one call of the port, a sheet or a step.  The   *)
(* state it lands is named after it; `id` is the number the engine gave    *)
(* that state, and every engine numbers its states from 1.                 *)
(***************************************************************************)
EXTENDS Integers, Sequences

CONSTANTS
  Calls,      \* the sheets and steps that may be asked, each once (a bound)
  NoCall,     \* no call: the parent of a sheet
  MaxRefs,    \* references held at once (a bound)
  MaxLosses   \* workers lost before the last is retained (a bound)

ASSUME NoCallAssumption == NoCall \notin Calls
ASSUME BoundsAssumption == MaxRefs \in Nat \ {0} /\ MaxLosses \in Nat

VARIABLES
  refCount,    \* references to the worker
  alive,       \* there is a worker
  generation,  \* moves when a worker goes
  pc,          \* per call, what has come of it
  parent,      \* per call, the call whose state it folds from
  stamp,       \* per call, the generation it was asked under
  id,          \* per call, the number of the state it landed, 0 before
  owned,       \* the calls whose state the caller holds
  inbox,       \* the worker's messages, oldest first
  table,       \* the engine's states: per number, the call that landed it
  poisoned,    \* the engine trapped and answers nothing more
  trapped,     \* the calls answered fold_engine_trapped, answer not yet read
  batch,       \* foldEnginePort's `releasing`: the generation and the numbers
  flushes      \* flushes queued as microtasks

engine == <<inbox, table, poisoned>>
releases == <<batch, flushes>>
vars == <<refCount, alive, generation, pc, parent, stamp, id, owned,
          inbox, table, poisoned, trapped, batch, flushes>>

\* What comes of a call: `unheld` was asked by nobody who retained the client.
Fates == {"unused", "asked", "landed", "refused", "lost", "state_lost", "unheld", "unknown_state"}

Ids == 1..Len(table)
NoBatch == [generation |-> -1, ids |-> {}]
Step(c) == [call |-> c, ids |-> {}]
Release(ids) == [call |-> NoCall, ids |-> ids]

TypeOK ==
  /\ refCount \in Nat
  /\ alive \in BOOLEAN
  /\ generation \in Nat
  /\ pc \in [Calls -> Fates]
  /\ parent \in [Calls -> Calls \cup {NoCall}]
  /\ stamp \in [Calls -> Nat]
  /\ id \in [Calls -> Nat]
  /\ owned \in SUBSET Calls
  /\ inbox \in Seq([call : Calls \cup {NoCall}, ids : SUBSET Nat])
  /\ table \in Seq(Calls \cup {NoCall})
  /\ poisoned \in BOOLEAN
  /\ trapped \in SUBSET Calls
  /\ batch \in [generation : Nat \cup {-1}, ids : SUBSET Nat]
  /\ flushes \in Nat

Init ==
  /\ refCount = 0 /\ alive = FALSE /\ generation = 0
  /\ pc = [c \in Calls |-> "unused"]
  /\ parent = [c \in Calls |-> NoCall]
  /\ stamp = [c \in Calls |-> 0]
  /\ id = [c \in Calls |-> 0]
  /\ owned = {}
  /\ inbox = <<>> /\ table = <<>> /\ poisoned = FALSE
  /\ trapped = {}
  /\ batch = NoBatch /\ flushes = 0

\* retainFoldSequenceClient.
Retain ==
  /\ refCount < MaxRefs /\ generation <= MaxLosses
  /\ refCount' = refCount + 1
  /\ alive' = TRUE
  /\ UNCHANGED <<generation, pc, parent, stamp, id, owned, engine, trapped, releases>>

\* Fault: the calls under way are left to a worker that will not answer.
LostUnguarded(fates) == fates

\* whileFoldSequenceClientAlive: every call under way hears that the worker went.
Lost(fates) == [c \in Calls |-> IF fates[c] = "asked" THEN "lost" ELSE fates[c]]

\* The listeners are those subscribed when the loss is announced, so a call that one
\* of them makes in answer to it is no longer told.
FateOfNewCall == "asked"

\* dropWorker, and what the session's listener may do at once: ask again, a sheet,
\* for which a new worker is spawned if anybody holds a reference.
DropWorker ==
  /\ generation' = generation + 1
  /\ table' = <<>>
  /\ poisoned' = FALSE
  /\ \/ /\ alive' = FALSE
        /\ inbox' = <<>>
        /\ pc' = Lost(pc)
        /\ UNCHANGED <<parent, stamp>>
     \/ /\ refCount' > 0
        /\ \E c \in Calls :
             /\ pc[c] = "unused"
             /\ pc' = [Lost(pc) EXCEPT ![c] = FateOfNewCall]
             /\ parent' = [parent EXCEPT ![c] = NoCall]
             /\ stamp' = [stamp EXCEPT ![c] = generation']
             /\ inbox' = <<Step(c)>>
        /\ alive' = TRUE
  /\ UNCHANGED <<id, owned, releases>>

\* The reference let go of is the last.
IsLastReference == refCount = 1

\* releaseFoldSequenceClient.
ReleaseClient ==
  /\ refCount > 0
  /\ refCount' = refCount - 1
  /\ trapped' = trapped
  /\ IF IsLastReference /\ alive
       THEN DropWorker
       ELSE UNCHANGED <<alive, generation, pc, parent, stamp, id, owned, engine, releases>>

\* The worker's `error` event.  A worker's listeners go when it does, so the event is
\* of the worker that is running.
WorkerError ==
  /\ alive /\ flushes = 0
  /\ UNCHANGED <<refCount, trapped>>
  /\ DropWorker

\* A step of a state of another generation is turned away (foldStateLostError).
StepLost(c, p) ==
  /\ pc' = [pc EXCEPT ![c] = "state_lost"]
  /\ UNCHANGED <<alive, inbox, stamp>>

\* askFoldSequenceClient: to a worker spawned now if there is none.
Posted(c) ==
  IF alive \/ refCount > 0
    THEN /\ alive' = TRUE
         /\ inbox' = Append(inbox, Step(c))
         /\ pc' = [pc EXCEPT ![c] = "asked"]
         /\ stamp' = [stamp EXCEPT ![c] = generation]
    ELSE /\ pc' = [pc EXCEPT ![c] = "unheld"]
         /\ UNCHANGED <<alive, inbox, stamp>>

\* Fault: a handle's generation is not looked at.
AskUnstamped(c, p) ==
  /\ pc[c] = "unused"
  /\ p \in owned \cup {NoCall}
  /\ parent' = [parent EXCEPT ![c] = p]
  /\ Posted(c)
  /\ UNCHANGED <<refCount, generation, id, owned, table, poisoned, trapped, releases>>

\* The port's sheet (no parent) and step.
Ask(c, p) ==
  /\ pc[c] = "unused"
  /\ p \in owned \cup {NoCall}
  /\ parent' = [parent EXCEPT ![c] = p]
  /\ IF p # NoCall /\ stamp[p] # generation THEN StepLost(c, p) ELSE Posted(c)
  /\ UNCHANGED <<refCount, generation, id, owned, table, poisoned, trapped, releases>>

\* The engine holds the state a step folds from.
HoldsParent(c) ==
  IF parent[c] = NoCall THEN TRUE
  ELSE id[parent[c]] \in Ids /\ table[id[parent[c]]] = parent[c]

\* The worker answers the oldest message, a sheet or a step: it lands, the engine
\* refuses it, or the engine traps.  Once trapped it answers only that.
Answer(c) ==
  /\ inbox # <<>> /\ flushes = 0
  /\ Head(inbox) = Step(c)
  /\ inbox' = Tail(inbox)
  /\ \/ /\ ~poisoned /\ HoldsParent(c)
        /\ table' = Append(table, c)
        /\ id' = [id EXCEPT ![c] = Len(table) + 1]
        /\ pc' = [pc EXCEPT ![c] = "landed"]
        /\ owned' = owned \cup {c}
        /\ UNCHANGED <<poisoned, trapped>>
     \/ /\ ~poisoned
        /\ pc' = [pc EXCEPT ![c] = IF HoldsParent(c) THEN "refused" ELSE "unknown_state"]
        /\ UNCHANGED <<table, id, owned, poisoned, trapped>>
     \/ /\ poisoned' = TRUE
        /\ trapped' = trapped \cup {c}
        /\ UNCHANGED <<table, id, owned, pc>>
  /\ UNCHANGED <<refCount, alive, generation, parent, stamp, releases>>

\* The engine lets states go.
LetGo ==
  /\ inbox # <<>> /\ flushes = 0
  /\ Head(inbox).call = NoCall
  /\ inbox' = Tail(inbox)
  /\ table' = IF poisoned THEN table
              ELSE [n \in Ids |-> IF n \in Head(inbox).ids THEN NoCall ELSE table[n]]
  /\ UNCHANGED <<refCount, alive, generation, pc, parent, stamp, id, owned,
                 poisoned, trapped, releases>>

\* `worker === owner`: the answer is of the worker that is running.
FromOwner(c) == stamp[c] = generation

\* askFoldSequenceClient's catch reads a trapped answer, also of a call that has
\* already been told of the loss.
ReadTrap(c) ==
  /\ c \in trapped /\ flushes = 0
  /\ trapped' = trapped \ {c}
  /\ refCount' = refCount
  /\ IF alive /\ FromOwner(c)
       THEN DropWorker
       ELSE UNCHANGED <<alive, generation, pc, parent, stamp, id, owned, engine, releases>>

\* Fault: a new batch takes the place of the one that waits.
BatchReplaced(c) == [generation |-> stamp[c], ids |-> {id[c]}]

\* The batch after one more release: one of an older generation is dropped.
BatchWith(c) ==
  [generation |-> stamp[c],
   ids |-> IF batch.generation = stamp[c] THEN batch.ids \cup {id[c]} ELSE {id[c]}]

\* The port's release: nothing, for a state of another generation.
ReleaseState(c) ==
  /\ c \in owned
  /\ owned' = owned \ {c}
  /\ IF stamp[c] = generation
       THEN /\ batch' = BatchWith(c)
            /\ flushes' = IF batch.generation = stamp[c] THEN flushes ELSE flushes + 1
       ELSE UNCHANGED releases
  /\ UNCHANGED <<refCount, alive, generation, pc, parent, stamp, id, engine, trapped>>

\* Fault: a batch is sent whatever generation it is of.
SentAlways == batch # NoBatch

\* The batch is of the engine that is running.
Sent == batch # NoBatch /\ batch.generation = generation

Flush ==
  /\ flushes > 0
  /\ flushes' = flushes - 1
  /\ batch' = NoBatch
  /\ inbox' = IF Sent /\ alive THEN Append(inbox, Release(batch.ids)) ELSE inbox
  /\ UNCHANGED <<refCount, alive, generation, pc, parent, stamp, id, owned,
                 table, poisoned, trapped>>

Next ==
  \/ Retain
  \/ ReleaseClient
  \/ WorkerError
  \/ \E c \in Calls, p \in Calls \cup {NoCall} : Ask(c, p)
  \/ \E c \in Calls : Answer(c)
  \/ LetGo
  \/ \E c \in Calls : ReadTrap(c)
  \/ \E c \in Calls : ReleaseState(c)
  \/ Flush

Spec == Init /\ [][Next]_vars

\* The worker answers, its answers are read and microtasks run.
Fairness ==
  /\ WF_vars(\E c \in Calls : Answer(c))
  /\ WF_vars(LetGo)
  /\ WF_vars(\E c \in Calls : ReadTrap(c))
  /\ WF_vars(Flush)

FairSpec == Spec /\ Fairness

----------------------------------------------------------------------------
\* The numbers on their way out of the engine.
Leaving ==
  (UNION {inbox[i].ids : i \in 1..Len(inbox)})
    \cup (IF batch.generation = generation THEN batch.ids ELSE {})

\* Every state a caller holds of the running engine is in the engine under its number,
\* and no release on its way takes it, whichever engines and batches came before.
OwnedIsHeld ==
  \A c \in owned : stamp[c] = generation =>
    /\ id[c] \in Ids
    /\ table[id[c]] = c
    /\ id[c] \notin Leaving

\* A step in the queue folds from its parent's state: the engine holds it and no
\* release ahead of the step takes it.
FoldsFromItsParent ==
  \A i \in 1..Len(inbox) :
    LET c == inbox[i].call IN
    c # NoCall /\ parent[c] # NoCall =>
      /\ HoldsParent(c)
      /\ \A j \in 1..(i - 1) : id[parent[c]] \notin inbox[j].ids

\* An engine that works keeps no state nobody holds: it is owned or on its way out.
NothingLeaks ==
  ~poisoned => \A n \in Ids : table[n] \in Calls => table[n] \in owned \/ n \in Leaving

\* A call is told of a loss only when its own worker has gone.
OwnLossOnly == \A c \in Calls : pc[c] = "lost" => stamp[c] < generation

\* There is a worker only while somebody holds a reference.
WorkerIsHeld == alive => refCount > 0

\* A trapped answer ends the worker it came from and no other.
OwnTrapOnly ==
  [][\A c \in Calls : ReadTrap(c) /\ generation' # generation => poisoned]_vars

\* A call under way is settled: answered, or told that its worker went.
EveryCallSettles == \A c \in Calls : pc[c] = "asked" ~> pc[c] # "asked"
============================================================================
