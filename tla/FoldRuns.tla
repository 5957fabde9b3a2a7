------------------------------ MODULE FoldRuns ------------------------------
(***************************************************************************)
(* apps/web/src/store/workspaceStore/foldRuns.ts with lib/foldCancellation *)
(* and the cp worker: the folds a user can see and stop.  Every fold, of   *)
(* the Edit canvas or of a diagram's capture, is listed while it runs.     *)
(* The kernel cannot be asked to stop, since a fold is one call that holds *)
(* its thread: it reads a shared slot that names one run.  So a Stop is    *)
(* noted on the run, and the slot is aimed at the oldest run so noted,     *)
(* again each time a run ends.                                             *)
(*                                                                         *)
(* A run alternates between the page ("page"), calls queued in the kernel  *)
(* ("kernel") and work on the host engine ("host"), whose worker a stop    *)
(* signal terminates.  Its id is its place in work: ids are minted at      *)
(* dispatch and never reused.  The page shares memory with the worker, so  *)
(* every run can be stopped.                                               *)
(***************************************************************************)
EXTENDS Naturals, Sequences, FiniteSets

CONSTANTS MaxFolds,        \* folds ever begun (a bound)
          MaxEngineLosses  \* times the kernel's worker is lost (a bound)

ASSUME FoldBounds == MaxFolds \in Nat /\ MaxEngineLosses \in Nat

VARIABLES
  work,      \* per run, where its work is: "page", "kernel", "host", "stopped", "failed", "hung" or "over"
  listed,    \* the runs of oristudioCpFoldRuns
  stopping,  \* those a Stop has been noted on
  slot,      \* the shared cancel slot: a run's id, or 0
  calls,     \* the kernel's queue of calls, by run; it executes the first
  losses,    \* engine losses so far
  aborted    \* the runs whose stop signal was raised

foldVars == <<work, listed, stopping, slot, calls, losses, aborted>>

FoldTypeOK ==
  /\ work \in Seq({"page", "kernel", "host", "stopped", "failed", "hung", "over"})
  /\ listed \subseteq DOMAIN work
  /\ stopping \subseteq listed
  /\ slot \in {0} \cup DOMAIN work
  /\ calls \in Seq(DOMAIN work)
  /\ losses \in 0..MaxEngineLosses
  /\ aborted \subseteq DOMAIN work

FoldInit ==
  /\ work = <<>> /\ listed = {} /\ stopping = {} /\ slot = 0
  /\ calls = <<>> /\ losses = 0 /\ aborted = {}

Oldest(ids) == CHOOSE i \in ids : \A j \in ids : i <= j

\* aimFoldStopAtOldestPending: the slot names the oldest run noted, if any;
\* the noted runs' signals are aborted, which ends what the host engine does.
Aim(noted) == slot' = IF noted = {} THEN slot ELSE Oldest(noted)
Abort(noted, at) == [i \in DOMAIN at |-> IF i \in noted /\ at[i] = "host" THEN "stopped" ELSE at[i]]

----------------------------------------------------------------------------
\* withFoldInFlight, and the work it runs.

BeginFold ==
  /\ Len(work) < MaxFolds
  /\ work' = Append(work, "page")
  /\ listed' = listed \cup {Len(work) + 1}
  /\ UNCHANGED <<stopping, slot, calls, losses, aborted>>

CallKernel(i) ==
  /\ work[i] = "page"
  /\ work' = [work EXCEPT ![i] = "kernel"]
  /\ calls' = Append(calls, i)
  /\ UNCHANGED <<listed, stopping, slot, losses, aborted>>

\* A signal aborted already refuses the work at once.
CallHost(i) ==
  /\ work[i] = "page"
  /\ work' = [work EXCEPT ![i] = IF i \in aborted THEN "stopped" ELSE "host"]
  /\ UNCHANGED <<listed, stopping, slot, calls, losses, aborted>>

HostAnswers(i) ==
  /\ work[i] = "host"
  /\ \E to \in {"page", "failed"} : work' = [work EXCEPT ![i] = to]
  /\ UNCHANGED <<listed, stopping, slot, calls, losses, aborted>>

\* Fault: the slot is aimed at the next run listed, told to stop or not.
EndFoldAtNext(i) ==
  /\ work[i] \in {"page", "stopped", "failed"}
  /\ listed' = listed \ {i}
  /\ stopping' = stopping \ {i}
  /\ Aim(listed \ {i})
  /\ work' = Abort(stopping \ {i}, [work EXCEPT ![i] = "over"])
  /\ aborted' = aborted \ {i}
  /\ UNCHANGED <<calls, losses>>

\* Fault: the slot is left as the last Stop aimed it.
EndFoldUnaimed(i) ==
  /\ work[i] \in {"page", "stopped", "failed"}
  /\ listed' = listed \ {i}
  /\ stopping' = stopping \ {i}
  /\ work' = [work EXCEPT ![i] = "over"]
  /\ aborted' = aborted \ {i}
  /\ UNCHANGED <<slot, calls, losses>>

\* The finally: the run leaves the list and the slot is aimed at the next.
EndFold(i) ==
  /\ work[i] \in {"page", "stopped", "failed"}
  /\ listed' = listed \ {i}
  /\ stopping' = stopping \ {i}
  /\ Aim(stopping \ {i})
  /\ work' = Abort(stopping \ {i}, [work EXCEPT ![i] = "over"])
  /\ aborted' = aborted \ {i}
  /\ UNCHANGED <<calls, losses>>

----------------------------------------------------------------------------
\* The kernel: a call runs to its end, or to a checkpoint that finds its own
\* run in the slot.

KernelEnds(to) ==
  /\ calls # <<>>
  /\ work' = [work EXCEPT ![Head(calls)] = to]
  /\ calls' = Tail(calls)
  /\ UNCHANGED <<listed, stopping, slot, losses, aborted>>

KernelAnswers == \E to \in {"page", "failed"} : KernelEnds(to)
KernelStops == calls # <<>> /\ slot = Head(calls) /\ KernelEnds("stopped")

\* A lost worker settles no call: its runs hang, and the list is emptied.
LoseEngine ==
  /\ losses < MaxEngineLosses
  /\ losses' = losses + 1
  /\ work' = [i \in DOMAIN work |-> IF work[i] = "kernel" THEN "hung" ELSE work[i]]
  /\ calls' = <<>>
  /\ listed' = {} /\ stopping' = {}
  /\ UNCHANGED <<slot, aborted>>

----------------------------------------------------------------------------
\* stopFoldRun, for one run, and stopOristudioCpFolds, for all.

Stop(ids) ==
  /\ ids # {} /\ ids \subseteq listed
  /\ stopping' = stopping \cup ids
  /\ Aim(stopping \cup ids)
  /\ work' = Abort(stopping \cup ids, work)
  /\ aborted' = aborted \cup ids
  /\ UNCHANGED <<listed, calls, losses>>

StopFoldRun == \E i \in listed : Stop({i})
StopAllFolds == Stop(listed)

FoldNext ==
  \/ BeginFold
  \/ \E i \in DOMAIN work : CallKernel(i) \/ CallHost(i) \/ HostAnswers(i) \/ EndFold(i)
  \/ KernelAnswers \/ KernelStops \/ LoseEngine
  \/ StopFoldRun \/ StopAllFolds

FoldSpec == FoldInit /\ [][FoldNext]_foldVars

----------------------------------------------------------------------------
\* A Stop is for the runs it names: no run is stopped that nobody asked to
\* stop, however the one slot is aimed and aimed again as runs come and go
\* (foldCancellation.ts:21, ids are matched exactly).
OnlyTheAskedStop == \A i \in DOMAIN work : work[i] = "stopped" => i \in aborted

\* A Stop of several runs reaches each of them: the run the kernel executes
\* reads its own id in the slot if it was told to stop, unless an older run
\* told to stop is still live (foldRuns.ts:53, the transport names one run).
StopIsHeard ==
  calls # <<>> /\ Head(calls) \in stopping =>
    \/ slot = Head(calls)
    \/ slot \in stopping /\ slot < Head(calls)
=============================================================================
