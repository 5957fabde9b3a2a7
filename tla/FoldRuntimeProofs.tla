------------------------- MODULE FoldRuntimeProofs -------------------------
(***************************************************************************)
(* Theorems of FoldRuntime, for any number of calls, references and        *)
(* losses.  A stamp never runs ahead of the generation, so whatever was    *)
(* asked, landed or batched under an engine stops counting the moment the  *)
(* engine goes; within one engine the table and the handles name each      *)
(* other.                                                                  *)
(***************************************************************************)
EXTENDS FoldRuntime, TLAPS

\* Nothing is stamped with a generation still to come.
StampsAreOld ==
  /\ \A c \in Calls : stamp[c] <= generation
  /\ batch.generation <= generation

\* A state held was landed.
OwnedHasLanded == \A c \in owned : pc[c] = "landed"

\* A call in the queue is under way in this engine, and its parent's state has landed.
QueuedIsAsked ==
  \A i \in 1..Len(inbox) :
    LET c == inbox[i].call IN
    c # NoCall => /\ pc[c] = "asked"
                  /\ stamp[c] = generation
                  /\ parent[c] # NoCall => pc[parent[c]] = "landed"

QueuedOnce ==
  \A i, j \in 1..Len(inbox) :
    inbox[i].call # NoCall /\ inbox[i].call = inbox[j].call => i = j

\* A number on its way out was given by this engine.
LeavingIsGiven == Leaving \subseteq Ids

\* The engine's table and the handles name each other.
TableNamesHandles ==
  \A n \in Ids : table[n] \in Calls =>
    /\ id[table[n]] = n
    /\ stamp[table[n]] = generation
    /\ pc[table[n]] = "landed"

\* Without a worker there is nothing in one.
NoWorkerNoEngine == ~alive => inbox = <<>> /\ table = <<>>

\* A trapped answer of the running worker means that its engine is dead.
TrapPoisons ==
  \A c \in trapped : /\ pc[c] # "unused"
                     /\ stamp[c] = generation => poisoned

IInv ==
  /\ TypeOK
  /\ StampsAreOld /\ OwnedHasLanded
  /\ QueuedIsAsked /\ QueuedOnce
  /\ LeavingIsGiven /\ TableNamesHandles
  /\ NoWorkerNoEngine /\ TrapPoisons
  /\ OwnedIsHeld /\ FoldsFromItsParent /\ NothingLeaks
  /\ OwnLossOnly /\ WorkerIsHeld

\* The types of what is not a sequence.
LEMMA Types ==
  ASSUME TypeOK
  PROVE  /\ refCount \in Nat /\ alive \in BOOLEAN /\ generation \in Nat /\ flushes \in Nat
         /\ pc \in [Calls -> Fates] /\ parent \in [Calls -> Calls \cup {NoCall}]
         /\ stamp \in [Calls -> Nat] /\ id \in [Calls -> Nat]
         /\ owned \in SUBSET Calls /\ trapped \in SUBSET Calls
         /\ batch.generation \in Nat \cup {-1} /\ batch.ids \in SUBSET Nat
BY DEF TypeOK

LEMMA QueueTypes ==
  ASSUME TypeOK
  PROVE  /\ Len(inbox) \in Nat
         /\ \A i \in 1..Len(inbox) : inbox[i].call \in Calls \cup {NoCall} /\ inbox[i].ids \in SUBSET Nat
<1> DEFINE Message == [call : Calls \cup {NoCall}, ids : SUBSET Nat]
<1>1. inbox \in Seq(Message)
  BY DEF TypeOK
<1>2. \A m \in Message : m.call \in Calls \cup {NoCall} /\ m.ids \in SUBSET Nat
  OBVIOUS
<1> HIDE DEF Message
<1>3. Len(inbox) \in Nat /\ \A i \in 1..Len(inbox) : inbox[i] \in Message
  BY <1>1
<1> QED BY <1>2, <1>3

LEMMA InitIInv == Init => IInv
<1> SUFFICES ASSUME Init PROVE IInv
  OBVIOUS
<1> USE DEF Init
<1>1. TypeOK
  <2>1. NoBatch \in [generation : Nat \cup {-1}, ids : SUBSET Nat]
    BY DEF NoBatch
  <2>2. "unused" \in Fates
    BY DEF Fates
  <2>3. <<>> \in Seq([call : Calls \cup {NoCall}, ids : SUBSET Nat])
        /\ <<>> \in Seq(Calls \cup {NoCall})
    OBVIOUS
  <2> QED BY <2>1, <2>2, <2>3 DEF TypeOK
<1>2. Leaving = {}
  BY DEF Leaving, NoBatch
<1>3. StampsAreOld /\ OwnedHasLanded /\ QueuedIsAsked /\ QueuedOnce
  BY DEF StampsAreOld, OwnedHasLanded, QueuedIsAsked, QueuedOnce, NoBatch
<1>4. LeavingIsGiven /\ TableNamesHandles /\ NoWorkerNoEngine /\ TrapPoisons
  BY <1>2 DEF LeavingIsGiven, TableNamesHandles, NoWorkerNoEngine, TrapPoisons, Ids
<1>5. OwnedIsHeld /\ FoldsFromItsParent /\ NothingLeaks /\ OwnLossOnly /\ WorkerIsHeld
  BY DEF OwnedIsHeld, FoldsFromItsParent, NothingLeaks, OwnLossOnly, WorkerIsHeld, Ids
<1> QED BY <1>1, <1>3, <1>4, <1>5 DEF IInv

\* The worker goes: what is of its generation is of an older one now.
LEMMA DropWorkerIInv ==
  ASSUME IInv, DropWorker, alive, refCount' \in Nat, refCount' = 0 => ~alive',
         trapped' \subseteq trapped
  PROVE  IInv'
<1> USE NoCallAssumption
<1>1. generation' = generation + 1 /\ generation \in Nat /\ table' = <<>> /\ poisoned' = FALSE
  BY DEF DropWorker, IInv, TypeOK
<1>2. UNCHANGED <<id, owned, batch, flushes>>
  BY DEF DropWorker, releases
<1>3. StampsAreOld' /\ OwnedHasLanded' /\ QueuedIsAsked' /\ QueuedOnce'
  <2>1. CASE inbox' = <<>> /\ pc' = Lost(pc) /\ UNCHANGED <<parent, stamp>>
    BY <1>1, <1>2, <2>1 DEF IInv, TypeOK, StampsAreOld, OwnedHasLanded, QueuedIsAsked, QueuedOnce, Lost
  <2>2. ASSUME NEW c \in Calls, pc[c] = "unused",
               pc' = [Lost(pc) EXCEPT ![c] = "asked"],
               parent' = [parent EXCEPT ![c] = NoCall],
               stamp' = [stamp EXCEPT ![c] = generation'],
               inbox' = <<Step(c)>>
        PROVE  StampsAreOld' /\ OwnedHasLanded' /\ QueuedIsAsked' /\ QueuedOnce'
    BY <1>1, <1>2, <2>2 DEF IInv, TypeOK, StampsAreOld, OwnedHasLanded, QueuedIsAsked, QueuedOnce,
       Lost, Step
  <2> QED BY <2>1, <2>2 DEF DropWorker, FateOfNewCall
<1>4. TypeOK'
  <2>0. /\ pc \in [Calls -> Fates] /\ parent \in [Calls -> Calls \cup {NoCall}]
        /\ stamp \in [Calls -> Nat] /\ trapped \in SUBSET Calls
        /\ id \in [Calls -> Nat] /\ owned \in SUBSET Calls /\ flushes \in Nat
        /\ batch \in [generation : Nat \cup {-1}, ids : SUBSET Nat]
    BY DEF IInv, TypeOK
  <2>1. /\ id' \in [Calls -> Nat] /\ owned' \in SUBSET Calls /\ flushes' \in Nat
        /\ batch' \in [generation : Nat \cup {-1}, ids : SUBSET Nat]
    BY <1>2, <2>0, Zenon
  <2>2. /\ table' \in Seq(Calls \cup {NoCall}) /\ poisoned' \in BOOLEAN
        /\ trapped' \in SUBSET Calls /\ generation' \in Nat
    <3>1. <<>> \in Seq(Calls \cup {NoCall}) /\ generation' \in Nat
      BY <1>1
    <3> QED BY <1>1, <2>0, <3>1, Zenon
  <2>3. Lost(pc) \in [Calls -> Fates] /\ "asked" \in Fates
    <3>1. Lost(pc) = [c \in Calls |-> IF pc[c] = "asked" THEN "lost" ELSE pc[c]] /\ "lost" \in Fates
      BY DEF Lost, Fates
    <3> QED BY <2>0, <3>1 DEF Fates
  <2>4. /\ alive' \in BOOLEAN /\ pc' \in [Calls -> Fates]
        /\ parent' \in [Calls -> Calls \cup {NoCall}] /\ stamp' \in [Calls -> Nat]
    <3>1. CASE alive' = FALSE /\ pc' = Lost(pc) /\ UNCHANGED <<parent, stamp>>
      BY <3>1, <2>0, <2>3
    <3>2. ASSUME NEW c \in Calls, alive' = TRUE,
                 pc' = [Lost(pc) EXCEPT ![c] = "asked"],
                 parent' = [parent EXCEPT ![c] = NoCall],
                 stamp' = [stamp EXCEPT ![c] = generation']
          PROVE  /\ alive' \in BOOLEAN /\ pc' \in [Calls -> Fates]
                 /\ parent' \in [Calls -> Calls \cup {NoCall}] /\ stamp' \in [Calls -> Nat]
      BY <3>2, <2>0, <2>2, <2>3
    <3> QED BY <3>1, <3>2 DEF DropWorker, FateOfNewCall
  <2>5. inbox' \in Seq([call : Calls \cup {NoCall}, ids : SUBSET Nat])
    <3>1. \A c \in Calls : Step(c) \in [call : Calls \cup {NoCall}, ids : SUBSET Nat]
      BY DEF Step
    <3>2. inbox' = <<>> \/ \E c \in Calls : inbox' = <<Step(c)>>
      BY DEF DropWorker
    <3>3. \A S : <<>> \in Seq(S) /\ \A e \in S : <<e>> \in Seq(S)
      OBVIOUS
    <3> QED BY <3>1, <3>2, <3>3, Zenon
  <2> QED BY <2>1, <2>2, <2>4, <2>5 DEF TypeOK
<1>5. OwnedIsHeld' /\ OwnLossOnly' /\ TrapPoisons'
  <2>1. /\ \A c \in Calls : stamp[c] < generation'
        /\ \A c \in owned : pc[c] # "unused"
        /\ \A c \in trapped : pc[c] # "unused"
    BY <1>1 DEF IInv, TypeOK, StampsAreOld, OwnedHasLanded, TrapPoisons
  <2>2. \A c \in Calls : /\ pc[c] # "unused" => stamp'[c] = stamp[c] /\ pc'[c] # "unused"
                         /\ pc'[c] = "lost" => stamp'[c] = stamp[c]
    BY DEF IInv, TypeOK, DropWorker, Lost, FateOfNewCall
  <2> QED BY <1>1, <1>2, <2>1, <2>2 DEF IInv, TypeOK, OwnedIsHeld, OwnLossOnly, TrapPoisons
<1>6. LeavingIsGiven' /\ TableNamesHandles' /\ NoWorkerNoEngine' /\ NothingLeaks' /\ WorkerIsHeld'
  <2>1. Leaving' = {}
    BY <1>1, <1>2 DEF IInv, TypeOK, StampsAreOld, Leaving, DropWorker, Step
  <2> QED BY <1>1, <2>1 DEF LeavingIsGiven, TableNamesHandles, NoWorkerNoEngine, NothingLeaks,
     WorkerIsHeld, Ids, DropWorker, IInv, TypeOK
<1>7. FoldsFromItsParent'
  BY <1>1 DEF FoldsFromItsParent, DropWorker, Step, IInv, TypeOK
<1> QED BY <1>3, <1>4, <1>5, <1>6, <1>7 DEF IInv

\* Only the count changes, and a worker still has somebody to hold it.
LEMMA RefCountIInv ==
  ASSUME IInv, refCount' \in Nat, alive => refCount' > 0,
         UNCHANGED <<alive, generation, pc, parent, stamp, id, owned, inbox, table, poisoned,
                     trapped, batch, flushes>>
  PROVE  IInv'
<1>1. TypeOK' /\ WorkerIsHeld'
  BY DEF IInv, TypeOK, WorkerIsHeld
<1> QED BY <1>1 DEF IInv, StampsAreOld, OwnedHasLanded, QueuedIsAsked, QueuedOnce,
    LeavingIsGiven, Leaving, Ids, TableNamesHandles, NoWorkerNoEngine, TrapPoisons, OwnedIsHeld,
    FoldsFromItsParent, HoldsParent, NothingLeaks, OwnLossOnly

LEMMA RetainIInv == ASSUME IInv, Retain PROVE IInv'
<1>1. refCount' \in Nat /\ refCount' > 0
  BY DEF Retain, IInv, TypeOK
<1>2. UNCHANGED <<generation, pc, parent, stamp, id, owned, inbox, table, poisoned,
                  trapped, batch, flushes>> /\ alive' = TRUE
  BY DEF Retain, engine, releases
<1>3. TypeOK' /\ WorkerIsHeld' /\ NoWorkerNoEngine'
  BY <1>1, <1>2 DEF IInv, TypeOK, WorkerIsHeld, NoWorkerNoEngine
<1> QED BY <1>2, <1>3 DEF IInv, StampsAreOld, OwnedHasLanded, QueuedIsAsked, QueuedOnce,
    LeavingIsGiven, Leaving, Ids, TableNamesHandles, TrapPoisons, OwnedIsHeld,
    FoldsFromItsParent, HoldsParent, NothingLeaks, OwnLossOnly

LEMMA ReleaseClientIInv == ASSUME IInv, ReleaseClient PROVE IInv'
<1>1. CASE IsLastReference /\ alive
  <2>1. refCount' = 0 /\ alive /\ trapped' = trapped /\ DropWorker
    BY <1>1 DEF ReleaseClient, IsLastReference
  <2>2. ~alive'
    BY <2>1 DEF DropWorker
  <2> QED BY <2>1, <2>2, DropWorkerIInv
<1>2. CASE ~(IsLastReference /\ alive)
  <2>1. UNCHANGED <<alive, generation, pc, parent, stamp, id, owned, inbox, table, poisoned,
                    trapped, batch, flushes>>
    BY <1>2 DEF ReleaseClient, engine, releases
  <2>2. refCount' \in Nat /\ (alive => refCount' > 0)
    BY <1>2 DEF ReleaseClient, IsLastReference, IInv, TypeOK, WorkerIsHeld
  <2> QED BY <2>1, <2>2, RefCountIInv
<1> QED BY <1>1, <1>2

LEMMA WorkerErrorIInv == ASSUME IInv, WorkerError PROVE IInv'
<1>1. alive /\ trapped' = trapped /\ refCount' = refCount /\ DropWorker
  BY DEF WorkerError
<1>2. refCount' \in Nat /\ (refCount' = 0 => ~alive')
  BY <1>1 DEF IInv, TypeOK, WorkerIsHeld
<1> QED BY <1>1, <1>2, DropWorkerIInv

LEMMA ReadTrapIInv == ASSUME NEW c \in Calls, IInv, ReadTrap(c) PROVE IInv'
<1>1. CASE alive /\ FromOwner(c)
  <2>1. alive /\ trapped' \subseteq trapped /\ refCount' = refCount /\ DropWorker
    BY <1>1 DEF ReadTrap
  <2>2. refCount' \in Nat /\ (refCount' = 0 => ~alive')
    BY <2>1 DEF IInv, TypeOK, WorkerIsHeld
  <2> QED BY <2>1, <2>2, DropWorkerIInv
<1>2. CASE ~(alive /\ FromOwner(c))
  <2>1. UNCHANGED <<refCount, alive, generation, pc, parent, stamp, id, owned, inbox, table,
                    poisoned, batch, flushes>>
    BY <1>2 DEF ReadTrap, engine, releases
  <2>2. trapped' \subseteq trapped
    BY DEF ReadTrap
  <2>3. TypeOK' /\ TrapPoisons'
    BY <2>1, <2>2 DEF IInv, TypeOK, TrapPoisons
  <2> QED BY <2>1, <2>3 DEF IInv, StampsAreOld, OwnedHasLanded, QueuedIsAsked, QueuedOnce,
      LeavingIsGiven, Leaving, Ids, TableNamesHandles, NoWorkerNoEngine, OwnedIsHeld,
      FoldsFromItsParent, HoldsParent, NothingLeaks, OwnLossOnly, WorkerIsHeld
<1> QED BY <1>1, <1>2

\* A call nobody has used is in no queue, table or hand.
LEMMA UnusedIsNowhere ==
  ASSUME IInv, NEW c \in Calls, pc[c] = "unused"
  PROVE  /\ c \notin owned /\ c \notin trapped
         /\ \A i \in 1..Len(inbox) : inbox[i].call # c
         /\ \A i \in 1..Len(inbox) : inbox[i].call # NoCall => parent[inbox[i].call] # c
         /\ \A n \in Ids : table[n] # c
<1> USE NoCallAssumption
<1>1. c \notin owned /\ c \notin trapped
  BY DEF IInv, OwnedHasLanded, TrapPoisons
<1>2. \A i \in 1..Len(inbox) : inbox[i].call # c
  BY DEF IInv, QueuedIsAsked
<1>3. \A i \in 1..Len(inbox) : inbox[i].call # NoCall => parent[inbox[i].call] # c
  BY DEF IInv, QueuedIsAsked
<1>4. \A n \in Ids : table[n] # c
  BY DEF IInv, TableNamesHandles
<1> QED BY <1>1, <1>2, <1>3, <1>4

\* A call is turned away before it reaches the worker: nothing in the engine is touched.
LEMMA TurnedAwayIInv ==
  ASSUME IInv, NEW c \in Calls, NEW p \in Calls \cup {NoCall}, NEW fate \in {"state_lost", "unheld"},
         pc[c] = "unused", pc' = [pc EXCEPT ![c] = fate], parent' = [parent EXCEPT ![c] = p],
         UNCHANGED <<refCount, alive, generation, stamp, id, owned, inbox, table, poisoned,
                     trapped, batch, flushes>>
  PROVE  IInv'
<1> USE NoCallAssumption
<1>1. /\ c \notin owned /\ c \notin trapped
      /\ \A i \in 1..Len(inbox) : inbox[i].call # c
      /\ \A i \in 1..Len(inbox) : inbox[i].call # NoCall => parent[inbox[i].call] # c
      /\ \A n \in Ids : table[n] # c
  BY UnusedIsNowhere
<1>2. TypeOK'
  <2>1. fate \in Fates
    BY DEF Fates
  <2> QED BY <2>1 DEF IInv, TypeOK
<1>3. /\ StampsAreOld' /\ WorkerIsHeld' /\ NoWorkerNoEngine' /\ OwnedIsHeld' /\ LeavingIsGiven'
      /\ NothingLeaks'
  BY DEF IInv, StampsAreOld, WorkerIsHeld, NoWorkerNoEngine, OwnedIsHeld, LeavingIsGiven, NothingLeaks,
     Leaving, Ids
<1>5. OwnedHasLanded' /\ TrapPoisons' /\ OwnLossOnly'
  BY <1>1, Types DEF IInv, OwnedHasLanded, TrapPoisons, OwnLossOnly
<1>6. TableNamesHandles'
  BY <1>1, Types DEF IInv, TableNamesHandles, Ids
<1>4. QueuedIsAsked' /\ QueuedOnce'
  BY <1>1, Types, QueueTypes DEF IInv, QueuedIsAsked, QueuedOnce
<1>7. FoldsFromItsParent'
  BY <1>1, Types, QueueTypes DEF IInv, FoldsFromItsParent, HoldsParent, Ids
<1> QED BY <1>2, <1>3, <1>4, <1>5, <1>6, <1>7 DEF IInv

\* A call is posted: last in the queue, of the running engine, folding from a state the
\* caller holds there.
LEMMA PostedIInv ==
  ASSUME IInv, NEW c \in Calls, NEW p \in owned \cup {NoCall}, p # NoCall => stamp[p] = generation,
         pc[c] = "unused", alive' = TRUE, alive \/ refCount > 0,
         pc' = [pc EXCEPT ![c] = "asked"], parent' = [parent EXCEPT ![c] = p],
         stamp' = [stamp EXCEPT ![c] = generation], inbox' = Append(inbox, Step(c)),
         UNCHANGED <<refCount, generation, id, owned, table, poisoned, trapped, batch, flushes>>
  PROVE  IInv'
<1> USE NoCallAssumption
<1>1. /\ c \notin owned /\ c \notin trapped
      /\ \A i \in 1..Len(inbox) : inbox[i].call # c
      /\ \A i \in 1..Len(inbox) : inbox[i].call # NoCall => parent[inbox[i].call] # c
      /\ \A n \in Ids : table[n] # c
  BY UnusedIsNowhere
<1>2. Step(c).call = c /\ Step(c).ids = {} /\ Step(c) \in [call : Calls \cup {NoCall}, ids : SUBSET Nat]
  BY DEF Step
<1> HIDE DEF Step
<1>3. /\ Len(inbox') = Len(inbox) + 1 /\ Len(inbox) \in Nat
      /\ inbox'[Len(inbox) + 1] = Step(c)
      /\ \A i \in 1..Len(inbox) : inbox'[i] = inbox[i]
      /\ inbox' \in Seq([call : Calls \cup {NoCall}, ids : SUBSET Nat])
  BY <1>2 DEF IInv, TypeOK
<1>4. Leaving' = Leaving
  BY <1>2, <1>3 DEF Leaving
<1>5. TypeOK'
  BY <1>3 DEF IInv, TypeOK, Fates
<1>6. StampsAreOld' /\ WorkerIsHeld' /\ NoWorkerNoEngine'
  BY DEF IInv, TypeOK, StampsAreOld, WorkerIsHeld, NoWorkerNoEngine
<1>7. LeavingIsGiven' /\ OwnedIsHeld' /\ NothingLeaks'
  <2>1. Ids' = Ids
    BY DEF Ids
  <2>2. \A d \in owned : d \in Calls /\ stamp'[d] = stamp[d]
    BY <1>1 DEF IInv, TypeOK
  <2> QED BY <1>4, <2>1, <2>2 DEF IInv, LeavingIsGiven, OwnedIsHeld, NothingLeaks
<1>10. OwnedHasLanded' /\ TrapPoisons' /\ OwnLossOnly'
  BY <1>1, Types DEF IInv, OwnedHasLanded, TrapPoisons, OwnLossOnly
<1>11. TableNamesHandles'
  BY <1>1, Types DEF IInv, TableNamesHandles, Ids
<1>8. QueuedIsAsked' /\ QueuedOnce'
  <2>1. p # NoCall => pc[p] = "landed" /\ p # c
    BY <1>1, Types DEF IInv, OwnedHasLanded
  <2> QED BY <1>1, <1>2, <1>3, <2>1, Types, QueueTypes DEF IInv, QueuedIsAsked, QueuedOnce
<1>9. FoldsFromItsParent'
  <2> SUFFICES ASSUME NEW i \in 1..Len(inbox'), NEW d \in Calls, inbox'[i].call = d,
                      parent'[d] # NoCall
               PROVE  /\ id[parent'[d]] \in Ids /\ table[id[parent'[d]]] = parent'[d]
                      /\ \A j \in 1..(i - 1) : id[parent'[d]] \notin inbox'[j].ids
    <3>1. Len(inbox') \in Nat /\ \A i \in 1..Len(inbox') : inbox'[i].call \in Calls \cup {NoCall}
      BY <1>2, <1>3, QueueTypes DEF IInv
    <3> QED BY <3>1 DEF FoldsFromItsParent, HoldsParent, Ids
  <2>1. CASE i \in 1..Len(inbox)
    <3>1. d # c /\ parent'[d] = parent[d] /\ inbox[i].call = d
      BY <1>1, <1>3, <2>1, Types DEF IInv
    <3>2. HoldsParent(d) /\ \A j \in 1..(i - 1) : id[parent[d]] \notin inbox[j].ids
      BY <3>1, <2>1 DEF IInv, FoldsFromItsParent
    <3>3. \A j \in 1..(i - 1) : inbox'[j] = inbox[j]
      BY <1>3, <2>1
    <3> QED BY <3>1, <3>2, <3>3 DEF HoldsParent
  <2>2. CASE i = Len(inbox) + 1
    <3>1. d = c /\ parent'[d] = p /\ p \in owned /\ stamp[p] = generation
      BY <1>2, <1>3, <2>2, Types DEF IInv
    <3>2. id[p] \in Ids /\ table[id[p]] = p /\ id[p] \notin Leaving
      BY <3>1 DEF IInv, OwnedIsHeld
    <3>3. \A j \in 1..(i - 1) : inbox'[j].ids \subseteq Leaving
      BY <1>3, <2>2 DEF Leaving
    <3> QED BY <3>1, <3>2, <3>3
  <2> QED BY <1>3, <2>1, <2>2
<1> QED BY <1>5, <1>6, <1>7, <1>8, <1>9, <1>10, <1>11 DEF IInv

LEMMA AskIInv == ASSUME NEW c \in Calls, NEW p \in Calls \cup {NoCall}, IInv, Ask(c, p) PROVE IInv'
<1>1. /\ pc[c] = "unused" /\ p \in owned \cup {NoCall} /\ parent' = [parent EXCEPT ![c] = p]
      /\ UNCHANGED <<refCount, generation, id, owned, table, poisoned, trapped, batch, flushes>>
  BY DEF Ask, releases
<1>2. CASE p # NoCall /\ stamp[p] # generation
  BY <1>1, <1>2, TurnedAwayIInv DEF Ask, StepLost
<1>3. CASE ~(p # NoCall /\ stamp[p] # generation) /\ (alive \/ refCount > 0)
  BY <1>1, <1>3, PostedIInv DEF Ask, Posted
<1>4. CASE ~(p # NoCall /\ stamp[p] # generation) /\ ~(alive \/ refCount > 0)
  BY <1>1, <1>4, TurnedAwayIInv DEF Ask, Posted
<1> QED BY <1>2, <1>3, <1>4

\* The oldest message leaves the queue.
LEMMA TailFacts ==
  ASSUME TypeOK, inbox # <<>>, inbox' = Tail(inbox)
  PROVE  /\ inbox' \in Seq([call : Calls \cup {NoCall}, ids : SUBSET Nat])
         /\ Len(inbox) \in Nat /\ Len(inbox) > 0 /\ Len(inbox') = Len(inbox) - 1
         /\ \A i \in 1..Len(inbox') : inbox'[i] = inbox[i + 1] /\ i + 1 \in 1..Len(inbox)
         /\ Head(inbox) = inbox[1] /\ 1 \in 1..Len(inbox)
<1> DEFINE Message == [call : Calls \cup {NoCall}, ids : SUBSET Nat]
<1>1. inbox \in Seq(Message)
  BY DEF TypeOK
<1> HIDE DEF Message
<1>2. Len(inbox) \in Nat /\ Len(inbox) > 0
  BY <1>1
<1>3. Tail(inbox) \in Seq(Message) /\ Len(Tail(inbox)) = Len(inbox) - 1
      /\ \A i \in 1..(Len(inbox) - 1) : Tail(inbox)[i] = inbox[i + 1]
  BY <1>1, <1>2
<1>4. Head(inbox) = inbox[1]
  BY <1>1
<1> QED BY <1>2, <1>3, <1>4 DEF Message

\* What holds of the queue holds of the rest of it, when the calls left in it and the
\* states they fold from are as they were.
LEMMA TailIInv ==
  ASSUME IInv, inbox # <<>>, inbox' = Tail(inbox), generation' = generation, parent' = parent,
         stamp' = stamp,
         \A c \in Calls : pc'[c] = pc[c] \/ (pc[c] = "asked" /\ c = Head(inbox).call)
  PROVE  QueuedIsAsked' /\ QueuedOnce'
<1> USE NoCallAssumption
<1>1. /\ Len(inbox) \in Nat /\ Len(inbox) > 0 /\ Len(inbox') = Len(inbox) - 1
      /\ \A i \in 1..Len(inbox') : inbox'[i] = inbox[i + 1] /\ i + 1 \in 1..Len(inbox)
      /\ Head(inbox) = inbox[1] /\ 1 \in 1..Len(inbox)
  BY TailFacts DEF IInv
<1>2. QueuedOnce'
  BY <1>1 DEF IInv, QueuedOnce
<1>3. \A i \in 1..Len(inbox') : inbox'[i].call # NoCall => inbox'[i].call # Head(inbox).call
  <2> SUFFICES ASSUME NEW i \in 1..Len(inbox'), inbox'[i].call # NoCall,
                      inbox'[i].call = Head(inbox).call
               PROVE  FALSE
    OBVIOUS
  <2>1. inbox[i + 1].call = inbox[1].call /\ inbox[i + 1].call # NoCall /\ i + 1 \in 1..Len(inbox)
    BY <1>1
  <2> QED BY <1>1, <2>1 DEF IInv, QueuedOnce
<1>4. QueuedIsAsked'
  <2> SUFFICES ASSUME NEW i \in 1..Len(inbox'), inbox'[i].call # NoCall
               PROVE  /\ pc'[inbox'[i].call] = "asked" /\ stamp[inbox'[i].call] = generation
                      /\ parent[inbox'[i].call] # NoCall => pc'[parent[inbox'[i].call]] = "landed"
    BY DEF QueuedIsAsked
  <2>1. inbox'[i] = inbox[i + 1] /\ i + 1 \in 1..Len(inbox)
    BY <1>1
  <2>2. /\ pc[inbox[i + 1].call] = "asked" /\ stamp[inbox[i + 1].call] = generation
        /\ parent[inbox[i + 1].call] # NoCall => pc[parent[inbox[i + 1].call]] = "landed"
        /\ inbox[i + 1].call \in Calls /\ parent[inbox[i + 1].call] \in Calls \cup {NoCall}
    BY <2>1, Types, QueueTypes DEF IInv, QueuedIsAsked
  <2>3. inbox[i + 1].call # Head(inbox).call
    BY <1>3, <2>1
  <2> QED BY <2>1, <2>2, <2>3
<1> QED BY <1>2, <1>4

\* The numbers on their way out, one by one.
LEMMA LeavingMembers ==
  \A x : x \in Leaving <=> ((\E i \in 1..Len(inbox) : x \in inbox[i].ids)
                            \/ (batch.generation = generation /\ x \in batch.ids))
<1> DEFINE Queued == UNION {inbox[i].ids : i \in 1..Len(inbox)}
<1>1. \A x : x \in Queued <=> \E i \in 1..Len(inbox) : x \in inbox[i].ids
  BY Zenon
<1>2. Leaving = Queued \cup (IF batch.generation = generation THEN batch.ids ELSE {})
  BY Zenon DEF Leaving
<1> HIDE DEF Queued
<1> QED BY <1>1, <1>2

LEMMA TailLeaving ==
  ASSUME TypeOK, inbox # <<>>, inbox' = Tail(inbox), batch' = batch, generation' = generation
  PROVE  Leaving = Leaving' \cup Head(inbox).ids
<1>1. /\ Len(inbox) \in Nat /\ Len(inbox) > 0 /\ Len(inbox') = Len(inbox) - 1
      /\ \A i \in 1..Len(inbox') : inbox'[i] = inbox[i + 1] /\ i + 1 \in 1..Len(inbox)
      /\ Head(inbox) = inbox[1] /\ 1 \in 1..Len(inbox)
  BY TailFacts
<1>2. \A i \in 1..Len(inbox) : i = 1 \/ \E j \in 1..Len(inbox') : i = j + 1
  <2> SUFFICES ASSUME NEW i \in 1..Len(inbox), i # 1 PROVE i - 1 \in 1..Len(inbox') /\ i = (i - 1) + 1
    OBVIOUS
  <2> QED BY <1>1
<1>3. ASSUME NEW x PROVE
        (\E i \in 1..Len(inbox) : x \in inbox[i].ids)
          <=> ((\E i \in 1..Len(inbox') : x \in inbox'[i].ids) \/ x \in Head(inbox).ids)
  <2>1. ASSUME NEW i \in 1..Len(inbox), x \in inbox[i].ids
        PROVE  (\E j \in 1..Len(inbox') : x \in inbox'[j].ids) \/ x \in Head(inbox).ids
    BY <1>1, <1>2, <2>1
  <2>2. ASSUME NEW j \in 1..Len(inbox'), x \in inbox'[j].ids
        PROVE  \E i \in 1..Len(inbox) : x \in inbox[i].ids
    BY <1>1, <2>2
  <2> QED BY <1>1, <2>1, <2>2
<1>4. \A x : x \in Leaving <=> ((\E i \in 1..Len(inbox) : x \in inbox[i].ids)
                                \/ (batch.generation = generation /\ x \in batch.ids))
  BY LeavingMembers
<1>5. \A x : x \in Leaving' <=> ((\E i \in 1..Len(inbox') : x \in inbox'[i].ids)
                                 \/ (batch.generation = generation /\ x \in batch.ids))
  BY DEF Leaving
<1> QED BY <1>3, <1>4, <1>5

\* A queued step folds from its parent's state after the oldest message was answered, if
\* every landed state the message does not let go of keeps its number and its place.
LEMMA TailFolds ==
  ASSUME IInv, inbox # <<>>, inbox' = Tail(inbox), parent' = parent,
         \A p \in Calls : (/\ pc[p] = "landed" /\ id[p] \in Ids /\ table[id[p]] = p
                           /\ id[p] \notin Head(inbox).ids)
                        => id'[p] = id[p] /\ id[p] \in Ids' /\ table'[id[p]] = p
  PROVE  FoldsFromItsParent'
<1> USE NoCallAssumption
<1>1. /\ Len(inbox) \in Nat /\ Len(inbox) > 0 /\ Len(inbox') = Len(inbox) - 1
      /\ \A i \in 1..Len(inbox') : inbox'[i] = inbox[i + 1] /\ i + 1 \in 1..Len(inbox)
      /\ Head(inbox) = inbox[1] /\ 1 \in 1..Len(inbox)
  BY TailFacts DEF IInv
<1>2. \A i \in 1..Len(inbox') : inbox'[i].call \in Calls \cup {NoCall}
  BY <1>1, QueueTypes DEF IInv
<1>3. \A d \in Calls : parent[d] \in Calls \cup {NoCall}
  BY Types DEF IInv
<1> SUFFICES ASSUME NEW i \in 1..Len(inbox'), NEW d \in Calls, inbox'[i].call = d,
                    NEW p \in Calls, parent[d] = p
             PROVE  /\ id'[p] \in Ids' /\ table'[id'[p]] = p
                    /\ \A j \in 1..(i - 1) : id'[p] \notin inbox'[j].ids
  BY <1>2, <1>3 DEF FoldsFromItsParent, HoldsParent
<1>4. inbox[i + 1].call = d /\ i + 1 \in 1..Len(inbox) /\ i \in Nat /\ d # NoCall /\ p # NoCall
  BY <1>1
<1>5. id[p] \in Ids /\ table[id[p]] = p /\ \A j \in 1..i : id[p] \notin inbox[j].ids
  <2>1. HoldsParent(d) /\ \A j \in 1..((i + 1) - 1) : id[parent[d]] \notin inbox[j].ids
    BY <1>4 DEF IInv, FoldsFromItsParent
  <2> QED BY <1>4, <2>1 DEF HoldsParent
<1>6. pc[p] = "landed"
  BY <1>4 DEF IInv, QueuedIsAsked
<1>7. id[p] \notin Head(inbox).ids
  BY <1>1, <1>4, <1>5
<1>8. id'[p] = id[p] /\ id[p] \in Ids' /\ table'[id[p]] = p
  BY <1>5, <1>6, <1>7
<1>9. \A j \in 1..(i - 1) : inbox'[j] = inbox[j + 1] /\ j + 1 \in 1..i
  BY <1>1, <1>4
<1> QED BY <1>5, <1>8, <1>9

\* The engine lets states go: none that is held or that a queued step folds from.
LEMMA LetGoIInv == ASSUME IInv, LetGo PROVE IInv'
<1> USE NoCallAssumption
<1>1. /\ inbox # <<>> /\ inbox' = Tail(inbox) /\ Head(inbox).call = NoCall
      /\ table' = IF poisoned THEN table
                  ELSE [n \in Ids |-> IF n \in Head(inbox).ids THEN NoCall ELSE table[n]]
      /\ UNCHANGED <<refCount, alive, generation, pc, parent, stamp, id, owned,
                     poisoned, trapped, batch, flushes>>
  BY DEF LetGo, releases
<1>2. /\ inbox' \in Seq([call : Calls \cup {NoCall}, ids : SUBSET Nat])
      /\ Len(inbox) \in Nat /\ Len(inbox) > 0 /\ Len(inbox') = Len(inbox) - 1
      /\ \A i \in 1..Len(inbox') : inbox'[i] = inbox[i + 1] /\ i + 1 \in 1..Len(inbox)
      /\ Head(inbox) = inbox[1] /\ 1 \in 1..Len(inbox)
  BY <1>1, TailFacts DEF IInv
<1>3. /\ table' \in Seq(Calls \cup {NoCall}) /\ Ids' = Ids
      /\ \A n \in Ids : table'[n] = table[n] \/ (table'[n] = NoCall /\ n \in Head(inbox).ids /\ ~poisoned)
  <2>1. table \in Seq(Calls \cup {NoCall}) /\ Len(table) \in Nat
    BY DEF IInv, TypeOK
  <2>2. CASE poisoned
    BY <1>1, <2>1, <2>2 DEF Ids
  <2>3. CASE ~poisoned
    <3>1. table' = [n \in 1..Len(table) |-> IF n \in Head(inbox).ids THEN NoCall ELSE table[n]]
      BY <1>1, <2>3 DEF Ids
    <3>2. table' \in Seq(Calls \cup {NoCall}) /\ Len(table') = Len(table)
      BY <2>1, <3>1
    <3> QED BY <3>1, <3>2, <2>3 DEF Ids
  <2> QED BY <2>2, <2>3
<1>4. Leaving' \subseteq Leaving /\ Head(inbox).ids \subseteq Leaving /\ Leaving \subseteq Leaving' \cup Head(inbox).ids
  BY <1>1, TailLeaving DEF IInv
<1>5. TypeOK'
  BY <1>1, <1>2, <1>3 DEF IInv, TypeOK
<1>6. QueuedIsAsked' /\ QueuedOnce'
  BY <1>1, TailIInv
<1>7. StampsAreOld' /\ OwnedHasLanded' /\ TrapPoisons' /\ OwnLossOnly' /\ WorkerIsHeld' /\ LeavingIsGiven'
  BY <1>1, <1>3, <1>4 DEF IInv, StampsAreOld, OwnedHasLanded, TrapPoisons, OwnLossOnly, WorkerIsHeld, LeavingIsGiven
<1>8. TableNamesHandles'
  BY <1>1, <1>3 DEF IInv, TableNamesHandles
<1>9. OwnedIsHeld'
  BY <1>1, <1>3, <1>4 DEF IInv, OwnedIsHeld
<1>10. NoWorkerNoEngine'
  <2>1. alive' = alive /\ inbox # <<>>
    BY <1>1
  <2>2. ~alive => inbox = <<>>
    BY DEF IInv, NoWorkerNoEngine
  <2> QED BY <2>1, <2>2, Zenon DEF NoWorkerNoEngine
<1>11. NothingLeaks'
  <2> SUFFICES ASSUME ~poisoned, NEW n \in Ids, table'[n] \in Calls
               PROVE  table'[n] \in owned \/ n \in Leaving'
    BY <1>1, <1>3 DEF NothingLeaks
  <2>1. table'[n] = table[n] /\ n \notin Head(inbox).ids
    <3>1. table' = [k \in Ids |-> IF k \in Head(inbox).ids THEN NoCall ELSE table[k]]
      BY <1>1
    <3> QED BY <3>1
  <2> QED BY <1>4, <2>1 DEF IInv, NothingLeaks
<1>12. FoldsFromItsParent'
  BY <1>1, <1>3, TailFolds
<1> QED BY <1>5, <1>6, <1>7, <1>8, <1>9, <1>10, <1>11, <1>12 DEF IInv

\* The engine answers a sheet or a step.
LEMMA AnswerIInv == ASSUME NEW c \in Calls, IInv, Answer(c) PROVE IInv'
<1> USE NoCallAssumption
<1>1. /\ inbox # <<>> /\ inbox' = Tail(inbox) /\ Head(inbox).call = c /\ Head(inbox).ids = {}
      /\ UNCHANGED <<refCount, alive, generation, parent, stamp, batch, flushes>>
  BY DEF Answer, releases, Step
<1>2. /\ inbox' \in Seq([call : Calls \cup {NoCall}, ids : SUBSET Nat])
      /\ Len(inbox) \in Nat /\ Len(inbox) > 0 /\ Len(inbox') = Len(inbox) - 1
      /\ \A i \in 1..Len(inbox') : inbox'[i] = inbox[i + 1] /\ i + 1 \in 1..Len(inbox)
      /\ Head(inbox) = inbox[1] /\ 1 \in 1..Len(inbox)
  BY <1>1, TailFacts DEF IInv
<1>3. pc[c] = "asked" /\ stamp[c] = generation
  BY <1>1, <1>2 DEF IInv, QueuedIsAsked
<1>4. alive' = TRUE
  <2>1. alive' = alive /\ inbox # <<>> /\ alive \in BOOLEAN
    BY <1>1, Types DEF IInv
  <2>2. ~alive => inbox = <<>>
    BY DEF IInv, NoWorkerNoEngine
  <2> QED BY <2>1, <2>2, Zenon
<1>5. Leaving' = Leaving
  BY <1>1, TailLeaving DEF IInv
<1>6. table \in Seq(Calls \cup {NoCall}) /\ Len(table) \in Nat /\ Ids = 1..Len(table)
  BY DEF IInv, TypeOK, Ids
<1>7. CASE /\ ~poisoned /\ table' = Append(table, c) /\ id' = [id EXCEPT ![c] = Len(table) + 1]
           /\ pc' = [pc EXCEPT ![c] = "landed"] /\ owned' = owned \cup {c}
           /\ UNCHANGED <<poisoned, trapped>>
  <2>1. /\ table' \in Seq(Calls \cup {NoCall}) /\ Ids' = Ids \cup {Len(table) + 1}
        /\ Len(table) + 1 \notin Ids /\ table'[Len(table) + 1] = c
        /\ \A n \in Ids : table'[n] = table[n]
    BY <1>6, <1>7 DEF Ids
  <2>2. \A d \in Calls : d # c => id'[d] = id[d] /\ pc'[d] = pc[d]
    BY <1>7, Types DEF IInv
  <2>3. id'[c] = Len(table) + 1 /\ pc'[c] = "landed"
    BY <1>7, Types DEF IInv
  <2>4. \A n \in Ids : table[n] # c
    BY <1>3 DEF IInv, TableNamesHandles
  <2>5. TypeOK'
    <3>1. "landed" \in Fates
      BY DEF Fates
    <3> QED BY <1>1, <1>2, <1>6, <1>7, <2>1, <3>1 DEF IInv, TypeOK
  <2>6. QueuedIsAsked' /\ QueuedOnce'
    BY <1>1, <1>3, <2>2, TailIInv
  <2>7. FoldsFromItsParent'
    BY <1>1, <1>3, <2>1, <2>2, TailFolds
  <2>8. StampsAreOld' /\ OwnedHasLanded' /\ TrapPoisons' /\ OwnLossOnly' /\ WorkerIsHeld'
    BY <1>1, <1>3, <1>7, <2>2, <2>3, Types
    DEF IInv, StampsAreOld, OwnedHasLanded, TrapPoisons, OwnLossOnly, WorkerIsHeld
  <2>9. LeavingIsGiven' /\ NoWorkerNoEngine'
    BY <1>4, <1>5, <2>1 DEF IInv, LeavingIsGiven, NoWorkerNoEngine
  <2>10. TableNamesHandles'
    BY <1>1, <1>3, <2>1, <2>2, <2>3, <2>4 DEF IInv, TableNamesHandles
  <2>11. OwnedIsHeld'
    <3>1. id'[c] \in Ids' /\ table'[id'[c]] = c /\ id'[c] \notin Leaving'
      BY <1>5, <2>1, <2>3 DEF IInv, LeavingIsGiven
    <3>2. ASSUME NEW d \in owned, d # c, stamp[d] = generation
          PROVE  id'[d] \in Ids' /\ table'[id'[d]] = d /\ id'[d] \notin Leaving'
      <4>1. d \in Calls /\ id'[d] = id[d]
        BY <2>2, <3>2, Types DEF IInv
      <4>2. id[d] \in Ids /\ table[id[d]] = d /\ id[d] \notin Leaving
        BY <3>2 DEF IInv, OwnedIsHeld
      <4> QED BY <1>5, <2>1, <4>1, <4>2
    <3> QED BY <1>1, <1>7, <3>1, <3>2 DEF OwnedIsHeld
  <2>12. NothingLeaks'
    BY <1>5, <1>7, <2>1 DEF IInv, NothingLeaks
  <2> QED BY <2>5, <2>6, <2>7, <2>8, <2>9, <2>10, <2>11, <2>12 DEF IInv
<1>8. CASE /\ ~poisoned /\ pc' = [pc EXCEPT ![c] = IF HoldsParent(c) THEN "refused" ELSE "unknown_state"]
           /\ UNCHANGED <<table, id, owned, poisoned, trapped>>
  <2>1. \A d \in Calls : d # c => pc'[d] = pc[d]
    BY <1>8, Types DEF IInv
  <2>2. pc'[c] \in {"refused", "unknown_state"}
    BY <1>8, Types DEF IInv
  <2>3. TypeOK'
    <3>1. pc' \in [Calls -> Fates]
      BY <1>8, Types DEF IInv, Fates
    <3> QED BY <1>1, <1>2, <1>8, <3>1 DEF IInv, TypeOK
  <2>4. QueuedIsAsked' /\ QueuedOnce'
    BY <1>1, <1>3, <2>1, TailIInv
  <2>5. Ids' = Ids
    BY <1>8 DEF Ids
  <2>6. FoldsFromItsParent'
    BY <1>1, <1>8, <2>5, TailFolds
  <2>7. StampsAreOld' /\ OwnedHasLanded' /\ TrapPoisons' /\ OwnLossOnly' /\ WorkerIsHeld'
    BY <1>1, <1>3, <1>8, <2>1, <2>2, Types
    DEF IInv, StampsAreOld, OwnedHasLanded, TrapPoisons, OwnLossOnly, WorkerIsHeld
  <2>8. LeavingIsGiven' /\ NoWorkerNoEngine' /\ OwnedIsHeld' /\ NothingLeaks'
    BY <1>1, <1>4, <1>5, <1>8, <2>5, Types DEF IInv, LeavingIsGiven, NoWorkerNoEngine, OwnedIsHeld, NothingLeaks
  <2>9. TableNamesHandles'
    BY <1>1, <1>3, <1>8, <2>1, <2>5 DEF IInv, TableNamesHandles
  <2> QED BY <2>3, <2>4, <2>6, <2>7, <2>8, <2>9 DEF IInv
<1>9. CASE /\ poisoned' = TRUE /\ trapped' = trapped \cup {c} /\ UNCHANGED <<table, id, owned, pc>>
  <2>1. TypeOK'
    BY <1>1, <1>2, <1>9 DEF IInv, TypeOK
  <2>2. QueuedIsAsked' /\ QueuedOnce'
    BY <1>1, <1>9, TailIInv
  <2>3. Ids' = Ids
    BY <1>9 DEF Ids
  <2>4. FoldsFromItsParent'
    BY <1>1, <1>9, <2>3, TailFolds
  <2>5. StampsAreOld' /\ OwnedHasLanded' /\ TrapPoisons' /\ OwnLossOnly' /\ WorkerIsHeld'
    BY <1>1, <1>3, <1>9
    DEF IInv, StampsAreOld, OwnedHasLanded, TrapPoisons, OwnLossOnly, WorkerIsHeld
  <2>6. LeavingIsGiven' /\ NoWorkerNoEngine' /\ OwnedIsHeld' /\ NothingLeaks' /\ TableNamesHandles'
    BY <1>1, <1>4, <1>5, <1>9, <2>3
    DEF IInv, LeavingIsGiven, NoWorkerNoEngine, OwnedIsHeld, NothingLeaks, TableNamesHandles
  <2> QED BY <2>1, <2>2, <2>4, <2>5, <2>6 DEF IInv
<1> QED BY <1>7, <1>8, <1>9 DEF Answer

LEMMA ReleaseStateIInv == ASSUME NEW c \in Calls, IInv, ReleaseState(c) PROVE IInv'
<1> USE NoCallAssumption
<1>1. /\ c \in owned /\ owned' = owned \ {c}
      /\ UNCHANGED <<refCount, alive, generation, pc, parent, stamp, id, inbox, table, poisoned, trapped>>
  BY DEF ReleaseState, engine
<1>2. /\ batch'.generation \in Nat \cup {-1} /\ batch'.ids \in SUBSET Nat /\ flushes' \in Nat
      /\ batch' \in [generation : Nat \cup {-1}, ids : SUBSET Nat]
      /\ batch'.generation <= generation
  BY <1>1, Types DEF IInv, TypeOK, ReleaseState, BatchWith, releases, StampsAreOld
<1>3. TypeOK' /\ StampsAreOld'
  BY <1>1, <1>2 DEF IInv, TypeOK, StampsAreOld
<1>4. OwnedHasLanded' /\ QueuedIsAsked' /\ QueuedOnce' /\ TableNamesHandles' /\ NoWorkerNoEngine'
      /\ TrapPoisons' /\ FoldsFromItsParent' /\ OwnLossOnly' /\ WorkerIsHeld'
  BY <1>1 DEF IInv, OwnedHasLanded, QueuedIsAsked, QueuedOnce, TableNamesHandles, NoWorkerNoEngine,
     TrapPoisons, FoldsFromItsParent, HoldsParent, OwnLossOnly, WorkerIsHeld, Ids
<1>5. /\ stamp[c] = generation => Leaving' = Leaving \cup {id[c]}
      /\ stamp[c] # generation => Leaving' = Leaving
  BY <1>1 DEF ReleaseState, BatchWith, Leaving, releases
<1>6. LeavingIsGiven'
  <2>1. stamp[c] = generation => id[c] \in Ids
    BY <1>1 DEF IInv, OwnedIsHeld
  <2> QED BY <1>1, <1>5, <2>1 DEF IInv, LeavingIsGiven, Ids
<1>7. OwnedIsHeld'
  <2> SUFFICES ASSUME NEW d \in owned, d # c, stamp[d] = generation
               PROVE  id[d] \in Ids /\ table[id[d]] = d /\ id[d] \notin Leaving'
    BY <1>1 DEF OwnedIsHeld, Ids
  <2>1. id[d] \in Ids /\ table[id[d]] = d /\ id[d] \notin Leaving
    BY DEF IInv, OwnedIsHeld
  <2>2. stamp[c] = generation => table[id[c]] = c
    BY <1>1 DEF IInv, OwnedIsHeld
  <2> QED BY <1>5, <2>1, <2>2
<1>8. NothingLeaks'
  <2> SUFFICES ASSUME ~poisoned, NEW n \in Ids, table[n] \in Calls
               PROVE  table[n] \in owned' \/ n \in Leaving'
    BY <1>1 DEF NothingLeaks, Ids
  <2>1. table[n] \in owned \/ n \in Leaving
    BY DEF IInv, NothingLeaks
  <2>2. table[n] = c => id[c] = n /\ stamp[c] = generation
    BY DEF IInv, TableNamesHandles
  <2> QED BY <1>1, <1>5, <2>1, <2>2
<1> QED BY <1>3, <1>4, <1>6, <1>7, <1>8 DEF IInv

LEMMA FlushIInv == ASSUME IInv, Flush PROVE IInv'
<1> USE NoCallAssumption
<1> DEFINE Message == [call : Calls \cup {NoCall}, ids : SUBSET Nat]
<1>1. /\ flushes' \in Nat /\ batch' = NoBatch
      /\ inbox' = IF Sent /\ alive THEN Append(inbox, Release(batch.ids)) ELSE inbox
      /\ UNCHANGED <<refCount, alive, generation, pc, parent, stamp, id, owned, table, poisoned, trapped>>
  BY Types DEF IInv, Flush
<1>2. inbox \in Seq(Message) /\ Release(batch.ids) \in Message
      /\ Release(batch.ids).call = NoCall /\ Release(batch.ids).ids = batch.ids
  <2>1. inbox \in Seq(Message)
    BY DEF IInv, TypeOK
  <2>2. batch.ids \in SUBSET Nat
    BY Types DEF IInv
  <2> QED BY <2>1, <2>2 DEF Release
<1> HIDE DEF Message
<1>3. /\ inbox' \in Seq(Message) /\ Len(inbox) \in Nat /\ Len(inbox') \in Nat
      /\ \A i \in 1..Len(inbox) : inbox'[i] = inbox[i] /\ i \in 1..Len(inbox')
      /\ \A i \in 1..Len(inbox') : i \in 1..Len(inbox) \/ (inbox'[i] = Release(batch.ids) /\ Sent /\ alive
                                                         /\ i = Len(inbox) + 1)
      /\ Sent /\ alive => Len(inbox) + 1 \in 1..Len(inbox') /\ inbox'[Len(inbox) + 1] = Release(batch.ids)
  <2>1. CASE Sent /\ alive
    BY <1>1, <1>2, <2>1
  <2>2. CASE ~(Sent /\ alive)
    BY <1>1, <1>2, <2>2
  <2> QED BY <2>1, <2>2
<1>4. TypeOK'
  <2>1. NoBatch \in [generation : Nat \cup {-1}, ids : SUBSET Nat]
    BY DEF NoBatch
  <2> QED BY <1>1, <1>3, <2>1 DEF IInv, TypeOK, Message
<1>5. batch'.generation = -1 /\ generation \in Nat
  BY <1>1, Types DEF NoBatch, IInv
<1>6. StampsAreOld' /\ OwnedHasLanded' /\ TrapPoisons' /\ OwnLossOnly' /\ WorkerIsHeld' /\ TableNamesHandles'
  BY <1>1, <1>5 DEF IInv, StampsAreOld, OwnedHasLanded, TrapPoisons, OwnLossOnly, WorkerIsHeld, TableNamesHandles, Ids
<1>7. NoWorkerNoEngine'
  BY <1>1 DEF IInv, NoWorkerNoEngine
<1>8. QueuedIsAsked' /\ QueuedOnce'
  BY <1>1, <1>2, <1>3 DEF IInv, QueuedIsAsked, QueuedOnce
<1>9. FoldsFromItsParent'
  <2> SUFFICES ASSUME NEW i \in 1..Len(inbox'), inbox'[i].call # NoCall,
                      parent[inbox'[i].call] # NoCall
               PROVE  /\ HoldsParent(inbox'[i].call)
                      /\ \A j \in 1..(i - 1) : id[parent[inbox'[i].call]] \notin inbox'[j].ids
    BY <1>1 DEF FoldsFromItsParent, HoldsParent, Ids
  <2>1. i \in 1..Len(inbox) /\ inbox'[i] = inbox[i] /\ \A j \in 1..(i - 1) : inbox'[j] = inbox[j]
    BY <1>2, <1>3
  <2> QED BY <2>1 DEF IInv, FoldsFromItsParent
<1>10. Leaving' \subseteq Leaving /\ (alive => Leaving' = Leaving)
  <2>1. Sent /\ alive => batch.ids \subseteq Leaving'
    BY <1>2, <1>3 DEF Leaving
  <2>2. Sent <=> batch # NoBatch /\ batch.generation = generation
    BY DEF Sent
  <2>3. \A x : x \in Leaving' => \E i \in 1..Len(inbox') : x \in inbox'[i].ids
    <3>1. batch'.generation # generation'
      BY <1>1, <1>5
    <3> QED BY <3>1 DEF Leaving
  <2>4. \A i \in 1..Len(inbox') : inbox'[i].ids \subseteq Leaving
    <3> SUFFICES ASSUME NEW i \in 1..Len(inbox'), NEW x \in inbox'[i].ids PROVE x \in Leaving
      OBVIOUS
    <3>1. CASE i \in 1..Len(inbox)
      BY <1>3, <3>1, LeavingMembers
    <3>2. CASE inbox'[i] = Release(batch.ids) /\ Sent
      BY <1>2, <2>2, <3>2, LeavingMembers
    <3> QED BY <1>3, <3>1, <3>2
  <2>5. \A i \in 1..Len(inbox) : inbox[i].ids \subseteq Leaving'
    BY <1>3 DEF Leaving
  <2>6. batch = NoBatch => batch.ids = {}
    BY DEF NoBatch
  <2>7. \A x : x \in Leaving => ((\E i \in 1..Len(inbox) : x \in inbox[i].ids)
                              \/ (batch.generation = generation /\ x \in batch.ids))
    BY LeavingMembers
  <2>8. Leaving' \subseteq Leaving
    BY <2>3, <2>4
  <2> QED BY <2>1, <2>2, <2>5, <2>6, <2>7, <2>8
<1>11. LeavingIsGiven' /\ OwnedIsHeld'
  BY <1>1, <1>10 DEF IInv, LeavingIsGiven, OwnedIsHeld, Ids
<1>12. NothingLeaks'
  <2>1. CASE alive
    BY <1>1, <1>10, <2>1 DEF IInv, NothingLeaks, Ids
  <2>2. CASE ~alive
    BY <1>1, <2>2 DEF IInv, NothingLeaks, NoWorkerNoEngine, Ids
  <2> QED BY <2>1, <2>2
<1> QED BY <1>4, <1>6, <1>7, <1>8, <1>9, <1>11, <1>12 DEF IInv

LEMMA StutterIInv == ASSUME IInv, UNCHANGED vars PROVE IInv'
<1>1. TypeOK'
  BY DEF IInv, TypeOK, vars, engine, releases
<1> QED BY <1>1 DEF vars, engine, releases, IInv, StampsAreOld, OwnedHasLanded, QueuedIsAsked, QueuedOnce,
    LeavingIsGiven, Leaving, Ids, TableNamesHandles, NoWorkerNoEngine, TrapPoisons, OwnedIsHeld,
    FoldsFromItsParent, HoldsParent, NothingLeaks, OwnLossOnly, WorkerIsHeld

----------------------------------------------------------------------------
\* The whole invariant.
THEOREM Inductive == Spec => []IInv
<1>1. IInv /\ [Next]_vars => IInv'
  BY RetainIInv, ReleaseClientIInv, WorkerErrorIInv, AskIInv, AnswerIInv, LetGoIInv, ReadTrapIInv,
     ReleaseStateIInv, FlushIInv, StutterIInv DEF Next
<1> QED BY InitIInv, <1>1, PTL DEF Spec

THEOREM TypeCorrect == Spec => []TypeOK
BY Inductive, PTL DEF IInv

\* A handle of the running engine names its own state, and no release on its way takes it
\* (foldEnginePort.ts: the generation stamped on handles and batches).
THEOREM HandlesNameTheirStates == Spec => []OwnedIsHeld
BY Inductive, PTL DEF IInv

\* Whatever the engine is about to fold, it folds from the state the caller meant.
THEOREM StepsFoldFromTheirParents == Spec => []FoldsFromItsParent
BY Inductive, PTL DEF IInv

\* An engine that works keeps no state that nobody holds and nobody has let go of.
THEOREM NoStateLeaks == Spec => []NothingLeaks
BY Inductive, PTL DEF IInv

\* A call is told of a loss only when its own worker has gone (foldSequenceRuntime.ts: the
\* loss is announced to those who listened when it came).
THEOREM LossesAreOwn == Spec => []OwnLossOnly
BY Inductive, PTL DEF IInv

\* There is a worker only while somebody holds a reference.
THEOREM WorkerNeedsAHolder == Spec => []WorkerIsHeld
BY Inductive, PTL DEF IInv

\* A trapped answer ends no worker but the one it came from.
THEOREM CorpsesEndNobody == Spec => OwnTrapOnly
<1>1. IInv /\ [Next]_vars => [\A c \in Calls : ReadTrap(c) /\ generation' # generation => poisoned]_vars
  BY DEF IInv, TrapPoisons, ReadTrap, FromOwner
<1> QED BY Inductive, <1>1, PTL DEF Spec, OwnTrapOnly
=============================================================================
