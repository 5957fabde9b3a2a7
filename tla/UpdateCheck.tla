---------------------------- MODULE UpdateCheck ----------------------------
(***************************************************************************)
(* The desktop updater: apps/web/src/store/updateStore.ts (what the card   *)
(* shows), lib/updateController.ts (checks, downloads and relaunches) and  *)
(* platform/updateService.ts (the update handle held beside the store).    *)
(* One element of Tasks is one asynchronous call of the controller; it     *)
(* runs from one await to the next as one action.  The update handle a     *)
(* check brings back is named after the check.                             *)
(*                                                                         *)
(* A check asked for by the user runs whatever `delivery` says, so the     *)
(* refusal of automatic checks takes no behaviour away and is left out.    *)
(* Nothing in the application calls `skipCurrentVersion` or                *)
(* `revokeStagedUpdate`.                                                   *)
(***************************************************************************)
EXTENDS Integers

CONSTANTS
  Tasks,      \* the calls that may be made, each once (a bound)
  NoTask,     \* `pendingUpdate` is null
  Versions    \* the versions the endpoint may offer

ASSUME NoTaskAssumption == NoTask \notin Tasks
ASSUME VersionsAssumption == Versions \subseteq Nat \ {0}

VARIABLES
  supported, \* the environment's `selfUpdateSupported`: not for Linux packages
  status,    \* UpdateStore.status
  version,   \* UpdateStore.version, 0 when null
  highest,   \* UpdateStore.highestSeenVersion, 0 when null; persisted
  delivery,  \* UpdateStore.delivery; persisted
  snoozed,   \* UpdateStore.snoozed
  pending,   \* pendingUpdate: the check whose handle it is
  offer,     \* per check, the version of its handle, 0 when it has none
  fetched,   \* the handles whose payload is downloaded and verified
  pc,        \* per call, where it is suspended
  handle     \* per call, the handle it downloads or installs

store == <<status, version, highest, delivery, snoozed>>
vars == <<supported, status, version, highest, delivery, snoozed,
          pending, offer, fetched, pc, handle>>

Statuses == {"idle", "checking", "available", "downloading",
             "ready", "installing", "unsupported", "failed"}
Deliveries == {"automatic", "notify", "off"}
Places == {"unused", "checking", "downloading", "confirming", "installing", "done"}
Offers == Versions \cup {0}
Handles == Tasks \cup {NoTask}

TypeOK ==
  /\ supported \in BOOLEAN
  /\ status \in Statuses
  /\ version \in Offers
  /\ highest \in Offers
  /\ delivery \in Deliveries
  /\ snoozed \in BOOLEAN
  /\ pending \in Handles
  /\ offer \in [Tasks -> Offers]
  /\ fetched \in SUBSET Tasks
  /\ pc \in [Tasks -> Places]
  /\ handle \in [Tasks -> Handles]

Init ==
  /\ supported \in BOOLEAN
  /\ status = "idle" /\ version = 0 /\ snoozed = FALSE
  /\ highest = 0
  /\ delivery \in Deliveries
  /\ pending = NoTask
  /\ offer = [t \in Tasks |-> 0]
  /\ fetched = {}
  /\ pc = [t \in Tasks |-> "unused"]
  /\ handle = [t \in Tasks |-> NoTask]

At(place) == {t \in Tasks : pc[t] = place}

\* The version of the handle the service holds, 0 when it holds none.
PendingVersion == IF pending = NoTask THEN 0 ELSE offer[pending]

\* The statuses that make runUpdateCheck skip.
Busy == status \in {"downloading", "installing"}

StartCheck(t) ==
  /\ pc[t] = "unused"
  /\ ~Busy
  /\ status' = "checking"
  /\ pc' = [pc EXCEPT ![t] = "checking"]
  /\ UNCHANGED <<supported, version, highest, delivery, snoozed, pending, offer, fetched, handle>>

\* setCheckFailed: only the check's own status gives way to `failed`.
StatusOfFailedCheck == IF status = "checking" THEN "failed" ELSE status

CheckFails(t) ==
  /\ pc[t] = "checking"
  /\ status' = StatusOfFailedCheck
  /\ pc' = [pc EXCEPT ![t] = "done"]
  /\ UNCHANGED <<supported, version, highest, delivery, snoozed, pending, offer, fetched, handle>>

\* setNoUpdate.
SetNoUpdate(t) ==
  /\ status' = "idle"
  /\ version' = 0
  /\ pc' = [pc EXCEPT ![t] = "done"]
  /\ UNCHANGED <<highest, snoozed, handle>>

\* checkForUpdate answers null.
NothingNewer(t) ==
  /\ pc[t] = "checking"
  /\ pending' = NoTask
  /\ SetNoUpdate(t)
  /\ UNCHANGED <<supported, delivery, offer, fetched>>

\* setUnsupported: `highestSeenVersion` stays.
SetUnsupported(t, v) ==
  /\ status' = "unsupported"
  /\ version' = v
  /\ pc' = [pc EXCEPT ![t] = "done"]
  /\ UNCHANGED <<highest, snoozed, handle>>

\* Fault: the offer is not remembered as the highest seen.
SetAvailableUnremembered(t, v) ==
  /\ version' = v
  /\ snoozed' = FALSE
  /\ IF delivery = "automatic"
       THEN /\ status' = "downloading"
            /\ pc' = [pc EXCEPT ![t] = "downloading"]
            /\ handle' = [handle EXCEPT ![t] = t]
       ELSE /\ status' = "available"
            /\ pc' = [pc EXCEPT ![t] = "done"]
            /\ handle' = handle
  /\ UNCHANGED highest

\* setAvailable and, with automatic delivery, the download that follows at once.
SetAvailable(t, v) ==
  /\ version' = v
  /\ highest' = v
  /\ snoozed' = FALSE
  /\ IF delivery = "automatic"
       THEN /\ status' = "downloading"
            /\ pc' = [pc EXCEPT ![t] = "downloading"]
            /\ handle' = [handle EXCEPT ![t] = t]
       ELSE /\ status' = "available"
            /\ pc' = [pc EXCEPT ![t] = "done"]
            /\ handle' = handle

\* Refuses an offer older than one already seen.
Stale(v) == v < highest

\* What the controller makes of an offer.
Settled(t, v) ==
  \/ Stale(v) /\ SetNoUpdate(t)
  \/ ~Stale(v) /\ ~supported /\ SetUnsupported(t, v)
  \/ ~Stale(v) /\ supported /\ SetAvailable(t, v)

\* Fault: the service keeps the handle it has.
OfferedKeepingHandle(t, v) ==
  /\ pc[t] = "checking"
  /\ pending' = IF pending = NoTask THEN t ELSE pending
  /\ offer' = [offer EXCEPT ![t] = v]
  /\ Settled(t, v)
  /\ UNCHANGED <<supported, delivery, fetched>>

\* checkForUpdate answers with an offer: the service holds its handle from here on,
\* also when the controller turns the offer down.
Offered(t, v) ==
  /\ pc[t] = "checking"
  /\ pending' = t
  /\ offer' = [offer EXCEPT ![t] = v]
  /\ Settled(t, v)
  /\ UNCHANGED <<supported, delivery, fetched>>

\* The card is on screen: shouldShowUpdateCard for the statuses with a button to press.
CardShown == version # 0 /\ ~snoozed

\* The card's "Update available": startUpdateDownload('manual').  The service throws
\* at once when it does not hold the version.
StartDownload(t) ==
  /\ pc[t] = "unused"
  /\ CardShown /\ status = "available"
  /\ IF PendingVersion = version
       THEN /\ status' = "downloading"
            /\ pc' = [pc EXCEPT ![t] = "downloading"]
            /\ handle' = [handle EXCEPT ![t] = pending]
       ELSE /\ status' = "failed"
            /\ pc' = [pc EXCEPT ![t] = "done"]
            /\ handle' = handle
  /\ UNCHANGED <<supported, version, highest, delivery, snoozed, pending, offer, fetched>>

DownloadEnds(t) ==
  /\ pc[t] = "downloading"
  /\ pc' = [pc EXCEPT ![t] = "done"]
  /\ \/ status' = "ready" /\ fetched' = fetched \cup {handle[t]}
     \/ status' = "failed" /\ fetched' = fetched
  /\ UNCHANGED <<supported, version, highest, delivery, snoozed, pending, offer, handle>>

\* relaunchIntoUpdate up to the plugin's install: it reads the store again.
Relaunch(t) ==
  /\ IF version = 0
       THEN /\ pc' = [pc EXCEPT ![t] = "done"]
            /\ UNCHANGED <<status, handle>>
       ELSE IF PendingVersion = version
         THEN /\ status' = "installing"
              /\ pc' = [pc EXCEPT ![t] = "installing"]
              /\ handle' = [handle EXCEPT ![t] = pending]
         ELSE /\ status' = "failed"
              /\ pc' = [pc EXCEPT ![t] = "done"]
              /\ handle' = handle
  /\ UNCHANGED <<supported, version, highest, delivery, snoozed, pending, offer, fetched>>

\* The card's "Relaunch to update": asks first when there is unsaved work.  The
\* confirmation is modal: one at a time.
ClickRelaunch(t) ==
  /\ pc[t] = "unused"
  /\ CardShown /\ status = "ready"
  /\ At("confirming") = {}
  /\ \/ /\ pc' = [pc EXCEPT ![t] = "confirming"]
        /\ UNCHANGED <<supported, store, pending, offer, fetched, handle>>
     \/ Relaunch(t)

ConfirmRelaunch(t) == pc[t] = "confirming" /\ Relaunch(t)

KeepWorking(t) ==
  /\ pc[t] = "confirming"
  /\ pc' = [pc EXCEPT ![t] = "done"]
  /\ UNCHANGED <<supported, store, pending, offer, fetched, handle>>

InstallFails(t) ==
  /\ pc[t] = "installing"
  /\ status' = "failed"
  /\ pc' = [pc EXCEPT ![t] = "done"]
  /\ UNCHANGED <<supported, version, highest, delivery, snoozed, pending, offer, fetched, handle>>

\* The application ends: nothing but localStorage outlives it.
Restart ==
  /\ status' = "idle" /\ version' = 0 /\ snoozed' = FALSE
  /\ pending' = NoTask
  /\ offer' = [t \in Tasks |-> 0]
  /\ fetched' = {}
  /\ pc' = [t \in Tasks |-> IF pc[t] = "unused" THEN "unused" ELSE "done"]
  /\ handle' = [t \in Tasks |-> NoTask]
  /\ UNCHANGED <<supported, highest, delivery>>

\* The plugin installs what was downloaded, and the application restarts into it.
Installed(t) ==
  /\ pc[t] = "installing"
  /\ handle[t] \in fetched
  /\ Restart

Dismiss ==
  /\ CardShown /\ status \in {"available", "ready", "unsupported"}
  /\ snoozed' = TRUE
  /\ UNCHANGED <<supported, status, version, highest, delivery, pending, offer, fetched, pc, handle>>

SetDelivery ==
  /\ delivery' \in Deliveries \ {delivery}
  /\ UNCHANGED <<supported, status, version, highest, snoozed, pending, offer, fetched, pc, handle>>

Step(t) ==
  \/ StartCheck(t)
  \/ CheckFails(t)
  \/ NothingNewer(t)
  \/ \E v \in Versions : Offered(t, v)
  \/ StartDownload(t)
  \/ DownloadEnds(t)
  \/ ClickRelaunch(t)
  \/ ConfirmRelaunch(t)
  \/ KeepWorking(t)
  \/ InstallFails(t)
  \/ Installed(t)

Next ==
  \/ \E t \in Tasks : Step(t)
  \/ Dismiss
  \/ SetDelivery
  \/ Restart

Spec == Init /\ [][Next]_vars

----------------------------------------------------------------------------
\* The version the store shows is the version of the handle the service holds, so a
\* download or a relaunch is never turned away for want of its handle, whatever
\* checks, downloads and refused offers came in between.
OfferIsPending == version # 0 => PendingVersion = version

\* A status that stops the user or the next check is the status of something under
\* way: the updater never waits for an answer nobody will give.
StatusIsOfSomething ==
  \A place \in {"checking", "downloading", "installing"} :
    status = place => At(place) # {}

\* The highest version ever offered never falls, over restarts too.
HighestNeverFalls == [][highest' >= highest]_vars

\* What starts to install is the newest version ever offered, although the service
\* takes the handle of an offer the controller refuses as stale.
InstallsTheNewest ==
  [][\A t \in Tasks :
       pc[t] # "installing" /\ pc'[t] = "installing"
         => offer[handle'[t]] = highest]_vars

============================================================================
