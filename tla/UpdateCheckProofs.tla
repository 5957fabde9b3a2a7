-------------------------- MODULE UpdateCheckProofs --------------------------
(***************************************************************************)
(* Theorems of UpdateCheck.  The store and the service change together in  *)
(* every step, so the version shown is the version held; a version shown   *)
(* is the highest seen wherever the installation can update itself.        *)
(***************************************************************************)
EXTENDS UpdateCheck, TLAPS

\* Where the installation can update itself, what is shown is the highest seen.
ShownIsHighest == supported /\ version # 0 => version = highest

\* Where it cannot, nothing is downloaded and no relaunch is offered.
PackageIsToldOnly ==
  ~supported => /\ status \notin {"available", "ready"}
                /\ At("downloading") = {}
                /\ At("confirming") = {}

\* A download or an install works on a handle.
WorkHasHandle ==
  \A t \in At("downloading") \cup At("installing") : handle[t] \in Tasks

IInv ==
  /\ TypeOK
  /\ WorkHasHandle
  /\ OfferIsPending
  /\ StatusIsOfSomething
  /\ ShownIsHighest
  /\ PackageIsToldOnly

LEMMA InitIInv == Init => IInv
BY NoTaskAssumption, VersionsAssumption
DEF Init, IInv, TypeOK, WorkHasHandle, OfferIsPending, StatusIsOfSomething, ShownIsHighest,
    PackageIsToldOnly, PendingVersion, At, Statuses, Deliveries, Places, Offers, Handles

LEMMA StartCheckIInv ==
  ASSUME NEW t \in Tasks, IInv, StartCheck(t)
  PROVE IInv'
<1> USE NoTaskAssumption, VersionsAssumption DEF IInv, StartCheck, Busy
<1>1. TypeOK' /\ OfferIsPending'
  BY DEF TypeOK, OfferIsPending, WorkHasHandle, At, PendingVersion,
     Statuses, Places, Offers, Handles
<1>2. WorkHasHandle'
  BY DEF TypeOK, WorkHasHandle, At, PendingVersion, Places, Handles
<1>3. StatusIsOfSomething'
  BY DEF StatusIsOfSomething, TypeOK, At, Places
<1>4. ShownIsHighest' /\ PackageIsToldOnly'
  BY DEF ShownIsHighest, PackageIsToldOnly, TypeOK, At, Places, Offers
<1> QED BY <1>1, <1>2, <1>3, <1>4

LEMMA CheckFailsIInv ==
  ASSUME NEW t \in Tasks, IInv, CheckFails(t)
  PROVE IInv'
<1> USE NoTaskAssumption, VersionsAssumption DEF IInv, CheckFails, StatusOfFailedCheck
<1>1. TypeOK' /\ OfferIsPending'
  BY DEF TypeOK, OfferIsPending, WorkHasHandle, At, PendingVersion,
     Statuses, Places, Offers, Handles
<1>2. WorkHasHandle'
  BY DEF TypeOK, WorkHasHandle, At, PendingVersion, Places, Handles
<1>3. StatusIsOfSomething'
  BY DEF StatusIsOfSomething, TypeOK, At, Places
<1>4. ShownIsHighest' /\ PackageIsToldOnly'
  BY DEF ShownIsHighest, PackageIsToldOnly, TypeOK, At, Places, Offers
<1> QED BY <1>1, <1>2, <1>3, <1>4

LEMMA NothingNewerIInv ==
  ASSUME NEW t \in Tasks, IInv, NothingNewer(t)
  PROVE IInv'
<1> USE NoTaskAssumption, VersionsAssumption DEF IInv, NothingNewer, SetNoUpdate
<1>1. TypeOK' /\ OfferIsPending'
  BY DEF TypeOK, OfferIsPending, WorkHasHandle, At, PendingVersion,
     Statuses, Places, Offers, Handles
<1>2. WorkHasHandle'
  BY DEF TypeOK, WorkHasHandle, At, PendingVersion, Places, Handles
<1>3. StatusIsOfSomething'
  BY DEF StatusIsOfSomething, TypeOK, At, Places
<1>4. ShownIsHighest' /\ PackageIsToldOnly'
  BY DEF ShownIsHighest, PackageIsToldOnly, TypeOK, At, Places, Offers
<1> QED BY <1>1, <1>2, <1>3, <1>4

LEMMA StartDownloadIInv ==
  ASSUME NEW t \in Tasks, IInv, StartDownload(t)
  PROVE IInv'
<1> USE NoTaskAssumption, VersionsAssumption DEF IInv, StartDownload, CardShown
<1>1. TypeOK' /\ OfferIsPending'
  BY DEF TypeOK, OfferIsPending, WorkHasHandle, At, PendingVersion,
     Statuses, Places, Offers, Handles
<1>2. WorkHasHandle'
  BY DEF TypeOK, WorkHasHandle, At, PendingVersion, Places, Handles
<1>3. StatusIsOfSomething'
  BY DEF StatusIsOfSomething, TypeOK, At, Places
<1>4. ShownIsHighest' /\ PackageIsToldOnly'
  BY DEF ShownIsHighest, PackageIsToldOnly, TypeOK, At, Places, Offers
<1> QED BY <1>1, <1>2, <1>3, <1>4

LEMMA DownloadEndsIInv ==
  ASSUME NEW t \in Tasks, IInv, DownloadEnds(t)
  PROVE IInv'
<1> USE NoTaskAssumption, VersionsAssumption DEF IInv, DownloadEnds
<1>1. TypeOK' /\ OfferIsPending'
  BY DEF TypeOK, OfferIsPending, WorkHasHandle, At, PendingVersion,
     Statuses, Places, Offers, Handles
<1>2. WorkHasHandle'
  BY DEF TypeOK, WorkHasHandle, At, PendingVersion, Places, Handles
<1>3. StatusIsOfSomething'
  BY DEF StatusIsOfSomething, TypeOK, At, Places
<1>4. ShownIsHighest' /\ PackageIsToldOnly'
  BY DEF ShownIsHighest, PackageIsToldOnly, TypeOK, At, Places, Offers
<1> QED BY <1>1, <1>2, <1>3, <1>4

LEMMA ClickRelaunchIInv ==
  ASSUME NEW t \in Tasks, IInv, ClickRelaunch(t)
  PROVE IInv'
<1> USE NoTaskAssumption, VersionsAssumption DEF IInv, ClickRelaunch, Relaunch, CardShown, store
<1>1. TypeOK' /\ OfferIsPending'
  BY DEF TypeOK, OfferIsPending, WorkHasHandle, At, PendingVersion,
     Statuses, Places, Offers, Handles
<1>2. WorkHasHandle'
  BY DEF TypeOK, WorkHasHandle, At, PendingVersion, Places, Handles
<1>3. StatusIsOfSomething'
  BY DEF StatusIsOfSomething, TypeOK, At, Places
<1>4. ShownIsHighest' /\ PackageIsToldOnly'
  BY DEF ShownIsHighest, PackageIsToldOnly, TypeOK, At, Places, Offers
<1> QED BY <1>1, <1>2, <1>3, <1>4

LEMMA ConfirmRelaunchIInv ==
  ASSUME NEW t \in Tasks, IInv, ConfirmRelaunch(t)
  PROVE IInv'
<1> USE NoTaskAssumption, VersionsAssumption DEF IInv, ConfirmRelaunch, Relaunch
<1>1. TypeOK' /\ OfferIsPending'
  BY DEF TypeOK, OfferIsPending, WorkHasHandle, At, PendingVersion,
     Statuses, Places, Offers, Handles
<1>2. WorkHasHandle'
  BY DEF TypeOK, WorkHasHandle, At, PendingVersion, Places, Handles
<1>3. StatusIsOfSomething'
  BY DEF StatusIsOfSomething, TypeOK, At, Places
<1>4. ShownIsHighest' /\ PackageIsToldOnly'
  BY DEF ShownIsHighest, PackageIsToldOnly, TypeOK, At, Places, Offers
<1> QED BY <1>1, <1>2, <1>3, <1>4

LEMMA KeepWorkingIInv ==
  ASSUME NEW t \in Tasks, IInv, KeepWorking(t)
  PROVE IInv'
<1> USE NoTaskAssumption, VersionsAssumption DEF IInv, KeepWorking, store
<1>1. TypeOK' /\ OfferIsPending'
  BY DEF TypeOK, OfferIsPending, WorkHasHandle, At, PendingVersion,
     Statuses, Places, Offers, Handles
<1>2. WorkHasHandle'
  BY DEF TypeOK, WorkHasHandle, At, PendingVersion, Places, Handles
<1>3. StatusIsOfSomething'
  BY DEF StatusIsOfSomething, TypeOK, At, Places
<1>4. ShownIsHighest' /\ PackageIsToldOnly'
  BY DEF ShownIsHighest, PackageIsToldOnly, TypeOK, At, Places, Offers
<1> QED BY <1>1, <1>2, <1>3, <1>4

LEMMA InstallFailsIInv ==
  ASSUME NEW t \in Tasks, IInv, InstallFails(t)
  PROVE IInv'
<1> USE NoTaskAssumption, VersionsAssumption DEF IInv, InstallFails
<1>1. TypeOK' /\ OfferIsPending'
  BY DEF TypeOK, OfferIsPending, WorkHasHandle, At, PendingVersion,
     Statuses, Places, Offers, Handles
<1>2. WorkHasHandle'
  BY DEF TypeOK, WorkHasHandle, At, PendingVersion, Places, Handles
<1>3. StatusIsOfSomething'
  BY DEF StatusIsOfSomething, TypeOK, At, Places
<1>4. ShownIsHighest' /\ PackageIsToldOnly'
  BY DEF ShownIsHighest, PackageIsToldOnly, TypeOK, At, Places, Offers
<1> QED BY <1>1, <1>2, <1>3, <1>4

LEMMA OfferedIInv ==
  ASSUME NEW t \in Tasks, NEW v \in Versions, IInv, Offered(t, v)
  PROVE IInv'
<1> USE NoTaskAssumption, VersionsAssumption
      DEF IInv, Offered, Settled, Stale, SetNoUpdate, SetUnsupported, SetAvailable
<1>1. TypeOK' /\ OfferIsPending'
  <2>1. offer' \in [Tasks -> Offers] /\ offer'[t] = v /\ pending' = t
    BY DEF TypeOK, Offers
  <2>2. version' \in {0, v} /\ highest' \in {highest, v}
    OBVIOUS
  <2>3. status' \in Statuses /\ snoozed' \in BOOLEAN
    BY DEF TypeOK, Statuses
  <2>4. pc' \in [Tasks -> Places] /\ handle' \in [Tasks -> Handles]
    BY DEF TypeOK, Places, Handles
  <2>5. TypeOK'
    BY <2>1, <2>2, <2>3, <2>4 DEF TypeOK, Offers, Handles
  <2>6. OfferIsPending'
    BY <2>1, <2>2 DEF OfferIsPending, PendingVersion
  <2> QED BY <2>5, <2>6
<1>2. WorkHasHandle'
  BY DEF TypeOK, WorkHasHandle, At, PendingVersion, Places, Handles
<1>3. StatusIsOfSomething'
  BY DEF StatusIsOfSomething, TypeOK, At, Places
<1>4. ShownIsHighest' /\ PackageIsToldOnly'
  BY DEF ShownIsHighest, PackageIsToldOnly, TypeOK, At, Places, Offers
<1> QED BY <1>1, <1>2, <1>3, <1>4

LEMMA RestartIInv ==
  ASSUME IInv, Restart
  PROVE IInv'
<1> USE NoTaskAssumption, VersionsAssumption DEF IInv, Restart
<1>1. TypeOK' /\ OfferIsPending'
  BY DEF TypeOK, OfferIsPending, WorkHasHandle, At, PendingVersion,
     Statuses, Places, Offers, Handles
<1>2. WorkHasHandle'
  BY DEF TypeOK, WorkHasHandle, At, PendingVersion, Places, Handles
<1>3. StatusIsOfSomething' /\ ShownIsHighest' /\ PackageIsToldOnly'
  BY DEF StatusIsOfSomething, ShownIsHighest, PackageIsToldOnly, At
<1> QED BY <1>1, <1>2, <1>3

LEMMA NextIInv ==
  ASSUME IInv, [Next]_vars
  PROVE IInv'
<1>1. ASSUME NEW t \in Tasks, Step(t) PROVE IInv'
  BY <1>1, StartCheckIInv, CheckFailsIInv, NothingNewerIInv, StartDownloadIInv, DownloadEndsIInv, ClickRelaunchIInv, ConfirmRelaunchIInv, KeepWorkingIInv, InstallFailsIInv,
     OfferedIInv, RestartIInv DEF Step, Installed
<1>2. CASE Dismiss
  BY <1>2 DEF Dismiss, CardShown, IInv, TypeOK, WorkHasHandle, OfferIsPending, StatusIsOfSomething,
     ShownIsHighest, PackageIsToldOnly, PendingVersion, At
<1>3. CASE SetDelivery
  BY <1>3 DEF SetDelivery, IInv, TypeOK, WorkHasHandle, OfferIsPending, StatusIsOfSomething,
     ShownIsHighest, PackageIsToldOnly, PendingVersion, At
<1>4. CASE UNCHANGED vars
  BY <1>4 DEF vars, IInv, TypeOK, WorkHasHandle, OfferIsPending, StatusIsOfSomething,
     ShownIsHighest, PackageIsToldOnly, PendingVersion, At
<1> QED BY <1>1, <1>2, <1>3, <1>4, RestartIInv DEF Next

THEOREM Inductive == Spec => []IInv
BY InitIInv, NextIInv, PTL DEF Spec

\* The types of the updater's state hold throughout (updateStore.ts, updateService.ts).
THEOREM TypeCorrect == Spec => []TypeOK
BY Inductive, PTL DEF IInv

\* checkForUpdate and the store's setters keep the version shown and the handle held
\* the same, however checks, downloads and relaunches overlap.
THEOREM OfferStaysPending == Spec => []OfferIsPending
BY Inductive, PTL DEF IInv

\* checking, downloading and installing each have a call under way that ends them.
THEOREM NoStatusOutlivesItsCall == Spec => []StatusIsOfSomething
BY Inductive, PTL DEF IInv

\* The refusal of older offers (updateController.ts:180) keeps highestSeenVersion from
\* falling, over restarts too.
THEOREM NoRollback == Spec => HighestNeverFalls
<1>1. ASSUME IInv, [Next]_vars PROVE [highest' >= highest]_vars
  <2>1. ASSUME NEW t \in Tasks, Step(t) PROVE highest' >= highest
    BY <1>1, <2>1, VersionsAssumption DEF IInv, TypeOK, Offers, Step, StartCheck, CheckFails,
       NothingNewer, SetNoUpdate, Offered, Settled, Stale, SetUnsupported, SetAvailable,
       StartDownload, DownloadEnds, ClickRelaunch, ConfirmRelaunch, Relaunch, KeepWorking,
       InstallFails, Installed, Restart, store
  <2>2. ASSUME Dismiss \/ SetDelivery \/ Restart PROVE highest' >= highest
    BY <1>1, <2>2, VersionsAssumption
    DEF IInv, TypeOK, Offers, Dismiss, SetDelivery, Restart
  <2> QED BY <1>1, <2>1, <2>2 DEF Next
<1> QED BY <1>1, Inductive, PTL DEF Spec, HighestNeverFalls

\* relaunchIntoUpdate starts to install nothing but the newest version ever offered, the
\* stale handles of refused offers notwithstanding.
THEOREM NewestInstalled == Spec => InstallsTheNewest
<1> DEFINE Starts(t) == pc[t] # "installing" /\ pc'[t] = "installing"
           Newest(t) == offer[handle'[t]] = highest
<1>1. ASSUME IInv, NEW t \in Tasks, Relaunch(t), supported, NEW u \in Tasks, Starts(u)
      PROVE Newest(u)
  BY <1>1, NoTaskAssumption DEF Relaunch, IInv, TypeOK, Places, Offers, Handles,
     OfferIsPending, PendingVersion, ShownIsHighest
<1>2. ASSUME IInv, NEW t \in Tasks, Relaunch(t), status = "ready" \/ pc[t] = "confirming"
      PROVE supported
  BY <1>2 DEF IInv, PackageIsToldOnly, At
<1>3. ASSUME IInv, NEW t \in Tasks, Step(t), NEW u \in Tasks, Starts(u)
      PROVE Relaunch(t) /\ (status = "ready" \/ pc[t] = "confirming")
  BY <1>3, VersionsAssumption DEF IInv, TypeOK, Places, Step, StartCheck, CheckFails,
     NothingNewer, SetNoUpdate, Offered, Settled, SetUnsupported, SetAvailable,
     StartDownload, DownloadEnds, ClickRelaunch, ConfirmRelaunch, KeepWorking,
     InstallFails, Installed, Restart
<1>4. ASSUME IInv, [Next]_vars, NEW u \in Tasks, Starts(u) PROVE Newest(u)
  <2>1. CASE \E t \in Tasks : Step(t)
    BY <1>1, <1>2, <1>3, <1>4, <2>1
  <2>2. CASE Dismiss \/ SetDelivery \/ Restart \/ UNCHANGED vars
    BY <1>4, <2>2 DEF Dismiss, SetDelivery, Restart, vars
  <2> QED BY <1>4, <2>1, <2>2 DEF Next
<1>5. ASSUME IInv, [Next]_vars
      PROVE [\A t \in Tasks : Starts(t) => Newest(t)]_vars
  BY <1>4, <1>5
<1> QED BY <1>5, Inductive, PTL DEF Spec, InstallsTheNewest
=============================================================================
