----------------------------- MODULE LatestWins -----------------------------
(***************************************************************************)
(* What a latest-wins channel promises its callers                         *)
(* (apps/web/src/lib/latestWinsChannel.ts, the comments on the interface): *)
(* only the current request is ever answered or rejected, every other one  *)
(* ends superseded, and a request that has ended stays as it ended.        *)
(***************************************************************************)
CONSTANT Requests

VARIABLES
  current,  \* the newest request, unless it was cancelled: at most one
  outcome   \* per request, what its promise has come to

Outcomes == {"unasked", "pending", "answered", "rejected", "superseded"}

Init ==
  /\ current = {}
  /\ outcome = [r \in Requests |-> "unasked"]

Outdated(cur) == {r \in Requests : outcome[r] = "pending" /\ r \notin cur}

\* A request becomes the current one, and may end others on the spot.
Ask(r) ==
  /\ outcome[r] = "unasked"
  /\ current' = {r}
  /\ \E ended \in SUBSET Outdated({r}) :
       outcome' = [x \in Requests |-> IF x = r THEN "pending"
                                      ELSE IF x \in ended THEN "superseded" ELSE outcome[x]]

\* No request is current any more.
Cancel ==
  /\ current' = {}
  /\ \E ended \in SUBSET Outdated({}) :
       outcome' = [x \in Requests |-> IF x \in ended THEN "superseded" ELSE outcome[x]]

\* The current request is answered, or its failure reported.
Settle(r) ==
  /\ r \in current
  /\ outcome[r] = "pending"
  /\ \E how \in {"answered", "rejected"} : outcome' = [outcome EXCEPT ![r] = how]
  /\ UNCHANGED current

\* A request that is not current ends.
Supersede(r) ==
  /\ r \in Outdated(current)
  /\ outcome' = [outcome EXCEPT ![r] = "superseded"]
  /\ UNCHANGED current

Next ==
  \/ \E r \in Requests : Ask(r) \/ Settle(r) \/ Supersede(r)
  \/ Cancel

Spec == Init /\ [][Next]_<<current, outcome>>
=============================================================================
