------------------------- MODULE LatestWinsChannel -------------------------
(***************************************************************************)
(* apps/web/src/lib/latestWinsChannel.ts: previews of a moving pointer,    *)
(* asked of an engine that answers one call at a time.  A call of          *)
(* `request` is one element of Requests; the engine (a worker, through     *)
(* `send`) answers or rejects what it was sent whenever it likes.          *)
(***************************************************************************)
EXTENDS Integers

CONSTANTS
  Requests,    \* the requests that may be made, each once (a bound)
  NoRequest,   \* `waiting` is null
  MaxTickets   \* tickets handed out, to requests and cancels (a bound)

ASSUME NoRequestAssumption == NoRequest \notin Requests
ASSUME TicketsAssumption == MaxTickets \in Nat

VARIABLES
  latest,   \* the newest ticket
  busy,     \* a request is in the engine
  waiting,  \* the request that goes next
  ticket,   \* per request, its ticket
  engine,   \* the requests the engine has not answered
  outcome   \* per request, what its promise has come to

channelVars == <<latest, busy, waiting, ticket, engine, outcome>>

Outcomes == {"unasked", "pending", "answered", "rejected", "superseded"}

ChannelTypeOK ==
  /\ latest \in Nat
  /\ busy \in BOOLEAN
  /\ waiting \in Requests \cup {NoRequest}
  /\ ticket \in [Requests -> Nat]
  /\ engine \in SUBSET Requests
  /\ outcome \in [Requests -> Outcomes]

ChannelInit ==
  /\ latest = 0
  /\ busy = FALSE
  /\ waiting = NoRequest
  /\ ticket = [r \in Requests |-> 0]
  /\ engine = {}
  /\ outcome = [r \in Requests |-> "unasked"]

\* Fault: the request that waits is dropped, and its caller never told.
WaitingDropped(o) == o

\* `waiting?.supersede()`: the request that waits ends without being asked.
WaitingSuperseded(o) ==
  [r \in Requests |-> IF r = waiting THEN "superseded" ELSE o[r]]

\* `request`: the newest request replaces the one that waits, and waits itself
\* or goes to the engine at once.
Request(r) ==
  /\ outcome[r] = "unasked"
  /\ latest < MaxTickets
  /\ latest' = latest + 1
  /\ ticket' = [ticket EXCEPT ![r] = latest + 1]
  /\ outcome' = [WaitingSuperseded(outcome) EXCEPT ![r] = "pending"]
  /\ \/ /\ busy
        /\ waiting' = r
        /\ UNCHANGED <<busy, engine>>
     \/ /\ ~ busy
        /\ waiting' = NoRequest
        /\ busy' = TRUE
        /\ engine' = engine \cup {r}

\* Fault: cancelling supersedes what waits, but not what is in the engine.
CancelWaitingOnly ==
  /\ latest < MaxTickets
  /\ outcome' = WaitingSuperseded(outcome)
  /\ waiting' = NoRequest
  /\ UNCHANGED <<latest, busy, ticket, engine>>

\* `cancel`: nothing is asked any more.
Cancel ==
  /\ latest < MaxTickets
  /\ latest' = latest + 1
  /\ outcome' = WaitingSuperseded(outcome)
  /\ waiting' = NoRequest
  /\ UNCHANGED <<busy, ticket, engine>>

\* Fault: the engine is free again, and what waits is left waiting.
NextForgettingWaiting(r, o) ==
  /\ busy' = FALSE
  /\ engine' = engine \ {r}
  /\ outcome' = o
  /\ UNCHANGED waiting

\* `next`, after request r has left the engine and the outcomes are o: run what
\* waits, which is sent unless it is no longer the newest.
GoOn(r, o) ==
  LET sent == waiting # NoRequest /\ ticket[waiting] = latest
  IN /\ waiting' = NoRequest
     /\ busy' = sent
     /\ engine' = (engine \ {r}) \cup (IF sent THEN {waiting} ELSE {})
     /\ outcome' = IF sent \/ waiting = NoRequest THEN o
                   ELSE [o EXCEPT ![waiting] = "superseded"]

\* The engine settles a request: its owner hears of it only while it is the
\* newest one.
Settle(r, how) ==
  /\ r \in engine
  /\ GoOn(r, [outcome EXCEPT ![r] = IF ticket[r] = latest THEN how ELSE "superseded"])
  /\ UNCHANGED <<latest, ticket>>

Answer(r) == Settle(r, "answered")
Reject(r) == Settle(r, "rejected")

ChannelNext ==
  \/ \E r \in Requests : Request(r) \/ Answer(r) \/ Reject(r)
  \/ Cancel

(* An engine settles what it was sent: a worker that is alive answers, and *)
(* one that dies has its owner reject the call.                            *)
ChannelFairness == \A r \in Requests : WF_channelVars(Answer(r) \/ Reject(r))

ChannelSpec == ChannelInit /\ [][ChannelNext]_channelVars
ChannelFairSpec == ChannelSpec /\ ChannelFairness

-----------------------------------------------------------------------------
\* At most one request is in the engine, and the channel knows when one is
\* (the header: "at most one request is in flight and one waits").
OneInFlight ==
  /\ \A r1, r2 \in engine : r1 = r2
  /\ busy <=> engine # {}

\* The request that waits is the newest, is still awaited, and has not been
\* sent: whatever runs it next need not drop it.
WaitingIsNewest ==
  waiting # NoRequest =>
    /\ busy
    /\ ticket[waiting] = latest
    /\ outcome[waiting] = "pending"
    /\ waiting \notin engine

\* A request is awaited exactly while the channel still holds it.
NothingForgotten ==
  \A r \in Requests : outcome[r] = "pending" <=> r \in engine \/ r = waiting

\* What callers are promised: the channel implements LatestWins.
Current == {r \in Requests : outcome[r] # "unasked" /\ ticket[r] = latest}
Promise == INSTANCE LatestWins WITH current <- Current
Implements == Promise!Spec

\* Every request settles, however many newer ones come.
EveryRequestSettles == \A r \in Requests : outcome[r] = "pending" ~> outcome[r] # "pending"
=============================================================================
