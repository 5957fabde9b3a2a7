----------------------- MODULE FoldSessionShownProofs -----------------------
(***************************************************************************)
(* More about FoldSession: what a held session shows.  Whatever documents, *)
(* rewrites, surfaces, refusals, crashes and failures come, a session that *)
(* is held and has nothing left to do or to hear shows every step, or says *)
(* what is wrong.                                                          *)
(***************************************************************************)
EXTENDS FoldSessionProofs

----------------------------------------------------------------------------
(* What leaves runs, starts and surfaces alone.                           *)

\* What a run, a start and the surfaces are about.
RunFields == {"load", "steps", "holders", "lingering", "owed", "ready", "starting", "scheduled",
              "run", "progress", "halted", "error", "ahead"}
Kinds == {"version", "replay"}

\* The mail is mail, and what is cached or offered has landed or was refused.
Neat(m) ==
  /\ RunFields \cup {"inbox", "cache", "adoptions"} \subseteq DOMAIN m
  /\ IsSeq(m.inbox) /\ \A i \in DOMAIN m.inbox : MailFields \subseteq DOMAIN m.inbox[i]
  /\ IsFiniteSet(DOMAIN m.cache) /\ \A p \in DOMAIN m.cache : m.cache[p] # NoState
  /\ IsFiniteSet(m.adoptions) /\ \A a \in m.adoptions : "state" \in DOMAIN a /\ Landed(a.state)

\* A call is under way, and its answer is wanted.
Calls(e, kind, path) == e.kind = kind /\ e.wanted /\ e.path = path /\ (kind = "version" => ~Landed(e.on))
AsksNow(m, kind, path) == \E i \in DOMAIN m.inbox : Calls(m.inbox[i], kind, path)

\* Calls of the kinds K that were under way still are.
Tidy(x, y, K) ==
  Neat(x) => Neat(y) /\ \A kind \in K : \A path : AsksNow(x, kind, path) => AsksNow(y, kind, path)

\* Runs, starts and surfaces are left alone.
Leaves(x, y) == Tidy(x, y, Kinds) /\ (Neat(x) => \A f \in RunFields : y[f] = x[f])

LEMMA TidyThen ==
  ASSUME NEW x, NEW y, NEW z, NEW K, Tidy(x, y, K), Tidy(y, z, K)
  PROVE  Tidy(x, z, K)
  BY DEF Tidy

LEMMA TidyMore ==
  ASSUME NEW x, NEW y, NEW K, NEW L, Tidy(x, y, K), L \subseteq K
  PROVE  Tidy(x, y, L)
  BY DEF Tidy

LEMMA OnlyTidy ==
  ASSUME NEW x, NEW y, NEW T, NEW K, Only(x, y, T), T \cap {"inbox", "cache", "adoptions"} = {}
  PROVE  Tidy(x, y, K)
<1>1. Neat(x) => DOMAIN y = DOMAIN x /\ y.inbox = x.inbox /\ y.cache = x.cache /\ y.adoptions = x.adoptions
  BY DEF Only, Neat
<1> QED
  BY <1>1 DEF Tidy, Neat, AsksNow

LEMMA KeepsLeaves ==
  ASSUME NEW x, NEW y, NEW T, Keeps(x, y, T), T \cap RunFields = {}, Tidy(x, y, Kinds)
  PROVE  Leaves(x, y)
<1>1. Neat(x) => \A f \in RunFields : y[f] = x[f]
  BY DEF Keeps, Only, Neat
<1> QED
  BY <1>1 DEF Leaves

LEMMA OnlyLeaves ==
  ASSUME NEW x, NEW y, NEW T, Only(x, y, T), T \cap (RunFields \cup {"inbox", "cache", "adoptions"}) = {}
  PROVE  Leaves(x, y)
<1>1. Neat(x) => \A f \in RunFields : y[f] = x[f]
  BY DEF Only, Neat
<1>2. Tidy(x, y, Kinds)
  BY OnlyTidy
<1> QED
  BY <1>1, <1>2 DEF Leaves

LEMMA LeavesSame == \A x : Leaves(x, x) /\ \A K : Tidy(x, x, K)
  BY DEF Leaves, Tidy

LEMMA LeavesThen ==
  ASSUME NEW x, NEW y, NEW z, Leaves(x, y), Leaves(y, z)
  PROVE  Leaves(x, z)
<1>1. Tidy(x, z, Kinds)
  BY TidyThen DEF Leaves
<1>2. ASSUME Neat(x)
      PROVE  \A f \in RunFields : z[f] = x[f]
  BY <1>2 DEF Leaves, Tidy
<1> QED
  BY <1>1, <1>2 DEF Leaves

\* A message after the others.
LEMMA AskTidy ==
  ASSUME NEW m, NEW kind, NEW on, NEW op, NEW path
  PROVE  /\ Tidy(m, Ask(m, kind, on, op, path), Kinds)
         /\ Neat(m) /\ (kind = "version" => ~Landed(on)) => AsksNow(Ask(m, kind, on, op, path), kind, path)
<1> SUFFICES ASSUME Neat(m)
             PROVE  /\ Neat(Ask(m, kind, on, op, path))
                    /\ \A k \in Kinds : \A p : AsksNow(m, k, p) => AsksNow(Ask(m, kind, on, op, path), k, p)
                    /\ (kind = "version" => ~Landed(on)) => AsksNow(Ask(m, kind, on, op, path), kind, path)
  BY DEF Tidy
<1> DEFINE e == [kind |-> kind, on |-> on, op |-> op, path |-> path, wanted |-> TRUE]
           y == Ask(m, kind, on, op, path)
<1>1. y.inbox = Append(m.inbox, e)
  BY DEF Ask, Neat
<1>2. DOMAIN y = DOMAIN m /\ y.cache = m.cache /\ y.adoptions = m.adoptions
  BY DEF Ask, Neat
<1>3. MailFields \subseteq DOMAIN e /\ e.kind = kind /\ e.wanted /\ e.path = path /\ e.on = on
  BY DEF MailFields
<1> HIDE DEF e, y
<1>4. /\ IsSeq(y.inbox) /\ DOMAIN y.inbox = 1..(Len(m.inbox) + 1)
      /\ \A i \in DOMAIN m.inbox : y.inbox[i] = m.inbox[i]
      /\ y.inbox[Len(m.inbox) + 1] = e
  BY <1>1, SeqAppend DEF Neat
<1>5. Len(m.inbox) \in Nat /\ DOMAIN m.inbox = 1..Len(m.inbox)
  BY SeqDomain DEF Neat
<1>6. Len(m.inbox) + 1 \in DOMAIN y.inbox /\ \A i \in DOMAIN m.inbox : i \in DOMAIN y.inbox
  BY <1>4, <1>5
<1>7. \A i \in DOMAIN y.inbox : i \in DOMAIN m.inbox \/ i = Len(m.inbox) + 1
  BY <1>4, <1>5
<1>8. Neat(y)
  BY <1>2, <1>3, <1>4, <1>7 DEF Neat
<1>9. \A k \in Kinds : \A p : AsksNow(m, k, p) => AsksNow(y, k, p)
  BY <1>4, <1>6 DEF AsksNow
<1>10. (kind = "version" => ~Landed(on)) => AsksNow(y, kind, path)
  BY <1>3, <1>4, <1>6 DEF AsksNow, Calls
<1> QED
  BY <1>8, <1>9, <1>10 DEF y

\* Releases come after the others.
LEMMA ReleaseAllTidy ==
  ASSUME NEW m, NEW sts, IsFiniteSet(OfEngine(m, sts))
  PROVE  Tidy(m, ReleaseAll(m, sts), Kinds)
<1> SUFFICES ASSUME Neat(m)
             PROVE  /\ Neat(ReleaseAll(m, sts))
                    /\ \A k \in Kinds : \A p : AsksNow(m, k, p) => AsksNow(ReleaseAll(m, sts), k, p)
  BY DEF Tidy
<1> DEFINE held == OfEngine(m, sts)
           q == SetToSeq(held)
           letting == [i \in DOMAIN q |->
                        [kind |-> "release", on |-> q[i], op |-> "none", path |-> <<>>, wanted |-> FALSE]]
           y == ReleaseAll(m, sts)
<1>1. y = IF m.inbox = <<>> THEN [m EXCEPT !.table = @ \ held] ELSE [m EXCEPT !.inbox = @ \o letting]
  BY DEF ReleaseAll, OfEngine
<1>2. q \in [1..Cardinality(held) -> held] /\ Cardinality(held) \in Nat
  BY SetInSeq
<1> HIDE DEF held, q, y
<1>3. CASE m.inbox = <<>>
  <2>1. Only(m, y, {"table"})
    BY <1>1, <1>3 DEF Only
  <2>2. Tidy(m, y, Kinds)
    BY <2>1, OnlyTidy
  <2> QED
    BY <2>2 DEF Tidy, y
<1>4. CASE m.inbox # <<>>
  <2> DEFINE M == {m.inbox[i] : i \in DOMAIN m.inbox} \cup {letting[i] : i \in DOMAIN letting}
             n == Len(m.inbox)
             c == Cardinality(held)
             t == y.inbox
  <2>1. t = m.inbox \o letting /\ DOMAIN y = DOMAIN m /\ y.cache = m.cache /\ y.adoptions = m.adoptions
    BY <1>1, <1>4 DEF Neat
  <2>2. DOMAIN letting = 1..c /\ c \in Nat /\ \A i \in 1..c : MailFields \subseteq DOMAIN letting[i]
    BY <1>2 DEF MailFields
  <2>3. n \in Nat /\ DOMAIN m.inbox = 1..n /\ m.inbox \in Seq({m.inbox[i] : i \in DOMAIN m.inbox})
    BY SeqDomain DEF Neat, IsSeq
  <2> HIDE DEF letting
  <2>4. letting \in Seq(M) /\ Len(letting) = c
    <3>1. letting \in [1..c -> M]
      <4>1. \A i \in 1..c : letting[i] \in M
        BY <2>2
      <4>2. letting = [i \in 1..c |-> letting[i]]
        BY <2>2 DEF letting
      <4> HIDE DEF M, c
      <4> QED
        BY <4>1, <4>2
    <3> HIDE DEF M, c
    <3>2. letting \in Seq(M)
      BY <2>2, <3>1, SeqDef
    <3> QED
      BY <2>2, <3>2, LenProperties
  <2>5. m.inbox \in Seq(M)
    <3>1. m.inbox \in [1..n -> M]
      BY <2>3 DEF IsSeq
    <3> HIDE DEF M, letting
    <3> QED
      BY <2>3, <3>1
  <2>6. /\ t \in Seq(M) /\ Len(t) = n + c
        /\ \A i \in 1..(n + c) : t[i] = IF i <= n THEN m.inbox[i] ELSE letting[i - n]
    <3> HIDE DEF M, c, n, t
    <3> QED
      BY <2>1, <2>4, <2>5, ConcatProperties DEF n
  <2>7. DOMAIN t = 1..(n + c) /\ IsSeq(t)
    <3> HIDE DEF M, c, n, t
    <3>1. DOMAIN t = 1..(n + c)
      BY <2>6, LenProperties
    <3>2. IsSeq(t)
      <4>1. t \in [1..Len(t) -> M] /\ Len(t) \in Nat
        BY <2>6, LenProperties
      <4>2. t \in [1..Len(t) -> {t[i] : i \in DOMAIN t}]
        BY <4>1
      <4> QED
        BY <4>1, <4>2, SeqDef DEF IsSeq
    <3> QED
      BY <3>1, <3>2
  <2>8. \A i \in DOMAIN m.inbox : i \in DOMAIN t /\ t[i] = m.inbox[i]
    <3> HIDE DEF t, c, n
    <3> QED
      BY <2>2, <2>3, <2>6, <2>7
  <2>9. \A i \in DOMAIN t : MailFields \subseteq DOMAIN t[i]
    <3> SUFFICES ASSUME NEW i \in DOMAIN t
                 PROVE  MailFields \subseteq DOMAIN t[i]
      OBVIOUS
    <3> HIDE DEF t, c, n
    <3>1. CASE i <= n
      <4>1. i \in DOMAIN m.inbox
        BY <2>2, <2>3, <2>7, <3>1
      <4> QED
        BY <2>8, <4>1 DEF Neat
    <3>2. CASE ~(i <= n)
      <4>1. i - n \in 1..c /\ t[i] = letting[i - n]
        BY <2>2, <2>3, <2>6, <2>7, <3>2
      <4> QED
        BY <2>2, <4>1
    <3> QED
      BY <3>1, <3>2
  <2>10. Neat(y)
    BY <2>1, <2>7, <2>9 DEF Neat
  <2>11. \A k \in Kinds : \A p : AsksNow(m, k, p) => AsksNow(y, k, p)
    BY <2>8 DEF AsksNow
  <2> QED
    BY <2>10, <2>11 DEF y
<1> QED
  BY <1>3, <1>4

LEMMA ReleaseTidy ==
  ASSUME NEW m, NEW st
  PROVE  Tidy(m, Release(m, st), Kinds)
<1>1. OfEngine(m, {st}) \subseteq {st} /\ IsFiniteSet({st})
  BY FS_Singleton DEF OfEngine
<1>2. IsFiniteSet(OfEngine(m, {st}))
  BY <1>1, FS_Subset
<1> QED
  BY <1>2, ReleaseAllTidy DEF Release

LEMMA UnwantedTidy ==
  ASSUME NEW m, NEW kind, NEW K, kind \notin K
  PROVE  Tidy(m, Unwanted(m, kind), K)
<1> SUFFICES ASSUME Neat(m)
             PROVE  /\ Neat(Unwanted(m, kind))
                    /\ \A k \in K : \A p : AsksNow(m, k, p) => AsksNow(Unwanted(m, kind), k, p)
  BY DEF Tidy
<1> DEFINE q == [i \in DOMAIN m.inbox |->
                   IF m.inbox[i].kind = kind THEN [m.inbox[i] EXCEPT !.wanted = FALSE] ELSE m.inbox[i]]
           y == Unwanted(m, kind)
<1>1. y = [m EXCEPT !.inbox = q]
  BY DEF Unwanted
<1>2. /\ DOMAIN q = DOMAIN m.inbox
      /\ \A i \in DOMAIN m.inbox : /\ MailFields \subseteq DOMAIN q[i]
                                   /\ m.inbox[i].kind # kind => q[i] = m.inbox[i]
  BY DEF Neat
<1> HIDE DEF q, y
<1>3. DOMAIN y = DOMAIN m /\ y.inbox = q /\ y.cache = m.cache /\ y.adoptions = m.adoptions
  BY <1>1 DEF Neat
<1>4. IsSeq(q)
  <2>1. Len(m.inbox) \in Nat /\ DOMAIN m.inbox = 1..Len(m.inbox)
    BY SeqDomain DEF Neat
  <2>2. q \in [1..Len(m.inbox) -> {q[i] : i \in DOMAIN q}]
    BY <1>2, <2>1 DEF q
  <2> QED
    BY <2>1, <2>2 DEF IsSeq
<1>5. Neat(y)
  BY <1>2, <1>3, <1>4 DEF Neat
<1>6. \A k \in K : \A p : AsksNow(m, k, p) => AsksNow(y, k, p)
  BY <1>2, <1>3 DEF AsksNow, Calls
<1> QED
  BY <1>5, <1>6 DEF y

LEMMA DropOfferLeaves ==
  ASSUME NEW m
  PROVE  Leaves(m, DropOffer(m))
<1> DEFINE a == Release(m, m.offer.state)
<1>1. Tidy(m, a, Kinds)
  BY ReleaseTidy
<1>2. DropOffer(m) = [a EXCEPT !.offer = Idle]
  BY DEF DropOffer
<1> HIDE DEF a
<1>3. Only(a, DropOffer(m), {"offer"})
  BY <1>2 DEF Only
<1>4. Tidy(m, DropOffer(m), Kinds)
  BY <1>1, <1>3, OnlyTidy, TidyThen
<1> QED
  BY <1>4, DropOfferKeeps, KeepsLeaves DEF RunFields

LEMMA DropPendingLeaves ==
  ASSUME NEW m
  PROVE  Leaves(m, DropPending(m))
<1> DEFINE a == IF m.pending.status = "landed" /\ m.pending.state # m.taken THEN Release(m, m.pending.state) ELSE m
           b == Unwanted(a, "preview")
           y == DropPending(m)
<1>1. Tidy(m, a, Kinds)
  BY ReleaseTidy, LeavesSame
<1>2. Tidy(a, b, Kinds)
  BY UnwantedTidy DEF Kinds
<1>3. y = [b EXCEPT !.pending = Idle, !.print = "none", !.queued = NoRequest, !.hover = NoHover,
                    !.commit.pc = IF @ = "queued" THEN "answered" ELSE @]
  BY DEF DropPending
<1> HIDE DEF a, b, y
<1>4. Only(b, y, {"pending", "print", "queued", "hover", "commit"})
  BY <1>3 DEF Only
<1>5. Tidy(b, y, Kinds)
  BY <1>4, OnlyTidy
<1>6. Tidy(m, y, Kinds)
  BY <1>1, <1>2, <1>5, TidyThen
<1>7. Keeps(m, y, PendingSlots)
  BY DropPendingKeeps DEF y
<1>8. Leaves(m, y)
  BY <1>6, <1>7, KeepsLeaves DEF PendingSlots, RunFields
<1> QED
  BY <1>8 DEF y

LEMMA AskLeaves ==
  ASSUME NEW m, NEW kind, NEW on, NEW op, NEW path
  PROVE  Leaves(m, Ask(m, kind, on, op, path))
  BY AskTidy, AskKeeps, KeepsLeaves DEF RunFields

LEMMA ReleaseLeaves ==
  ASSUME NEW m, NEW st
  PROVE  Leaves(m, Release(m, st))
  BY ReleaseTidy, ReleaseKeeps, KeepsLeaves DEF RunFields

\* Publishing.
LEMMA RenderLeaves ==
  ASSUME NEW m
  PROVE  Leaves(m, Render(m)) /\ Leaves(m, RenderEdited(m))
<1> DEFINE a == WithoutOffer(m)
           b == WithoutPending(a)
<1>1. Leaves(m, a) /\ Leaves(a, b)
  BY DropOfferLeaves, DropPendingLeaves, LeavesSame DEF WithoutOffer, WithoutPending
<1> HIDE DEF a
<1>2. Leaves(m, b)
  BY <1>1, LeavesThen
<1> HIDE DEF b
<1>3. Only(b, Publish(b), {"commit", "hover", "snap"}) /\ Only(b, Announce(b), {"commit", "hover", "snap"})
  BY PublishMinds, AnnounceMinds
<1>4. Leaves(b, Publish(b)) /\ Leaves(b, Announce(b))
  BY <1>3, OnlyLeaves DEF RunFields
<1>5. Leaves(m, Publish(b)) /\ Leaves(m, Announce(b))
  BY <1>2, <1>4, LeavesThen
<1> QED
  BY <1>5 DEF Render, RenderEdited, a, b

\* Previews and offers.
ToolFields == {"pending", "print", "queued", "hover", "commit", "offer", "taken", "up", "stray", "landed",
               "gen", "table", "snap"}

LEMMA ToolLeaves ==
  ASSUME NEW x, NEW y, Only(x, y, ToolFields)
  PROVE  Leaves(x, y)
<1>1. ToolFields \cap (RunFields \cup {"inbox", "cache", "adoptions"}) = {}
  BY DEF ToolFields, RunFields
<1> QED
  BY <1>1, OnlyLeaves

LEMMA ShowPreviewLeaves ==
  ASSUME NEW m, NEW parent, NEW op, NEW st
  PROVE  Leaves(m, ShowPreview(m, parent, op, st))
<1> DEFINE shown == [m EXCEPT !.pending = [status |-> IF Landed(st) THEN "landed" ELSE "refused",
                                           parent |-> parent, op |-> op, state |-> st],
                              !.print = IF Landed(st) THEN "asked" ELSE "none"]
           asked == IF Landed(st) THEN Ask(shown, "print", st, "none", <<>>) ELSE shown
<1>1. Only(m, shown, ToolFields)
  BY DEF Only, ToolFields
<1>2. ShowPreview(m, parent, op, st) = Render(asked)
  BY DEF ShowPreview
<1> HIDE DEF shown
<1>3. Leaves(m, shown) /\ Leaves(shown, asked)
  BY <1>1, ToolLeaves, AskLeaves, LeavesSame
<1> HIDE DEF asked
<1> QED
  BY <1>2, <1>3, RenderLeaves, LeavesThen

LEMMA PreviewFromLeaves ==
  ASSUME NEW m, NEW from, NEW op
  PROVE  Leaves(m, PreviewFrom(m, from, op))
<1> DEFINE parent == from.parent
           taken == m.offer.status # "idle" /\ m.offer.op = op /\ m.offer.parent = parent
           without == IF taken THEN [m EXCEPT !.offer = Idle] ELSE m
           clear == DropPending(without)
           working == [clear EXCEPT !.pending = [Idle EXCEPT !.status = "working", !.parent = parent, !.op = op]]
           shown == Render(working)
           queued == [shown EXCEPT !.queued = [on |-> parent, op |-> op]]
<1>1. \/ PreviewFrom(m, from, op) = m
      \/ PreviewFrom(m, from, op) = ShowPreview(clear, parent, op, m.offer.state)
      \/ PreviewFrom(m, from, op) = queued
      \/ PreviewFrom(m, from, op) = Ask(shown, "preview", parent, op, <<>>)
  BY DEF PreviewFrom
<1>2. Only(m, without, ToolFields)
  BY DEF Only, ToolFields
<1> HIDE DEF taken, without
<1>3. Leaves(m, clear)
  BY <1>2, ToolLeaves, DropPendingLeaves, LeavesThen
<1> HIDE DEF clear
<1>4. Only(clear, working, ToolFields)
  BY DEF Only, ToolFields
<1> HIDE DEF working
<1>5. Leaves(m, shown)
  BY <1>3, <1>4, ToolLeaves, RenderLeaves, LeavesThen
<1> HIDE DEF shown
<1>6. Only(shown, queued, ToolFields)
  BY DEF Only, ToolFields
<1> HIDE DEF queued
<1>7. Leaves(m, queued) /\ Leaves(m, Ask(shown, "preview", parent, op, <<>>))
  BY <1>5, <1>6, ToolLeaves, AskLeaves, LeavesThen
<1>8. Leaves(m, ShowPreview(clear, parent, op, m.offer.state))
  BY <1>3, ShowPreviewLeaves, LeavesThen
<1> QED
  BY <1>1, <1>7, <1>8, LeavesSame

LEMMA PreviewNowLeaves ==
  ASSUME NEW m, NEW op
  PROVE  Leaves(m, PreviewNow(m, op))
<1> DEFINE a == DropPending(m)
           b == [a EXCEPT !.hover = [NoHover EXCEPT !.pc = "waiting", !.op = op]]
<1>1. PreviewNow(m, op) = PreviewFrom(m, FoldingFrom(m).from, op) \/ PreviewNow(m, op) = b
  BY DEF PreviewNow
<1> HIDE DEF a
<1>2. Only(a, b, ToolFields)
  BY DEF Only, ToolFields
<1> HIDE DEF b
<1>3. Leaves(m, b)
  BY <1>2, ToolLeaves, DropPendingLeaves, LeavesThen DEF a
<1> QED
  BY <1>1, <1>3, PreviewFromLeaves

LEMMA KeepOfferLeaves ==
  ASSUME NEW m, NEW parent, NEW op, NEW st
  PROVE  Leaves(m, KeepOffer(m, parent, op, st))
<1> DEFINE a == DropOffer(m)
           b == [a EXCEPT !.offer = [status |-> IF Landed(st) THEN "landed" ELSE "refused",
                                     parent |-> parent, op |-> op, state |-> st]]
<1>1. KeepOffer(m, parent, op, st) = Release(m, st) \/ KeepOffer(m, parent, op, st) = b
  BY DEF KeepOffer
<1> HIDE DEF a
<1>2. Only(a, b, ToolFields)
  BY DEF Only, ToolFields
<1> HIDE DEF b
<1>3. Leaves(m, b)
  BY <1>2, ToolLeaves, DropOfferLeaves, LeavesThen DEF a
<1> QED
  BY <1>1, <1>3, ReleaseLeaves

LEMMA LetGoLeaves ==
  ASSUME NEW m, NEW st
  PROVE  Leaves(m, LetGo(m, st))
<1> DEFINE free == IF m.taken = st THEN [m EXCEPT !.taken = NoState] ELSE m
<1>1. LetGo(m, st) = Render(DropPending(free)) \/ LetGo(m, st) = Release(free, st)
  BY DEF LetGo
<1>2. Only(m, free, ToolFields)
  BY DEF Only, ToolFields
<1> HIDE DEF free
<1>3. Leaves(m, free)
  BY <1>2, ToolLeaves
<1>4. Leaves(m, Render(DropPending(free))) /\ Leaves(m, Release(free, st))
  BY <1>3, DropPendingLeaves, RenderLeaves, ReleaseLeaves, LeavesThen
<1> QED
  BY <1>1, <1>4

LEMMA NextPreviewLeaves ==
  ASSUME NEW m
  PROVE  Leaves(m, NextPreview(m))
<1> DEFINE told == IF m.commit.pc = "flight" THEN [m EXCEPT !.commit.pc = "answered"]
                   ELSE IF m.commit.pc = "queued" THEN [m EXCEPT !.commit.pc = "flight"] ELSE m
           asked == Ask(told, "preview", m.queued.on, m.queued.op, <<>>)
           sent == [asked EXCEPT !.queued = NoRequest]
<1>1. NextPreview(m) = told \/ NextPreview(m) = sent
  BY DEF NextPreview
<1>2. Only(m, told, ToolFields)
  BY DEF Only, ToolFields
<1> HIDE DEF told
<1>3. Leaves(m, told) /\ Leaves(m, asked)
  BY <1>2, ToolLeaves, AskLeaves, LeavesThen
<1> HIDE DEF asked
<1>4. Only(asked, sent, ToolFields)
  BY DEF Only, ToolFields
<1> HIDE DEF sent
<1> QED
  BY <1>1, <1>3, <1>4, ToolLeaves, LeavesThen

LEMMA HearPreviewLeaves ==
  ASSUME NEW m, NEW h, NEW st
  PROVE  Leaves(m, NextPreview(HearPreview(m, h, st)))
<1>1. Leaves(m, HearPreview(m, h, st))
  BY ShowPreviewLeaves, ReleaseLeaves DEF HearPreview
<1> QED
  BY <1>1, NextPreviewLeaves, LeavesThen

----------------------------------------------------------------------------
(* Every node is in the order of a replay.                                *)

\* Every node of the document is in the order of its replay.
LEMMA RestCovers ==
  ASSUME NEW steps, NEW ids, Tree(steps, ids), NEW active, NEW rest,
         rest = [i \in 0..Len(steps) |-> Resting(steps, active, rest, i)]
  PROVE  \A j \in DOMAIN steps : steps[j].id \in ToSet(active) \cup ToSet(rest[Len(steps)])
<1> DEFINE n == Len(steps)
           Has(i) == \A j \in 1..i : steps[j].id \in ToSet(active) \cup ToSet(rest[i])
           T == {i \in 0..n : rest[i] \in Seq(Places(steps)) /\ Has(i)}
<1>1. n \in Nat /\ DOMAIN steps = 1..n /\ \A i \in 1..n : steps[i].id \in Places(steps)
  BY SeqDomain DEF Tree, Places, IdsOf
<1>2. 0 \in T
  <2>1. rest[0] = <<>> /\ 0 \in 0..n
    BY <1>1 DEF Resting
  <2>2. Has(0)
    OBVIOUS
  <2> HIDE DEF Has
  <2> QED
    BY <2>1, <2>2
<1>3. ASSUME NEW j \in 0..(n - 1), j \in T
      PROVE  j + 1 \in T
  <2>1. j + 1 \in 0..n /\ j + 1 \in 1..n /\ j + 1 # 0 /\ j + 1 - 1 = j
    BY <1>1
  <2> DEFINE q == rest[j]
             e == steps[j + 1].id
             r == rest[j + 1]
  <2>2. r = IF e \in ToSet(active) THEN q ELSE Append(q, e)
    <3>1. rest[j + 1] = Resting(steps, active, rest, j + 1)
      BY <2>1
    <3>2. Resting(steps, active, rest, j + 1) = IF e \in ToSet(active) THEN q ELSE Append(q, e)
      BY <2>1 DEF Resting
    <3> QED
      BY <3>1, <3>2
  <2>3. q \in Seq(Places(steps)) /\ Has(j) /\ e \in Places(steps)
    BY <1>1, <1>3, <2>1
  <2> HIDE DEF q, e, r
  <2>4. Append(q, e) \in Seq(Places(steps)) /\ ToSet(Append(q, e)) = ToSet(q) \cup {e}
    <3>1. /\ Append(q, e) \in Seq(Places(steps)) /\ Len(Append(q, e)) = Len(q) + 1
          /\ \A i \in 1..Len(q) : Append(q, e)[i] = q[i]
          /\ Append(q, e)[Len(q) + 1] = e
      BY <2>3, AppendProperties
    <3>2. Len(q) \in Nat /\ DOMAIN q = 1..Len(q) /\ DOMAIN Append(q, e) = 1..(Len(q) + 1)
      BY <2>3, <3>1, LenProperties
    <3> QED
      BY <3>1, <3>2 DEF ToSet
  <2>5. r \in Seq(Places(steps)) /\ ToSet(q) \subseteq ToSet(r) /\ e \in ToSet(active) \cup ToSet(r)
    BY <2>2, <2>3, <2>4
  <2>6. Has(j + 1)
    <3> SUFFICES ASSUME NEW i \in 1..(j + 1)
                 PROVE  steps[i].id \in ToSet(active) \cup ToSet(r)
      BY DEF r
    <3>1. CASE i = j + 1
      BY <2>5, <3>1 DEF e
    <3>2. CASE i # j + 1
      <4>1. i \in 1..j
        BY <3>2, <1>3
      <4> QED
        BY <2>3, <2>5, <4>1 DEF q
    <3> QED
      BY <3>1, <3>2
  <2> HIDE DEF Has
  <2> QED
    BY <2>1, <2>5, <2>6 DEF r
<1>4. \A i \in 0..n : i \in T
  <2> HIDE DEF T, n
  <2> QED
    BY <1>1, <1>2, <1>3, Climb
<1>5. n \in 0..n
  BY <1>1
<1> QED
  BY <1>1, <1>4, <1>5

LEMMA ConcatSet ==
  ASSUME NEW M, NEW q \in Seq(M), NEW r \in Seq(M)
  PROVE  q \o r \in Seq(M) /\ ToSet(q \o r) = ToSet(q) \cup ToSet(r)
<1> DEFINE t == q \o r
<1>1. /\ t \in Seq(M) /\ Len(t) = Len(q) + Len(r)
      /\ \A i \in 1..(Len(q) + Len(r)) : t[i] = IF i <= Len(q) THEN q[i] ELSE r[i - Len(q)]
  BY ConcatProperties
<1>2. /\ Len(q) \in Nat /\ Len(r) \in Nat /\ DOMAIN q = 1..Len(q) /\ DOMAIN r = 1..Len(r)
      /\ DOMAIN t = 1..(Len(q) + Len(r))
  BY <1>1, LenProperties
<1> HIDE DEF t
<1>3. \A i \in DOMAIN t : t[i] \in ToSet(q) \cup ToSet(r)
  <2> SUFFICES ASSUME NEW i \in DOMAIN t
               PROVE  t[i] \in ToSet(q) \cup ToSet(r)
    OBVIOUS
  <2>1. i <= Len(q) => i \in DOMAIN q /\ t[i] = q[i]
    BY <1>1, <1>2
  <2>2. ~(i <= Len(q)) => i - Len(q) \in DOMAIN r /\ t[i] = r[i - Len(q)]
    BY <1>1, <1>2
  <2> QED
    BY <2>1, <2>2 DEF ToSet
<1>4. \A i \in DOMAIN q : i \in DOMAIN t /\ t[i] = q[i]
  BY <1>1, <1>2
<1>5. \A i \in DOMAIN r : i + Len(q) \in DOMAIN t /\ t[i + Len(q)] = r[i]
  <2> TAKE i \in DOMAIN r
  <2>1. i + Len(q) \in 1..(Len(q) + Len(r)) /\ ~(i + Len(q) <= Len(q)) /\ i + Len(q) - Len(q) = i
    BY <1>2
  <2> QED
    BY <1>1, <1>2, <2>1
<1>6. ToSet(t) = ToSet(q) \cup ToSet(r)
  BY <1>3, <1>4, <1>5 DEF ToSet
<1> QED
  BY <1>1, <1>6 DEF t

LEMMA OrderCovers ==
  ASSUME NEW steps, NEW ids, Tree(steps, ids), NEW tip \in Places(steps)
  PROVE  \A id \in Places(steps) : \E k \in DOMAIN ReplayOrder(steps, tip) : ReplayOrder(steps, tip)[k] = id
<1> DEFINE active == LineOf(steps, tip)
           rest == CHOOSE rest : rest = [i \in 0..Len(steps) |-> Resting(steps, active, rest, i)]
           r == rest[Len(steps)]
           q == <<0>> \o active \o r
<1>1. active \in Seq(Places(steps))
  BY LineIsSeq
<1>2. rest = [i \in 0..Len(steps) |-> Resting(steps, active, rest, i)]
  <2> HIDE DEF active
  <2>1. Len(steps) \in Nat
    BY SeqDomain DEF Tree
  <2>2. \E x : x = [i \in 0..Len(steps) |-> Resting(steps, active, x, i)]
    BY <2>1, RestsExist
  <2> QED
    BY <2>2
<1>3. ReplayOrder(steps, tip) = q
  BY DEF ReplayOrder, Resting
<1> HIDE DEF active, rest
<1>4. r \in Seq(Places(steps)) /\ \A j \in DOMAIN steps : steps[j].id \in ToSet(active) \cup ToSet(r)
  BY <1>2, RestIsSeq, RestCovers
<1> HIDE DEF r
<1>5. <<0>> \in Seq(Places(steps)) /\ ToSet(<<0>>) = {0}
  BY DEF Places, ToSet
<1>6. ToSet(q) = ToSet(<<0>>) \cup ToSet(active) \cup ToSet(r)
  <2> DEFINE M == Places(steps)
             c == <<0>>
             d == c \o active
  <2>1. c \in Seq(M) /\ active \in Seq(M) /\ r \in Seq(M)
    BY <1>1, <1>4, <1>5
  <2> HIDE DEF M, c
  <2>2. d \in Seq(M) /\ ToSet(d) = ToSet(c) \cup ToSet(active)
    BY <2>1, ConcatSet
  <2> HIDE DEF d
  <2>3. ToSet(d \o r) = ToSet(d) \cup ToSet(r)
    BY <2>1, <2>2, ConcatSet
  <2> QED
    BY <2>2, <2>3 DEF c, d
<1> HIDE DEF q
<1>7. \A id \in Places(steps) : id \in ToSet(q)
  BY <1>4, <1>5, <1>6 DEF Places, IdsOf
<1> QED
  BY <1>3, <1>7 DEF ToSet

----------------------------------------------------------------------------
(* A run goes on.                                                         *)

RunWhole(run) == {"on", "load", "steps", "order", "at", "waits", "made"} \subseteq DOMAIN run
MadeIn(run, id) == id \in DOMAIN run.made /\ run.made[id].state # NoState

\* A run awaits the node it stands at, and has made those before it.
RunWaits(m) ==
  /\ m.run.waits /\ m.run.at \in DOMAIN m.run.order
  /\ \A j \in DOMAIN m.run.order : j < m.run.at => MadeIn(m.run, m.run.order[j])
  /\ AsksNow(m, "replay", PathOf(m.run.steps, m.run.order[m.run.at]))

\* A run on its way: it waits, or it has made the nodes up to the k-th.
Visited(m, k) ==
  /\ Neat(m) /\ m.run.on /\ RunWhole(m.run)
  /\ \/ RunWaits(m)
     \/ ~m.run.waits /\ \A j \in DOMAIN m.run.order : j <= k => MadeIn(m.run, m.run.order[j])

\* The same run goes on.
Onward(x, y) ==
  /\ y.run.on /\ y.run.load = x.run.load /\ y.run.steps = x.run.steps /\ y.run.order = x.run.order
  /\ y.progress.done => x.progress.done
  /\ "done" \in DOMAIN x.progress => "done" \in DOMAIN y.progress
  /\ \A path : AsksNow(x, "version", path) => AsksNow(y, "version", path)
  /\ \A f \in RunFields \ {"run", "progress"} : y[f] = x[f]

LEMMA OnwardThen ==
  ASSUME NEW x, NEW y, NEW z, Onward(x, y), Onward(y, z)
  PROVE  Onward(x, z)
  BY DEF Onward

LEMMA MadeGoes ==
  ASSUME NEW m, Neat(m), RunWhole(m.run), m.run.on, NEW id, NEW st, st # NoState
  PROVE  LET y == Made(m, id, st) IN
         /\ Only(m, y, {"run"}) /\ Neat(y) /\ RunWhole(y.run) /\ Onward(m, y)
         /\ y.run.waits = m.run.waits /\ y.run.at = m.run.at
         /\ MadeIn(y.run, id) /\ \A i : MadeIn(m.run, i) => MadeIn(y.run, i)
<1> DEFINE e == [path |-> PathOf(m.run.steps, id), state |-> st]
           made == Put(m.run.made, id, e)
           run == [m.run EXCEPT !.made = made]
           y == Made(m, id, st)
<1>1. y = [m EXCEPT !.run = run]
  BY DEF Made
<1>2. e.state = st
  OBVIOUS
<1> HIDE DEF e, y
<1>3. DOMAIN made = DOMAIN m.run.made \cup {id} /\ \A i \in DOMAIN made : made[i] = IF i = id THEN e ELSE m.run.made[i]
  BY DEF Put
<1> HIDE DEF made
<1>4. /\ DOMAIN run = DOMAIN m.run /\ run.made = made
      /\ \A f \in DOMAIN m.run \ {"made"} : run[f] = m.run[f]
  BY DEF RunWhole
<1> HIDE DEF run
<1>5. Only(m, y, {"run"}) /\ (Neat(m) => y.run = run)
  BY <1>1 DEF Only, Neat, RunFields
<1>6. Tidy(m, y, Kinds)
  BY <1>5, OnlyTidy
<1>7. y.run.load = m.run.load /\ y.run.steps = m.run.steps /\ y.run.order = m.run.order /\ y.run.on
      /\ y.run.waits = m.run.waits /\ y.run.at = m.run.at
  BY <1>4, <1>5 DEF RunWhole
<1>8. Neat(y) /\ RunWhole(y.run)
  BY <1>4, <1>5, <1>6 DEF Tidy, RunWhole
<1>9. MadeIn(y.run, id) /\ \A i : MadeIn(m.run, i) => MadeIn(y.run, i)
  BY <1>2, <1>3, <1>4, <1>5 DEF MadeIn
<1>10. \A f \in RunFields \ {"run"} : y[f] = m[f]
  BY <1>5 DEF Only, Neat
<1>11. Onward(m, y)
  <2>1. y.progress = m.progress
    BY <1>10 DEF RunFields
  <2>2. \A path : AsksNow(m, "version", path) => AsksNow(y, "version", path)
    BY <1>6 DEF Tidy, Kinds
  <2> QED
    BY <1>7, <1>10, <2>1, <2>2 DEF Onward
<1> QED
  BY <1>5, <1>7, <1>8, <1>9, <1>11 DEF y

\* It stops at a node that is being asked for.
LEMMA StopsAt ==
  ASSUME NEW m, NEW k, Neat(m), RunWhole(m.run), m.run.on, k \in DOMAIN m.run.order,
         \A j \in DOMAIN m.run.order : j < k => MadeIn(m.run, m.run.order[j]),
         AsksNow(m, "replay", PathOf(m.run.steps, m.run.order[k]))
  PROVE  LET y == [m EXCEPT !.run.at = k, !.run.waits = TRUE] IN
         Visited(y, k) /\ Onward(m, y)
<1> DEFINE run == [m.run EXCEPT !.at = k, !.waits = TRUE]
           y == [m EXCEPT !.run.at = k, !.run.waits = TRUE]
<1>1. y = [m EXCEPT !.run = run]
  BY DEF Neat, RunFields
<1>2. /\ DOMAIN run = DOMAIN m.run /\ run.at = k /\ run.waits = TRUE
      /\ \A f \in DOMAIN m.run \ {"at", "waits"} : run[f] = m.run[f]
  BY DEF RunWhole
<1> HIDE DEF run, y
<1>3. Only(m, y, {"run"}) /\ y.run = run
  BY <1>1 DEF Only, Neat, RunFields
<1>4. Tidy(m, y, Kinds)
  BY <1>3, OnlyTidy
<1>5. /\ y.run.load = m.run.load /\ y.run.steps = m.run.steps /\ y.run.order = m.run.order /\ y.run.on
      /\ y.run.waits /\ y.run.at = k /\ y.run.made = m.run.made /\ RunWhole(y.run)
  BY <1>2, <1>3 DEF RunWhole
<1>6. RunWaits(y)
  BY <1>4, <1>5 DEF RunWaits, MadeIn, Tidy, Kinds
<1>7. \A f \in RunFields \ {"run"} : y[f] = m[f]
  BY <1>3 DEF Only, Neat
<1>8. y.progress = m.progress
  BY <1>7 DEF RunFields
<1>9. Onward(m, y)
  BY <1>4, <1>5, <1>7, <1>8 DEF Onward, Tidy, Kinds
<1>10. Visited(y, k)
  BY <1>4, <1>5, <1>6 DEF Visited, Tidy
<1> QED
  BY <1>9, <1>10 DEF y

\* It reports what it has made.
LEMMA ReportGoes ==
  ASSUME NEW m, Neat(m), NEW done
  PROVE  LET y == Report(m, done) IN
         /\ Neat(y) /\ \A f \in RunFields \ {"progress"} : y[f] = m[f]
         /\ y.progress = [load |-> m.run.load, done |-> done, made |-> m.run.made]
         /\ \A kind \in Kinds : \A path : AsksNow(m, kind, path) => AsksNow(y, kind, path)
<1> DEFINE p == [load |-> m.run.load, done |-> done, made |-> m.run.made]
           b == [m EXCEPT !.progress = p]
           y == Report(m, done)
<1>1. y = Render(b)
  BY DEF Report
<1> HIDE DEF p, y
<1>2. Only(m, b, {"progress"}) /\ b.progress = p
  BY DEF Only, Neat, RunFields
<1> HIDE DEF b
<1>3. Tidy(m, b, Kinds)
  BY <1>2, OnlyTidy
<1>4. \A f \in RunFields \ {"progress"} : b[f] = m[f]
  BY <1>2 DEF Only, Neat
<1>5. Leaves(b, y)
  BY <1>1, RenderLeaves
<1>6. Neat(y) /\ \A f \in RunFields : y[f] = b[f]
  BY <1>3, <1>5 DEF Leaves, Tidy
<1>7. y.progress = p
  BY <1>2, <1>6 DEF RunFields
<1>8. \A kind \in Kinds : \A path : AsksNow(m, kind, path) => AsksNow(y, kind, path)
  BY <1>3, <1>5 DEF Leaves, Tidy
<1> QED
  BY <1>4, <1>6, <1>7, <1>8 DEF y, p

LEMMA VisitVisits ==
  ASSUME NEW m, NEW k \in Nat \ {0}, Shape(m), Visited(m, k - 1), k \in DOMAIN m.run.order
  PROVE  Visited(Visit(m, k), k) /\ Onward(m, Visit(m, k))
<1> DEFINE id == m.run.order[k]
           path == PathOf(m.run.steps, id)
           step == IF id = 0 THEN [op |-> "none", parent |-> 0] ELSE StepOf(m.run.steps, id)
           parent == IF id = 0 THEN NoState ELSE m.run.made[step.parent].state
           offered == {a \in m.adoptions : a.parent = parent /\ a.op = step.op}
           a == CHOOSE a \in offered : TRUE
           adopted == [Made(m, id, a.state) EXCEPT !.cache = Put(@, path, a.state), !.adoptions = @ \ {a}]
           asked == Ask(m, "replay", parent, step.op, path)
           Good(y) == Visited(y, k) /\ Onward(m, y)
<1>1. Neat(m) /\ m.run.on /\ RunWhole(m.run)
  BY DEF Visited
<1>2. Onward(m, m)
  BY <1>1 DEF Onward
<1>3. CASE m.run.waits
  <2>1. Visit(m, k) = m
    BY <1>3 DEF Visit
  <2> QED
    BY <1>2, <1>3, <2>1 DEF Visited
<1>4. CASE ~m.run.waits
  <2>1. DOMAIN m.run.order = 1..Len(m.run.order) /\ Len(m.run.order) \in Nat
    BY <1>1, SeqDomain DEF Shape, RunShape
  <2>2. \A j \in DOMAIN m.run.order : j < k => MadeIn(m.run, m.run.order[j])
    BY <1>4, <2>1 DEF Visited, RunWaits
  <2>3. ASSUME NEW y, Neat(y), RunWhole(y.run), Onward(m, y), y.run.waits = m.run.waits,
               MadeIn(y.run, id), \A i : MadeIn(m.run, i) => MadeIn(y.run, i)
        PROVE  Good(y)
    <3>1. y.run.order = m.run.order /\ y.run.on
      BY <2>3 DEF Onward
    <3>2. \A j \in DOMAIN y.run.order : j <= k => MadeIn(y.run, y.run.order[j])
      <4> SUFFICES ASSUME NEW j \in DOMAIN m.run.order, j <= k
                   PROVE  MadeIn(y.run, m.run.order[j])
        BY <3>1
      <4>1. CASE j = k
        BY <2>3, <4>1
      <4>2. CASE j # k
        <5>1. j < k
          BY <2>1, <4>2
        <5> QED
          BY <2>2, <2>3, <5>1
      <4> QED
        BY <4>1, <4>2
    <3> QED
      BY <1>4, <2>3, <3>1, <3>2 DEF Visited
  <2>4. \A st : st # NoState => Good(Made(m, id, st))
    <3> TAKE st
    <3> HAVE st # NoState
    <3> DEFINE y == Made(m, id, st)
    <3> HIDE DEF id, Good
    <3>1. /\ Neat(y) /\ RunWhole(y.run) /\ Onward(m, y) /\ y.run.waits = m.run.waits
          /\ MadeIn(y.run, id) /\ \A i : MadeIn(m.run, i) => MadeIn(y.run, i)
      BY <1>1, MadeGoes
    <3> HIDE DEF y
    <3>2. Good(y)
      BY <2>3, <3>1
    <3> QED
      BY <3>2 DEF y
  <2>5. CASE parent = Broken
    <3>1. Visit(m, k) = Made(m, id, Broken)
      BY <1>4, <2>5 DEF Visit
    <3>2. Broken # NoState
      BY DEF Broken, NoState
    <3> HIDE DEF Good, id
    <3>3. Good(Visit(m, k))
      BY <2>4, <3>1, <3>2
    <3> QED
      BY <3>3 DEF Good
  <2>6. CASE parent # Broken /\ path \in DOMAIN m.cache
    <3>1. Visit(m, k) = Made(m, id, m.cache[path])
      BY <1>4, <2>6 DEF Visit
    <3>2. m.cache[path] # NoState
      BY <1>1, <2>6 DEF Neat
    <3> HIDE DEF Good, id, path
    <3>3. Good(Visit(m, k))
      BY <2>4, <3>1, <3>2
    <3> QED
      BY <3>3 DEF Good
  <2>7. CASE /\ parent # Broken /\ path \notin DOMAIN m.cache
             /\ \E i \in DOMAIN m.inbox : m.inbox[i].kind = "replay" /\ m.inbox[i].wanted /\ m.inbox[i].path = path
    <3>1. Visit(m, k) = [m EXCEPT !.run.at = k, !.run.waits = TRUE]
      BY <1>4, <2>7 DEF Visit
    <3>2. AsksNow(m, "replay", path)
      BY <2>7 DEF AsksNow, Calls
    <3> DEFINE y == [m EXCEPT !.run.at = k, !.run.waits = TRUE]
    <3>3. Visited(y, k) /\ Onward(m, y)
      BY <1>1, <2>2, <3>2, StopsAt
    <3> HIDE DEF y
    <3> QED
      BY <3>1, <3>3 DEF y
  <2>8. CASE /\ parent # Broken /\ path \notin DOMAIN m.cache
             /\ ~ \E i \in DOMAIN m.inbox : m.inbox[i].kind = "replay" /\ m.inbox[i].wanted /\ m.inbox[i].path = path
             /\ offered # {}
    <3>1. Visit(m, k) = Report(adopted, FALSE)
      BY <1>4, <2>8, Zenon DEF Visit
    <3>2. a \in m.adoptions
      BY <2>8
    <3> DEFINE st == a.state
               b == Made(m, id, st)
               cache == Put(b.cache, path, st)
               c == [b EXCEPT !.cache = cache, !.adoptions = @ \ {a}]
               y == Report(c, FALSE)
    <3>3. adopted = c
      OBVIOUS
    <3>4. Landed(st) /\ st # NoState
      BY <1>1, <3>2, NothingLanded DEF Neat
    <3> HIDE DEF a, id, path, adopted, Good, st
    <3>5. /\ Only(m, b, {"run"}) /\ Neat(b) /\ RunWhole(b.run) /\ Onward(m, b) /\ b.run.waits = m.run.waits
          /\ MadeIn(b.run, id) /\ \A i : MadeIn(m.run, i) => MadeIn(b.run, i)
      BY <1>1, <3>4, MadeGoes
    <3> HIDE DEF b
    <3>6. IsFiniteSet(DOMAIN cache) /\ \A p \in DOMAIN cache : cache[p] # NoState
      <4>1. DOMAIN cache = DOMAIN b.cache \cup {path} /\ \A p \in DOMAIN cache : cache[p] = IF p = path THEN st ELSE b.cache[p]
        BY DEF Put
      <4> HIDE DEF cache
      <4>2. IsFiniteSet({path}) /\ IsFiniteSet(DOMAIN b.cache)
        BY <3>5, FS_Singleton DEF Neat
      <4>3. IsFiniteSet(DOMAIN cache)
        <5> DEFINE D == DOMAIN b.cache
                   E == DOMAIN cache
        <5>1. E = D \cup {path} /\ IsFiniteSet(D)
          BY <4>1, <4>2
        <5> HIDE DEF D, E
        <5>2. IsFiniteSet(E)
          BY <5>1, FS_AddElement
        <5> QED
          BY <5>2 DEF E
      <4>4. \A p \in DOMAIN cache : cache[p] # NoState
        BY <3>4, <3>5, <4>1 DEF Neat
      <4> QED
        BY <4>3, <4>4
    <3> HIDE DEF cache
    <3>7. DOMAIN c = DOMAIN b /\ c.inbox = b.inbox /\ c.cache = cache /\ c.adoptions = b.adoptions \ {a}
      BY <3>5 DEF Neat
    <3>8. \A f \in RunFields : c[f] = b[f]
      BY <3>5 DEF Neat, RunFields
    <3> HIDE DEF c
    <3>9. IsFiniteSet(c.adoptions)
      <4>1. IsFiniteSet(b.adoptions) /\ c.adoptions \subseteq b.adoptions
        BY <3>5, <3>7 DEF Neat
      <4> QED
        BY <4>1, FS_Subset
    <3>10. Neat(c)
      BY <3>5, <3>6, <3>7, <3>9 DEF Neat
    <3>11. /\ Neat(y) /\ \A f \in RunFields \ {"progress"} : y[f] = c[f]
           /\ y.progress = [load |-> c.run.load, done |-> FALSE, made |-> c.run.made]
           /\ \A kind \in Kinds : \A p : AsksNow(c, kind, p) => AsksNow(y, kind, p)
      BY <3>10, ReportGoes
    <3>12. Report(adopted, FALSE) = y
      BY <3>3
    <3> HIDE DEF y
    <3>13. y.run = b.run
      BY <3>8, <3>11 DEF RunFields
    <3>14. Onward(m, y)
      <4>1. \A p : AsksNow(m, "version", p) => AsksNow(y, "version", p)
        <5>1. \A p : AsksNow(b, "version", p) => AsksNow(c, "version", p)
          BY <3>7 DEF AsksNow
        <5> QED
          BY <3>5, <3>11, <5>1 DEF Onward, Kinds
      <4>2. \A f \in RunFields \ {"run", "progress"} : y[f] = m[f]
        BY <3>5, <3>8, <3>11 DEF Onward
      <4>3. ~y.progress.done /\ "done" \in DOMAIN y.progress
        BY <3>11
      <4> QED
        BY <3>5, <3>13, <4>1, <4>2, <4>3 DEF Onward
    <3>15. Good(y)
      BY <2>3, <3>5, <3>11, <3>13, <3>14
    <3> QED
      BY <3>1, <3>12, <3>15 DEF Good
  <2>9. CASE /\ parent # Broken /\ path \notin DOMAIN m.cache
             /\ ~ \E i \in DOMAIN m.inbox : m.inbox[i].kind = "replay" /\ m.inbox[i].wanted /\ m.inbox[i].path = path
             /\ offered = {}
    <3> DEFINE y == [asked EXCEPT !.run.at = k, !.run.waits = TRUE]
    <3>1. Visit(m, k) = y
      BY <1>4, <2>9, Zenon DEF Visit
    <3>2. Leaves(m, asked) /\ AsksNow(asked, "replay", path)
      BY <1>1, AskLeaves, AskTidy
    <3> HIDE DEF asked
    <3>3. Neat(asked) /\ \A f \in RunFields : asked[f] = m[f]
      BY <1>1, <3>2 DEF Leaves, Tidy
    <3>4. asked.run = m.run /\ asked.progress = m.progress
      BY <3>3 DEF RunFields
    <3>5. Visited(y, k) /\ Onward(asked, y)
      BY <1>1, <2>2, <3>2, <3>3, <3>4, StopsAt
    <3>6. Onward(m, asked)
      BY <1>1, <3>2, <3>3, <3>4 DEF Onward, Leaves, Tidy, Kinds
    <3> HIDE DEF y
    <3> QED
      BY <3>1, <3>5, <3>6, OnwardThen
  <2> QED
    BY <2>5, <2>6, <2>7, <2>8, <2>9, Zenon
<1> QED
  BY <1>3, <1>4

LEMMA ValuesFinite ==
  ASSUME NEW f, IsFiniteSet(DOMAIN f), f = [x \in DOMAIN f |-> f[x]]
  PROVE  IsFiniteSet({f[x] : x \in DOMAIN f})
<1> DEFINE D == DOMAIN f
           T == {f[x] : x \in D}
<1>1. f \in [D -> T] /\ \A t \in T : \E x \in D : f[x] = t
  OBVIOUS
<1>2. f \in Surjection(D, T)
  BY <1>1 DEF Surjection
<1> HIDE DEF D, T
<1>3. IsFiniteSet(D)
  BY DEF D
<1>4. IsFiniteSet(T)
  BY <1>2, <1>3, FS_Surjection
<1> QED
  BY <1>4 DEF T, D

\* Offers are let go of.
LEMMA OffersLeave ==
  ASSUME NEW m, NEW left, NEW rest,
         Neat(m) => /\ left \subseteq m.adoptions /\ IsFiniteSet(rest)
                    /\ \A a \in rest : "state" \in DOMAIN a /\ Landed(a.state)
  PROVE  Leaves(m, [ReleaseAll(m, {a.state : a \in left}) EXCEPT !.adoptions = rest])
<1> DEFINE sts == {a.state : a \in left}
           b == ReleaseAll(m, sts)
           y == [b EXCEPT !.adoptions = rest]
<1> SUFFICES ASSUME Neat(m)
             PROVE  Leaves(m, y)
  BY DEF Leaves, Tidy
<1>1. IsFiniteSet(OfEngine(m, sts))
  <2> DEFINE f == [a \in left |-> a.state]
  <2>1. IsFiniteSet(left)
    BY FS_Subset DEF Neat
  <2>2. DOMAIN f = left /\ {f[x] : x \in DOMAIN f} = sts /\ f = [x \in DOMAIN f |-> f[x]]
    OBVIOUS
  <2> HIDE DEF f, sts
  <2>3. IsFiniteSet(sts)
    <3>1. IsFiniteSet(DOMAIN f)
      BY <2>1, <2>2
    <3>2. IsFiniteSet({f[x] : x \in DOMAIN f})
      BY <2>2, <3>1, ValuesFinite
    <3> QED
      BY <2>2, <3>2
  <2>4. OfEngine(m, sts) \subseteq sts
    BY DEF OfEngine
  <2> QED
    BY <2>3, <2>4, FS_Subset
<1> HIDE DEF sts
<1>2. Tidy(m, b, Kinds) /\ Keeps(m, b, {"table", "inbox"})
  BY <1>1, ReleaseAllTidy, ReleaseAllKeeps
<1>3. Leaves(m, b)
  BY <1>2, KeepsLeaves DEF RunFields
<1> HIDE DEF b
<1>4. Neat(b)
  BY <1>3 DEF Leaves, Tidy
<1>5. DOMAIN y = DOMAIN b /\ y.adoptions = rest /\ y.inbox = b.inbox /\ y.cache = b.cache
  BY <1>4 DEF Neat
<1>6. \A f \in RunFields : y[f] = b[f]
  BY <1>4 DEF Neat, RunFields
<1> HIDE DEF y
<1>7. Neat(y)
  BY <1>4, <1>5 DEF Neat
<1>8. \A k, p : AsksNow(b, k, p) => AsksNow(y, k, p)
  BY <1>5 DEF AsksNow
<1>9. Leaves(b, y)
  BY <1>6, <1>7, <1>8 DEF Leaves, Tidy
<1>10. Leaves(m, y)
  BY <1>3, <1>9, LeavesThen
<1> QED
  BY <1>10 DEF y

LEMMA UnadoptedLeaves ==
  ASSUME NEW m
  PROVE  Leaves(m, ReleaseUnadopted(m))
<1> DEFINE left == {a \in m.adoptions : a.older}
           b == ReleaseAll(m, {a.state : a \in left})
           y == ReleaseUnadopted(m)
           rest == b.adoptions \ left
<1>1. y = [b EXCEPT !.adoptions = rest]
  BY DEF ReleaseUnadopted
<1>2. Only(m, b, {"table", "inbox"})
  BY ReleaseAllKeeps DEF Keeps
<1>3. Neat(m) => b.adoptions = m.adoptions
  BY <1>2 DEF Only, Neat
<1>4. Neat(m) => left \subseteq m.adoptions /\ IsFiniteSet(rest) /\ \A a \in rest : "state" \in DOMAIN a /\ Landed(a.state)
  <2> SUFFICES ASSUME Neat(m)
               PROVE  left \subseteq m.adoptions /\ IsFiniteSet(rest) /\ \A a \in rest : "state" \in DOMAIN a /\ Landed(a.state)
    OBVIOUS
  <2>1. rest \subseteq m.adoptions
    BY <1>3
  <2> HIDE DEF rest
  <2>2. IsFiniteSet(rest)
    BY <2>1, FS_Subset DEF Neat
  <2> QED
    BY <2>1, <2>2 DEF Neat
<1> HIDE DEF left, rest, y
<1>5. Leaves(m, [ReleaseAll(m, {a.state : a \in left}) EXCEPT !.adoptions = rest])
  BY <1>4, OffersLeave
<1> QED
  BY <1>1, <1>5 DEF y

----------------------------------------------------------------------------
(* What is not shown is on its way.                                       *)

\* Every node is shown at a state, or as refused.
AllIn(m) == \A id \in Places(m.steps) : ShownIn(m)[id] # NoState

\* A run covers the document.
RunCovers(m) ==
  m.run.load = m.load /\ \A id \in Places(m.steps) : \E k \in DOMAIN m.run.order : m.run.order[k] = id

Underway(m) == m.scheduled \/ m.starting \/ m.run.on

Steady(m) ==
  /\ Neat(m)
  /\ m.starting => ~m.ready /\ AsksNow(m, "version", <<>>)
  /\ m.halted => m.error # NoError /\ ~m.run.on /\ ~m.progress.done
  /\ "done" \in DOMAIN m.progress /\ (m.progress.done => m.ready)
  /\ m.run.on => RunWhole(m.run) /\ (m.scheduled \/ RunCovers(m))

\* What is not shown is on its way, or what is wrong is said; and a surface that comes back
\* finds it shown, or owed a replay.
Told(m) ==
  /\ m.holders > 0 => m.error # NoError \/ AllIn(m) \/ Underway(m)
  /\ m.progress.done /\ m.progress.load = m.load /\ m.holders > 0 => AllIn(m) \/ Underway(m)
  /\ m.lingering /\ ~m.owed => AllIn(m)

Prompt(m) == Steady(m) /\ (m.run.on => RunWaits(m)) /\ Told(m)

LEMMA ShownSame ==
  ASSUME NEW x, NEW y, y.load = x.load, y.steps = x.steps, y.progress = x.progress, y.ahead = x.ahead
  PROVE  AllIn(y) <=> AllIn(x)
<1>1. ShownIn(y) = ShownIn(x)
  BY DEF ShownIn
<1> QED
  BY <1>1 DEF AllIn

LEMMA LeavesPrompt ==
  ASSUME NEW x, NEW y, Leaves(x, y)
  PROVE  (Steady(x) => Steady(y)) /\ (Prompt(x) => Prompt(y))
<1>1. ASSUME Steady(x)
      PROVE  /\ Steady(y) /\ (RunWaits(x) => RunWaits(y)) /\ (Told(x) => Told(y)) /\ y.run = x.run
  <2>1. Neat(x)
    BY <1>1 DEF Steady
  <2>2. /\ Neat(y) /\ \A f \in RunFields : y[f] = x[f]
        /\ \A kind \in Kinds : \A path : AsksNow(x, kind, path) => AsksNow(y, kind, path)
    BY <2>1 DEF Leaves, Tidy
  <2>3. /\ y.load = x.load /\ y.steps = x.steps /\ y.holders = x.holders /\ y.lingering = x.lingering
        /\ y.owed = x.owed /\ y.ready = x.ready /\ y.starting = x.starting /\ y.scheduled = x.scheduled
        /\ y.run = x.run /\ y.progress = x.progress /\ y.halted = x.halted /\ y.error = x.error /\ y.ahead = x.ahead
    BY <2>2 DEF RunFields
  <2>4. AllIn(y) <=> AllIn(x)
    BY <2>3, ShownSame
  <2>5. Steady(y)
    BY <1>1, <2>2, <2>3 DEF Steady, RunCovers, Kinds
  <2>6. RunWaits(x) => RunWaits(y)
    BY <2>2, <2>3 DEF RunWaits, Kinds
  <2>7. Told(x) => Told(y)
    BY <2>3, <2>4 DEF Told, Underway
  <2> QED
    BY <2>3, <2>5, <2>6, <2>7
<1> QED
  BY <1>1 DEF Prompt

\* A run that ends shows what it made.
LEMMA FinishGoes ==
  ASSUME NEW m, Neat(m), m.run.on, RunWhole(m.run),
         \A j \in DOMAIN m.run.order : MadeIn(m.run, m.run.order[j])
  PROVE  LET y == Finish(m) IN
         /\ Neat(y) /\ ~y.run.on /\ \A f \in RunFields \ {"run", "progress", "ahead"} : y[f] = m[f]
         /\ \A path : AsksNow(m, "version", path) => AsksNow(y, "version", path)
         /\ RunCovers(m) => AllIn(y)
         /\ "done" \in DOMAIN y.progress
<1> DEFINE a == Report(m, TRUE)
           ahead == IF a.ahead.older \/ ( /\ a.ahead.load = a.progress.load /\ a.ahead.id \in DOMAIN a.progress.made
                                          /\ a.progress.made[a.ahead.id].state # NoState)
                      THEN NoAhead ELSE a.ahead
           b == Settled(a)
           c == ReleaseUnadopted(b)
           y == Finish(m)
<1>1. y = Render(c)
  BY DEF Finish
<1>2. b = [a EXCEPT !.run = NoRun, !.ahead = ahead]
  BY DEF Settled
<1>3. /\ Neat(a) /\ \A f \in RunFields \ {"progress"} : a[f] = m[f]
      /\ a.progress = [load |-> m.run.load, done |-> TRUE, made |-> m.run.made]
      /\ \A kind \in Kinds : \A path : AsksNow(m, kind, path) => AsksNow(a, kind, path)
  BY ReportGoes
<1> HIDE DEF a, ahead, y
<1>4. Only(a, b, {"run", "ahead"}) /\ b.run = NoRun
  BY <1>2, <1>3 DEF Only, Neat, RunFields
<1>5. Tidy(a, b, Kinds)
  BY <1>4, OnlyTidy
<1> HIDE DEF b
<1>6. Leaves(b, c) /\ Leaves(c, y)
  BY <1>1, UnadoptedLeaves, RenderLeaves
<1> HIDE DEF c
<1>7. Leaves(b, y)
  BY <1>6, LeavesThen
<1>8. Neat(b) /\ \A f \in RunFields \ {"run", "ahead"} : b[f] = a[f]
  BY <1>3, <1>4, <1>5 DEF Tidy, Only, Neat
<1>9. Neat(y) /\ \A f \in RunFields : y[f] = b[f]
  BY <1>7, <1>8 DEF Leaves, Tidy
<1>10. y.run = NoRun /\ \A f \in RunFields \ {"run", "progress", "ahead"} : y[f] = m[f]
  BY <1>3, <1>4, <1>8, <1>9 DEF RunFields
<1>11. y.progress = [load |-> m.run.load, done |-> TRUE, made |-> m.run.made]
  BY <1>3, <1>8, <1>9 DEF RunFields
<1>12. \A path : AsksNow(m, "version", path) => AsksNow(y, "version", path)
  BY <1>3, <1>5, <1>7, <1>8 DEF Leaves, Tidy, Kinds
<1>13. ASSUME RunCovers(m)
       PROVE  AllIn(y)
  <2>1. y.load = m.load /\ y.steps = m.steps
    BY <1>10 DEF RunFields
  <2>2. y.progress.load = y.load
    BY <1>11, <1>13, <2>1 DEF RunCovers
  <2> SUFFICES ASSUME NEW id \in Places(y.steps)
               PROVE  ShownIn(y)[id] # NoState
    BY DEF AllIn
  <2>3. id \in DOMAIN y.progress.made /\ y.progress.made[id].state # NoState
    BY <1>11, <1>13, <2>1 DEF RunCovers, MadeIn
  <2>4. id \in {0} \cup IdsOf(y.steps)
    BY DEF Places
  <2> DEFINE p == IF y.progress.load = y.load THEN y.progress ELSE NoProgress
             made(i) == IF i \in DOMAIN p.made THEN p.made[i].state ELSE NoState
  <2>5. ShownIn(y)[id] = IF y.ahead.load = y.load /\ y.ahead.id = id /\ p # NoProgress /\ made(id) = NoState
                           THEN y.ahead.state ELSE made(id)
    BY <2>4 DEF ShownIn
  <2>6. made(id) # NoState
    BY <2>2, <2>3
  <2> QED
    BY <2>5, <2>6
<1>14. ~y.run.on
  BY <1>10 DEF NoRun
<1> QED
  BY <1>9, <1>10, <1>11, <1>12, <1>13, <1>14 DEF y

\* A run goes on until it waits or ends.
LEMMA AdvanceVisits ==
  ASSUME NEW m, NEW from \in Nat \ {0}, Shape(m), from <= Len(m.run.order) + 1, Current(m), Heard(m),
         Visited(m, from - 1)
  PROVE  \E x : /\ Advance(m, from) = FinishOrWait(x) /\ Visited(x, Len(x.run.order)) /\ Onward(m, x) /\ Shape(x)
<1> DEFINE b == from - 1
           n == Len(m.run.order)
           v == CHOOSE v : v = [k \in b..n |-> Visiting(m, from, v, k)]
           Good(y, k) == Visited(y, k) /\ Onward(m, y) /\ Shape(y) /\ Current(y) /\ Heard(y)
           T == {k \in b..n : Good(v[k], k)}
<1>0. m.run.on /\ RunWhole(m.run) /\ Neat(m)
  BY DEF Visited
<1>1. n \in Nat /\ DOMAIN m.run.order = 1..n /\ b \in Nat /\ b <= n
  BY <1>0, SeqDomain DEF Shape, RunShape
<1>2. v = [k \in b..n |-> Visiting(m, from, v, k)]
  <2>1. \E u : u = [k \in b..n |-> Visiting(m, from, u, k)]
    BY <1>1, VisitsExist
  <2> QED
    BY <2>1
<1>3. Advance(m, from) = FinishOrWait(v[n])
  BY DEF Advance, Visiting
<1> HIDE DEF v
<1>4. b \in T
  <2>1. b \in b..n /\ b < from
    BY <1>1
  <2>2. v[b] = m
    BY <1>2, <2>1 DEF Visiting
  <2>3. Good(m, b)
    BY <1>0 DEF Onward
  <2> QED
    BY <2>1, <2>2, <2>3
<1>5. ASSUME NEW k \in b..(n - 1), k \in T
      PROVE  k + 1 \in T
  <2> DEFINE x == v[k]
             y == Visit(x, k + 1)
  <2>1. k + 1 \in b..n /\ ~(k + 1 < from) /\ k + 1 - 1 = k /\ k + 1 \in 1..n /\ k + 1 \in Nat \ {0}
    BY <1>1, <1>5
  <2>2. v[k + 1] = y
    BY <1>2, <2>1 DEF Visiting
  <2>3. Good(x, k)
    BY <1>5
  <2> HIDE DEF x
  <2>4. Shape(x) /\ x.run.on /\ k + 1 \in DOMAIN x.run.order /\ Visited(x, k)
    BY <1>1, <2>1, <2>3 DEF Onward
  <2>5. Visited(y, k + 1) /\ Onward(x, y)
    <3> HIDE DEF y
    <3>1. Visited(x, k + 1 - 1)
      BY <2>1, <2>4
    <3> QED
      BY <2>1, <2>4, <3>1, VisitVisits DEF y
  <2>6. Keeps(x, y, ReplaySlots) /\ Current(y) /\ Heard(y)
    BY <2>3, <2>4, VisitGoes
  <2> HIDE DEF y
  <2>7. Good(y, k + 1)
    BY <2>3, <2>4, <2>5, <2>6, OnwardThen DEF Keeps
  <2> QED
    BY <2>1, <2>2, <2>7
<1>6. Good(v[n], n)
  <2>1. \A k \in b..n : k \in T
    <3> HIDE DEF T, n, b
    <3> QED
      BY <1>1, <1>4, <1>5, Climb
  <2>2. n \in b..n
    BY <1>1
  <2> QED
    BY <2>1, <2>2
<1>7. Len(v[n].run.order) = n
  BY <1>6 DEF Onward
<1> HIDE DEF n
<1>8. Visited(v[n], Len(v[n].run.order)) /\ Onward(m, v[n]) /\ Shape(v[n])
  BY <1>6, <1>7
<1> QED
  BY <1>3, <1>8

LEMMA AdvancePrompt ==
  ASSUME NEW m, NEW from \in Nat \ {0}, Shape(m), Sound(m), from <= Len(m.run.order) + 1, Current(m), Heard(m),
         Visited(m, from - 1), Steady(m)
  PROVE  Prompt(Advance(m, from))
<1>1. PICK x : /\ Advance(m, from) = FinishOrWait(x) /\ Visited(x, Len(x.run.order)) /\ Onward(m, x) /\ Shape(x)
  BY AdvanceVisits
<1>2. m.run.on /\ m.ready /\ m.holders > 0 /\ ~m.lingering /\ ~m.halted /\ m.holders # 0
  <2>1. m.run.on /\ m.ready /\ m.holders > 0 /\ m.holders \in Nat
    BY DEF Visited, Sound
  <2> QED
    BY <2>1 DEF Sound, Steady
<1>3. /\ x.load = m.load /\ x.steps = m.steps /\ x.holders = m.holders /\ x.lingering = m.lingering
      /\ x.ready = m.ready /\ x.starting = m.starting /\ x.scheduled = m.scheduled
      /\ x.halted = m.halted /\ x.run.on /\ x.run.order = m.run.order /\ x.run.load = m.run.load
  BY <1>1 DEF Onward, RunFields
<1>4. /\ Neat(x) /\ RunWhole(x.run) /\ (x.starting => ~x.ready /\ AsksNow(x, "version", <<>>))
      /\ (x.scheduled \/ RunCovers(x)) /\ "done" \in DOMAIN x.progress
  BY <1>1, <1>2, <1>3 DEF Visited, Steady, Onward, RunCovers
<1>5. CASE x.run.waits
  <2>1. Advance(m, from) = x
    BY <1>1, <1>5 DEF FinishOrWait
  <2>2. RunWaits(x)
    BY <1>1, <1>5 DEF Visited
  <2>3. Steady(x)
    BY <1>2, <1>3, <1>4 DEF Steady
  <2>4. Told(x)
    BY <1>2, <1>3 DEF Told, Underway
  <2> QED
    BY <2>1, <2>2, <2>3, <2>4 DEF Prompt
<1>6. CASE ~x.run.waits
  <2> DEFINE y == Finish(x)
  <2>1. Advance(m, from) = y
    BY <1>1, <1>6 DEF FinishOrWait
  <2>2. \A j \in DOMAIN x.run.order : MadeIn(x.run, x.run.order[j])
    <3>1. IsSeq(x.run.order)
      BY <1>1, <1>3 DEF Shape, RunShape
    <3>2. \A j \in DOMAIN x.run.order : j <= Len(x.run.order)
      BY <3>1, SeqDomain
    <3> QED
      BY <1>1, <1>6, <3>2 DEF Visited, RunWaits
  <2>3. /\ Neat(y) /\ ~y.run.on /\ \A f \in RunFields \ {"run", "progress", "ahead"} : y[f] = x[f]
        /\ \A path : AsksNow(x, "version", path) => AsksNow(y, "version", path)
        /\ RunCovers(x) => AllIn(y)
        /\ "done" \in DOMAIN y.progress
    BY <1>3, <1>4, <2>2, FinishGoes
  <2> HIDE DEF y
  <2>4. /\ y.ready = x.ready /\ y.starting = x.starting /\ y.scheduled = x.scheduled /\ y.halted = x.halted
        /\ y.holders = x.holders /\ y.lingering = x.lingering
    BY <2>3 DEF RunFields
  <2>5. Steady(y)
    BY <1>2, <1>3, <1>4, <2>3, <2>4 DEF Steady
  <2>6. Told(y)
    BY <1>2, <1>3, <1>4, <2>3, <2>4 DEF Told, Underway
  <2> QED
    BY <2>1, <2>3, <2>5, <2>6 DEF Prompt
<1> QED
  BY <1>5, <1>6

\* Of runs, starts and surfaces only T may have changed, and calls of the kinds K are still
\* under way.
Alters(x, y, T, K) == Tidy(x, y, K) /\ (Neat(x) => \A f \in RunFields \ T : y[f] = x[f])

LEMMA AltersThen ==
  ASSUME NEW x, NEW y, NEW z, NEW A, NEW B, NEW C, NEW K,
         Alters(x, y, A, K), Alters(y, z, B, K), A \cup B \subseteq C
  PROVE  Alters(x, z, C, K)
<1>1. Tidy(x, z, K)
  BY TidyThen DEF Alters
<1>2. ASSUME Neat(x)
      PROVE  \A f \in RunFields \ C : z[f] = x[f]
  BY <1>2 DEF Alters, Tidy
<1> QED
  BY <1>1, <1>2 DEF Alters

LEMMA LeavesAlters ==
  ASSUME NEW x, NEW y, NEW T, NEW K, Leaves(x, y), K \subseteq Kinds
  PROVE  Alters(x, y, T, K)
  BY TidyMore DEF Leaves, Alters

LEMMA OnlyAlters ==
  ASSUME NEW x, NEW y, NEW U, NEW T, NEW K, Only(x, y, U), U \cap {"inbox", "cache", "adoptions"} = {},
         U \cap RunFields \subseteq T
  PROVE  Alters(x, y, T, K)
<1>1. Tidy(x, y, K)
  BY OnlyTidy
<1>2. Neat(x) => \A f \in RunFields \ T : y[f] = x[f]
  BY DEF Only, Neat
<1> QED
  BY <1>1, <1>2 DEF Alters

\* What a start needs to be told: a run under way may be of steps that are gone.
Loose(m) ==
  /\ Neat(m)
  /\ m.starting => ~m.ready /\ AsksNow(m, "version", <<>>)
  /\ m.halted => m.error # NoError /\ ~m.run.on /\ ~m.progress.done
  /\ "done" \in DOMAIN m.progress /\ (m.progress.done => m.ready)
  /\ m.run.on => RunWhole(m.run) /\ RunWaits(m) /\ m.ready /\ m.holders > 0
  /\ m.lingering /\ ~m.owed => AllIn(m)

LEMMA PromptLoose ==
  ASSUME NEW m, Prompt(m), Sound(m)
  PROVE  Loose(m)
  BY DEF Prompt, Steady, Told, Sound, Loose

LEMMA StartGoes ==
  ASSUME NEW m, Neat(m)
  PROVE  LET y == Start(m) IN
         /\ Alters(m, y, {"scheduled", "starting"}, Kinds)
         /\ m.scheduled => y.scheduled
         /\ y.scheduled => m.scheduled \/ m.ready
         /\ y.starting => m.starting \/ (~m.ready /\ AsksNow(y, "version", <<>>))
         /\ m.starting => y.starting
         /\ m.holders > 0 /\ m.holders # 0 /\ ~m.halted => y.starting \/ y.scheduled
         /\ m.holders > 0 /\ m.holders # 0 /\ ~m.halted /\ m.ready => y.scheduled
<1> DEFINE b == [m EXCEPT !.scheduled = TRUE]
           a == Ask(m, "version", NoState, "none", <<>>)
           c == [a EXCEPT !.starting = TRUE]
           T == {"scheduled", "starting"}
<1>1. Alters(m, m, T, Kinds)
  BY LeavesSame, LeavesAlters
<1>2. CASE m.holders = 0 \/ m.halted \/ (~m.ready /\ m.starting) \/ (m.ready /\ ~m.holders > 0)
  <2>1. Start(m) = m
    BY <1>2 DEF Start, ScheduleReplay
  <2> QED
    BY <1>1, <1>2, <2>1
<1>3. CASE m.ready /\ m.holders > 0 /\ ~(m.holders = 0 \/ m.halted)
  <2>1. Start(m) = b
    BY <1>3 DEF Start, ScheduleReplay
  <2>2. Only(m, b, {"scheduled"}) /\ b.scheduled /\ b.starting = m.starting
    BY DEF Only, Neat, RunFields
  <2> HIDE DEF b
  <2>3. Alters(m, b, T, Kinds)
    BY <2>2, OnlyAlters
  <2> QED
    BY <1>3, <2>1, <2>2, <2>3
<1>4. CASE ~m.ready /\ ~(m.holders = 0 \/ m.halted) /\ ~m.starting
  <2>1. Start(m) = c
    BY <1>4 DEF Start
  <2>2. Leaves(m, a) /\ AsksNow(a, "version", <<>>)
    BY AskLeaves, AskTidy, NothingLanded
  <2> HIDE DEF a
  <2>3. Neat(a) /\ \A f \in RunFields : a[f] = m[f]
    BY <2>2 DEF Leaves, Tidy
  <2>4. Only(a, c, {"starting"}) /\ c.starting /\ c.scheduled = a.scheduled
    BY <2>3 DEF Only, Neat, RunFields
  <2> HIDE DEF c
  <2>5. Alters(a, c, T, Kinds) /\ Alters(m, a, T, Kinds)
    BY <2>2, <2>4, OnlyAlters, LeavesAlters
  <2>6. Alters(m, c, T, Kinds)
    BY <2>5, AltersThen
  <2>7. AsksNow(c, "version", <<>>)
    BY <2>2, <2>3, <2>5 DEF Alters, Tidy, Kinds
  <2>8. c.scheduled = m.scheduled
    BY <2>3, <2>4 DEF RunFields
  <2> QED
    BY <1>4, <2>1, <2>4, <2>6, <2>7, <2>8
<1> QED
  BY <1>2, <1>3, <1>4

\* A start sees to it that what is not shown is on its way.
LEMMA StartPrompt ==
  ASSUME NEW m, Loose(m), m.holders \in Nat
  PROVE  /\ Prompt(Start(m)) /\ Alters(m, Start(m), {"scheduled", "starting"}, Kinds)
         /\ m.holders > 0 /\ ~m.halted => Underway(Start(m))
<1> DEFINE y == Start(m)
<1>0. Neat(m) /\ (m.holders > 0 => m.holders # 0) /\ (~(m.holders > 0) => m.holders = 0)
  BY DEF Loose
<1>1. /\ Alters(m, y, {"scheduled", "starting"}, Kinds)
      /\ m.scheduled => y.scheduled
      /\ y.starting => m.starting \/ (~m.ready /\ AsksNow(y, "version", <<>>))
      /\ m.starting => y.starting
      /\ m.holders > 0 /\ m.holders # 0 /\ ~m.halted => y.starting \/ y.scheduled
      /\ m.holders > 0 /\ m.holders # 0 /\ ~m.halted /\ m.ready => y.scheduled
  BY <1>0, StartGoes
<1> HIDE DEF y
<1>2. /\ Neat(y) /\ \A f \in RunFields \ {"scheduled", "starting"} : y[f] = m[f]
      /\ \A kind \in Kinds : \A path : AsksNow(m, kind, path) => AsksNow(y, kind, path)
  BY <1>0, <1>1 DEF Alters, Tidy
<1>3. /\ y.load = m.load /\ y.steps = m.steps /\ y.holders = m.holders /\ y.lingering = m.lingering
      /\ y.owed = m.owed /\ y.ready = m.ready /\ y.run = m.run /\ y.progress = m.progress
      /\ y.halted = m.halted /\ y.error = m.error /\ y.ahead = m.ahead
  BY <1>2 DEF RunFields
<1>4. AllIn(y) <=> AllIn(m)
  BY <1>3, ShownSame
<1>5. Steady(y)
  BY <1>0, <1>1, <1>2, <1>3 DEF Loose, Steady, Kinds
<1>6. y.run.on => RunWaits(y)
  BY <1>2, <1>3 DEF Loose, RunWaits, Kinds
<1>7. m.holders > 0 /\ ~m.halted => Underway(y)
  BY <1>0, <1>1 DEF Underway
<1>8. Told(y)
  BY <1>0, <1>3, <1>4, <1>7 DEF Told, Loose
<1> QED
  BY <1>1, <1>5, <1>6, <1>7, <1>8 DEF Prompt, y

LEMMA SchedulePrompt ==
  ASSUME NEW m, Prompt(m)
  PROVE  Prompt(ScheduleReplay(m))
<1> DEFINE y == [m EXCEPT !.scheduled = TRUE]
<1>0. Neat(m)
  BY DEF Prompt, Steady
<1>1. ScheduleReplay(m) = m \/ ScheduleReplay(m) = y
  BY DEF ScheduleReplay
<1>2. Only(m, y, {"scheduled"}) /\ y.scheduled
  BY <1>0 DEF Only, Neat, RunFields
<1> HIDE DEF y
<1>3. Alters(m, y, {"scheduled"}, Kinds)
  BY <1>2, OnlyAlters
<1>4. /\ Neat(y) /\ \A f \in RunFields \ {"scheduled"} : y[f] = m[f]
      /\ \A kind \in Kinds : \A path : AsksNow(m, kind, path) => AsksNow(y, kind, path)
  BY <1>0, <1>3 DEF Alters, Tidy
<1>5. /\ y.load = m.load /\ y.steps = m.steps /\ y.holders = m.holders /\ y.lingering = m.lingering
      /\ y.owed = m.owed /\ y.ready = m.ready /\ y.starting = m.starting /\ y.run = m.run /\ y.progress = m.progress
      /\ y.halted = m.halted /\ y.error = m.error /\ y.ahead = m.ahead
  BY <1>4 DEF RunFields
<1>6. AllIn(y) <=> AllIn(m)
  BY <1>5, ShownSame
<1>7. Prompt(y)
  BY <1>2, <1>4, <1>5, <1>6 DEF Prompt, Steady, Told, Underway, RunWaits, Kinds
<1> QED
  BY <1>1, <1>7

----------------------------------------------------------------------------
(* Stops and restarts.                                                    *)

\* No run has ended.
Undone(m) == "done" \in DOMAIN m.progress /\ ~m.progress.done

EndFields == {"ahead", "run", "progress", "starting"}

\* Nothing is under way any more but a replay that is scheduled.
Quiets(x, y) ==
  Neat(x) => /\ Neat(y) /\ ~y.run.on /\ ~y.starting /\ Undone(y)
             /\ \A f \in RunFields \ EndFields : y[f] = x[f]

LEMMA LeavesQuiets ==
  ASSUME NEW x, NEW y, NEW z, Quiets(x, y), Leaves(y, z)
  PROVE  Quiets(x, z)
<1> SUFFICES ASSUME Neat(x)
             PROVE  /\ Neat(z) /\ ~z.run.on /\ ~z.starting /\ Undone(z)
                    /\ \A f \in RunFields \ EndFields : z[f] = x[f]
  BY DEF Quiets
<1>1. /\ Neat(y) /\ ~y.run.on /\ ~y.starting /\ Undone(y)
      /\ \A f \in RunFields \ EndFields : y[f] = x[f]
  BY DEF Quiets
<1>2. Neat(z) /\ \A f \in RunFields : z[f] = y[f]
  BY <1>1 DEF Leaves, Tidy
<1>3. z.run = y.run /\ z.starting = y.starting /\ z.progress = y.progress
  BY <1>2 DEF RunFields
<1> QED
  BY <1>1, <1>2, <1>3 DEF Undone

LEMMA ClearTidy ==
  ASSUME NEW m
  PROVE  Alters(m, ClearReplayer(m), {}, {"version"})
<1> SUFFICES ASSUME Neat(m)
             PROVE  Alters(m, ClearReplayer(m), {}, {"version"})
  BY DEF Alters, Tidy
<1> DEFINE D == DOMAIN m.cache
           f == [p \in D |-> m.cache[p]]
           held == {m.cache[p] : p \in DOMAIN m.cache}
           a == ReleaseAll(m, held)
           b == Unwanted(a, "replay")
           y == ClearReplayer(m)
<1>1. IsFiniteSet(OfEngine(m, held))
  <2>1. IsFiniteSet(D)
    BY DEF Neat
  <2>2. DOMAIN f = D /\ {f[x] : x \in D} = held /\ f = [x \in D |-> f[x]]
    OBVIOUS
  <2> HIDE DEF f, held, D
  <2>3. f = [x \in DOMAIN f |-> f[x]] /\ IsFiniteSet(DOMAIN f)
    BY <2>1, <2>2
  <2>4. IsFiniteSet({f[x] : x \in DOMAIN f})
    BY <2>3, ValuesFinite
  <2>5. {f[x] : x \in DOMAIN f} = held
    BY <2>2
  <2>6. OfEngine(m, held) \subseteq held /\ IsFiniteSet(held)
    BY <2>4, <2>5 DEF OfEngine
  <2> QED
    BY <2>6, FS_Subset
<1> HIDE DEF held, f, D
<1>2. Tidy(m, a, Kinds)
  BY <1>1, ReleaseAllTidy
<1>3. y = [b EXCEPT !.cache = <<>>]
  BY DEF ClearReplayer, held
<1> HIDE DEF a
<1>4. "replay" \notin {"version"} /\ {"version"} \subseteq Kinds
  BY DEF Kinds
<1>5. Tidy(a, b, {"version"}) /\ Tidy(m, a, {"version"})
  BY <1>2, <1>4, UnwantedTidy, TidyMore
<1> HIDE DEF b, y
<1>6. Tidy(m, b, {"version"})
  BY <1>5, TidyThen
<1>7. Neat(b) /\ \A path : AsksNow(m, "version", path) => AsksNow(b, "version", path)
  BY <1>6 DEF Tidy
<1>8. DOMAIN y = DOMAIN b /\ y.cache = <<>> /\ y.inbox = b.inbox /\ y.adoptions = b.adoptions
  BY <1>3, <1>7 DEF Neat
<1>9. DOMAIN <<>> = {}
  OBVIOUS
<1>10. Neat(y)
  BY <1>7, <1>8, <1>9, FS_EmptySet DEF Neat
<1>11. \A path : AsksNow(m, "version", path) => AsksNow(y, "version", path)
  BY <1>7, <1>8 DEF AsksNow
<1>12. \A g \in RunFields : y[g] = m[g]
  BY ClearReplayerKeeps DEF Keeps, Only, Neat, RunFields, y
<1> QED
  BY <1>10, <1>11, <1>12 DEF Alters, Tidy, y

LEMMA ForgetQuiets ==
  ASSUME NEW m
  PROVE  Quiets(m, ForgetStates(m)) /\ Quiets(m, ClearReplayer(ForgetStates(m)))
<1> SUFFICES ASSUME Neat(m)
             PROVE  Quiets(m, ForgetStates(m)) /\ Quiets(m, ClearReplayer(ForgetStates(m)))
  BY DEF Quiets
<1> DEFINE a == DropPending(m)
           b == DropOffer(a)
           c == Unwanted(b, "version")
           d == ForgetStates(m)
           y == ClearReplayer(d)
<1>1. Leaves(m, a) /\ Leaves(a, b)
  BY DropPendingLeaves, DropOfferLeaves
<1>2. d = [c EXCEPT !.ahead = NoAhead, !.run = NoRun, !.progress = NoProgress, !.starting = FALSE]
  BY DEF ForgetStates
<1> HIDE DEF a
<1>3. Leaves(m, b)
  BY <1>1, LeavesThen
<1> HIDE DEF b
<1>4. Neat(b) /\ \A f \in RunFields : b[f] = m[f]
  BY <1>3 DEF Leaves, Tidy
<1>5. Tidy(b, c, {"replay"})
  BY UnwantedTidy
<1>6. Only(b, c, {"inbox"})
  BY UnwantedKeeps DEF Keeps
<1> HIDE DEF c
<1>7. Neat(c) /\ \A f \in RunFields : c[f] = m[f]
  BY <1>4, <1>5, <1>6 DEF Tidy, Only, Neat, RunFields
<1>8. Only(c, d, EndFields) /\ d.run = NoRun /\ d.progress = NoProgress /\ d.starting = FALSE
  BY <1>2, <1>7 DEF Only, Neat, RunFields, EndFields
<1> HIDE DEF d
<1>9. Alters(c, d, EndFields, {})
  BY <1>8, OnlyAlters DEF EndFields
<1>10. Neat(d) /\ \A f \in RunFields \ EndFields : d[f] = m[f]
  BY <1>7, <1>9 DEF Alters, Tidy
<1>11. ~d.run.on /\ Undone(d) /\ ~d.starting
  BY <1>8 DEF NoRun, NoProgress, Undone
<1>12. Alters(d, y, {}, {"version"})
  BY ClearTidy
<1> HIDE DEF y
<1>13. Neat(y) /\ \A f \in RunFields : y[f] = d[f]
  BY <1>10, <1>12 DEF Alters, Tidy
<1>14. y.run = d.run /\ y.progress = d.progress /\ y.starting = d.starting
  BY <1>13 DEF RunFields
<1> QED
  BY <1>10, <1>11, <1>13, <1>14 DEF Quiets, y, d, Undone

LEMMA DropWorkerQuiets ==
  ASSUME NEW m, m.up
  PROVE  Quiets(m, DropWorker(m))
<1> SUFFICES ASSUME Neat(m)
             PROVE  Quiets(m, DropWorker(m))
  BY DEF Quiets
<1> DEFINE gone == [m EXCEPT !.up = FALSE, !.gen = @ + 1, !.inbox = <<>>, !.table = {},
                             !.stray = {}, !.relanded = FALSE]
           b == ClearReplayer(ForgetStates(gone))
           y == DropWorker(m)
<1>1. y = [b EXCEPT !.adoptions = {}]
  BY DEF DropWorker
<1>2. Only(m, gone, {"up", "gen", "inbox", "table", "stray", "relanded"}) /\ gone.inbox = <<>>
  BY DEF Only, Neat
<1> HIDE DEF gone
<1>3. IsSeq(<<>>) /\ DOMAIN <<>> = {}
  <2>1. <<>> \in Seq({<<>>[i] : i \in DOMAIN <<>>})
    OBVIOUS
  <2> QED
    BY <2>1 DEF IsSeq
<1>4. /\ DOMAIN gone = DOMAIN m /\ gone.cache = m.cache /\ gone.adoptions = m.adoptions
      /\ \A f \in RunFields : gone[f] = m[f]
  BY <1>2 DEF Only, Neat, RunFields
<1>5. Neat(gone)
  BY <1>2, <1>3, <1>4 DEF Neat
<1>6. Quiets(gone, b)
  BY ForgetQuiets
<1> HIDE DEF b, y
<1>7. /\ Neat(b) /\ ~b.run.on /\ ~b.starting /\ Undone(b)
      /\ \A f \in RunFields \ EndFields : b[f] = gone[f]
  BY <1>5, <1>6 DEF Quiets
<1>8. Only(b, y, {"adoptions"}) /\ y.adoptions = {}
  BY <1>1, <1>7 DEF Only, Neat
<1>9. DOMAIN y = DOMAIN b /\ y.inbox = b.inbox /\ y.cache = b.cache /\ \A f \in RunFields : y[f] = b[f]
  BY <1>7, <1>8 DEF Only, Neat, RunFields
<1>10. Neat(y)
  BY <1>7, <1>8, <1>9, FS_EmptySet DEF Neat
<1>11. y.run = b.run /\ y.starting = b.starting /\ y.progress = b.progress
  BY <1>9 DEF RunFields
<1> QED
  BY <1>4, <1>7, <1>9, <1>10, <1>11 DEF Quiets, y, Undone

LEMMA CommitLostLeaves ==
  ASSUME NEW m
  PROVE  Leaves(m, CommitLost(m))
<1>1. Only(m, CommitLost(m), {"commit", "taken", "queued", "up"})
  BY CommitLostKeeps DEF Keeps
<1> QED
  BY <1>1, OnlyLeaves DEF RunFields

\* A session that is stopped has nothing to tell.
LEMMA StopPrompt ==
  ASSUME NEW m, Neat(m), ~(m.holders > 0), m.halted => m.error # NoError
  PROVE  Prompt(Stop(m)) /\ ~Stop(m).lingering
<1> DEFINE a == [m EXCEPT !.lingering = FALSE, !.owed = FALSE]
           b == ClearReplayer(ForgetStates(a))
           c == [ReleaseAll(b, {x.state : x \in b.adoptions}) EXCEPT !.adoptions = {}]
           d == DropWorker(c)
           e == Render(d)
           y == CommitLost(e)
<1>1. Stop(m) = y
  BY DEF Stop
<1>2. Only(m, a, {"lingering", "owed"}) /\ ~a.lingering
  BY DEF Only, Neat, RunFields
<1> HIDE DEF a
<1>3. Alters(m, a, {"lingering", "owed"}, {})
  BY <1>2, OnlyAlters
<1>4. Neat(a) /\ \A f \in RunFields \ {"lingering", "owed"} : a[f] = m[f]
  BY <1>3 DEF Alters, Tidy
<1>5. Quiets(a, b)
  BY ForgetQuiets
<1> HIDE DEF b
<1>6. Leaves(b, c)
  BY OffersLeave, FS_EmptySet
<1> HIDE DEF c
<1>7. Quiets(a, c)
  BY <1>5, <1>6, LeavesQuiets
<1>8. Quiets(a, d)
  <2>1. CASE c.up
    <3>1. Quiets(c, d)
      BY <2>1, DropWorkerQuiets
    <3> HIDE DEF d
    <3> QED
      BY <1>4, <1>7, <3>1 DEF Quiets
  <2>2. CASE ~c.up
    BY <1>7, <2>2 DEF DropWorker
  <2> QED
    BY <2>1, <2>2
<1> HIDE DEF d
<1>9. Leaves(d, e) /\ Leaves(e, y)
  BY RenderLeaves, CommitLostLeaves
<1> HIDE DEF e, y
<1>10. Quiets(a, y)
  BY <1>8, <1>9, LeavesThen, LeavesQuiets
<1>11. /\ Neat(y) /\ ~y.run.on /\ ~y.starting /\ Undone(y)
       /\ \A f \in RunFields \ EndFields : y[f] = a[f]
  BY <1>4, <1>10 DEF Quiets
<1>12. ~y.lingering /\ y.holders = m.holders /\ y.halted = m.halted /\ y.error = m.error
  BY <1>2, <1>4, <1>11 DEF RunFields, EndFields
<1>13. Prompt(y)
  BY <1>11, <1>12 DEF Prompt, Steady, Told, Undone
<1> QED
  BY <1>1, <1>12, <1>13

\* A restart, or the word that there are no more.
LEMMA RestartPrompt ==
  ASSUME NEW m, NEW why, why # NoError, Neat(m), ~m.starting, ~m.run.on, Undone(m),
         m.halted => m.error # NoError, m.holders \in Nat, ~m.lingering
  PROVE  Prompt(RestartOrHalt(m, why))
<1> DEFINE a == [m EXCEPT !.restarts = @ + 1]
           b == [m EXCEPT !.restarts = @ + 1, !.halted = TRUE, !.error = why]
<1>1. RestartOrHalt(m, why) = Start(a) \/ RestartOrHalt(m, why) = b
  BY DEF RestartOrHalt
<1>2. Only(m, a, {"restarts"}) /\ Only(m, b, {"restarts", "halted", "error"}) /\ b.halted /\ b.error = why
  BY DEF Only, Neat, RunFields
<1> HIDE DEF a, b
<1>3. Leaves(m, a)
  BY <1>2, OnlyLeaves DEF RunFields
<1>4. Alters(m, b, {"halted", "error"}, {})
  BY <1>2, OnlyAlters DEF RunFields
<1>5. Neat(a) /\ \A f \in RunFields : a[f] = m[f]
  BY <1>3 DEF Leaves, Tidy
<1>6. Neat(b) /\ \A f \in RunFields \ {"halted", "error"} : b[f] = m[f]
  BY <1>4 DEF Alters, Tidy
<1>7. Prompt(Start(a))
  <2>1. /\ a.starting = m.starting /\ a.run = m.run /\ a.progress = m.progress /\ a.halted = m.halted
        /\ a.error = m.error /\ a.holders = m.holders /\ a.lingering = m.lingering
    BY <1>5 DEF RunFields
  <2>2. Loose(a)
    BY <1>5, <2>1 DEF Loose, Undone
  <2> QED
    BY <2>1, <2>2, StartPrompt
<1>8. Prompt(b)
  <2>1. /\ b.starting = m.starting /\ b.run = m.run /\ b.progress = m.progress
        /\ b.holders = m.holders /\ b.lingering = m.lingering
    BY <1>6 DEF RunFields
  <2> QED
    BY <1>2, <1>6, <2>1 DEF Prompt, Steady, Told, Undone
<1> QED
  BY <1>1, <1>7, <1>8

LEMMA FailureTold == \A m : Failure(m) # NoError
  BY DEF Failure, NoError

\* Landing everything again.
LEMMA RelandPrompt ==
  ASSUME NEW m, Neat(m), m.halted => m.error # NoError, m.ready, m.holders \in Nat, m.holders # 0, ~m.lingering
  PROVE  Prompt(Reland(m))
<1> DEFINE a == ClearReplayer(ForgetStates(m))
           b == [a EXCEPT !.relanded = TRUE]
           why == Failure(m)
           c == RestartOrHalt(b, why)
<1>1. Reland(m) = Render(c)
  BY DEF Reland
<1>2. Quiets(m, a)
  BY ForgetQuiets
<1> HIDE DEF a
<1>3. Only(a, b, {"relanded"})
  BY DEF Only
<1> HIDE DEF b
<1>4. Leaves(a, b)
  BY <1>3, OnlyLeaves DEF RunFields
<1>5. Quiets(m, b)
  BY <1>2, <1>4, LeavesQuiets
<1>6. /\ Neat(b) /\ ~b.run.on /\ ~b.starting /\ Undone(b)
      /\ \A f \in RunFields \ EndFields : b[f] = m[f]
  BY <1>5 DEF Quiets
<1>7. b.halted = m.halted /\ b.error = m.error /\ b.holders = m.holders /\ b.lingering = m.lingering
  BY <1>6 DEF RunFields, EndFields
<1>8. why # NoError
  BY FailureTold
<1> HIDE DEF why
<1>9. Prompt(c)
  BY <1>6, <1>7, <1>8, RestartPrompt
<1> HIDE DEF c
<1> QED
  BY <1>1, <1>9, RenderLeaves, LeavesPrompt

----------------------------------------------------------------------------
(* Documents and surfaces.                                                *)

LEMMA LeavesLoose ==
  ASSUME NEW x, NEW y, Leaves(x, y), Loose(x)
  PROVE  Loose(y) /\ \A f \in RunFields : y[f] = x[f]
<1>1. Neat(x)
  BY DEF Loose
<1>2. /\ Neat(y) /\ \A f \in RunFields : y[f] = x[f]
      /\ \A kind \in Kinds : \A path : AsksNow(x, kind, path) => AsksNow(y, kind, path)
  BY <1>1 DEF Leaves, Tidy
<1>3. /\ y.load = x.load /\ y.steps = x.steps /\ y.holders = x.holders /\ y.lingering = x.lingering
      /\ y.owed = x.owed /\ y.ready = x.ready /\ y.starting = x.starting
      /\ y.run = x.run /\ y.progress = x.progress /\ y.halted = x.halted /\ y.error = x.error /\ y.ahead = x.ahead
  BY <1>2 DEF RunFields
<1>4. AllIn(y) <=> AllIn(x)
  BY <1>3, ShownSame
<1> QED
  BY <1>2, <1>3, <1>4 DEF Loose, RunWaits, Kinds

\* A document that changes while nobody looks is owed a replay.
LEMMA StaleGoes ==
  ASSUME NEW m, Neat(m), "done" \in DOMAIN m.progress
  PROVE  LET y == Stale(m) IN
         /\ Alters(m, y, {"owed", "progress"}, Kinds) /\ (m.lingering => y.owed)
         /\ "done" \in DOMAIN y.progress /\ (y.progress.done => m.progress.done)
<1> DEFINE y == [m EXCEPT !.owed = TRUE, !.progress = StillValid(m)]
           p == StillValid(m)
<1>1. "done" \in DOMAIN p /\ (p.done => m.progress.done)
  BY DEF StillValid
<1> HIDE DEF p
<1>2. CASE m.lingering
  <2>1. Stale(m) = y
    BY <1>2 DEF Stale
  <2>2. Only(m, y, {"owed", "progress"}) /\ y.owed /\ y.progress = p
    BY DEF Only, Neat, RunFields, p
  <2> HIDE DEF y
  <2>3. Alters(m, y, {"owed", "progress"}, Kinds)
    BY <2>2, OnlyAlters
  <2> QED
    BY <1>1, <2>1, <2>2, <2>3
<1>3. CASE ~m.lingering
  <2>1. Stale(m) = m
    BY <1>3 DEF Stale
  <2> QED
    BY <1>3, <2>1, LeavesSame, LeavesAlters
<1> QED
  BY <1>2, <1>3

LEMMA ForgivenGoes ==
  ASSUME NEW m, Neat(m)
  PROVE  LET y == Forgiven(m) IN
         /\ Alters(m, y, {"halted"}, Kinds) /\ ~y.halted
         /\ ~m.halted => Leaves(m, y)
<1> DEFINE a == [m EXCEPT !.halted = FALSE]
           b == [m EXCEPT !.restarts = 0]
<1>1. CASE m.halted
  <2>1. Forgiven(m) = a
    BY <1>1 DEF Forgiven
  <2>2. Only(m, a, {"halted"}) /\ ~a.halted
    BY DEF Only, Neat, RunFields
  <2> HIDE DEF a
  <2>3. Alters(m, a, {"halted"}, Kinds)
    BY <2>2, OnlyAlters
  <2> QED
    BY <1>1, <2>1, <2>2, <2>3
<1>2. CASE ~m.halted
  <2>1. Forgiven(m) = b
    BY <1>2 DEF Forgiven
  <2>2. Only(m, b, {"restarts"}) /\ b.halted = m.halted
    BY DEF Only, Neat, RunFields
  <2> HIDE DEF b
  <2>3. Leaves(m, b)
    BY <2>2, OnlyLeaves DEF RunFields
  <2>4. Alters(m, b, {"halted"}, Kinds)
    BY <2>3, LeavesAlters
  <2> QED
    BY <1>2, <2>1, <2>2, <2>3, <2>4
<1> QED
  BY <1>1, <1>2

\* Whatever becomes of the document, what is not shown is on its way.
LEMMA HearPrompt ==
  ASSUME NEW b, NEW m, NEW edited \in BOOLEAN, NEW silent \in BOOLEAN, Prompt(b), Sound(b), Only(b, m, DocSlots)
  PROVE  LET y == Hear(b, m, edited, silent) IN
         /\ Prompt(y)
         /\ edited /\ m.load = b.load /\ m.steps # b.steps =>
              (y.holders > 0 => Underway(y)) /\ (y.lingering => y.owed)
<1> DEFINE reload == m.load # b.load
           replay == reload \/ m.steps # b.steps
           retry == replay \/ (edited /\ (m.halted \/ m.error # NoError))
           x1 == IF replay THEN Stale(m) ELSE m
           x2 == IF edited THEN Forgiven(x1) ELSE x1
           x3 == IF silent THEN x2 ELSE IF edited THEN RenderEdited(x2) ELSE Render(x2)
           y == Hear(b, m, edited, silent)
<1>1. Neat(b) /\ Loose(b)
  BY PromptLoose DEF Prompt, Steady
<1>2. Alters(b, m, {"load", "steps"}, Kinds)
  BY OnlyAlters DEF DocSlots, RunFields
<1>3. /\ Neat(m) /\ \A f \in RunFields \ {"load", "steps"} : m[f] = b[f]
      /\ \A kind \in Kinds : \A path : AsksNow(b, kind, path) => AsksNow(m, kind, path)
  BY <1>1, <1>2 DEF Alters, Tidy
<1>4. /\ m.holders = b.holders /\ m.lingering = b.lingering /\ m.owed = b.owed /\ m.ready = b.ready
      /\ m.starting = b.starting /\ m.run = b.run /\ m.progress = b.progress /\ m.halted = b.halted
      /\ m.error = b.error /\ m.ahead = b.ahead
  BY <1>3 DEF RunFields
<1>5. "done" \in DOMAIN m.progress
  BY <1>1, <1>4 DEF Loose
<1>6. CASE m.lingering /\ reload
  <2>1. y = Stop(m)
    BY <1>6 DEF Hear
  <2>2. ~(m.holders > 0) /\ (m.halted => m.error # NoError)
    BY <1>1, <1>4, <1>6 DEF Sound, Loose
  <2>3. Prompt(Stop(m))
    BY <1>3, <2>2, StopPrompt
  <2> HIDE DEF y
  <2> QED
    BY <1>6, <2>1, <2>3 DEF y
<1>7. CASE ~(m.lingering /\ reload)
  <2> HIDE DEF reload
  <2>1. /\ retry => y = Start(x3)
        /\ ~retry => y = x3 \/ y = ScheduleReplay(x3)
    <3> HIDE DEF x3, retry
    <3> QED
      BY <1>7 DEF Hear, x3, x2, x1, retry, replay, reload
  <2> HIDE DEF y
  <2>2. Leaves(x2, x3)
    <3> HIDE DEF x2
    <3> QED
      BY RenderLeaves, LeavesSame
  <2> HIDE DEF x3
  <2>3. /\ Alters(m, x1, {"owed", "progress"}, Kinds)
        /\ "done" \in DOMAIN x1.progress /\ (x1.progress.done => m.progress.done)
        /\ replay /\ m.lingering => x1.owed
        /\ ~replay => x1 = m
    <3> HIDE DEF replay
    <3>1. CASE replay
      <4>1. x1 = Stale(m)
        BY <3>1
      <4> HIDE DEF x1
      <4> QED
        BY <1>3, <1>5, <3>1, <4>1, StaleGoes
    <3>2. CASE ~replay
      BY <1>5, <3>2, LeavesSame, LeavesAlters
    <3> QED
      BY <3>1, <3>2
  <2> HIDE DEF x1
  <2>4. /\ Neat(x1) /\ \A f \in RunFields \ {"owed", "progress"} : x1[f] = m[f]
        /\ \A kind \in Kinds : \A path : AsksNow(m, kind, path) => AsksNow(x1, kind, path)
    BY <1>3, <2>3 DEF Alters, Tidy
  <2>5. /\ Alters(x1, x2, {"halted"}, Kinds) /\ (edited => ~x2.halted) /\ (~edited => x2 = x1)
        /\ ~x1.halted => Leaves(x1, x2)
    BY <2>4, ForgivenGoes, LeavesSame, LeavesAlters
  <2> HIDE DEF x2
  <2>6. /\ Neat(x2) /\ \A f \in RunFields \ {"halted"} : x2[f] = x1[f]
        /\ \A kind \in Kinds : \A path : AsksNow(x1, kind, path) => AsksNow(x2, kind, path)
    BY <2>4, <2>5 DEF Alters, Tidy
  <2>7. /\ x2.load = m.load /\ x2.steps = m.steps /\ x2.holders = b.holders /\ x2.lingering = b.lingering
        /\ x2.ready = b.ready /\ x2.starting = b.starting /\ x2.run = b.run /\ x2.error = b.error /\ x2.ahead = b.ahead
        /\ x2.owed = x1.owed /\ x2.progress = x1.progress /\ (x2.halted => b.halted)
    <3>1. /\ x1.load = m.load /\ x1.steps = m.steps /\ x1.holders = m.holders /\ x1.lingering = m.lingering
          /\ x1.ready = m.ready /\ x1.starting = m.starting /\ x1.run = m.run /\ x1.error = m.error /\ x1.ahead = m.ahead
          /\ x1.halted = m.halted
      BY <2>4 DEF RunFields
    <3>2. /\ x2.load = x1.load /\ x2.steps = x1.steps /\ x2.holders = x1.holders /\ x2.lingering = x1.lingering
          /\ x2.ready = x1.ready /\ x2.starting = x1.starting /\ x2.run = x1.run /\ x2.error = x1.error
          /\ x2.ahead = x1.ahead /\ x2.owed = x1.owed /\ x2.progress = x1.progress
      BY <2>6 DEF RunFields
    <3> QED
      BY <1>4, <2>5, <3>1, <3>2
  <2>8. x2.lingering /\ ~x2.owed => AllIn(x2)
    <3>1. CASE replay
      BY <1>4, <2>3, <2>7, <3>1
    <3>2. CASE ~replay
      <4>1. x2.load = b.load /\ x2.steps = b.steps /\ x2.progress = b.progress /\ x2.owed = b.owed
        BY <1>4, <2>3, <2>7, <3>2 DEF reload
      <4>2. AllIn(x2) <=> AllIn(b)
        BY <2>7, <4>1, ShownSame
      <4> QED
        BY <1>1, <2>7, <4>1, <4>2 DEF Loose
    <3> QED
      BY <3>1, <3>2
  <2>9. Loose(x2)
    <3>1. x2.starting => ~x2.ready /\ AsksNow(x2, "version", <<>>)
      BY <1>1, <1>3, <2>4, <2>6, <2>7 DEF Loose, Kinds
    <3>2. "done" \in DOMAIN x2.progress /\ (x2.progress.done => b.progress.done)
      BY <1>4, <2>3, <2>7
    <3>3. x2.run.on => RunWhole(x2.run) /\ RunWaits(x2) /\ x2.ready /\ x2.holders > 0
      BY <1>1, <1>3, <2>4, <2>6, <2>7 DEF Loose, RunWaits, Kinds
    <3> QED
      BY <1>1, <2>6, <2>7, <2>8, <3>1, <3>2, <3>3 DEF Loose
  <2>10. Loose(x3) /\ x3.holders = b.holders /\ x3.halted = x2.halted /\ x3.lingering = b.lingering /\ x3.owed = x2.owed
    <3>1. Loose(x3) /\ \A f \in RunFields : x3[f] = x2[f]
      BY <2>2, <2>9, LeavesLoose
    <3> QED
      BY <2>7, <3>1 DEF RunFields
  <2>11. CASE retry
    <3>1. /\ Prompt(Start(x3)) /\ Alters(x3, Start(x3), {"scheduled", "starting"}, Kinds)
          /\ x3.holders > 0 /\ ~x3.halted => Underway(Start(x3))
      BY <2>10, StartPrompt DEF Sound
    <3>2. y = Start(x3)
      BY <2>1, <2>11
    <3>3. \A f \in RunFields \ {"scheduled", "starting"} : y[f] = x3[f]
      BY <2>10, <3>1, <3>2 DEF Alters, Loose
    <3>4. y.holders = b.holders /\ y.lingering = b.lingering /\ y.owed = x2.owed
      BY <2>10, <3>3 DEF RunFields
    <3>5. ASSUME edited, m.steps # b.steps
          PROVE  (y.holders > 0 => Underway(y)) /\ (y.lingering => y.owed)
      BY <1>4, <2>3, <2>5, <2>7, <2>10, <3>1, <3>2, <3>4, <3>5
    <3> QED
      BY <3>1, <3>2, <3>5 DEF y
  <2>12. CASE ~retry
    <3>1. ~replay /\ m.load = b.load /\ m.steps = b.steps /\ ~(edited /\ m.halted)
      BY <2>12 DEF reload
    <3>2. Only(b, m, {"ids", "cursor", "tip"})
      BY <1>1, <1>3, <3>1 DEF Only, DocSlots, Neat, RunFields
    <3>3. Leaves(b, m)
      BY <3>2, OnlyLeaves DEF RunFields
    <3>4. Leaves(m, x2)
      BY <2>3, <2>5, <3>1, LeavesSame
    <3>5. Prompt(x3)
      BY <2>2, <3>3, <3>4, LeavesPrompt
    <3>6. Prompt(y)
      BY <2>1, <2>12, <3>5, SchedulePrompt
    <3> QED
      BY <3>1, <3>6 DEF y
  <2> HIDE DEF retry
  <2> QED
    BY <2>11, <2>12
<1> QED
  BY <1>6, <1>7

\* What lingers is shown, or noted as owed.
LEMMA LingerPrompt ==
  ASSUME NEW x, NEW m, Prompt(x), Sound(x), x.holders > 0, Only(x, m, {"holders"}), ~(m.holders > 0)
  PROVE  Prompt(StartLingering(m))
<1> DEFINE shown == m.progress.done /\ m.progress.load = m.load
           owed == m.run.on \/ m.scheduled \/ m.starting \/ ~shown
           a == [m EXCEPT !.owed = @ \/ owed]
           b == DropPending(a)
           c == DropOffer(b)
           d == [c EXCEPT !.lingering = TRUE, !.run = NoRun]
           y == StartLingering(m)
<1>1. y = Render(d)
  BY DEF StartLingering
<1>2. Steady(x) /\ Neat(x)
  BY DEF Prompt, Steady
<1>3. Alters(x, m, {"holders"}, Kinds)
  BY OnlyAlters
<1>4. /\ Neat(m) /\ \A f \in RunFields \ {"holders"} : m[f] = x[f]
      /\ \A kind \in Kinds : \A path : AsksNow(x, kind, path) => AsksNow(m, kind, path)
  BY <1>2, <1>3 DEF Alters, Tidy
<1>5. /\ m.load = x.load /\ m.steps = x.steps /\ m.ready = x.ready /\ m.starting = x.starting
      /\ m.scheduled = x.scheduled /\ m.run = x.run /\ m.progress = x.progress /\ m.halted = x.halted
      /\ m.error = x.error /\ m.ahead = x.ahead
  BY <1>4 DEF RunFields
<1> HIDE DEF owed
<1>6. Only(m, a, {"owed"}) /\ (a.owed <=> m.owed \/ owed)
  BY <1>4 DEF Only, Neat, RunFields
<1> HIDE DEF a
<1>7. Alters(m, a, {"owed"}, Kinds)
  BY <1>6, OnlyAlters
<1>8. Leaves(a, b) /\ Leaves(b, c)
  BY DropPendingLeaves, DropOfferLeaves
<1> HIDE DEF b
<1>9. Leaves(a, c)
  BY <1>8, LeavesThen
<1> HIDE DEF c
<1>10. /\ Neat(a) /\ Neat(c) /\ \A f \in RunFields : c[f] = a[f]
       /\ \A kind \in Kinds : \A path : AsksNow(m, kind, path) => AsksNow(c, kind, path)
  BY <1>4, <1>7, <1>9 DEF Alters, Leaves, Tidy
<1>11. Only(c, d, {"lingering", "run"}) /\ d.run = NoRun
  BY <1>10 DEF Only, Neat, RunFields
<1> HIDE DEF d, y
<1>12. Alters(c, d, {"lingering", "run"}, Kinds)
  BY <1>11, OnlyAlters
<1>13. /\ Neat(d) /\ \A f \in RunFields \ {"lingering", "run"} : d[f] = c[f]
       /\ \A kind \in Kinds : \A path : AsksNow(c, kind, path) => AsksNow(d, kind, path)
  BY <1>10, <1>12 DEF Alters, Tidy
<1>14. \A f \in RunFields \ {"owed", "lingering", "run"} : d[f] = m[f]
  BY <1>4, <1>7, <1>10, <1>13 DEF Alters
<1>15. /\ d.load = m.load /\ d.steps = m.steps /\ d.ready = m.ready /\ d.starting = m.starting
       /\ d.scheduled = m.scheduled /\ d.progress = m.progress /\ d.halted = m.halted
       /\ d.error = m.error /\ d.ahead = m.ahead /\ d.holders = m.holders
  BY <1>14 DEF RunFields
<1>16. d.owed <=> m.owed \/ owed
  BY <1>6, <1>10, <1>13 DEF RunFields
<1>17. AllIn(d) <=> AllIn(x)
  BY <1>5, <1>15, ShownSame
<1>18. ~d.owed => AllIn(d)
  BY <1>5, <1>16, <1>17 DEF owed, Prompt, Told, Underway
<1>19. d.starting => AsksNow(d, "version", <<>>)
  BY <1>2, <1>4, <1>5, <1>10, <1>13, <1>15 DEF Steady, Kinds
<1>20. Prompt(d)
  BY <1>2, <1>5, <1>11, <1>13, <1>15, <1>18, <1>19 DEF Prompt, Steady, Told, NoRun
<1> QED
  BY <1>1, <1>20, RenderLeaves, LeavesPrompt DEF y

\* Another surface, or one less.
LEMMA HoldersPrompt ==
  ASSUME NEW x, NEW y, Prompt(x), Only(x, y, {"holders"}), x.holders > 0
  PROVE  Prompt(y)
<1>1. Steady(x) /\ Neat(x)
  BY DEF Prompt, Steady
<1>2. Alters(x, y, {"holders"}, Kinds)
  BY OnlyAlters
<1>3. /\ Neat(y) /\ \A f \in RunFields \ {"holders"} : y[f] = x[f]
      /\ \A kind \in Kinds : \A path : AsksNow(x, kind, path) => AsksNow(y, kind, path)
  BY <1>1, <1>2 DEF Alters, Tidy
<1>4. /\ y.load = x.load /\ y.steps = x.steps /\ y.lingering = x.lingering
      /\ y.owed = x.owed /\ y.ready = x.ready /\ y.starting = x.starting /\ y.scheduled = x.scheduled
      /\ y.run = x.run /\ y.progress = x.progress /\ y.halted = x.halted /\ y.error = x.error /\ y.ahead = x.ahead
  BY <1>3 DEF RunFields
<1>5. AllIn(y) <=> AllIn(x)
  BY <1>4, ShownSame
<1> QED
  BY <1>3, <1>4, <1>5 DEF Prompt, Steady, Told, Underway, RunWaits, RunCovers, Kinds

\* The first surface finds what was kept, or has it made.
LEMMA RetainedPrompt ==
  ASSUME NEW m, Prompt(m), Sound(m), m.holders = 0
  PROVE  Prompt(Retained(m))
<1> DEFINE kept == m.lingering
           held == [m EXCEPT !.holders = 1, !.lingering = FALSE, !.up = @ \/ ~kept,
                             !.halted = FALSE, !.restarts = 0, !.error = NoError]
           x == IF ~kept \/ m.owed THEN Start(held) ELSE held
           T == {"holders", "lingering", "halted", "error"}
<1>1. Retained(m) = Render(x)
  BY DEF Retained
<1>2. Steady(m) /\ Neat(m) /\ ~m.run.on /\ ~(m.holders > 0)
  BY DEF Prompt, Steady, Sound
<1>3. /\ Only(m, held, T \cup {"up", "restarts"})
      /\ held.holders = 1 /\ held.lingering = FALSE /\ held.halted = FALSE
  BY <1>2 DEF Only, Neat, RunFields
<1> HIDE DEF held
<1>4. Alters(m, held, T, Kinds)
  BY <1>3, OnlyAlters DEF RunFields
<1>5. /\ Neat(held) /\ \A f \in RunFields \ T : held[f] = m[f]
      /\ \A kind \in Kinds : \A path : AsksNow(m, kind, path) => AsksNow(held, kind, path)
  BY <1>2, <1>4 DEF Alters, Tidy
<1>6. /\ held.load = m.load /\ held.steps = m.steps /\ held.owed = m.owed /\ held.ready = m.ready
      /\ held.starting = m.starting /\ held.scheduled = m.scheduled
      /\ held.run = m.run /\ held.progress = m.progress /\ held.ahead = m.ahead
  BY <1>5 DEF RunFields
<1>7. Loose(held)
  BY <1>2, <1>3, <1>5, <1>6 DEF Loose, Steady, Kinds
<1>8. Prompt(Start(held))
  BY <1>3, <1>7, StartPrompt
<1>9. ASSUME kept, ~m.owed
      PROVE  Prompt(held)
  <2>1. AllIn(held)
    BY <1>6, <1>9, ShownSame DEF Prompt, Told
  <2> QED
    BY <1>2, <1>3, <1>5, <1>6, <2>1 DEF Prompt, Steady, Told, Kinds
<1> HIDE DEF kept
<1>10. Prompt(x)
  BY <1>8, <1>9
<1> HIDE DEF x
<1> QED
  BY <1>1, <1>10, RenderLeaves, LeavesPrompt

LEMMA RetryPrompt ==
  ASSUME NEW m, Prompt(m), Sound(m)
  PROVE  Prompt(Render(Start([m EXCEPT !.halted = FALSE, !.restarts = 0, !.error = NoError])))
<1> DEFINE a == [m EXCEPT !.halted = FALSE, !.restarts = 0, !.error = NoError]
           b == Start(a)
<1>1. Loose(m) /\ Neat(m)
  BY PromptLoose DEF Prompt, Steady
<1>2. Only(m, a, {"halted", "restarts", "error"}) /\ a.halted = FALSE
  BY <1>1 DEF Only, Neat, RunFields
<1> HIDE DEF a
<1>3. Alters(m, a, {"halted", "error"}, Kinds)
  BY <1>2, OnlyAlters DEF RunFields
<1>4. /\ Neat(a) /\ \A f \in RunFields \ {"halted", "error"} : a[f] = m[f]
      /\ \A kind \in Kinds : \A path : AsksNow(m, kind, path) => AsksNow(a, kind, path)
  BY <1>1, <1>3 DEF Alters, Tidy
<1>5. /\ a.load = m.load /\ a.steps = m.steps /\ a.holders = m.holders /\ a.lingering = m.lingering
      /\ a.owed = m.owed /\ a.ready = m.ready /\ a.starting = m.starting
      /\ a.run = m.run /\ a.progress = m.progress /\ a.ahead = m.ahead
  BY <1>4 DEF RunFields
<1>6. AllIn(a) <=> AllIn(m)
  BY <1>5, ShownSame
<1>7. Loose(a)
  BY <1>1, <1>2, <1>4, <1>5, <1>6 DEF Loose, RunWaits, Kinds
<1>8. Prompt(b)
  BY <1>5, <1>7, StartPrompt DEF Sound
<1> HIDE DEF b
<1> QED
  BY <1>8, RenderLeaves, LeavesPrompt DEF b, a

\* A crash.
LEMMA CrashPrompt ==
  ASSUME NEW m, Prompt(m), Sound(m), m.up, NEW why, why # NoError
  PROVE  /\ m.holders > 0 => Prompt(CommitLost(Render(RestartOrHalt(DropWorker(m), why))))
         /\ ~(m.holders > 0) => Prompt(CommitLost(Stop(DropWorker(m))))
<1> DEFINE gone == DropWorker(m)
           a == RestartOrHalt(gone, why)
           b == Render(a)
           c == Stop(gone)
<1>1. Neat(m) /\ (m.halted => m.error # NoError)
  BY DEF Prompt, Steady
<1>2. Quiets(m, gone)
  BY DropWorkerQuiets
<1> HIDE DEF gone
<1>3. /\ Neat(gone) /\ ~gone.run.on /\ ~gone.starting /\ Undone(gone)
      /\ \A f \in RunFields \ EndFields : gone[f] = m[f]
  BY <1>1, <1>2 DEF Quiets
<1>4. gone.holders = m.holders /\ gone.lingering = m.lingering /\ gone.halted = m.halted /\ gone.error = m.error
  BY <1>3 DEF RunFields, EndFields
<1>5. ASSUME m.holders > 0
      PROVE  Prompt(CommitLost(b))
  <2>1. ~m.lingering
    BY <1>5 DEF Sound
  <2>2. Prompt(a)
    BY <1>1, <1>3, <1>4, <2>1, RestartPrompt DEF Sound
  <2> HIDE DEF a
  <2>3. Prompt(b)
    BY <2>2, RenderLeaves, LeavesPrompt
  <2> HIDE DEF b
  <2> QED
    BY <2>3, CommitLostLeaves, LeavesPrompt
<1>6. ASSUME ~(m.holders > 0)
      PROVE  Prompt(CommitLost(c))
  <2>1. Prompt(c)
    BY <1>1, <1>3, <1>4, <1>6, StopPrompt
  <2> HIDE DEF c
  <2> QED
    BY <2>1, CommitLostLeaves, LeavesPrompt
<1> QED
  BY <1>5, <1>6 DEF gone

----------------------------------------------------------------------------
(* Commits and replays.                                                   *)

LEMMA OfferedLeaves ==
  ASSUME NEW m, NEW from, NEW op, NEW st, Landed(st)
  PROVE  Leaves(m, OfferedBy(m, from, op, st)) /\ Only(m, OfferedBy(m, from, op, st), {"table", "inbox", "adoptions"})
<1> DEFINE left == Replaced(m, from, op)
           a == [parent |-> from.parent, op |-> op, state |-> st, older |-> FALSE]
           r == ReleaseAll(m, {x.state : x \in left})
           rest == (r.adoptions \ left) \cup {a}
           y == OfferedBy(m, from, op, st)
<1>1. y = [r EXCEPT !.adoptions = rest]
  BY DEF OfferedBy
<1>2. Only(m, r, {"table", "inbox"})
  BY ReleaseAllKeeps DEF Keeps
<1>3. Only(r, y, {"adoptions"})
  BY <1>1 DEF Only
<1>4. Neat(m) => /\ left \subseteq m.adoptions /\ IsFiniteSet(rest)
                 /\ \A x \in rest : "state" \in DOMAIN x /\ Landed(x.state)
  <2> SUFFICES ASSUME Neat(m)
               PROVE  /\ left \subseteq m.adoptions /\ IsFiniteSet(rest)
                      /\ \A x \in rest : "state" \in DOMAIN x /\ Landed(x.state)
    OBVIOUS
  <2> DEFINE kept == r.adoptions \ left
  <2>1. r.adoptions = m.adoptions
    BY <1>2 DEF Only, Neat
  <2>2. IsFiniteSet(kept) /\ kept \subseteq m.adoptions
    <3>1. kept \subseteq m.adoptions
      BY <2>1
    <3> HIDE DEF kept
    <3> QED
      BY <3>1, FS_Subset DEF Neat
  <2>3. left \subseteq m.adoptions
    BY DEF Replaced
  <2>4. "state" \in DOMAIN a /\ Landed(a.state)
    OBVIOUS
  <2>5. rest = kept \cup {a}
    OBVIOUS
  <2> HIDE DEF kept, a, rest, left
  <2>6. IsFiniteSet(rest)
    BY <2>2, <2>5, FS_AddElement
  <2>7. \A x \in rest : x \in m.adoptions \/ x = a
    BY <2>2, <2>5
  <2> QED
    BY <2>3, <2>4, <2>6, <2>7 DEF Neat
<1>5. Leaves(m, [ReleaseAll(m, {x.state : x \in left}) EXCEPT !.adoptions = rest])
  <2> HIDE DEF left, rest
  <2> QED
    BY <1>4, OffersLeave
<1>6. Only(m, y, {"table", "inbox", "adoptions"})
  BY <1>2, <1>3 DEF Only
<1> QED
  BY <1>1, <1>5, <1>6

LEMMA OverLeaves ==
  ASSUME NEW m
  PROVE  Leaves(m, [m EXCEPT !.commit = NoCommit]) /\ Leaves(m, [m EXCEPT !.taken = NoState, !.commit = NoCommit])
<1>1. Only(m, [m EXCEPT !.commit = NoCommit], ToolFields) /\ Only(m, [m EXCEPT !.taken = NoState, !.commit = NoCommit], ToolFields)
  BY DEF Only, ToolFields
<1> QED
  BY <1>1, ToolLeaves

\* A step that is shown ahead of its replay has one coming.
LEMMA AheadPrompt ==
  ASSUME NEW m, NEW ahead, Prompt(m), m.holders > 0 => Underway(m), m.lingering => m.owed
  PROVE  Prompt([m EXCEPT !.ahead = ahead])
<1> DEFINE y == [m EXCEPT !.ahead = ahead]
<1>1. Steady(m) /\ Neat(m)
  BY DEF Prompt, Steady
<1>2. Only(m, y, {"ahead"})
  BY DEF Only
<1> HIDE DEF y
<1>3. Alters(m, y, {"ahead"}, Kinds)
  BY <1>2, OnlyAlters
<1>4. /\ Neat(y) /\ \A f \in RunFields \ {"ahead"} : y[f] = m[f]
      /\ \A kind \in Kinds : \A path : AsksNow(m, kind, path) => AsksNow(y, kind, path)
  BY <1>1, <1>3 DEF Alters, Tidy
<1>5. /\ y.load = m.load /\ y.steps = m.steps /\ y.holders = m.holders /\ y.lingering = m.lingering
      /\ y.owed = m.owed /\ y.ready = m.ready /\ y.starting = m.starting /\ y.scheduled = m.scheduled
      /\ y.run = m.run /\ y.progress = m.progress /\ y.halted = m.halted /\ y.error = m.error
  BY <1>4 DEF RunFields
<1>6. Prompt(y)
  BY <1>4, <1>5 DEF Prompt, Steady, Told, Underway, RunWaits, RunCovers, Kinds
<1> QED
  BY <1>6 DEF y

LEMMA CommittedPrompt ==
  ASSUME NEW m, NEW from, NEW op, NEW st, Landed(st), Prompt(m), Shape(m), Sound(m)
  PROVE  Prompt(Committed(m, from, op, st))
<1> DEFINE o == OfferedBy(m, from, op, st)
           ahead == [load |-> m.load, id |-> m.ids + 1, state |-> st, older |-> FALSE]
           p == Appended(o, from.id, op)
           h == Hear(o, p, TRUE, TRUE)
           b == [h EXCEPT !.ahead = ahead]
           v == WithdrawnBy(m, from, op, st)
           rb == Render(b)
           rv == Render(v)
<1>1. Committed(m, from, op, st) =
        [(IF from.id \in Places(m.steps) THEN rb ELSE rv) EXCEPT !.taken = NoState, !.commit = NoCommit]
  BY DEF Committed, OfferedBy, WithdrawnBy, Replaced, Places
<1>2. Leaves(m, o) /\ Only(m, o, {"table", "inbox", "adoptions"})
  BY OfferedLeaves
<1> HIDE DEF o
<1>3. Prompt(o)
  BY <1>2, LeavesPrompt
<1>4. ASSUME from.id \in Places(m.steps)
      PROVE  Prompt(rb)
  <2>1. /\ Fields \subseteq DOMAIN o /\ DOMAIN o = DOMAIN m /\ \A f \in Fields : o[f] = m[f]
    BY <1>2 DEF Only, Shape, Fields
  <2>2. /\ o.steps = m.steps /\ o.ids = m.ids /\ o.holders = m.holders /\ o.load = m.load /\ o.run = m.run
        /\ o.ready = m.ready /\ o.scheduled = m.scheduled /\ o.lingering = m.lingering /\ o.restarts = m.restarts
        /\ o.tip = m.tip
    BY <2>1 DEF Fields
  <2>3. Sound(o)
    BY <2>2 DEF Sound
  <2>4. Only(o, p, DocSlots)
    BY DEF Only, Appended, DocSlots
  <2> DEFINE e == [id |-> o.ids + 1, parent |-> from.id, op |-> op]
  <2>5. p.load = o.load /\ p.steps = Append(o.steps, e)
    BY <2>1 DEF Appended, Fields
  <2>6. Append(o.steps, e) # o.steps
    BY <1>4, <2>2, <2>3, TreeAppend DEF Sound
  <2> HIDE DEF p
  <2>7. TRUE \in BOOLEAN
    OBVIOUS
  <2>8. Prompt(h) /\ (h.holders > 0 => Underway(h)) /\ (h.lingering => h.owed)
    BY <1>3, <2>3, <2>4, <2>5, <2>6, <2>7, HearPrompt
  <2> HIDE DEF h
  <2>9. Prompt(b)
    BY <2>8, AheadPrompt
  <2> HIDE DEF b
  <2> QED
    BY <2>9, RenderLeaves, LeavesPrompt
<1>5. Prompt(rv)
  <2> DEFINE r == Release(o, st)
             rest == {a \in r.adoptions : a.state # st}
             w == [r EXCEPT !.adoptions = rest]
  <2>1. v = [r EXCEPT !.taken = NoState,
                !.pending = IF m.pending.status = "landed" /\ m.pending.state = st THEN Idle ELSE @,
                !.adoptions = rest]
    BY DEF WithdrawnBy, o
  <2>2. Leaves(o, r)
    BY ReleaseLeaves
  <2> HIDE DEF r
  <2>3. Neat(o) /\ Neat(r)
    BY <1>3, <2>2 DEF Prompt, Steady, Leaves, Tidy
  <2>4. rest \subseteq r.adoptions
    OBVIOUS
  <2> HIDE DEF rest
  <2>5. Leaves(r, w)
    <3>1. IsFiniteSet(rest) /\ \A a \in rest : "state" \in DOMAIN a /\ Landed(a.state)
      BY <2>3, <2>4, FS_Subset DEF Neat
    <3>2. DOMAIN w = DOMAIN r /\ w.inbox = r.inbox /\ w.cache = r.cache /\ w.adoptions = rest
      BY <2>3 DEF Neat
    <3>3. \A f \in RunFields : w[f] = r[f]
      BY <2>3 DEF RunFields, Neat
    <3> HIDE DEF w
    <3>4. Neat(w)
      BY <2>3, <3>1, <3>2 DEF Neat
    <3> QED
      BY <3>2, <3>3, <3>4 DEF Leaves, Tidy, AsksNow
  <2>6. Only(w, v, ToolFields)
    BY <2>1, <2>3 DEF Only, ToolFields, Neat
  <2> HIDE DEF v, w
  <2>7. Prompt(v)
    BY <1>3, <2>2, <2>5, <2>6, ToolLeaves, LeavesPrompt
  <2> QED
    BY <2>7, RenderLeaves, LeavesPrompt
<1> HIDE DEF rb, rv
<1>6. Prompt(IF from.id \in Places(m.steps) THEN rb ELSE rv)
  BY <1>4, <1>5
<1> DEFINE over == IF from.id \in Places(m.steps) THEN rb ELSE rv
<1> HIDE DEF over
<1>7. Prompt([over EXCEPT !.taken = NoState, !.commit = NoCommit])
  BY <1>6, OverLeaves, LeavesPrompt DEF over
<1> QED
  BY <1>1, <1>7 DEF over

LEMMA CommitLandedPrompt ==
  ASSUME NEW m, NEW from, NEW op, NEW st, Landed(st), Prompt(m), Shape(m), Sound(m)
  PROVE  Prompt(CommitLanded(m, from, op, st))
<1> DEFINE a == LetGo(m, st)
           y == [a EXCEPT !.commit = NoCommit]
<1>1. CommitLanded(m, from, op, st) = y \/ CommitLanded(m, from, op, st) = Committed(m, from, op, st)
  BY DEF CommitLanded
<1>2. Leaves(m, a)
  BY LetGoLeaves
<1> HIDE DEF a
<1>3. Prompt(y)
  BY <1>2, OverLeaves, LeavesPrompt
<1> HIDE DEF y
<1> QED
  BY <1>1, <1>3, CommittedPrompt

\* What a commit takes has landed.
LEMMA CommitTakingPrompt ==
  ASSUME NEW m, NEW from, NEW op, Prompt(m), Shape(m), Sound(m), PendingOK(m)
  PROVE  Prompt(CommitTaking(m, from, op))
<1> DEFINE st == m.pending.state
           taking == [m EXCEPT !.taken = m.pending.state]
           a == [taking EXCEPT !.commit = [pc |-> "print", op |-> op, from |-> from, state |-> st]]
           b == CommitLanded(taking, from, op, st)
           c == [m EXCEPT !.commit = NoCommit]
           d == Ask(m, "fold", from.parent, op, <<>>)
           e == [d EXCEPT !.commit = [pc |-> "fold", op |-> op, from |-> from, state |-> NoState]]
           y == CommitTaking(m, from, op)
<1>1. \/ m.pending.status = "landed" /\ y \in {a, b}
      \/ y \in {c, e}
  BY DEF CommitTaking
<1>2. Only(m, taking, ToolFields) /\ Only(taking, a, ToolFields)
  BY DEF Only, ToolFields
<1>3. Only(d, e, ToolFields)
  BY DEF Only, ToolFields
<1>4. Leaves(m, d)
  BY AskLeaves
<1>5. Shape(taking) /\ Sound(taking)
  BY TakenStill
<1> HIDE DEF taking, d, e, y
<1>6. Prompt(taking)
  BY <1>2, ToolLeaves, LeavesPrompt
<1> HIDE DEF a
<1>7. Prompt(a)
  BY <1>2, <1>6, ToolLeaves, LeavesPrompt
<1>8. m.pending.status = "landed" => Prompt(b)
  BY <1>5, <1>6, CommitLandedPrompt DEF PendingOK
<1>9. Prompt(c)
  BY OverLeaves, LeavesPrompt
<1>10. Prompt(e)
  BY <1>3, <1>4, ToolLeaves, LeavesPrompt
<1> HIDE DEF b, c
<1> QED
  BY <1>1, <1>7, <1>8, <1>9, <1>10 DEF y

LEMMA CommitPrompt ==
  ASSUME NEW m, NEW from, NEW op, Prompt(m), Shape(m), Sound(m), PendingOK(m)
  PROVE  Prompt(Commit(m, from, op)) /\ Prompt(CommitNow(m, op))
<1> DEFINE w(x) == [pc |-> IF m.queued = NoRequest THEN "flight" ELSE "queued", op |-> op, from |-> x, state |-> NoState]
           a(x) == [m EXCEPT !.commit = w(x)]
           c == [m EXCEPT !.commit = NoCommit]
           d == [m EXCEPT !.commit = [NoCommit EXCEPT !.pc = "waiting", !.op = op]]
<1>1. \A x : Only(m, a(x), ToolFields)
  BY DEF Only, ToolFields
<1>2. Only(m, d, ToolFields)
  BY DEF Only, ToolFields
<1>3. \A x : Prompt(a(x))
  BY <1>1, ToolLeaves, LeavesPrompt
<1>4. Prompt(d)
  BY <1>2, ToolLeaves, LeavesPrompt
<1>5. Prompt(c)
  BY OverLeaves, LeavesPrompt
<1>6. \A x : Prompt(CommitTaking(m, x, op))
  BY CommitTakingPrompt
<1>7. \A x : Commit(m, x, op) = c \/ Commit(m, x, op) = a(x) \/ Commit(m, x, op) = CommitTaking(m, x, op)
  BY DEF Commit
<1> HIDE DEF a, c, d
<1>8. \A x : Prompt(Commit(m, x, op))
  BY <1>3, <1>5, <1>6, <1>7
<1>9. CommitNow(m, op) = d \/ CommitNow(m, op) = Commit(m, FoldingFrom(m).from, op)
  BY DEF CommitNow, d
<1> QED
  BY <1>4, <1>8, <1>9

LEMMA OlderNeat ==
  ASSUME NEW S, IsFiniteSet(S), \A a \in S : "state" \in DOMAIN a /\ Landed(a.state)
  PROVE  LET T == {[a EXCEPT !.older = TRUE] : a \in S} IN
         IsFiniteSet(T) /\ \A a \in T : "state" \in DOMAIN a /\ Landed(a.state)
<1> DEFINE f == [a \in S |-> [a EXCEPT !.older = TRUE]]
           T == {[a EXCEPT !.older = TRUE] : a \in S}
<1>1. \A a \in T : "state" \in DOMAIN a /\ Landed(a.state)
  OBVIOUS
<1>2. DOMAIN f = S /\ {f[x] : x \in DOMAIN f} = T /\ f = [x \in DOMAIN f |-> f[x]]
  OBVIOUS
<1> HIDE DEF f, T
<1>3. IsFiniteSet(DOMAIN f)
  BY <1>2
<1>4. IsFiniteSet({f[x] : x \in DOMAIN f})
  BY <1>2, <1>3, ValuesFinite
<1> QED
  BY <1>1, <1>2, <1>4 DEF T

\* A replay covers the document, and owes nothing more.
LEMMA ReplayPrompt ==
  ASSUME NEW m, Prompt(m), Settling(m), m.scheduled
  PROVE  Prompt(Replay([m EXCEPT !.scheduled = FALSE]))
<1> DEFINE a == [m EXCEPT !.scheduled = FALSE]
           run == [on |-> TRUE, load |-> a.load, steps |-> a.steps, order |-> ReplayOrder(a.steps, a.tip),
                   at |-> 1, waits |-> FALSE, made |-> <<>>]
           older == {[x EXCEPT !.older = TRUE] : x \in a.adoptions}
           ahead == [a.ahead EXCEPT !.older = a.ahead # NoAhead]
           b == [a EXCEPT !.owed = FALSE, !.run = run, !.error = NoError, !.ahead = ahead, !.adoptions = older]
           r == Render(b)
           y == Replay(a)
<1>1. Shape(m) /\ Sound(m) /\ Heard(m) /\ Current(m) /\ Steady(m) /\ Neat(m) /\ Told(m)
  BY DEF Settling, Prompt, Steady
<1>2. Only(m, a, {"scheduled"}) /\ ~a.scheduled
  BY <1>1 DEF Only, Shape, Fields
<1> HIDE DEF a
<1>3. Keeps(m, a, {"scheduled"}) /\ Alters(m, a, {"scheduled"}, Kinds)
  BY <1>2, OnlyKeeps, OnlyAlters
<1>4. /\ Shape(a) /\ a.holders = m.holders /\ a.restarts = m.restarts /\ a.steps = m.steps /\ a.ids = m.ids
      /\ a.tip = m.tip /\ a.run = m.run /\ a.lingering = m.lingering
  BY <1>1, <1>3, Kept DEF Keeps, Fields
<1>5. /\ Neat(a) /\ \A f \in RunFields \ {"scheduled"} : a[f] = m[f]
      /\ \A kind \in Kinds : \A path : AsksNow(m, kind, path) => AsksNow(a, kind, path)
  BY <1>1, <1>3 DEF Alters, Tidy
<1>6. /\ a.load = m.load /\ a.ready = m.ready /\ a.starting = m.starting /\ a.halted = m.halted /\ a.error = m.error
      /\ a.progress = m.progress /\ a.ahead = m.ahead /\ a.owed = m.owed
  BY <1>5 DEF RunFields
<1>7. a.ready /\ Sound(a)
  BY <1>1, <1>2, <1>4, <1>6 DEF Sound
<1>8. Await(a) /\ Current(a)
  BY <1>1, <1>3, StillAwait, StillCurrent DEF Heard
<1>9. CASE a.holders = 0 \/ a.halted
  <2>1. y = a
    BY <1>9 DEF Replay
  <2>2. AllIn(a) <=> AllIn(m)
    BY <1>4, <1>6, ShownSame
  <2>3. ~a.run.on
    BY <1>1, <1>4, <1>6, <1>9 DEF Steady, Sound
  <2>4. ~a.starting
    BY <1>1, <1>6, <1>7 DEF Steady
  <2>5. Steady(a)
    BY <1>1, <1>4, <1>5, <1>6, <1>7, <2>3, <2>4 DEF Steady
  <2>6. Told(a)
    <3>1. a.holders > 0 => a.halted
      BY <1>1, <1>4, <1>9 DEF Sound
    <3> QED
      BY <1>1, <1>4, <1>6, <2>2, <3>1 DEF Told, Steady
  <2> QED
    BY <2>1, <2>3, <2>5, <2>6 DEF Prompt, a
<1>10. CASE ~(a.holders = 0 \/ a.halted)
  <2>1. y = Advance(r, 1)
    BY <1>7, <1>10 DEF Replay
  <2>2. RunShape(run) /\ RunWhole(run)
    BY <1>4, <1>7, RunOfPlaces DEF RunWhole
  <2>3. run.on /\ ~run.waits /\ run.load = a.load /\ run.order = ReplayOrder(a.steps, a.tip)
    OBVIOUS
  <2>4. IsFiniteSet(older) /\ \A x \in older : "state" \in DOMAIN x /\ Landed(x.state)
    <3> DEFINE S == a.adoptions
    <3>1. IsFiniteSet(S) /\ \A x \in S : "state" \in DOMAIN x /\ Landed(x.state)
      BY <1>5 DEF Neat
    <3> HIDE DEF S
    <3>2. LET T == {[x EXCEPT !.older = TRUE] : x \in S} IN
          IsFiniteSet(T) /\ \A x \in T : "state" \in DOMAIN x /\ Landed(x.state)
      BY <3>1, OlderNeat
    <3> QED
      BY <3>2 DEF S
  <2> HIDE DEF run, older, ahead, y
  <2>5. Only(a, b, {"owed", "run", "error", "ahead", "adoptions"})
    BY DEF Only
  <2>6. /\ b.run = run /\ b.commit = a.commit /\ b.hover = a.hover /\ b.snap = a.snap /\ Fields \subseteq DOMAIN b
        /\ b.adoptions = older /\ b.inbox = a.inbox /\ b.cache = a.cache /\ b.owed = FALSE
    BY <1>4, <1>5 DEF Shape, Fields, Neat, RunFields
  <2> HIDE DEF b
  <2>7. Shape(b)
    BY <1>4, <2>2, <2>6 DEF Shape
  <2>8. Keeps(a, b, {"owed", "run", "error", "ahead", "adoptions"})
    BY <2>5, <2>7, <2>6 DEF Keeps
  <2>9. Heard(b)
    BY <1>8, <2>3, <2>6 DEF Heard, Await, Waits, Going
  <2>10. /\ Neat(b) /\ \A f \in RunFields \ {"owed", "run", "error", "ahead"} : b[f] = a[f]
         /\ \A kind \in Kinds : \A path : AsksNow(a, kind, path) => AsksNow(b, kind, path)
    BY <1>5, <2>4, <2>5, <2>6 DEF Neat, AsksNow, Only, RunFields
  <2>11. Keeps(b, r, RenderSlots) /\ Heard(r) /\ Current(r) /\ Leaves(b, r)
    BY <2>7, <2>9, RenderHears, RenderLeaves
  <2> HIDE DEF r
  <2>12. Shape(r)
    BY <2>7, <2>11 DEF Keeps
  <2>13. Neat(r) /\ \A f \in RunFields : r[f] = b[f]
    BY <2>10, <2>11 DEF Leaves, Tidy
  <2>14. /\ r.run = run /\ r.load = a.load /\ r.steps = a.steps /\ r.ready = a.ready /\ r.starting = a.starting
         /\ r.halted = a.halted /\ r.progress = a.progress /\ r.holders = a.holders /\ r.lingering = a.lingering
         /\ r.scheduled = a.scheduled
    <3>1. /\ b.load = a.load /\ b.steps = a.steps /\ b.ready = a.ready /\ b.starting = a.starting
          /\ b.halted = a.halted /\ b.progress = a.progress /\ b.holders = a.holders /\ b.lingering = a.lingering
          /\ b.scheduled = a.scheduled
      BY <2>10 DEF RunFields
    <3>2. /\ r.run = b.run /\ r.load = b.load /\ r.steps = b.steps /\ r.ready = b.ready /\ r.starting = b.starting
          /\ r.halted = b.halted /\ r.progress = b.progress /\ r.holders = b.holders /\ r.lingering = b.lingering
          /\ r.scheduled = b.scheduled
      BY <2>13 DEF RunFields
    <3> QED
      BY <2>6, <3>1, <3>2
  <2>15. RunCovers(r)
    <3>1. \A id \in Places(a.steps) : \E k \in DOMAIN run.order : run.order[k] = id
      BY <1>7, <2>3, OrderCovers DEF Sound
    <3> QED
      BY <2>3, <2>14, <3>1 DEF RunCovers
  <2>16. Steady(r)
    BY <1>1, <1>6, <1>7, <1>10, <2>2, <2>13, <2>14, <2>15 DEF Steady
  <2>17. IsSeq(r.run.order)
    BY <2>3, <2>12, <2>14 DEF Shape, RunShape
  <2>18. Len(r.run.order) \in Nat /\ DOMAIN r.run.order = 1..Len(r.run.order)
    BY <2>17, SeqDomain
  <2>19. 1 \in Nat \ {0} /\ 1 <= Len(r.run.order) + 1 /\ 1 - 1 = 0
    BY <2>18
  <2>20. Visited(r, 0)
    <3>1. \A j \in DOMAIN r.run.order : ~(j <= 0)
      BY <2>18
    <3> QED
      BY <2>2, <2>3, <2>13, <2>14, <3>1 DEF Visited
  <2>21. Sound(r)
    <3>1. r.restarts = a.restarts /\ r.ids = a.ids /\ r.tip = a.tip
      <4>1. Keeps(a, r, RenderSlots \cup {"owed", "run", "error", "ahead", "adoptions"})
        BY <2>8, <2>11, KeepsThen
      <4> QED
        BY <1>4, <4>1, Kept DEF Fields, RenderSlots, OfferSlots, PendingSlots
    <3>2. a.holders > 0
      BY <1>7, <1>10 DEF Sound
    <3> QED
      BY <1>2, <1>7, <2>14, <3>1, <3>2 DEF Sound
  <2>22. Visited(r, 1 - 1)
    BY <2>19, <2>20
  <2>23. Prompt(Advance(r, 1))
    BY <2>11, <2>12, <2>16, <2>19, <2>21, <2>22, AdvancePrompt
  <2> QED
    BY <2>1, <2>23 DEF y, a
<1> QED
  BY <1>9, <1>10

----------------------------------------------------------------------------
(* Answers.                                                               *)

\* The message answered is gone, and the calls after it are still under way.
LEMMA PoppedStill ==
  ASSUME NEW m, Neat(m), m.inbox # <<>>
  PROVE  LET y == Popped(m)
             h == Head(m.inbox)
         IN /\ Neat(y) /\ \A f \in RunFields : y[f] = m[f]
            /\ \A kind \in Kinds : \A path : AsksNow(m, kind, path) =>
                 AsksNow(y, kind, path) \/ Calls(h, kind, path)
<1> DEFINE q == m.inbox
           n == Len(q)
           after == {i \in 2..n : \A j \in 2..i : q[j].kind = "release"}
           y == Popped(m)
           h == Head(q)
<1>1. IsSeq(q) /\ n \in Nat /\ DOMAIN q = 1..n /\ \A i \in DOMAIN q : MailFields \subseteq DOMAIN q[i]
  BY SeqDomain DEF Neat
<1>2. PICK k \in Nat : k \in 1..n /\ after = 2..k /\ Cardinality(after) + 2 = k + 1
  BY <1>1, ReleasesEnd
<1>3. y = [m EXCEPT !.inbox = SubSeq(q, Cardinality(after) + 2, n), !.table = @ \ {q[i].on : i \in after}]
  BY DEF Popped
<1>4. \A i \in 2..k : q[i].kind = "release"
  <2>1. \A i \in after : i \in 2..i
    BY <1>2
  <2> QED
    BY <1>2, <2>1
<1>5. h = q[1]
  BY <1>1
<1> HIDE DEF after, y, h
<1>6. Only(m, y, {"inbox", "table"}) /\ y.inbox = SubSeq(q, k + 1, n)
  BY <1>2, <1>3 DEF Only, Neat
<1>7. DOMAIN y = DOMAIN m /\ y.cache = m.cache /\ y.adoptions = m.adoptions /\ \A f \in RunFields : y[f] = m[f]
  BY <1>6 DEF Only, Neat, RunFields
<1>8. /\ IsSeq(y.inbox) /\ DOMAIN y.inbox = 1..(n - k)
      /\ \A i \in DOMAIN y.inbox : i + k \in DOMAIN q /\ y.inbox[i] = q[i + k]
  <2> DEFINE E == {q[i] : i \in DOMAIN q}
  <2>1. q \in Seq(E)
    BY <1>1 DEF IsSeq
  <2> HIDE DEF E, q, n
  <2>2. n - k \in Nat /\ \A i \in 1..(n - k) : i + k \in 1..n /\ (k + 1) + i - 1 = i + k
    BY <1>1, <1>2
  <2>3. SubSeq(q, k + 1, n) = [i \in 1..(n - (k + 1) + 1) |-> q[k + 1 + i - 1]]
    BY <1>1, <1>2
  <2>4. n - (k + 1) + 1 = n - k
    BY <1>1, <1>2
  <2> DEFINE r == SubSeq(q, k + 1, n)
  <2>5. DOMAIN r = 1..(n - k) /\ \A i \in 1..(n - k) : r[i] = q[i + k]
    BY <2>2, <2>3, <2>4
  <2>6. r = [i \in 1..(n - k) |-> q[k + 1 + i - 1]]
    BY <2>3, <2>4
  <2> HIDE DEF r
  <2>7. r \in [1..(n - k) -> {r[i] : i \in DOMAIN r}]
    BY <2>5, <2>6
  <2>8. IsSeq(r)
    <3>1. r \in UNION {[1..i -> {r[j] : j \in DOMAIN r}] : i \in Nat}
      BY <2>2, <2>7
    <3> QED
      BY <3>1 DEF IsSeq
  <2> QED
    BY <1>1, <1>6, <2>2, <2>5, <2>8 DEF r
<1>9. Neat(y)
  <2>1. \A i \in DOMAIN y.inbox : MailFields \subseteq DOMAIN y.inbox[i]
    BY <1>1, <1>8
  <2> QED
    BY <1>7, <1>8, <2>1 DEF Neat
<1>10. ASSUME NEW kind \in Kinds, NEW path, AsksNow(m, kind, path)
       PROVE  AsksNow(y, kind, path) \/ Calls(h, kind, path)
  <2>1. PICK i \in DOMAIN q : Calls(q[i], kind, path)
    BY <1>10 DEF AsksNow
  <2>2. kind # "release" /\ q[i].kind = kind
    BY <1>10, <2>1 DEF Kinds, Calls
  <2>3. i = 1 \/ i \in (k + 1)..n
    <3>1. i \in 1..n /\ i \notin 2..k
      BY <1>1, <1>4, <2>1, <2>2
    <3> HIDE DEF n
    <3> QED
      BY <1>1, <1>2, <3>1
  <2>4. CASE i = 1
    BY <1>5, <2>1, <2>4
  <2>5. CASE i \in (k + 1)..n
    <3>1. i - k \in 1..(n - k) /\ (i - k) + k = i
      <4> HIDE DEF n
      <4> QED
        BY <1>1, <1>2, <2>5
    <3>2. i - k \in DOMAIN y.inbox /\ y.inbox[i - k] = q[i]
      BY <1>8, <3>1
    <3> QED
      BY <2>1, <3>2 DEF AsksNow
  <2> QED
    BY <2>3, <2>4, <2>5
<1> QED
  BY <1>7, <1>9, <1>10 DEF y, h

\* As before the message h was answered, but for that call.
PromptBut(m, h) ==
  Neat(m) /\ \E x : /\ Prompt(x) /\ \A f \in RunFields : m[f] = x[f]
                    /\ \A kind \in Kinds : \A path : AsksNow(x, kind, path) =>
                         AsksNow(m, kind, path) \/ Calls(h, kind, path)

LEMMA LeavesBut ==
  ASSUME NEW m, NEW y, NEW h, Leaves(m, y), PromptBut(m, h)
  PROVE  PromptBut(y, h)
<1>1. PICK x : /\ Prompt(x) /\ \A f \in RunFields : m[f] = x[f]
               /\ \A kind \in Kinds : \A path : AsksNow(x, kind, path) =>
                    AsksNow(m, kind, path) \/ Calls(h, kind, path)
  BY DEF PromptBut
<1>2. /\ Neat(y) /\ \A f \in RunFields : y[f] = m[f]
      /\ \A kind \in Kinds : \A path : AsksNow(m, kind, path) => AsksNow(y, kind, path)
  BY DEF PromptBut, Leaves, Tidy
<1> QED
  BY <1>1, <1>2 DEF PromptBut

\* What it says of the runs and the starts.
LEMMA ButSays ==
  ASSUME NEW m, NEW h, PromptBut(m, h)
  PROVE  /\ Neat(m)
         /\ m.starting => ~m.ready /\ (AsksNow(m, "version", <<>>) \/ (h.kind = "version" /\ h.wanted /\ ~Landed(h.on)))
         /\ m.halted => m.error # NoError /\ ~m.run.on /\ ~m.progress.done
         /\ "done" \in DOMAIN m.progress /\ (m.progress.done => m.ready)
         /\ m.run.on => /\ RunWhole(m.run) /\ (m.scheduled \/ RunCovers(m))
                        /\ m.run.waits /\ m.run.at \in DOMAIN m.run.order
                        /\ \A j \in DOMAIN m.run.order : j < m.run.at => MadeIn(m.run, m.run.order[j])
                        /\ \/ RunWaits(m)
                           \/ h.kind = "replay" /\ h.wanted /\ RunAwaits(m, h.path)
         /\ Told(m)
<1>1. PICK x : /\ Prompt(x) /\ \A f \in RunFields : m[f] = x[f]
               /\ \A kind \in Kinds : \A path : AsksNow(x, kind, path) =>
                    AsksNow(m, kind, path) \/ Calls(h, kind, path)
  BY DEF PromptBut
<1>2. /\ m.load = x.load /\ m.steps = x.steps /\ m.holders = x.holders /\ m.lingering = x.lingering
      /\ m.owed = x.owed /\ m.ready = x.ready /\ m.starting = x.starting /\ m.scheduled = x.scheduled
      /\ m.run = x.run /\ m.progress = x.progress /\ m.halted = x.halted /\ m.error = x.error /\ m.ahead = x.ahead
  BY <1>1 DEF RunFields
<1>3. AllIn(m) <=> AllIn(x)
  BY <1>2, ShownSame
<1>4. Told(m)
  BY <1>1, <1>2, <1>3 DEF Prompt, Told, Underway
<1>5. Neat(m)
  BY DEF PromptBut
<1>6. m.starting => ~m.ready /\ (AsksNow(m, "version", <<>>) \/ (h.kind = "version" /\ h.wanted /\ ~Landed(h.on)))
  BY <1>1, <1>2 DEF Prompt, Steady, Kinds, Calls
<1>7. ASSUME m.run.on
      PROVE  /\ RunWhole(m.run) /\ (m.scheduled \/ RunCovers(m))
             /\ m.run.waits /\ m.run.at \in DOMAIN m.run.order
             /\ \A j \in DOMAIN m.run.order : j < m.run.at => MadeIn(m.run, m.run.order[j])
             /\ \/ RunWaits(m)
                \/ h.kind = "replay" /\ h.wanted /\ RunAwaits(m, h.path)
  <2>1. /\ RunWhole(m.run) /\ (m.scheduled \/ RunCovers(m)) /\ RunWaits(x)
    BY <1>1, <1>2, <1>7 DEF Prompt, Steady, RunCovers
  <2>2. /\ m.run.waits /\ m.run.at \in DOMAIN m.run.order
        /\ \A j \in DOMAIN m.run.order : j < m.run.at => MadeIn(m.run, m.run.order[j])
        /\ AsksNow(x, "replay", PathOf(m.run.steps, m.run.order[m.run.at]))
    BY <1>2, <2>1 DEF RunWaits
  <2>3. \/ AsksNow(m, "replay", PathOf(m.run.steps, m.run.order[m.run.at]))
        \/ h.kind = "replay" /\ h.wanted /\ h.path = PathOf(m.run.steps, m.run.order[m.run.at])
    BY <1>1, <2>2 DEF Kinds, Calls
  <2> QED
    BY <1>7, <2>1, <2>2, <2>3 DEF RunWaits, RunAwaits
<1> QED
  BY <1>1, <1>2, <1>4, <1>5, <1>6, <1>7 DEF Prompt, Steady

\* An answer nobody awaits changes nothing.
LEMMA ButPrompt ==
  ASSUME NEW m, NEW h, PromptBut(m, h), ~(h.kind = "version" /\ h.wanted /\ ~Landed(h.on)),
         ~(h.kind = "replay" /\ h.wanted /\ RunAwaits(m, h.path))
  PROVE  Prompt(m)
  BY ButSays DEF Prompt, Steady

\* The engine's version, or word that it did not come.
LEMMA VersionPrompt ==
  ASSUME NEW m, NEW h, PromptBut(m, h), h.kind = "version", Sound(m)
  PROVE  /\ Prompt(ScheduleReplay([m EXCEPT !.starting = FALSE, !.ready = TRUE]))
         /\ Prompt(Fail([m EXCEPT !.starting = FALSE]))
<1> DEFINE a == [m EXCEPT !.starting = FALSE, !.ready = TRUE]
           b == [m EXCEPT !.starting = FALSE]
           c == [b EXCEPT !.error = Failure(b)]
<1>1. /\ Neat(m)
      /\ m.halted => m.error # NoError /\ ~m.run.on /\ ~m.progress.done
      /\ "done" \in DOMAIN m.progress /\ (m.progress.done => m.ready)
      /\ m.run.on => RunWhole(m.run) /\ (m.scheduled \/ RunCovers(m)) /\ RunWaits(m)
      /\ Told(m) /\ (m.starting => ~m.ready)
  BY ButSays
<1>2. Only(m, a, {"starting", "ready"}) /\ ~a.starting /\ a.ready
  BY <1>1 DEF Only, Neat, RunFields
<1>3. Only(m, c, {"starting", "error"}) /\ ~c.starting /\ c.error = Failure(b)
  BY <1>1 DEF Only, Neat, RunFields
<1>4. c.error # NoError
  BY <1>3, FailureTold
<1>5. Fail(b) = Render(c)
  BY DEF Fail
<1> HIDE DEF a, b, c
<1>6. Alters(m, a, {"starting", "ready"}, Kinds) /\ Alters(m, c, {"starting", "error"}, Kinds)
  BY <1>2, <1>3, OnlyAlters
<1>7. Prompt(ScheduleReplay(a))
  <2>1. /\ Neat(a) /\ \A f \in RunFields \ {"starting", "ready"} : a[f] = m[f]
        /\ \A kind \in Kinds : \A path : AsksNow(m, kind, path) => AsksNow(a, kind, path)
    BY <1>1, <1>6 DEF Alters, Tidy
  <2>2. /\ a.load = m.load /\ a.steps = m.steps /\ a.holders = m.holders /\ a.lingering = m.lingering
        /\ a.owed = m.owed /\ a.run = m.run /\ a.progress = m.progress /\ a.halted = m.halted
        /\ a.error = m.error /\ a.ahead = m.ahead
    BY <2>1 DEF RunFields
  <2>3. AllIn(a) <=> AllIn(m)
    BY <2>2, ShownSame
  <2>4. RunWaits(m) => RunWaits(a)
    BY <2>1, <2>2 DEF RunWaits, Kinds
  <2>5. Loose(a)
    BY <1>1, <1>2, <2>1, <2>2, <2>3, <2>4 DEF Loose, Told, Sound
  <2>6. Prompt(Start(a))
    BY <2>2, <2>5, StartPrompt DEF Sound
  <2>7. Start(a) = ScheduleReplay(a)
    BY <1>2, <2>2 DEF Start, ScheduleReplay, Sound
  <2> QED
    BY <2>6, <2>7
<1>8. Prompt(c)
  <2>1. /\ Neat(c) /\ \A f \in RunFields \ {"starting", "error"} : c[f] = m[f]
        /\ \A kind \in Kinds : \A path : AsksNow(m, kind, path) => AsksNow(c, kind, path)
    BY <1>1, <1>6 DEF Alters, Tidy
  <2>2. /\ c.load = m.load /\ c.steps = m.steps /\ c.holders = m.holders /\ c.lingering = m.lingering
        /\ c.owed = m.owed /\ c.run = m.run /\ c.progress = m.progress /\ c.halted = m.halted
        /\ c.ready = m.ready /\ c.ahead = m.ahead /\ c.scheduled = m.scheduled
    BY <2>1 DEF RunFields
  <2>3. AllIn(c) <=> AllIn(m)
    BY <2>2, ShownSame
  <2>4. RunWaits(m) => RunWaits(c)
    BY <2>1, <2>2 DEF RunWaits, Kinds
  <2>5. Steady(c)
    BY <1>1, <1>3, <1>4, <2>1, <2>2 DEF Steady, RunCovers
  <2>6. Told(c)
    BY <1>1, <1>4, <2>2, <2>3 DEF Told, Underway
  <2> QED
    BY <1>1, <2>2, <2>4, <2>5, <2>6 DEF Prompt
<1>9. Prompt(Fail(b))
  BY <1>5, <1>8, RenderLeaves, LeavesPrompt
<1> QED
  BY <1>7, <1>9 DEF a, b

\* A run that hears what it waited for goes on from there.
LEMMA AwaitedPrompt ==
  ASSUME NEW m, NEW h, NEW st, PromptBut(m, h), Settling(m), m.run.on, st # NoState
  PROVE  Prompt(Advance(Report([Made(m, m.run.order[m.run.at], st) EXCEPT !.run.waits = FALSE], FALSE), m.run.at + 1))
<1> DEFINE at == m.run.at
           id == m.run.order[at]
           a == Made(m, id, st)
           b == [a EXCEPT !.run.waits = FALSE]
           no == FALSE
           r == Report(b, no)
           y == Advance(r, at + 1)
<1>1. y = Advance(Report([Made(m, m.run.order[m.run.at], st) EXCEPT !.run.waits = FALSE], FALSE), m.run.at + 1)
  OBVIOUS
<1> HIDE DEF y
<1>2. ~no
  OBVIOUS
<1> HIDE DEF no
<1>3. Shape(m) /\ Sound(m) /\ Heard(m) /\ Current(m)
  BY DEF Settling
<1>4. /\ Neat(m) /\ RunWhole(m.run) /\ (m.scheduled \/ RunCovers(m)) /\ at \in DOMAIN m.run.order
      /\ \A j \in DOMAIN m.run.order : j < at => MadeIn(m.run, m.run.order[j])
      /\ ~m.halted
  BY ButSays
<1>5. /\ m.starting => ~m.ready
      /\ m.ready
  BY <1>3, ButSays DEF Sound
<1>6. /\ Only(m, a, {"run"}) /\ Neat(a) /\ RunWhole(a.run) /\ Onward(m, a)
      /\ MadeIn(a.run, id) /\ \A i : MadeIn(m.run, i) => MadeIn(a.run, i)
  <2>1. Neat(m) /\ RunWhole(m.run) /\ m.run.on
    BY <1>4
  <2> HIDE DEF id
  <2>2. LET z == Made(m, id, st) IN
        /\ Only(m, z, {"run"}) /\ Neat(z) /\ RunWhole(z.run) /\ Onward(m, z)
        /\ z.run.waits = m.run.waits /\ z.run.at = m.run.at
        /\ MadeIn(z.run, id) /\ \A i : MadeIn(m.run, i) => MadeIn(z.run, i)
    BY <2>1, MadeGoes, Zenon
  <2> QED
    BY <2>2
<1>7. Keeps(m, a, {"run"}) /\ GoesOn(m, a)
  BY <1>3, MadeKeeps
<1> HIDE DEF a, id
<1>8. Shape(a)
  BY <1>3, <1>7 DEF Keeps
<1>9. Keeps(a, b, {"run"}) /\ GoesOn(a, b)
  BY <1>8, GoesAgainKeeps
<1>10. /\ b.run = [a.run EXCEPT !.waits = FALSE]
       /\ \A f \in RunFields \ {"run"} : b[f] = a[f]
  BY <1>6 DEF Neat, RunFields
<1>11. Neat(b)
  <2>1. Only(a, b, {"run"})
    BY <1>9 DEF Keeps
  <2>2. Tidy(a, b, Kinds)
    BY <2>1, OnlyTidy
  <2> QED
    BY <1>6, <2>2 DEF Tidy
<1> HIDE DEF b
<1>12. /\ b.run.on /\ b.run.load = m.run.load /\ b.run.steps = m.run.steps /\ b.run.order = m.run.order
       /\ ~b.run.waits /\ b.run.made = a.run.made /\ RunWhole(b.run)
  BY <1>6, <1>10 DEF Onward, RunWhole
<1>13. Keeps(m, b, {"run"}) /\ GoesOn(m, b)
  BY <1>7, <1>9, KeepsThen DEF GoesOn
<1>14. Shape(b) /\ Current(b) /\ Heard(b)
  BY <1>3, <1>13, StillGoes DEF Keeps
<1>15. Keeps(b, r, RenderSlots \cup {"progress"}) /\ Heard(r) /\ Current(r)
  BY <1>14, ReportHears
<1>16. /\ Neat(r) /\ \A f \in RunFields \ {"progress"} : r[f] = b[f]
       /\ r.progress = [load |-> b.run.load, done |-> no, made |-> b.run.made]
  BY <1>11, ReportGoes
<1> HIDE DEF r
<1>17. Shape(r)
  BY <1>14, <1>15 DEF Keeps
<1>18. /\ r.run = b.run /\ \A f \in RunFields \ {"run", "progress"} : r[f] = m[f]
  BY <1>6, <1>10, <1>16 DEF RunFields, Onward
<1>19. /\ r.load = m.load /\ r.steps = m.steps /\ r.ready = m.ready /\ r.starting = m.starting
       /\ r.scheduled = m.scheduled /\ r.halted = m.halted /\ r.holders = m.holders
  BY <1>18 DEF RunFields
<1>20. Sound(r)
  <2>1. Keeps(m, r, RenderSlots \cup {"run", "progress"})
    BY <1>13, <1>15, KeepsThen
  <2> DEFINE T == RenderSlots \cup {"run", "progress"}
  <2>2. T \cap {"holders", "restarts", "steps", "ids", "tip", "ready", "lingering"} = {}
    BY DEF RenderSlots, OfferSlots, PendingSlots
  <2> HIDE DEF T
  <2>3. Keeps(m, r, T)
    BY <2>1 DEF T
  <2>4. r.scheduled => m.ready
    BY <1>5
  <2>5. r.run.on => m.run.on
    OBVIOUS
  <2> QED
    BY <1>3, <2>2, <2>3, <2>4, <2>5, StillSound
<1>21. at + 1 \in Nat \ {0} /\ at + 1 <= Len(r.run.order) + 1 /\ (at + 1) - 1 = at /\ at \in Nat
       /\ DOMAIN m.run.order \subseteq Nat
  <2>1. IsSeq(m.run.order)
    BY <1>3 DEF Shape, RunShape
  <2>2. at \in 1..Len(m.run.order) /\ Len(m.run.order) \in Nat /\ DOMAIN m.run.order = 1..Len(m.run.order)
    BY <1>4, <2>1, SeqDomain
  <2>3. \A n \in Nat : \A k \in 1..n : k + 1 \in Nat \ {0} /\ k + 1 <= n + 1 /\ (k + 1) - 1 = k /\ k \in Nat
    OBVIOUS
  <2> HIDE DEF at
  <2> QED
    BY <1>12, <1>18, <2>2, <2>3
<1>22. Visited(r, at)
  <2>1. \A j \in DOMAIN r.run.order : j <= at => MadeIn(r.run, r.run.order[j])
    <3> SUFFICES ASSUME NEW j \in DOMAIN m.run.order, j <= at
                 PROVE  MadeIn(a.run, m.run.order[j])
      BY <1>12, <1>18 DEF MadeIn
    <3>1. j < at \/ j = at
      BY <1>21
    <3> QED
      BY <1>4, <1>6, <3>1 DEF id
  <2> QED
    BY <1>12, <1>16, <1>18, <2>1 DEF Visited
<1>23. Steady(r)
  BY <1>2, <1>4, <1>5, <1>12, <1>16, <1>18, <1>19 DEF Steady, RunCovers
<1>24. Prompt(Advance(r, at + 1))
  <2> HIDE DEF at
  <2> QED
    BY <1>15, <1>17, <1>20, <1>21, <1>22, <1>23, AdvancePrompt
<1> QED
  BY <1>1, <1>24 DEF y

\* What a replay landed, or was refused.
LEMMA HearReplayPrompt ==
  ASSUME NEW m, NEW h, NEW st, PromptBut(m, h), Settling(m), h.kind = "replay", st # NoState
  PROVE  Prompt(HearReplay(m, h, st))
<1> DEFINE cache == Put(m.cache, h.path, st)
           c == [m EXCEPT !.cache = cache]
           l == [m EXCEPT !.stray = @ \cup {st}]
           kept == IF h.wanted THEN c ELSE IF Landed(st) THEN l ELSE m
           y == Advance(Report([Made(kept, kept.run.order[kept.run.at], st) EXCEPT !.run.waits = FALSE], FALSE), kept.run.at + 1)
<1>1. HearReplay(m, h, st) = IF h.wanted /\ RunAwaits(kept, h.path) THEN y ELSE kept
  BY DEF HearReplay
<1>2. Only(m, c, {"cache"}) /\ Only(m, l, {"stray"})
  BY DEF Only
<1>3. kept \in {c, l, m}
  OBVIOUS
<1>4. Neat(m)
  BY DEF PromptBut
<1>5. Leaves(m, c)
  <2>1. DOMAIN cache = DOMAIN m.cache \cup {h.path} /\ \A p \in DOMAIN cache : cache[p] # NoState
    BY <1>4 DEF Put, Neat
  <2>2. IsFiniteSet(DOMAIN cache)
    BY <1>4, <2>1, FS_AddElement DEF Neat
  <2> HIDE DEF cache
  <2>3. c.cache = cache
    BY <1>4 DEF Neat
  <2> HIDE DEF c
  <2>4. DOMAIN c = DOMAIN m /\ c.inbox = m.inbox /\ c.adoptions = m.adoptions
    BY <1>2, <1>4 DEF Only, Neat
  <2>5. Tidy(m, c, Kinds)
    BY <2>1, <2>2, <2>3, <2>4 DEF Tidy, Neat, AsksNow
  <2>6. \A f \in RunFields : c[f] = m[f]
    BY <1>2, <1>4 DEF Only, Neat, RunFields
  <2> QED
    BY <2>5, <2>6 DEF Leaves
<1>6. Leaves(m, l)
  <2> HIDE DEF l
  <2>1. {"stray"} \cap (RunFields \cup {"inbox", "cache", "adoptions"}) = {}
    BY DEF RunFields
  <2> QED
    BY <1>2, <2>1, OnlyLeaves
<1> HIDE DEF c, l, kept
<1>7. Mild(m, kept)
  BY <1>2, <1>3, OnlyMild, MildSame DEF ToolSlots, RenderSlots, OfferSlots, PendingSlots
<1>8. Settling(kept)
  BY <1>7, MildSettling
<1>9. Leaves(m, kept)
  BY <1>3, <1>5, <1>6, LeavesSame
<1>10. PromptBut(kept, h)
  BY <1>9, LeavesBut
<1>11. CASE h.wanted /\ RunAwaits(kept, h.path)
  <2>1. kept.run.on
    BY <1>11 DEF RunAwaits
  <2>2. Prompt(y)
    BY <1>8, <1>10, <2>1, AwaitedPrompt
  <2> HIDE DEF y
  <2> QED
    BY <1>1, <1>11, <2>2
<1>12. CASE ~(h.wanted /\ RunAwaits(kept, h.path))
  <2> HIDE DEF y
  <2>1. Prompt(kept)
    BY <1>10, <1>12, ButPrompt
  <2> QED
    BY <1>1, <1>12, <2>1
<1> QED
  BY <1>11, <1>12

\* What an answer changes, whatever was asked.
LEMMA HearAnswerPrompt ==
  ASSUME NEW m, NEW h, NEW st, PromptBut(m, h), Settling(m), Taking(m), h.kind = "replay" => st # NoState
  PROVE  Prompt(HearAnswer(m, h, st))
<1>1. Shape(m) /\ Sound(m) /\ Neat(m)
  BY DEF Settling, PromptBut
<1>2. CASE h.kind = "version"
  <2>1. CASE h.wanted
    <3>1. HearAnswer(m, h, st) = ScheduleReplay([m EXCEPT !.starting = FALSE, !.ready = TRUE])
      BY <1>2, <2>1 DEF HearAnswer
    <3> QED
      BY <1>1, <1>2, <3>1, VersionPrompt
  <2>2. CASE ~h.wanted
    <3>1. HearAnswer(m, h, st) = m
      BY <1>2, <2>2 DEF HearAnswer
    <3> QED
      BY <1>2, <2>2, <3>1, ButPrompt
  <2> QED
    BY <2>1, <2>2
<1>3. CASE h.kind = "replay"
  <2>1. HearAnswer(m, h, st) = HearReplay(m, h, st)
    BY <1>3 DEF HearAnswer
  <2> QED
    BY <1>3, <2>1, HearReplayPrompt
<1>4. ASSUME h.kind # "version", h.kind # "replay"
      PROVE  Prompt(m)
  BY <1>4, ButPrompt
<1>5. CASE h.kind = "preview"
  <2>1. HearAnswer(m, h, st) = NextPreview(HearPreview(m, h, st))
    BY <1>5 DEF HearAnswer
  <2> QED
    BY <1>4, <1>5, <2>1, HearPreviewLeaves, LeavesPrompt
<1>6. CASE h.kind = "fold"
  <2>1. HearAnswer(m, h, st) = HearFold(m, h, st)
    BY <1>6 DEF HearAnswer
  <2>2. CASE Landed(st)
    <3>1. HearFold(m, h, st) = CommitLanded(m, m.commit.from, h.op, st)
      BY <2>2 DEF HearFold
    <3> QED
      BY <1>1, <1>4, <1>6, <2>1, <2>2, <3>1, CommitLandedPrompt
  <2>3. CASE ~Landed(st)
    <3> DEFINE d == DropPending(m)
               refused == [status |-> "refused", parent |-> h.on, op |-> h.op, state |-> st]
               y == [d EXCEPT !.commit = NoCommit, !.pending = refused]
    <3>1. HearFold(m, h, st) = Render(y)
      BY <2>3 DEF HearFold
    <3> HIDE DEF refused
    <3>2. Leaves(m, d)
      BY DropPendingLeaves
    <3> HIDE DEF d
    <3>3. Only(d, y, ToolFields)
      BY DEF Only, ToolFields
    <3> HIDE DEF y
    <3>4. Leaves(d, y) /\ Leaves(y, Render(y))
      BY <3>3, ToolLeaves, RenderLeaves
    <3> QED
      BY <1>4, <1>6, <2>1, <3>1, <3>2, <3>4, LeavesPrompt
  <2> QED
    BY <2>2, <2>3
<1>7. CASE h.kind = "orders"
  <2>1. HearAnswer(m, h, st) = KeepOffer(m, h.on, h.op, st)
    BY <1>7 DEF HearAnswer
  <2> QED
    BY <1>4, <1>7, <2>1, KeepOfferLeaves, LeavesPrompt
<1>8. CASE h.kind = "print"
  <2> DEFINE k == [m EXCEPT !.print = "known"]
             known == IF m.pending.state = h.on THEN k ELSE m
  <2>1. HearAnswer(m, h, st) = HearPrint(m, h)
    BY <1>8 DEF HearAnswer
  <2>2. HearPrint(m, h) = IF m.commit.pc = "print" /\ m.commit.state = h.on
                            THEN CommitLanded(known, m.commit.from, m.commit.op, h.on) ELSE known
    BY DEF HearPrint
  <2>3. known \in {k, m}
    OBVIOUS
  <2>4. Only(m, k, {"print"})
    BY DEF Only
  <2> HIDE DEF k, known
  <2>5. Leaves(m, known)
    <3>1. Only(m, k, ToolFields)
      BY <2>4 DEF Only, ToolFields
    <3> QED
      BY <2>3, <3>1, ToolLeaves, LeavesSame
  <2>6. Settling(known)
    <3>1. Mild(m, known)
      BY <2>3, <2>4, OnlyMild, MildSame DEF ToolSlots, RenderSlots, OfferSlots, PendingSlots
    <3> QED
      BY <3>1, MildSettling
  <2>7. Prompt(known)
    BY <1>4, <1>8, <2>5, LeavesPrompt
  <2>8. m.commit.pc = "print" /\ m.commit.state = h.on => Landed(h.on)
    BY DEF Taking
  <2>9. m.commit.pc = "print" /\ m.commit.state = h.on =>
          Prompt(CommitLanded(known, m.commit.from, m.commit.op, h.on))
    BY <2>6, <2>7, <2>8, CommitLandedPrompt DEF Settling
  <2> QED
    BY <2>1, <2>2, <2>7, <2>9
<1>9. CASE h.kind \notin {"version", "replay", "preview", "fold", "orders", "print"}
  <2>1. HearAnswer(m, h, st) = m
    BY <1>9 DEF HearAnswer
  <2> QED
    BY <1>4, <1>9, <2>1
<1> QED
  BY <1>2, <1>3, <1>5, <1>6, <1>7, <1>8, <1>9

\* A call that failed, other than a replay.
LEMMA HearFailurePrompt ==
  ASSUME NEW m, NEW h, PromptBut(m, h), Sound(m), h.kind \in {"version", "preview", "fold"}
  PROVE  Prompt(HearFailure(m, h))
<1>1. CASE h.kind = "version"
  <2>1. HearFailure(m, h) = IF h.wanted THEN Fail([m EXCEPT !.starting = FALSE]) ELSE m
    BY <1>1 DEF HearFailure
  <2>2. h.wanted => Prompt(Fail([m EXCEPT !.starting = FALSE]))
    BY <1>1, VersionPrompt
  <2>3. ~h.wanted => Prompt(m)
    BY <1>1, ButPrompt
  <2> QED
    BY <2>1, <2>2, <2>3
<1>2. ASSUME h.kind # "version"
      PROVE  Prompt(m)
  BY <1>2, ButPrompt
<1>3. CASE h.kind = "preview"
  <2> DEFINE f == [m EXCEPT !.pending.status = "failed"]
             r == IF h.wanted THEN Render(f) ELSE m
  <2>1. HearFailure(m, h) = NextPreview(r)
    BY <1>3 DEF HearFailure
  <2>2. Only(m, f, ToolFields)
    BY DEF Only, ToolFields
  <2> HIDE DEF f
  <2>3. Leaves(m, f) /\ Leaves(f, Render(f))
    BY <2>2, ToolLeaves, RenderLeaves
  <2>4. Leaves(m, r)
    BY <2>3, LeavesThen, LeavesSame
  <2> HIDE DEF r
  <2> QED
    BY <1>2, <1>3, <2>1, <2>4, NextPreviewLeaves, LeavesPrompt
<1>4. CASE h.kind = "fold"
  <2>1. HearFailure(m, h) = [m EXCEPT !.commit = NoCommit]
    BY <1>4 DEF HearFailure
  <2> QED
    BY <1>2, <1>4, <2>1, OverLeaves, LeavesPrompt
<1> QED
  BY <1>1, <1>3, <1>4

\* An engine that does not know a state.
LEMMA HearUnknownPrompt ==
  ASSUME NEW m, NEW h, PromptBut(m, h), Sound(m), h.kind = "version" => Landed(h.on)
  PROVE  Prompt(HearUnknown(m, h))
<1>1. Neat(m) /\ (m.halted => m.error # NoError)
  BY ButSays
<1>2. m.holders \in Nat /\ (m.run.on => m.ready /\ m.holders > 0) /\ (m.lingering => m.holders = 0)
  BY DEF Sound
<1>3. CASE h.kind = "replay"
  <2> DEFINE n == [m EXCEPT !.run = NoRun]
  <2>1. HearUnknown(m, h) = IF h.wanted /\ RunAwaits(m, h.path) THEN Reland(n) ELSE m
    BY <1>3 DEF HearUnknown
  <2>2. ~(h.wanted /\ RunAwaits(m, h.path)) => Prompt(m)
    BY <1>3, ButPrompt
  <2>3. Only(m, n, {"run"})
    BY DEF Only
  <2> HIDE DEF n
  <2>4. Neat(n) /\ \A f \in RunFields \ {"run"} : n[f] = m[f]
    <3>1. Tidy(m, n, Kinds)
      BY <2>3, OnlyTidy
    <3> QED
      BY <1>1, <2>3, <3>1 DEF Tidy, Only, Neat
  <2>5. n.halted = m.halted /\ n.error = m.error /\ n.ready = m.ready /\ n.holders = m.holders /\ n.lingering = m.lingering
    BY <2>4 DEF RunFields
  <2>6. RunAwaits(m, h.path) => Prompt(Reland(n))
    <3> SUFFICES ASSUME m.run.on
                 PROVE  Prompt(Reland(n))
      BY DEF RunAwaits
    <3>1. n.ready /\ n.holders \in Nat /\ n.holders # 0 /\ ~n.lingering
      BY <1>2, <2>5
    <3> QED
      BY <1>1, <2>4, <2>5, <3>1, RelandPrompt
  <2> QED
    BY <2>1, <2>2, <2>6
<1>4. CASE h.kind = "orders"
  <2>1. HearUnknown(m, h) = Reland(m)
    BY <1>4 DEF HearUnknown
  <2>2. CASE ~m.ready \/ m.holders = 0
    <3>1. Reland(m) = m
      BY <2>2 DEF Reland
    <3> QED
      BY <1>4, <2>1, <3>1, ButPrompt
  <2>3. CASE m.ready /\ m.holders # 0
    BY <1>1, <1>2, <2>1, <2>3, RelandPrompt
  <2> QED
    BY <2>2, <2>3
<1>5. CASE h.kind \in {"preview", "fold"}
  <2>1. HearUnknown(m, h) = HearFailure(m, h)
    BY <1>5 DEF HearUnknown
  <2> QED
    BY <1>5, <2>1, HearFailurePrompt
<1>6. CASE h.kind \notin {"replay", "orders", "preview", "fold"}
  <2>1. HearUnknown(m, h) = m
    BY <1>6 DEF HearUnknown
  <2> QED
    BY <1>6, <2>1, ButPrompt
<1> QED
  BY <1>3, <1>4, <1>5, <1>6

----------------------------------------------------------------------------
(* A held session settles.                                                *)

LEMMA PoppedPrompt ==
  ASSUME NEW m, Prompt(m), m.inbox # <<>>
  PROVE  PromptBut(Popped(m), Head(m.inbox))
<1> DEFINE y == Popped(m)
           h == Head(m.inbox)
<1>1. Neat(m)
  BY DEF Prompt, Steady
<1>2. /\ Neat(y) /\ \A f \in RunFields : y[f] = m[f]
      /\ \A kind \in Kinds : \A path : AsksNow(m, kind, path) => AsksNow(y, kind, path) \/ Calls(h, kind, path)
  BY <1>1, PoppedStill
<1> HIDE DEF y, h
<1> QED
  BY <1>2 DEF PromptBut, y, h

\* A session that settles.
SettleInv == OwnersInv /\ Prompt(s)

LEMMA SettleParts ==
  ASSUME SettleInv
  PROVE  /\ Prompt(s) /\ Neat(s) /\ Settling(s) /\ Sound(s) /\ Shape(s)
         /\ Whole(s) /\ Taking(s) /\ Balanced(s, {}, {}) /\ PendingOK(s) /\ OwnersInv /\ s.landed \in Nat
  BY DEF SettleInv, OwnersInv, SessionInv, Settling, Whole, WholeBut, Owned, OwnShape, Mail, Prompt, Steady

LEMMA ActsPrompt ==
  ASSUME NEW m, Did(m) \/ UserDid(m), Prompt(m)
  PROVE  Prompt(s)'
<1>1. s' = m
  BY DEF Did, UserDid
<1> QED
  BY <1>1

LEMMA ServeKeepsPrompt ==
  ASSUME SettleInv, Serve
  PROVE  Prompt(s)'
<1> DEFINE h == Head(s.inbox)
           folds == h.kind \in {"replay", "preview", "fold", "orders"}
           sheet == h.kind = "replay" /\ h.path = <<>>
           st == [n |-> s.landed + 1, gen |-> s.gen, path |-> IF sheet THEN <<>> ELSE Append(h.on.path, h.op)]
           p == Popped(s)
           lands == folds /\ h.op \notin Refused
           l == [p EXCEPT !.landed = @ + 1, !.table = @ \cup {st}]
           m == IF lands THEN l ELSE p
           answer == IF lands THEN st ELSE IF folds THEN Broken ELSE NoState
           y == HearAnswer(m, h, answer)
<1>1. Did(y) /\ s.up /\ s.inbox # <<>>
  BY DEF Serve
<1>2. Whole(p) /\ p.up = s.up /\ p.landed = s.landed /\ p.gen = s.gen
  BY <1>1, SettleParts, PoppedAnswers
<1>3. Settling(p)
  BY SettleParts, PoppedMild, MildSettling
<1>4. PromptBut(p, h)
  BY <1>1, SettleParts, PoppedPrompt
<1>5. st.n = s.landed + 1 /\ st.gen = s.gen
  OBVIOUS
<1>6. st # NoState /\ Broken # NoState
  BY <1>5, SettleParts DEF NoState, Broken
<1>7. h.kind = "replay" => folds
  OBVIOUS
<1>8. h.kind = "replay" => answer # NoState
  BY <1>6, <1>7
<1> HIDE DEF p, st, h, lands, folds
<1>9. WholeBut(l, {st}) /\ Only(p, l, {"landed", "table"})
  BY <1>1, <1>2, <1>5, LandWhole
<1> HIDE DEF l, answer
<1>10. Taking(p) /\ Taking(l)
  BY <1>2, <1>9 DEF Whole, WholeBut
<1>11. Settling(l)
  <2>1. Mild(p, l)
    BY <1>9, OnlyMild DEF ToolSlots, RenderSlots, OfferSlots, PendingSlots
  <2> QED
    BY <1>3, <2>1, MildSettling
<1>12. PromptBut(l, h)
  <2>1. {"landed", "table"} \cap (RunFields \cup {"inbox", "cache", "adoptions"}) = {}
    BY DEF RunFields
  <2>2. Leaves(p, l)
    BY <1>9, <2>1, OnlyLeaves
  <2> QED
    BY <1>4, <2>2, LeavesBut
<1>13. PromptBut(m, h) /\ Settling(m) /\ Taking(m)
  BY <1>3, <1>4, <1>10, <1>11, <1>12
<1> HIDE DEF m
<1>14. Prompt(y)
  BY <1>8, <1>13, HearAnswerPrompt
<1> HIDE DEF y
<1> QED
  BY <1>1, <1>14, ActsPrompt

LEMMA ServeFailureKeepsPrompt ==
  ASSUME SettleInv, ServeFailure, "replay" \notin Failing
  PROVE  Prompt(s)'
<1> DEFINE h == Head(s.inbox)
           p == Popped(s)
           y == HearFailure(p, h)
<1>1. Did(y) /\ s.inbox # <<>> /\ h.kind \in Failing
  BY DEF ServeFailure
<1>2. Settling(p) /\ Sound(p)
  BY SettleParts, PoppedMild, MildSettling DEF Settling
<1>3. PromptBut(p, h)
  BY <1>1, SettleParts, PoppedPrompt
<1>4. h.kind \in {"version", "preview", "fold"}
  BY <1>1, FailingAssumption
<1> HIDE DEF p, h
<1>5. Prompt(y)
  BY <1>2, <1>3, <1>4, HearFailurePrompt
<1> HIDE DEF y
<1> QED
  BY <1>1, <1>5, ActsPrompt

LEMMA ServeUnknownKeepsPrompt ==
  ASSUME SettleInv, ServeUnknown
  PROVE  Prompt(s)'
<1> DEFINE h == Head(s.inbox)
           p == Popped(s)
           y == HearUnknown(p, h)
<1>1. Did(y) /\ s.inbox # <<>> /\ (h.kind = "version" => Landed(h.on))
  BY DEF ServeUnknown, Known
<1>2. Settling(p) /\ Sound(p)
  BY SettleParts, PoppedMild, MildSettling DEF Settling
<1>3. PromptBut(p, h)
  BY <1>1, SettleParts, PoppedPrompt
<1> HIDE DEF p, h
<1>4. Prompt(y)
  BY <1>1, <1>2, <1>3, HearUnknownPrompt
<1> HIDE DEF y
<1> QED
  BY <1>1, <1>4, ActsPrompt

LEMMA HoldsKeepPrompt ==
  ASSUME SettleInv, Retain \/ RetainAgain \/ ReleaseHold \/ LingerEnds \/ Retry
  PROVE  Prompt(s)'
<1>1. Prompt(s) /\ Neat(s) /\ Sound(s) /\ (s.halted => s.error # NoError)
  BY SettleParts DEF Prompt, Steady
<1>2. CASE Retain
  BY <1>1, <1>2, RetainedPrompt, ActsPrompt DEF Retain
<1>3. CASE RetainAgain
  <2> DEFINE y == [s EXCEPT !.holders = 2]
  <2>1. s.holders = 1 /\ Did(y)
    BY <1>3 DEF RetainAgain
  <2>2. Only(s, y, {"holders"}) /\ s.holders > 0
    BY <2>1 DEF Only
  <2> HIDE DEF y
  <2> QED
    BY <1>1, <2>1, <2>2, HoldersPrompt, ActsPrompt
<1>4. CASE ReleaseHold
  <2> DEFINE m == [s EXCEPT !.holders = @ - 1]
  <2>1. s.holders > 0 /\ Did(IF m.holders > 0 THEN m ELSE IF Lingers /\ ~m.halted THEN StartLingering(m) ELSE Stop(m))
    BY <1>4 DEF ReleaseHold
  <2>2. Only(s, m, {"holders"})
    BY DEF Only
  <2> HIDE DEF m
  <2>3. CASE m.holders > 0
    BY <1>1, <2>1, <2>2, <2>3, HoldersPrompt, ActsPrompt
  <2>4. CASE ~(m.holders > 0)
    <3>1. Prompt(StartLingering(m))
      BY <1>1, <2>1, <2>2, <2>4, LingerPrompt
    <3>2. Neat(m) /\ m.halted = s.halted /\ m.error = s.error
      <4>1. Tidy(s, m, Kinds)
        BY <2>2, OnlyTidy
      <4> QED
        BY <1>1, <2>2, <4>1 DEF Tidy, Only, Neat, RunFields
    <3>3. Prompt(Stop(m))
      BY <1>1, <2>4, <3>2, StopPrompt
    <3>4. Did(StartLingering(m)) \/ Did(Stop(m))
      BY <2>1, <2>4
    <3> QED
      BY <3>1, <3>3, <3>4, ActsPrompt
  <2> QED
    BY <2>3, <2>4
<1>5. CASE LingerEnds
  <2>1. Did(Stop(s)) /\ ~(s.holders > 0)
    BY <1>1, <1>5 DEF LingerEnds, Sound
  <2> QED
    BY <1>1, <2>1, StopPrompt, ActsPrompt
<1>6. CASE Retry
  BY <1>1, <1>6, RetryPrompt, ActsPrompt DEF Retry
<1> QED
  BY <1>2, <1>3, <1>4, <1>5, <1>6

LEMMA DocsKeepPrompt ==
  ASSUME SettleInv, Load \/ Undo \/ Rewrite \/ Annotate \/ MoveCursor
  PROVE  Prompt(s)'
<1>1. Prompt(s) /\ Sound(s)
  BY SettleParts
<1>2. ASSUME NEW m, Only(s, m, DocSlots), NEW edited \in BOOLEAN,
             Did(Hear(s, m, edited, FALSE)) \/ UserDid(Hear(s, m, edited, FALSE))
      PROVE  Prompt(s)'
  <2> DEFINE no == FALSE
             y == Hear(s, m, edited, no)
  <2>1. Did(y) \/ UserDid(y)
    BY <1>2
  <2>2. no \in BOOLEAN
    OBVIOUS
  <2> HIDE DEF no
  <2>3. Prompt(y)
    BY <1>1, <1>2, <2>2, HearPrompt
  <2> HIDE DEF y
  <2> QED
    BY <2>1, <2>3, ActsPrompt
<1>3. TRUE \in BOOLEAN /\ FALSE \in BOOLEAN
  OBVIOUS
<1>4. CASE Load
  <2>1. PICK steps \in {<<>>} \cup {<<[id |-> s.ids + 1, parent |-> 0, op |-> op]>> : op \in Ops} :
          UserDid(Hear(s, [s EXCEPT !.load = @ + 1, !.steps = steps, !.ids = @ + Len(steps),
                                    !.cursor = 0, !.tip = IF steps = <<>> THEN 0 ELSE s.ids + 1], TRUE, FALSE))
    BY <1>4 DEF Load
  <2> DEFINE tip == IF steps = <<>> THEN 0 ELSE s.ids + 1
             m == [s EXCEPT !.load = @ + 1, !.steps = steps, !.ids = @ + Len(steps), !.cursor = 0, !.tip = tip]
  <2>2. UserDid(Hear(s, m, TRUE, FALSE))
    BY <2>1
  <2> HIDE DEF tip
  <2>3. Only(s, m, DocSlots)
    BY DEF Only, DocSlots
  <2> HIDE DEF m
  <2> QED
    BY <1>2, <1>3, <2>2, <2>3
<1>5. CASE Undo
  <2> DEFINE gone == Last(s.steps)
             off(id) == IF id = gone.id THEN gone.parent ELSE id
             cursor == off(s.cursor)
             tip == off(s.tip)
             front == Front(s.steps)
             m == [s EXCEPT !.steps = front, !.cursor = cursor, !.tip = tip]
  <2>1. UserDid(Hear(s, m, TRUE, FALSE))
    BY <1>5 DEF Undo
  <2> HIDE DEF front, cursor, tip
  <2>2. Only(s, m, DocSlots)
    BY DEF Only, DocSlots
  <2> HIDE DEF m
  <2> QED
    BY <1>2, <1>3, <2>1, <2>2
<1>6. CASE Rewrite
  <2>1. PICK i \in DOMAIN s.steps, op \in Ops : UserDid(Hear(s, [s EXCEPT !.steps[i].op = op], TRUE, FALSE))
    BY <1>6 DEF Rewrite
  <2> DEFINE steps == [s.steps EXCEPT ![i].op = op]
             m == [s EXCEPT !.steps = steps]
  <2>2. [s EXCEPT !.steps[i].op = op] = m
    OBVIOUS
  <2> HIDE DEF steps
  <2>3. Only(s, m, DocSlots)
    BY DEF Only, DocSlots
  <2>4. UserDid(Hear(s, m, TRUE, FALSE))
    BY <2>1, <2>2
  <2> HIDE DEF m
  <2> QED
    BY <1>2, <1>3, <2>3, <2>4
<1>7. CASE Annotate
  <2>1. UserDid(Hear(s, s, TRUE, FALSE)) /\ Only(s, s, DocSlots)
    BY <1>7 DEF Annotate, Only
  <2> QED
    BY <1>2, <1>3, <2>1
<1>8. CASE MoveCursor
  <2>1. PICK id \in ({0} \cup IdsOf(s.steps)) \ {s.cursor} :
          Did(Hear(s, [s EXCEPT !.cursor = id,
                        !.tip = IF id = 0 \/ id \in ToSet(LineOf(s.steps, s.tip)) THEN @ ELSE id], FALSE, FALSE))
    BY <1>8 DEF MoveCursor
  <2> DEFINE tip == IF id = 0 \/ id \in ToSet(LineOf(s.steps, s.tip)) THEN s.tip ELSE id
             m == [s EXCEPT !.cursor = id, !.tip = tip]
  <2>2. Did(Hear(s, m, FALSE, FALSE))
    BY <2>1
  <2> HIDE DEF tip
  <2>3. Only(s, m, DocSlots)
    BY DEF Only, DocSlots
  <2> HIDE DEF m
  <2> QED
    BY <1>2, <1>3, <2>2, <2>3
<1> QED
  BY <1>4, <1>5, <1>6, <1>7, <1>8

LEMMA ToolsKeepPrompt ==
  ASSUME SettleInv, Preview \/ ResolveOrders \/ CommitStep \/ CancelTool
  PROVE  Prompt(s)'
<1>1. Prompt(s) /\ Shape(s) /\ Sound(s) /\ PendingOK(s)
  BY SettleParts
<1>2. CASE Preview
  <2>1. PICK op \in Ops : Did(PreviewNow(s, op))
    BY <1>2 DEF Preview
  <2> QED
    BY <1>1, <2>1, PreviewNowLeaves, LeavesPrompt, ActsPrompt
<1>3. CASE ResolveOrders
  <2>1. PICK op \in Ops : Did(Ask(s, "orders", FoldingFrom(s).from.parent, op, <<>>))
    BY <1>3 DEF ResolveOrders
  <2> DEFINE on == FoldingFrom(s).from.parent
             y == Ask(s, "orders", on, op, <<>>)
  <2>2. Did(y)
    BY <2>1
  <2> HIDE DEF on
  <2>3. Leaves(s, y)
    BY AskLeaves
  <2> HIDE DEF y
  <2> QED
    BY <1>1, <2>2, <2>3, LeavesPrompt, ActsPrompt
<1>4. CASE CommitStep
  <2>1. PICK op \in Ops : Did(CommitNow(s, op))
    BY <1>4 DEF CommitStep
  <2>2. Prompt(CommitNow(s, op))
    BY <1>1, CommitPrompt
  <2> QED
    BY <2>1, <2>2, ActsPrompt
<1>5. CASE CancelTool
  <2> DEFINE p == DropPending(s)
             o == DropOffer(p)
             y == Render(o)
  <2>1. Did(y)
    BY <1>5 DEF CancelTool
  <2>2. Leaves(s, p)
    BY DropPendingLeaves
  <2> HIDE DEF p
  <2>3. Leaves(p, o)
    BY DropOfferLeaves
  <2> HIDE DEF o
  <2>4. Leaves(o, y)
    BY RenderLeaves
  <2> HIDE DEF y
  <2> QED
    BY <1>1, <2>1, <2>2, <2>3, <2>4, LeavesPrompt, ActsPrompt
<1> QED
  BY <1>2, <1>3, <1>4, <1>5

LEMMA ResumeKeepsPrompt ==
  ASSUME SettleInv, Resume
  PROVE  Prompt(s)'
<1> DEFINE o == [s EXCEPT !.hover = NoHover]
           x == PreviewFrom(o, s.hover.from, s.hover.op)
           y == Commit(s, s.commit.from, s.commit.op)
           z == CommitTaking(s, s.commit.from, s.commit.op)
<1>1. Did(x) \/ Did(y) \/ Did(z)
  BY DEF Resume
<1>2. Prompt(s) /\ Shape(s) /\ Sound(s) /\ PendingOK(s)
  BY SettleParts
<1>3. Only(s, o, ToolFields)
  BY DEF Only, ToolFields
<1> HIDE DEF o
<1>4. Leaves(s, o) /\ Leaves(o, x)
  BY <1>3, ToolLeaves, PreviewFromLeaves
<1> HIDE DEF x
<1>5. Prompt(x)
  BY <1>2, <1>4, LeavesPrompt
<1>6. Prompt(y) /\ Prompt(z)
  BY <1>2, CommitPrompt, CommitTakingPrompt
<1> HIDE DEF y, z
<1> QED
  BY <1>1, <1>5, <1>6, ActsPrompt

LEMMA NextKeepsPrompt ==
  ASSUME SettleInv, "replay" \notin Failing, [Next]_vars
  PROVE  Prompt(s)'
<1>1. CASE UserActs
  BY <1>1, HoldsKeepPrompt, ToolsKeepPrompt, DocsKeepPrompt DEF UserActs
<1>2. CASE Resume
  BY <1>2, ResumeKeepsPrompt
<1>3. CASE ReplayTask
  <2> DEFINE y == Replay([s EXCEPT !.scheduled = FALSE])
  <2>1. s.scheduled /\ Did(y)
    BY <1>3 DEF ReplayTask
  <2>2. Prompt(y)
    BY <2>1, SettleParts, ReplayPrompt
  <2> HIDE DEF y
  <2> QED
    BY <2>1, <2>2, ActsPrompt
<1>4. CASE Serve \/ ServeFailure \/ ServeUnknown
  BY <1>4, ServeKeepsPrompt, ServeFailureKeepsPrompt, ServeUnknownKeepsPrompt
<1>5. CASE EngineCrashed
  <2> DEFINE y == CommitLost(Render(RestartOrHalt(DropWorker(s), KeptStopping)))
             z == CommitLost(Stop(DropWorker(s)))
  <2>1. s.up /\ Did(IF s.holders > 0 THEN y ELSE z)
    BY <1>5 DEF EngineCrashed
  <2>2. KeptStopping # NoError
    BY DEF KeptStopping, NoError
  <2>3. (s.holders > 0 => Prompt(y)) /\ (~(s.holders > 0) => Prompt(z))
    BY <2>1, <2>2, SettleParts, CrashPrompt
  <2> HIDE DEF y, z
  <2> QED
    BY <2>1, <2>3, ActsPrompt
<1>6. CASE UNCHANGED vars
  BY <1>6 DEF vars, SettleInv
<1> QED
  BY <1>1, <1>2, <1>3, <1>4, <1>5, <1>6 DEF Next

LEMMA InitPrompt ==
  ASSUME Init
  PROVE  Prompt(s)
<1>1. /\ s.inbox = <<>> /\ s.cache = <<>> /\ s.adoptions = {} /\ s.holders = 0 /\ s.lingering = FALSE
      /\ s.starting = FALSE /\ s.halted = FALSE /\ s.run = NoRun /\ s.progress = NoProgress
  BY DEF Init
<1>2. RunFields \cup {"inbox", "cache", "adoptions"} \subseteq DOMAIN s
  BY DEF Init, RunFields
<1>3. IsSeq(s.inbox) /\ DOMAIN s.inbox = {} /\ DOMAIN s.cache = {}
  BY <1>1 DEF IsSeq
<1>4. Neat(s)
  BY <1>1, <1>2, <1>3, FS_EmptySet DEF Neat
<1>5. Steady(s)
  BY <1>1, <1>4 DEF Steady, NoRun, NoProgress
<1> QED
  BY <1>1, <1>5 DEF Prompt, Told, NoRun

\* A session that is held and has nothing left to do or to hear shows every step, or says
\* what is wrong: whatever crashes, is refused, rewritten, committed, let go of and taken
\* again.  Shown of every call that may fail but the replay's: a surface let go of and taken
\* again within the linger clears what a failed replay said, and finds nothing owed.
THEOREM HeldSessionsSettle ==
  ASSUME "replay" \notin Failing
  PROVE  Spec => []HeldSessionSettles
<1>1. Init => Prompt(s)
  BY InitPrompt
<1>2. OwnersInv /\ Prompt(s) /\ [Next]_vars => Prompt(s)'
  BY NextKeepsPrompt DEF SettleInv
<1>3. OwnersInv /\ Prompt(s) => HeldSessionSettles
  <2> SUFFICES ASSUME OwnersInv, Prompt(s), s.holders > 0, ~Busy
               PROVE  AllShown \/ s.error # NoError
    BY DEF HeldSessionSettles
  <2>1. Neat(s) /\ Mail(s)
    BY DEF Prompt, Steady, OwnersInv, Whole, WholeBut, Owned
  <2>2. s.inbox = <<>>
    BY <2>1 DEF Busy, Mail
  <2>3. DOMAIN s.inbox = {}
    BY <2>2
  <2>4. ~s.starting /\ ~s.run.on /\ ~s.scheduled
    BY <2>3 DEF Prompt, Steady, RunWaits, AsksNow, Busy
  <2>5. s.error # NoError \/ AllIn(s)
    BY <2>4 DEF Prompt, Told, Underway
  <2> QED
    BY <2>5 DEF AllIn, AllShown, Places
<1> QED
  BY <1>1, <1>2, <1>3, StatesAreAccountedFor, PTL DEF Spec
=============================================================================
