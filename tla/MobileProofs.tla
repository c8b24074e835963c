---------------------------- MODULE MobileProofs ----------------------------
(***************************************************************************)
(* Proofs about MobilePlugins.  On iOS everything runs on one queue, and what   *)
(* the consumer believes follows from the snapshots the session keeps.  On      *)
(* Android it follows from the events still to be handled, on NsdManager's queue *)
(* and on the main one, however far they are apart: AndroidInv says, per         *)
(* instance, that the last of them that counts agrees with the system.         *)
(***************************************************************************)
EXTENDS MobilePlugins, FiniteSetTheorems, SequenceTheorems, TLAPS

Phases == {"absent", "found", "resolved"}

CommonTyped ==
    /\ net \in [Insts -> Versions \cup {Absent}]
    /\ known \in [Insts -> Phases]

------------------------------------------------------------------------------
(* The invariant of the Android plug-in *)

Callbacks == [id : Nat \ {0}, inst : Insts]
OwnEvents == [kind : {"found", "lost", "resolve"}, inst : Insts]
CbEvents  == [kind : Posted, cb : Callbacks]
Events    == OwnEvents \cup CbEvents

AndroidTyped ==
    /\ modern \in BOOLEAN
    /\ tracked \subseteq Insts /\ failed \subseteq Insts /\ late \subseteq Insts
    /\ infoCallbacks \in [Insts -> Nat \cup {NoCallback}]
    /\ registered \subseteq Callbacks /\ IsFiniteSet(registered)
    /\ created \in Nat
    /\ nsdQueue \in Seq(Events) /\ mainQueue \in Seq(CbEvents)

\* The callbacks that are about were made.
Made(n) == {e \in Events : e.kind \in Posted => e.cb.id <= n}

Numbered ==
    /\ \A c \in registered : c.id <= created
    /\ nsdQueue \in Seq(Made(created)) /\ mainQueue \in Seq(Made(created))

\* Before SDK 34 there are no callbacks.
Legacy == ~modern => registered = {} /\ mainQueue = <<>> /\ nsdQueue \in Seq(OwnEvents)

InstOf(e) == IF e.kind \in {"found", "lost", "resolve"} THEN e.inst ELSE e.cb.inst

\* Where in a queue there is something of these kinds about an instance.
At(q, kinds, i) == {k \in 1..Len(q) : q[k].kind \in kinds /\ InstOf(q[k]) = i}

\* The updates of callbacks that are still registered.
Live(q, i, cbs) == {k \in At(q, {"updated"}, i) : q[k].cb \in cbs}

\* What a queue has of an instance.
View(q, i, cbs) == [found |-> At(q, {"found"}, i), lost |-> At(q, {"lost"}, i),
                    cbLost |-> At(q, {"cbLost"}, i), updated |-> At(q, {"updated"}, i),
                    resolve |-> At(q, {"resolve"}, i), live |-> Live(q, i, cbs)]

\* In what follows w is the view of NsdManager's queue and m that of the main one.
\* An instance the system does not have: its loss is still to come and it is not
\* found after, or it was lost;
Withdrawn(w, cb) ==
    \/ \E k \in w.lost : \A j \in w.found : j < k
    \/ w.found = {} /\ cb = NoCallback

\* the consumer has heard of that, or is about to, or is told by a late update;
Heard(w, m, phase, isLate) ==
    phase = "absent" \/ isLate \/ w.lost \cup w.cbLost \cup m.cbLost # {}

\* and every update of a callback still registered has that callback's loss behind it.
Outlived(w, m) ==
    /\ \A k \in w.live : \E j \in w.cbLost : k < j
    /\ \A k \in m.live : (\E j \in m.cbLost : k < j) \/ w.cbLost # {}

\* An instance the system has: it is still to be found and no loss comes after, or
\* it has been found, and failed, or is known or about to be.
Promised(w, m, phase) ==
    \/ \E k \in w.updated : \A j \in w.cbLost : j < k
    \/ w.cbLost = {} /\ \E k \in m.updated : \A j \in m.cbLost : j < k
    \/ w.cbLost \cup m.cbLost = {} /\ (phase # "absent" \/ w.resolve # {})

Announced(w, m, phase, hasFailed) ==
    \/ \E k \in w.found : \A j \in w.lost : j < k
    \/ w.found \cup w.lost = {} /\ (hasFailed \/ Promised(w, m, phase))

\* An instance is lost before it is found again, and nothing is left of it then.
Alternates(w, cb) ==
    /\ \A j, k \in w.found : j < k => \E l \in w.lost : j < l /\ l < k
    /\ \A k \in w.found : cb # NoCallback => \E l \in w.lost : l < k

Agrees(w, m, version, phase, cb, isTracked, hasFailed, isLate) ==
    /\ version = Absent => Withdrawn(w, cb) /\ Heard(w, m, phase, isLate) /\ Outlived(w, m)
    /\ version # Absent => Announced(w, m, phase, hasFailed)
    /\ Alternates(w, cb)
    /\ phase # "absent" => isTracked

Untouched ==
    /\ mainQueue = <<>> /\ nsdQueue \in Seq([kind : {"lost"}, inst : Insts])
    /\ registered = {}
    /\ \A i \in Insts : known[i] = "absent" /\ infoCallbacks[i] = NoCallback

AgreesAt(i) ==
    Agrees(View(nsdQueue, i, registered), View(mainQueue, i, registered), net[i], known[i],
           infoCallbacks[i], i \in tracked, i \in failed, i \in late)

AndroidInv ==
    /\ CommonTyped /\ AndroidTyped /\ Numbered /\ Legacy
    /\ browse = "none" => Untouched
    /\ browse = "open" => \A i \in Insts : AgreesAt(i)

------------------------------------------------------------------------------
(* The invariant of the iOS plug-in *)

Snapshots == [txt : Versions, merged : Seq(Endpoints)]

Tasks ==
    [kind : {"start", "stop"}]
        \cup [kind : {"results"}, net : [Insts -> Versions \cup {Absent}]]
        \cup [kind : {"resolution"}, inst : Insts, endpoint : Endpoints]
        \cup [kind : {"failure"}, inst : Insts]

IosTyped ==
    /\ tasks \in Seq(Tasks)
    /\ services \in [Insts -> Snapshots \cup {Absent}]
    /\ resolved \in [Insts -> Endpoints \cup {Absent}]
    /\ running \subseteq [id : Nat, inst : Insts, cancelled : BOOLEAN]
    /\ made \in Nat

\* What the consumer was told is what the session keeps.
Kept(i) ==
    /\ known[i] = "absent" <=> services[i] = Absent
    /\ known[i] = "resolved" => resolved[i] # Absent
    /\ resolved[i] \notin {Absent, Nowhere} => known[i] = "resolved"

\* Of the results posted, the last are those of the system now; if none are left,
\* the session's services are.
NoResults(q) == \A k \in 1..Len(q) : q[k].kind # "results"

LastIs(q, now) ==
    \A k \in 1..Len(q) :
        q[k].kind = "results" /\ (\A j \in (k + 1)..Len(q) : q[j].kind # "results") =>
            q[k].net = now

ResultsAreCurrent ==
    session = "open" =>
        /\ LastIs(tasks, net)
        /\ NoResults(tasks) => \A i \in Insts : services[i] = Absent <=> net[i] = Absent

IosInv == CommonTyped /\ IosTyped /\ (\A i \in Insts : Kept(i)) /\ ResultsAreCurrent

MobileInv ==
    /\ platform \in {"android", "ios"}
    /\ platform = "ios" => IosInv
    /\ platform = "android" => AndroidInv

------------------------------------------------------------------------------
(* Queues *)

Positions == Nat \ {0}

Views == [found : SUBSET Positions, lost : SUBSET Positions, cbLost : SUBSET Positions,
          updated : SUBSET Positions, resolve : SUBSET Positions, live : SUBSET Positions]

LEMMA ViewTyped ==
    ASSUME NEW q \in Seq(Events), NEW i, NEW cbs
    PROVE  View(q, i, cbs) \in Views
<1>1. \A kinds : At(q, kinds, i) \subseteq Positions
  BY DEF At, Positions
<1>2. Live(q, i, cbs) \subseteq Positions
  BY <1>1 DEF Live
<1>. QED  BY <1>1, <1>2 DEF View, Views

\* A view after its first event.
Shifted(w, w2) ==
    \A k \in Positions :
        /\ k \in w2.found <=> k + 1 \in w.found
        /\ k \in w2.lost <=> k + 1 \in w.lost
        /\ k \in w2.cbLost <=> k + 1 \in w.cbLost
        /\ k \in w2.updated <=> k + 1 \in w.updated
        /\ k \in w2.resolve <=> k + 1 \in w.resolve
        /\ k \in w2.live <=> k + 1 \in w.live

LEMMA TailShifts ==
    ASSUME NEW q \in Seq(Events), q # <<>>, NEW i, NEW cbs
    PROVE  Shifted(View(q, i, cbs), View(Tail(q), i, cbs))
<1>1. /\ Len(q) \in Nat /\ Len(Tail(q)) = Len(q) - 1
      /\ \A k \in 1..(Len(q) - 1) : Tail(q)[k] = q[k + 1]
  BY HeadTailProperties, LenProperties
<1>2. ASSUME NEW kinds, NEW k \in Positions
      PROVE  /\ k \in At(Tail(q), kinds, i) <=> k + 1 \in At(q, kinds, i)
             /\ k \in At(Tail(q), kinds, i) => Tail(q)[k] = q[k + 1]
  <2>1. k \in 1..Len(Tail(q)) <=> k + 1 \in 1..Len(q)
    BY <1>1 DEF Positions
  <2>2. CASE k + 1 \in 1..Len(q)
    <3>1. Tail(q)[k] = q[k + 1]
      BY <1>1, <2>2 DEF Positions
    <3>. QED  BY <2>1, <3>1 DEF At
  <2>. QED  BY <2>1, <2>2 DEF At
<1>3. ASSUME NEW k \in Positions
      PROVE  k \in Live(Tail(q), i, cbs) <=> k + 1 \in Live(q, i, cbs)
  BY <1>2 DEF Live
<1>. QED  BY <1>2, <1>3 DEF Shifted, View

\* What is appended comes last.
LEMMA AtOfAppended ==
    ASSUME NEW q \in Seq(Events), NEW more \in Seq(Events), NEW kinds, NEW i, NEW k \in Positions
    PROVE  k \in At(q \o more, kinds, i) <=>
               k \in At(q, kinds, i) \/ k - Len(q) \in At(more, kinds, i)
<1>1. /\ Len(q) \in Nat /\ Len(more) \in Nat /\ Len(q \o more) = Len(q) + Len(more)
      /\ \A j \in 1..(Len(q) + Len(more)) :
            (q \o more)[j] = IF j <= Len(q) THEN q[j] ELSE more[j - Len(q)]
  BY ConcatProperties, LenProperties
<1>2. CASE k <= Len(q)
  BY <1>1, <1>2 DEF At, Positions
<1>3. CASE k > Len(q)
  <2>1. k \in 1..Len(q \o more) <=> k - Len(q) \in 1..Len(more)
    BY <1>1, <1>3 DEF Positions
  <2>2. k \in 1..Len(q \o more) => (q \o more)[k] = more[k - Len(q)]
    BY <1>1, <1>3
  <2>3. k \notin 1..Len(q)
    BY <1>1, <1>3
  <2>. QED  BY <2>1, <2>2, <2>3 DEF At
<1>4. k <= Len(q) \/ k > Len(q)
  BY <1>1 DEF Positions
<1>. QED  BY <1>2, <1>3, <1>4

LEMMA LiveOfAppended ==
    ASSUME NEW q \in Seq(Events), NEW more \in Seq(Events), NEW i, NEW cbs, NEW k \in Positions
    PROVE  k \in Live(q \o more, i, cbs) <=>
               k \in Live(q, i, cbs) \/ k - Len(q) \in Live(more, i, cbs)
<1> DEFINE p == q \o more
           n == Len(q)
<1>1. /\ n \in Nat /\ Len(p) = n + Len(more) /\ Len(more) \in Nat
      /\ \A j \in 1..(n + Len(more)) : p[j] = IF j <= n THEN q[j] ELSE more[j - n]
  BY ConcatProperties, LenProperties
<1>2. \A kinds : k \in At(p, kinds, i) <=>
                    k \in At(q, kinds, i) \/ k - n \in At(more, kinds, i)
  BY AtOfAppended
<1> HIDE DEF p
<1>3. ASSUME k \in At(q, {"updated"}, i) PROVE p[k] = q[k]
  BY <1>1, <1>3 DEF At, Positions
<1>4. ASSUME k - n \in At(more, {"updated"}, i) PROVE p[k] = more[k - n]
  <2>1. k - n \in 1..Len(more) /\ k \in Nat
    BY <1>4 DEF At, Positions
  <2>2. k \in 1..(n + Len(more)) /\ ~(k <= n)
    BY <1>1, <2>1
  <2>. QED  BY <1>1, <2>2
<1> HIDE DEF n
<1>5. k \in Live(p, i, cbs) <=> k \in Live(q, i, cbs) \/ k - n \in Live(more, i, cbs)
  BY <1>2, <1>3, <1>4 DEF Live
<1>. QED  BY <1>5 DEF n, p

\* Nothing of the instance, but perhaps the end of a callback.
Kinds == {"found", "lost", "cbLost", "updated", "resolve"}

Quiet(more, i) == \A kind \in Kinds : At(more, {kind}, i) = {}

LEMMA QuietKeeps ==
    ASSUME NEW q \in Seq(Events), NEW more \in Seq(Events), NEW i, NEW cbs, Quiet(more, i)
    PROVE  View(q \o more, i, cbs) = View(q, i, cbs)
<1>1. ASSUME NEW kind \in Kinds PROVE At(q \o more, {kind}, i) = At(q, {kind}, i)
  <2>1. \A k \in Positions : k \in At(q \o more, {kind}, i) <=> k \in At(q, {kind}, i)
    BY AtOfAppended DEF Quiet
  <2>2. At(q \o more, {kind}, i) \subseteq Positions /\ At(q, {kind}, i) \subseteq Positions
    BY DEF At, Positions
  <2>. QED  BY <2>1, <2>2
<1>2. Live(q \o more, i, cbs) = Live(q, i, cbs)
  <2>1. Live(more, i, cbs) = {}
    BY DEF Live, Quiet, Kinds
  <2>2. \A k \in Positions : k \in Live(q \o more, i, cbs) <=> k \in Live(q, i, cbs)
    BY <2>1, LiveOfAppended
  <2>3. Live(q \o more, i, cbs) \subseteq Positions /\ Live(q, i, cbs) \subseteq Positions
    BY DEF Live, At, Positions
  <2>. QED  BY <2>2, <2>3
<1>. QED  BY <1>1, <1>2 DEF View, Kinds

\* Callbacks are unregistered, or one is made that nothing was posted for.
Fewer(v2, v) ==
    /\ v2.found = v.found /\ v2.lost = v.lost /\ v2.cbLost = v.cbLost
    /\ v2.updated = v.updated /\ v2.resolve = v.resolve /\ v2.live \subseteq v.live

LEMMA FewerLive ==
    ASSUME NEW q, NEW i, NEW cbs, NEW cbs2,
           \A k \in 1..Len(q) : q[k].kind = "updated" /\ q[k].cb \in cbs2 => q[k].cb \in cbs
    PROVE  Fewer(View(q, i, cbs2), View(q, i, cbs))
BY DEF Fewer, View, Live, At

LEMMA FewerAgrees ==
    ASSUME NEW w, NEW m, NEW w2, NEW m2, Fewer(w2, w), Fewer(m2, m),
           NEW version, NEW phase, NEW cb, NEW isTracked, NEW hasFailed, NEW isLate,
           Agrees(w, m, version, phase, cb, isTracked, hasFailed, isLate)
    PROVE  Agrees(w2, m2, version, phase, cb, isTracked, hasFailed, isLate)
<1>1. Withdrawn(w, cb) => Withdrawn(w2, cb)
  BY DEF Withdrawn, Fewer
<1>2. Heard(w, m, phase, isLate) => Heard(w2, m2, phase, isLate)
  BY DEF Heard, Fewer
<1>3. Outlived(w, m) => Outlived(w2, m2)
  BY DEF Outlived, Fewer
<1>4. Announced(w, m, phase, hasFailed) => Announced(w2, m2, phase, hasFailed)
  BY DEF Announced, Promised, Fewer
<1>5. Alternates(w, cb) => Alternates(w2, cb)
  BY DEF Alternates, Fewer
<1>. QED  BY <1>1, <1>2, <1>3, <1>4, <1>5 DEF Agrees

\* More updates and resolutions: of an instance the system has, or of no callback that
\* is registered.
LEMMA AppendKeeps ==
    ASSUME NEW q \in Seq(Events), NEW more \in Seq(Events), NEW i, NEW cbs, NEW m,
           NEW version, NEW phase, NEW cb, NEW isTracked, NEW hasFailed, NEW isLate,
           Agrees(View(q, i, cbs), m, version, phase, cb, isTracked, hasFailed, isLate),
           At(more, {"found"}, i) = {}, At(more, {"lost"}, i) = {}, At(more, {"cbLost"}, i) = {},
           version = Absent => At(more, {"updated"}, i) = {}
    PROVE  Agrees(View(q \o more, i, cbs), m, version, phase, cb, isTracked, hasFailed, isLate)
<1> DEFINE w == View(q, i, cbs)
           x == View(q \o more, i, cbs)
<1>1. ASSUME NEW kinds, At(more, kinds, i) = {} PROVE At(q \o more, kinds, i) = At(q, kinds, i)
  <2>1. \A k \in Positions : k \in At(q \o more, kinds, i) <=> k \in At(q, kinds, i)
    BY <1>1, AtOfAppended
  <2>2. At(q \o more, kinds, i) \subseteq Positions /\ At(q, kinds, i) \subseteq Positions
    BY DEF At, Positions
  <2>. QED  BY <2>1, <2>2
<1>2. ASSUME NEW kinds PROVE At(q, kinds, i) \subseteq At(q \o more, kinds, i)
  <2>1. At(q, kinds, i) \subseteq Positions
    BY DEF At, Positions
  <2>. QED  BY <2>1, AtOfAppended
<1>3. version = Absent => Live(q \o more, i, cbs) \subseteq Live(q, i, cbs)
  <2>1. version = Absent => Live(more, i, cbs) = {}
    BY DEF Live
  <2>2. Live(q \o more, i, cbs) \subseteq Positions
    BY DEF Live, At, Positions
  <2>. QED  BY <2>1, <2>2, LiveOfAppended
<1>4. /\ x.found = w.found /\ x.lost = w.lost /\ x.cbLost = w.cbLost
      /\ w.updated \subseteq x.updated /\ w.resolve \subseteq x.resolve
      /\ version = Absent => x.live \subseteq w.live
  BY <1>1, <1>2, <1>3 DEF View
<1>5. Agrees(w, m, version, phase, cb, isTracked, hasFailed, isLate)
  OBVIOUS
<1> HIDE DEF w, x
<1>6. version = Absent => Withdrawn(x, cb) /\ Heard(x, m, phase, isLate) /\ Outlived(x, m)
  BY <1>4, <1>5 DEF Agrees, Withdrawn, Heard, Outlived
<1>7. version # Absent => Announced(x, m, phase, hasFailed)
  <2>1. Promised(w, m, phase) => Promised(x, m, phase)
    BY <1>4 DEF Promised
  <2>. QED  BY <1>4, <1>5, <2>1 DEF Agrees, Announced
<1>8. Alternates(x, cb)
  BY <1>4, <1>5 DEF Agrees, Alternates
<1>. QED  BY <1>5, <1>6, <1>7, <1>8 DEF Agrees, x
------------------------------------------------------------------------------
(* The first event is handled *)

\* What no event changes: an instance is still withdrawn, or found again, after the
\* first event that is not about it or is not the one that counts.
LEMMA AlternatesAfter ==
    ASSUME NEW w \in Views, NEW x \in Views, Shifted(w, x), NEW cb, NEW nowCb, Alternates(w, cb),
           nowCb \in {cb, NoCallback}, 1 \notin w.lost \/ nowCb = NoCallback
    PROVE  Alternates(x, nowCb)
<1>1. ASSUME NEW j \in x.found, NEW k \in x.found, j < k PROVE \E l \in x.lost : j < l /\ l < k
  <2>1. PICK l \in w.lost : j + 1 < l /\ l < k + 1
    BY <1>1 DEF Alternates, Shifted, Views, Positions
  <2>2. l - 1 \in x.lost /\ j < l - 1 /\ l - 1 < k
    BY <1>1, <2>1 DEF Shifted, Views, Positions
  <2>. QED  BY <2>2
<1>2. ASSUME NEW k \in x.found, nowCb # NoCallback PROVE \E l \in x.lost : l < k
  <2>1. PICK l \in w.lost : l < k + 1
    BY <1>2 DEF Alternates, Shifted, Views, Positions
  <2>2. l - 1 \in x.lost /\ l - 1 < k
    BY <1>2, <2>1 DEF Shifted, Views, Positions
  <2>. QED  BY <2>2
<1>. QED  BY <1>1, <1>2 DEF Alternates

LEMMA WithdrawnAfter ==
    ASSUME NEW w \in Views, NEW x \in Views, Shifted(w, x), NEW cb, NEW nowCb, Withdrawn(w, cb),
           1 \in w.lost => nowCb = NoCallback,
           nowCb \in {cb, NoCallback} \/ 1 \in w.found
    PROVE  Withdrawn(x, nowCb)
<1>1. CASE w.found = {} /\ cb = NoCallback
  <2>1. x.found = {} /\ nowCb = NoCallback
    BY <1>1 DEF Shifted, Views, Positions
  <2>. QED  BY <2>1 DEF Withdrawn
<1>2. ASSUME NEW k \in w.lost, \A j \in w.found : j < k
      PROVE  Withdrawn(x, nowCb)
  <2>1. CASE k = 1
    <3>1. \A j \in w.found : FALSE
      BY <1>2, <2>1 DEF Views, Positions
    <3>2. x.found = {}
      BY <3>1 DEF Shifted, Views, Positions
    <3>. QED  BY <1>2, <2>1, <3>2 DEF Withdrawn
  <2>2. CASE k # 1
    <3>1. k - 1 \in Positions /\ k - 1 \in x.lost
      BY <2>2 DEF Shifted, Views, Positions
    <3>2. \A j \in x.found : j < k - 1
      BY <1>2 DEF Shifted, Views, Positions
    <3>. QED  BY <3>1, <3>2 DEF Withdrawn
  <2>. QED  BY <2>1, <2>2
<1>. QED  BY <1>1, <1>2 DEF Withdrawn

\* Of NsdManager's queue an event is handled that no callback was told: what the main
\* queue has keeps its meaning.
LEMMA OutlivedAfter ==
    ASSUME NEW w \in Views, NEW x \in Views, NEW m, Shifted(w, x), Outlived(w, m), 1 \notin w.cbLost
    PROVE  Outlived(x, m)
<1>1. ASSUME NEW k \in x.live PROVE \E j \in x.cbLost : k < j
  <2>1. k + 1 \in w.live
    BY DEF Shifted, Views, Positions
  <2>2. PICK j \in w.cbLost : k + 1 < j
    BY <2>1 DEF Outlived
  <2>3. j - 1 \in x.cbLost /\ k < j - 1
    BY <2>2 DEF Shifted, Views, Positions
  <2>. QED  BY <2>3
<1>2. w.cbLost # {} => x.cbLost # {}
  <2>1. ASSUME NEW j \in w.cbLost PROVE j - 1 \in x.cbLost
    BY DEF Shifted, Views, Positions
  <2>. QED  BY <2>1
<1>. QED  BY <1>1, <1>2 DEF Outlived

LEMMA FoundLast ==
    ASSUME NEW w \in Views, NEW x \in Views, Shifted(w, x),
           NEW k \in w.found, k # 1, \A j \in w.lost : j < k
    PROVE  \E l \in x.found : \A j \in x.lost : j < l
<1>1. k - 1 \in Positions /\ k - 1 \in x.found
  BY DEF Shifted, Views, Positions
<1>2. \A j \in x.lost : j < k - 1
  BY DEF Shifted, Views, Positions
<1>. QED  BY <1>1, <1>2

\* The listener's loss: the instance is gone, and its callback with it.
LEMMA TakeLost ==
    ASSUME NEW w \in Views, NEW x \in Views, NEW m, Shifted(w, x),
           1 \in w.lost, 1 \notin w.found \cup w.cbLost,
           NEW version, NEW phase, NEW cb, NEW isTracked, NEW hasFailed, NEW isLate,
           Agrees(w, m, version, phase, cb, isTracked, hasFailed, isLate)
    PROVE  Agrees(x, m, version, "absent", NoCallback, FALSE, hasFailed, FALSE)
<1>1. ASSUME version = Absent
      PROVE  Withdrawn(x, NoCallback) /\ Heard(x, m, "absent", FALSE) /\ Outlived(x, m)
  BY <1>1, WithdrawnAfter, OutlivedAfter DEF Agrees, Heard
<1>2. ASSUME version # Absent PROVE Announced(x, m, "absent", hasFailed)
  <2>1. PICK k \in w.found : \A j \in w.lost : j < k
    BY <1>2 DEF Agrees, Announced
  <2>2. k # 1
    OBVIOUS
  <2>. QED  BY <2>1, <2>2, FoundLast DEF Announced
<1>3. Alternates(x, NoCallback)
  BY AlternatesAfter DEF Agrees
<1>. QED  BY <1>1, <1>2, <1>3 DEF Agrees

\* Nothing is left of an instance when it is found.
LEMMA FoundIsNew ==
    ASSUME NEW w \in Views, 1 \in w.found, NEW cb, Alternates(w, cb)
    PROVE  cb = NoCallback
BY DEF Alternates, Views, Positions

\* It is found: its resolution or its callback's first update is on its way, or failed.
LEMMA TakeFound ==
    ASSUME NEW w \in Views, NEW x \in Views, NEW m, Shifted(w, x),
           1 \in w.found, 1 \notin w.lost \cup w.cbLost,
           NEW version, NEW phase, NEW cb, NEW isTracked, NEW hasFailed, NEW isLate,
           NEW nowCb, NEW nowFailed,
           Agrees(w, m, version, phase, cb, isTracked, hasFailed, isLate),
           version # Absent => nowFailed \/ Promised(x, m, phase)
    PROVE  Agrees(x, m, version, phase, nowCb, TRUE, nowFailed, isLate)
<1>0. \A k \in w.found : k # 1 => \E l \in w.lost : 1 < l /\ l < k
  BY DEF Agrees, Alternates, Views, Positions
<1>1. ASSUME version = Absent
      PROVE  Withdrawn(x, nowCb) /\ Heard(x, m, phase, isLate) /\ Outlived(x, m)
  <2>1. Withdrawn(x, nowCb)
    BY <1>1, WithdrawnAfter DEF Agrees
  <2>2. Heard(x, m, phase, isLate)
    <3>1. ASSUME NEW k \in w.lost PROVE k - 1 \in x.lost
      BY DEF Shifted, Views, Positions
    <3>2. ASSUME NEW k \in w.cbLost PROVE k - 1 \in x.cbLost
      BY DEF Shifted, Views, Positions
    <3>. QED  BY <1>1, <3>1, <3>2 DEF Agrees, Heard
  <2>. QED  BY <1>1, <2>1, <2>2, OutlivedAfter DEF Agrees
<1>2. ASSUME version # Absent PROVE Announced(x, m, phase, nowFailed)
  <2>1. PICK k \in w.found : \A j \in w.lost : j < k
    BY <1>2 DEF Agrees, Announced
  <2>2. CASE k = 1
    <3>1. w.lost = {}
      BY <2>1, <2>2 DEF Views, Positions
    <3>2. x.lost = {} /\ x.found = {}
      BY <1>0, <3>1 DEF Shifted, Views, Positions
    <3>. QED  BY <1>2, <3>2 DEF Announced
  <2>3. CASE k # 1
    BY <2>1, <2>3, FoundLast DEF Announced
  <2>. QED  BY <2>2, <2>3
<1>3. Alternates(x, nowCb)
  <2>1. Alternates(x, NoCallback)
    BY AlternatesAfter DEF Agrees
  <2>2. ASSUME NEW k \in x.found PROVE \E l \in x.lost : l < k
    <3>1. PICK l \in w.lost : 1 < l /\ l < k + 1
      BY <1>0, <2>2 DEF Shifted, Views, Positions
    <3>2. l - 1 \in x.lost /\ l - 1 < k
      BY <2>2, <3>1 DEF Shifted, Views, Positions
    <3>. QED  BY <3>2
  <2>. QED  BY <2>1, <2>2 DEF Alternates
<1>. QED  BY <1>1, <1>2, <1>3 DEF Agrees

\* Neither found nor lost: another instance's event, or the answer to a resolution.
LEMMA TakeOther ==
    ASSUME NEW w \in Views, NEW x \in Views, NEW m, Shifted(w, x),
           1 \notin w.found \cup w.lost, 1 \notin w.cbLost \cup w.updated,
           NEW version, NEW phase, NEW cb, NEW isTracked, NEW hasFailed, NEW isLate,
           NEW nowPhase, NEW nowTracked, NEW nowFailed,
           Agrees(w, m, version, phase, cb, isTracked, hasFailed, isLate),
           version = Absent => nowPhase \in {phase, "absent"},
           hasFailed => nowFailed,
           nowPhase # "absent" \/ nowFailed \/ (1 \notin w.resolve /\ nowPhase = phase),
           nowPhase # "absent" => nowTracked
    PROVE  Agrees(x, m, version, nowPhase, cb, nowTracked, nowFailed, isLate)
<1>1. ASSUME version = Absent
      PROVE  Withdrawn(x, cb) /\ Heard(x, m, nowPhase, isLate) /\ Outlived(x, m)
  <2>1. Withdrawn(x, cb)
    BY <1>1, WithdrawnAfter DEF Agrees
  <2>2. Heard(x, m, nowPhase, isLate)
    <3>1. ASSUME NEW k \in w.lost PROVE k - 1 \in x.lost
      BY DEF Shifted, Views, Positions
    <3>2. ASSUME NEW k \in w.cbLost PROVE k - 1 \in x.cbLost
      BY DEF Shifted, Views, Positions
    <3>. QED  BY <1>1, <3>1, <3>2 DEF Agrees, Heard
  <2>. QED  BY <1>1, <2>1, <2>2, OutlivedAfter DEF Agrees
<1>2. ASSUME version # Absent PROVE Announced(x, m, nowPhase, nowFailed)
  <2>1. ASSUME NEW k \in w.found, \A j \in w.lost : j < k PROVE Announced(x, m, nowPhase, nowFailed)
    BY <2>1, FoundLast DEF Announced
  <2>2. ASSUME w.found \cup w.lost = {}, ~nowFailed, Promised(w, m, phase)
        PROVE  Promised(x, m, nowPhase)
    <3>1. ASSUME NEW k \in w.updated, \A j \in w.cbLost : j < k PROVE Promised(x, m, nowPhase)
      <4>1. k - 1 \in x.updated /\ \A j \in x.cbLost : j < k - 1
        BY <3>1 DEF Shifted, Views, Positions
      <4>. QED  BY <4>1 DEF Promised
    <3>2. w.cbLost = {} => x.cbLost = {}
      BY DEF Shifted, Views, Positions
    <3>3. ASSUME nowPhase = "absent", phase = "absent", NEW k \in w.resolve PROVE k - 1 \in x.resolve
      BY <2>2, <3>3 DEF Shifted, Views, Positions
    <3>4. CASE nowPhase # "absent"
      BY <2>2, <3>1, <3>2, <3>4 DEF Promised
    <3>5. CASE nowPhase = "absent"
      BY <2>2, <3>1, <3>2, <3>3, <3>5 DEF Promised
    <3>. QED  BY <3>4, <3>5
  <2>3. w.found \cup w.lost = {} => x.found \cup x.lost = {}
    BY DEF Shifted, Views, Positions
  <2>. QED  BY <1>2, <2>1, <2>2, <2>3 DEF Agrees, Announced
<1>3. Alternates(x, cb)
  BY AlternatesAfter DEF Agrees
<1>. QED  BY <1>1, <1>2, <1>3 DEF Agrees

\* An event is posted to the main thread: it comes last there.
Joins(w, m, m2) ==
    \E n \in Positions :
        /\ \A k \in m.updated \cup m.cbLost : k < n
        /\ \A k \in m.live : k < n
        /\ m2.updated = m.updated \cup (IF 1 \in w.updated THEN {n} ELSE {})
        /\ m2.live = m.live \cup (IF 1 \in w.live THEN {n} ELSE {})
        /\ m2.cbLost = m.cbLost \cup (IF 1 \in w.cbLost THEN {n} ELSE {})

LEMMA TakePosted ==
    ASSUME NEW w \in Views, NEW x \in Views, NEW m \in Views, NEW m2 \in Views,
           Shifted(w, x), Joins(w, m, m2), w.live \subseteq w.updated,
           1 \notin w.found \cup w.lost, 1 \notin w.resolve,
           ~(1 \in w.updated /\ 1 \in w.cbLost),
           NEW version, NEW phase, NEW cb, NEW isTracked, NEW hasFailed, NEW isLate,
           Agrees(w, m, version, phase, cb, isTracked, hasFailed, isLate)
    PROVE  Agrees(x, m2, version, phase, cb, isTracked, hasFailed, isLate)
<1>0. PICK n \in Positions :
          /\ \A k \in m.updated \cup m.cbLost : k < n
          /\ \A k \in m.live : k < n
          /\ m2.updated = m.updated \cup (IF 1 \in w.updated THEN {n} ELSE {})
          /\ m2.live = m.live \cup (IF 1 \in w.live THEN {n} ELSE {})
          /\ m2.cbLost = m.cbLost \cup (IF 1 \in w.cbLost THEN {n} ELSE {})
  BY DEF Joins
<1>1. ASSUME version = Absent
      PROVE  Withdrawn(x, cb) /\ Heard(x, m2, phase, isLate) /\ Outlived(x, m2)
  <2>1. Withdrawn(x, cb)
    BY <1>1, WithdrawnAfter DEF Agrees
  <2>2. Heard(x, m2, phase, isLate)
    <3>1. ASSUME NEW k \in w.lost PROVE k - 1 \in x.lost
      BY DEF Shifted, Views, Positions
    <3>2. ASSUME NEW k \in w.cbLost PROVE k - 1 \in x.cbLost \/ n \in m2.cbLost
      BY <1>0 DEF Shifted, Views, Positions
    <3>3. m.cbLost \subseteq m2.cbLost
      BY <1>0
    <3>. QED  BY <1>1, <3>1, <3>2, <3>3 DEF Agrees, Heard
  <2>3. ASSUME NEW k \in x.live PROVE \E j \in x.cbLost : k < j
    <3>1. k + 1 \in w.live
      BY DEF Shifted, Views, Positions
    <3>2. PICK j \in w.cbLost : k + 1 < j
      BY <1>1, <3>1 DEF Agrees, Outlived
    <3>3. j - 1 \in x.cbLost /\ k < j - 1
      BY <3>2 DEF Shifted, Views, Positions
    <3>. QED  BY <3>3
  <2>4. ASSUME NEW k \in m2.live PROVE (\E j \in m2.cbLost : k < j) \/ x.cbLost # {}
    <3>1. CASE k \in m.live
      <4>1. (\E j \in m.cbLost : k < j) \/ w.cbLost # {}
        BY <1>1, <3>1 DEF Agrees, Outlived
      <4>2. ASSUME NEW j \in w.cbLost PROVE j - 1 \in x.cbLost \/ (n \in m2.cbLost /\ k < n)
        BY <1>0, <3>1 DEF Shifted, Views, Positions
      <4>. QED  BY <1>0, <4>1, <4>2
    <3>2. CASE 1 \in w.live
      <4>1. PICK j \in w.cbLost : 1 < j
        BY <1>1, <3>2 DEF Agrees, Outlived
      <4>2. j - 1 \in x.cbLost
        BY <4>1 DEF Shifted, Views, Positions
      <4>. QED  BY <4>2
    <3>. QED  BY <1>0, <3>1, <3>2
  <2>. QED  BY <2>1, <2>2, <2>3, <2>4 DEF Outlived
<1>2. ASSUME version # Absent PROVE Announced(x, m2, phase, hasFailed)
  <2>1. ASSUME NEW k \in w.found, \A j \in w.lost : j < k PROVE Announced(x, m2, phase, hasFailed)
    BY <2>1, FoundLast DEF Announced
  <2>2. ASSUME Promised(w, m, phase) PROVE Promised(x, m2, phase)
    <3>1. ASSUME NEW k \in w.updated, \A j \in w.cbLost : j < k PROVE Promised(x, m2, phase)
      <4>1. CASE k = 1
        <5>1. w.cbLost = {}
          BY <3>1, <4>1 DEF Views, Positions
        <5>2. x.cbLost = {}
          BY <5>1 DEF Shifted, Views, Positions
        <5>3. n \in m2.updated /\ \A j \in m2.cbLost : j < n
          BY <1>0, <3>1, <4>1, <5>1
        <5>. QED  BY <5>2, <5>3 DEF Promised
      <4>2. CASE k # 1
        <5>1. k - 1 \in x.updated /\ \A j \in x.cbLost : j < k - 1
          BY <3>1, <4>2 DEF Shifted, Views, Positions
        <5>. QED  BY <5>1 DEF Promised
      <4>. QED  BY <4>1, <4>2
    <3>2. ASSUME w.cbLost = {} PROVE x.cbLost = {} /\ m2.cbLost = m.cbLost
      BY <1>0, <3>2 DEF Shifted, Views, Positions
    <3>3. m.updated \subseteq m2.updated
      BY <1>0
    <3>4. ASSUME NEW k \in w.resolve PROVE k - 1 \in x.resolve
      BY DEF Shifted, Views, Positions
    <3>. QED  BY <2>2, <3>1, <3>2, <3>3, <3>4 DEF Promised
  <2>3. w.found \cup w.lost = {} => x.found \cup x.lost = {}
    BY DEF Shifted, Views, Positions
  <2>. QED  BY <1>2, <2>1, <2>2, <2>3 DEF Agrees, Announced
<1>3. Alternates(x, cb)
  BY AlternatesAfter DEF Agrees
<1>. QED  BY <1>1, <1>2, <1>3 DEF Agrees

\* On the main thread: an update,
LEMMA TakeUpdated ==
    ASSUME NEW w \in Views, NEW m \in Views, NEW m2 \in Views, Shifted(m, m2),
           1 \in m.updated, 1 \notin m.cbLost,
           NEW version, NEW phase, NEW cb, NEW isTracked, NEW hasFailed, NEW isLate,
           NEW nowPhase, NEW nowLate, nowPhase # "absent", 1 \in m.live \/ nowLate,
           Agrees(w, m, version, phase, cb, isTracked, hasFailed, isLate)
    PROVE  Agrees(w, m2, version, nowPhase, cb, TRUE, hasFailed, nowLate)
<1>1. ASSUME version = Absent PROVE Heard(w, m2, nowPhase, nowLate) /\ Outlived(w, m2)
  <2>1. ASSUME NEW k \in m2.live PROVE (\E j \in m2.cbLost : k < j) \/ w.cbLost # {}
    <3>1. k + 1 \in m.live
      BY DEF Shifted, Views, Positions
    <3>2. ASSUME NEW j \in m.cbLost, k + 1 < j PROVE j - 1 \in m2.cbLost /\ k < j - 1
      BY <3>2 DEF Shifted, Views, Positions
    <3>. QED  BY <1>1, <3>1, <3>2 DEF Agrees, Outlived
  <2>2. 1 \in m.live => w.cbLost \cup m2.cbLost # {}
    <3>1. ASSUME NEW j \in m.cbLost PROVE j - 1 \in m2.cbLost
      BY DEF Shifted, Views, Positions
    <3>. QED  BY <1>1, <3>1 DEF Agrees, Outlived
  <2>. QED  BY <1>1, <2>1, <2>2 DEF Agrees, Outlived, Heard
<1>2. ASSUME version # Absent PROVE Announced(w, m2, nowPhase, hasFailed)
  <2>1. ASSUME Promised(w, m, phase) PROVE Promised(w, m2, nowPhase)
    <3>1. ASSUME NEW k \in m.updated, \A j \in m.cbLost : j < k, w.cbLost = {}
          PROVE  Promised(w, m2, nowPhase)
      <4>1. CASE k = 1
        <5>1. m.cbLost = {}
          BY <3>1, <4>1 DEF Views, Positions
        <5>2. m2.cbLost = {}
          BY <5>1 DEF Shifted, Views, Positions
        <5>. QED  BY <3>1, <5>2 DEF Promised
      <4>2. CASE k # 1
        <5>1. k - 1 \in m2.updated /\ \A j \in m2.cbLost : j < k - 1
          BY <3>1, <4>2 DEF Shifted, Views, Positions
        <5>. QED  BY <3>1, <5>1 DEF Promised
      <4>. QED  BY <4>1, <4>2
    <3>2. m.cbLost = {} => m2.cbLost = {}
      BY DEF Shifted, Views, Positions
    <3>. QED  BY <2>1, <3>1, <3>2 DEF Promised
  <2>. QED  BY <1>2, <2>1 DEF Agrees, Announced
<1>. QED  BY <1>1, <1>2 DEF Agrees

\* a callback's loss,
LEMMA TakeCbLost ==
    ASSUME NEW w \in Views, NEW m \in Views, NEW m2 \in Views, Shifted(m, m2),
           1 \in m.cbLost, 1 \notin m.updated, m.live \subseteq m.updated,
           NEW version, NEW phase, NEW cb, NEW isTracked, NEW hasFailed, NEW isLate,
           Agrees(w, m, version, phase, cb, isTracked, hasFailed, isLate)
    PROVE  Agrees(w, m2, version, "absent", NoCallback, FALSE, hasFailed, FALSE)
<1>1. ASSUME version = Absent PROVE Withdrawn(w, NoCallback) /\ Outlived(w, m2)
  <2>1. ASSUME NEW k \in m2.live PROVE (\E j \in m2.cbLost : k < j) \/ w.cbLost # {}
    <3>1. k + 1 \in m.live
      BY DEF Shifted, Views, Positions
    <3>2. ASSUME NEW j \in m.cbLost, k + 1 < j PROVE j - 1 \in m2.cbLost /\ k < j - 1
      BY <3>2 DEF Shifted, Views, Positions
    <3>. QED  BY <1>1, <3>1, <3>2 DEF Agrees, Outlived
  <2>. QED  BY <1>1, <2>1 DEF Agrees, Outlived, Withdrawn
<1>2. ASSUME version # Absent PROVE Announced(w, m2, "absent", hasFailed)
  <2>1. ASSUME Promised(w, m, phase) PROVE Promised(w, m2, "absent")
    <3>1. ASSUME NEW k \in m.updated, \A j \in m.cbLost : j < k
          PROVE  k - 1 \in m2.updated /\ \A j \in m2.cbLost : j < k - 1
      BY <3>1 DEF Shifted, Views, Positions
    <3>. QED  BY <2>1, <3>1 DEF Promised
  <2>. QED  BY <1>2, <2>1 DEF Agrees, Announced
<1>3. Alternates(w, NoCallback)
  BY DEF Agrees, Alternates
<1>. QED  BY <1>1, <1>2, <1>3 DEF Agrees, Heard

\* or something that is no news of the instance.
LEMMA TakeNoNews ==
    ASSUME NEW w \in Views, NEW m \in Views, NEW m2 \in Views, Shifted(m, m2),
           1 \notin m.cbLost \cup m.updated, m.live \subseteq m.updated,
           NEW version, NEW phase, NEW cb, NEW isTracked, NEW hasFailed, NEW isLate,
           NEW nowCb, nowCb \in {cb, NoCallback},
           Agrees(w, m, version, phase, cb, isTracked, hasFailed, isLate)
    PROVE  Agrees(w, m2, version, phase, nowCb, isTracked, hasFailed, isLate)
<1>0. ASSUME NEW j \in m.cbLost PROVE j - 1 \in m2.cbLost
  BY DEF Shifted, Views, Positions
<1>1. ASSUME version = Absent
      PROVE  Withdrawn(w, nowCb) /\ Heard(w, m2, phase, isLate) /\ Outlived(w, m2)
  <2>1. ASSUME NEW k \in m2.live PROVE (\E j \in m2.cbLost : k < j) \/ w.cbLost # {}
    <3>1. k + 1 \in m.live
      BY DEF Shifted, Views, Positions
    <3>2. ASSUME NEW j \in m.cbLost, k + 1 < j PROVE j - 1 \in m2.cbLost /\ k < j - 1
      BY <3>2 DEF Shifted, Views, Positions
    <3>. QED  BY <1>1, <3>1, <3>2 DEF Agrees, Outlived
  <2>2. Heard(w, m2, phase, isLate)
    BY <1>0, <1>1 DEF Agrees, Heard
  <2>. QED  BY <1>1, <2>1, <2>2 DEF Agrees, Outlived, Withdrawn
<1>2. ASSUME version # Absent PROVE Announced(w, m2, phase, hasFailed)
  <2>1. ASSUME Promised(w, m, phase) PROVE Promised(w, m2, phase)
    <3>1. ASSUME NEW k \in m.updated, \A j \in m.cbLost : j < k
          PROVE  k - 1 \in m2.updated /\ \A j \in m2.cbLost : j < k - 1
      BY <3>1 DEF Shifted, Views, Positions
    <3>2. m.cbLost = {} => m2.cbLost = {}
      BY DEF Shifted, Views, Positions
    <3>. QED  BY <2>1, <3>1, <3>2 DEF Promised
  <2>. QED  BY <1>2, <2>1 DEF Agrees, Announced
<1>3. Alternates(w, nowCb)
  BY DEF Agrees, Alternates
<1>. QED  BY <1>1, <1>2, <1>3 DEF Agrees
------------------------------------------------------------------------------
(* The system *)

\* The instance goes: its loss comes after all that is under way.
LEMMA GoneAgrees ==
    ASSUME NEW q \in Seq(Events), NEW more \in Seq(Events), NEW i, NEW cbs, NEW m,
           NEW version, NEW phase, NEW cb, NEW isTracked, NEW hasFailed, NEW isLate,
           version # Absent,
           Agrees(View(q, i, cbs), m, version, phase, cb, isTracked, hasFailed, isLate),
           At(more, {"found"}, i) = {}, At(more, {"updated"}, i) = {}, At(more, {"lost"}, i) # {},
           Live(q, i, cbs) \cup m.live # {} => At(more, {"cbLost"}, i) # {}
    PROVE  Agrees(View(q \o more, i, cbs), m, Absent, phase, cb, isTracked, hasFailed, isLate)
<1> DEFINE n == Len(q)
           x == View(q \o more, i, cbs)
<1>1. n \in Nat /\ \A kinds : At(q, kinds, i) \subseteq 1..n
  BY DEF At
<1>2. \A kinds : /\ At(q \o more, kinds, i) \subseteq Positions
                 /\ At(more, kinds, i) \subseteq Positions /\ At(q, kinds, i) \subseteq Positions
  BY DEF At, Positions
<1>3. \A kinds : \A k \in At(q \o more, kinds, i) :
          At(more, kinds, i) = {} => k \in At(q, kinds, i) /\ k <= n
  <2>1. \A kinds : \A k \in Positions :
            k \in At(q \o more, kinds, i) /\ At(more, kinds, i) = {} => k \in At(q, kinds, i)
    BY AtOfAppended
  <2>. QED  BY <1>1, <1>2, <2>1
<1>4. ASSUME NEW kinds, At(more, kinds, i) # {}
      PROVE  \E k \in At(q \o more, kinds, i) : k > n
  <2>1. PICK k \in At(more, kinds, i) : TRUE
    BY <1>4
  <2>2. n + k \in Positions /\ (n + k) - n = k /\ n + k > n
    BY <1>1, <1>2 DEF Positions
  <2>. QED  BY <2>1, <2>2, AtOfAppended
<1>5. Withdrawn(x, cb)
  <2>1. PICK k \in At(q \o more, {"lost"}, i) : k > n
    BY <1>4
  <2>2. \A j \in At(q \o more, {"found"}, i) : j < k
    BY <1>1, <1>2, <1>3, <2>1 DEF Positions
  <2>. QED  BY <2>1, <2>2 DEF Withdrawn, View
<1>6. Heard(x, m, phase, isLate)
  <2>1. At(q \o more, {"lost"}, i) # {}
    BY <1>4
  <2>. QED  BY <2>1 DEF Heard, View
<1>7. Outlived(x, m)
  <2>1. ASSUME NEW k \in Live(q \o more, i, cbs)
        PROVE  k \in Live(q, i, cbs) /\ k <= n /\ k \in Positions
    <3>1. Live(more, i, cbs) = {}
      BY DEF Live
    <3>2. k \in Positions /\ k \in At(q \o more, {"updated"}, i)
      BY <1>2 DEF Live
    <3>3. k \in Live(q, i, cbs)
      BY <3>1, <3>2, LiveOfAppended
    <3>. QED  BY <1>3, <3>2, <3>3
  <2>2. ASSUME Live(q, i, cbs) \cup m.live # {}
        PROVE  \E j \in At(q \o more, {"cbLost"}, i) : j > n
    BY <1>4, <2>2
  <2>3. \A k \in Live(q \o more, i, cbs) : \E j \in At(q \o more, {"cbLost"}, i) : k < j
    <3>1. SUFFICES ASSUME NEW k \in Live(q \o more, i, cbs)
                   PROVE  \E j \in At(q \o more, {"cbLost"}, i) : k < j
      OBVIOUS
    <3>2. PICK j \in At(q \o more, {"cbLost"}, i) : j > n
      BY <2>1, <2>2
    <3>3. k <= n /\ k \in Positions /\ j \in Positions
      BY <1>2, <2>1
    <3>4. k < j
      BY <1>1, <3>2, <3>3 DEF Positions
    <3>. QED  BY <3>2, <3>4
  <2>4. m.live # {} => At(q \o more, {"cbLost"}, i) # {}
    BY <2>2
  <2>5. x.live = Live(q \o more, i, cbs) /\ x.cbLost = At(q \o more, {"cbLost"}, i)
    BY DEF View
  <2> HIDE DEF x
  <2>. QED  BY <2>3, <2>4, <2>5 DEF Outlived
<1>8. Alternates(x, cb)
  <2>1. \A j \in At(q \o more, {"found"}, i) : j \in At(q, {"found"}, i)
    BY <1>3
  <2>2. \A j \in At(q, {"lost"}, i) : j \in At(q \o more, {"lost"}, i)
    BY <1>2, AtOfAppended
  <2>. QED  BY <2>1, <2>2 DEF Agrees, Alternates, View
<1>. QED  BY <1>5, <1>6, <1>7, <1>8 DEF Agrees

\* The instance comes: by now it has gone, or its loss is under way.
LEMMA ComesAgrees ==
    ASSUME NEW q \in Seq(Events), NEW more \in Seq(Events), NEW i, NEW cbs, NEW m,
           NEW version, NEW phase, NEW cb, NEW isTracked, NEW hasFailed, NEW isLate,
           version # Absent,
           Agrees(View(q, i, cbs), m, Absent, phase, cb, isTracked, hasFailed, isLate),
           At(more, {"found"}, i) = {1}, At(more, {"lost"}, i) = {}
    PROVE  Agrees(View(q \o more, i, cbs), m, version, phase, cb, isTracked, hasFailed, isLate)
<1> DEFINE n == Len(q) + 1
           w == View(q, i, cbs)
           x == View(q \o more, i, cbs)
<1>1. Len(q) \in Nat /\ n \in Positions /\ \A kinds : At(q, kinds, i) \subseteq 1..Len(q)
  BY DEF At, Positions
<1>2. \A kinds : At(q \o more, kinds, i) \subseteq Positions
  BY DEF At, Positions
<1>3. \A k \in Positions :
          /\ k \in At(q \o more, {"found"}, i) <=> k \in At(q, {"found"}, i) \/ k = n
          /\ k \in At(q \o more, {"lost"}, i) <=> k \in At(q, {"lost"}, i)
  BY <1>1, AtOfAppended DEF Positions
<1>4. /\ x.found = w.found \cup {n} /\ x.lost = w.lost
      /\ \A k \in w.found \cup w.lost : k \in Positions /\ k < n
  <2>1. \A kinds : At(q, kinds, i) \subseteq Positions
    BY DEF At, Positions
  <2>2. At(q \o more, {"found"}, i) = At(q, {"found"}, i) \cup {n}
    BY <1>1, <1>2, <1>3, <2>1
  <2>3. At(q \o more, {"lost"}, i) = At(q, {"lost"}, i)
    BY <1>2, <1>3, <2>1
  <2>4. \A kinds : \A k \in At(q, kinds, i) : k \in Positions /\ k < n
    BY <1>1 DEF Positions
  <2>. QED  BY <2>2, <2>3, <2>4 DEF View
<1>5. Withdrawn(w, cb) /\ Alternates(w, cb)
  BY DEF Agrees
<1>6. phase # "absent" => isTracked
  BY DEF Agrees
<1> HIDE DEF n, w, x
<1>7. Announced(x, m, phase, hasFailed)
  BY <1>4 DEF Announced
<1>8. ASSUME NEW j \in x.found, NEW k \in x.found, j < k PROVE \E l \in x.lost : j < l /\ l < k
  <2>1. j \in w.found
    BY <1>1, <1>4, <1>8 DEF Positions
  <2>2. CASE k \in w.found
    BY <1>4, <1>5, <1>8, <2>1, <2>2 DEF Alternates
  <2>3. CASE k = n
    BY <1>4, <1>5, <2>1, <2>3 DEF Withdrawn
  <2>. QED  BY <1>4, <2>2, <2>3
<1>9. ASSUME NEW k \in x.found, cb # NoCallback PROVE \E l \in x.lost : l < k
  <2>1. CASE k \in w.found
    BY <1>4, <1>5, <1>9, <2>1 DEF Alternates
  <2>2. CASE k = n
    BY <1>4, <1>5, <1>9, <2>2 DEF Withdrawn
  <2>. QED  BY <1>4, <2>1, <2>2
<1>10. Alternates(x, cb)
  BY <1>8, <1>9 DEF Alternates
<1>. QED  BY <1>6, <1>7, <1>10 DEF Agrees, x
------------------------------------------------------------------------------
(* A step of a queue: its first event is handled, and more may be appended *)

LEMMA HeadAt ==
    ASSUME NEW q \in Seq(Events), q # <<>>, NEW i
    PROVE  /\ \A kinds : 1 \in At(q, kinds, i) <=> Head(q).kind \in kinds /\ InstOf(Head(q)) = i
           /\ \A cbs : 1 \in Live(q, i, cbs) <=>
                 Head(q).kind = "updated" /\ InstOf(Head(q)) = i /\ Head(q).cb \in cbs
BY HeadTailProperties, LenProperties, EmptySeq DEF At, Live

LEMMA EventKinds ==
    \A e \in Events :
        /\ e.kind \in {"found", "lost", "resolve"} <=> e \in OwnEvents
        /\ e.kind \in Posted <=> e \in CbEvents
        /\ InstOf(e) \in Insts
        /\ e \in OwnEvents => InstOf(e) = e.inst /\ e.inst \in Insts
        /\ e \in CbEvents => InstOf(e) = e.cb.inst /\ e.cb \in Callbacks
BY DEF Events, OwnEvents, CbEvents, Callbacks, InstOf, Posted

LEMMA QueueTypes ==
    ASSUME AndroidTyped
    PROVE  mainQueue \in Seq(Events) /\ nsdQueue \in Seq(Events)
<1>1. CbEvents \subseteq Events
  BY DEF Events
<1>. QED  BY <1>1 DEF AndroidTyped

LEMMA ViewFields ==
    ASSUME NEW q, NEW i, NEW cbs
    PROVE  /\ View(q, i, cbs).live \subseteq View(q, i, cbs).updated
           /\ View(q, i, cbs).found = At(q, {"found"}, i)
           /\ View(q, i, cbs).lost = At(q, {"lost"}, i)
           /\ View(q, i, cbs).cbLost = At(q, {"cbLost"}, i)
           /\ View(q, i, cbs).updated = At(q, {"updated"}, i)
           /\ View(q, i, cbs).resolve = At(q, {"resolve"}, i)
           /\ View(q, i, cbs).live = Live(q, i, cbs)
BY DEF View, Live

\* An event of another instance is handled, or one that says nothing of this one.
LEMMA OthersKeep ==
    ASSUME NEW q \in Seq(Events), q # <<>>, NEW more \in Seq(Events), NEW i, NEW cbs, NEW m,
           NEW version, NEW phase, NEW cb, NEW isTracked, NEW hasFailed, NEW isLate,
           Agrees(View(q, i, cbs), m, version, phase, cb, isTracked, hasFailed, isLate),
           InstOf(Head(q)) # i, Quiet(more, i)
    PROVE  Agrees(View(Tail(q) \o more, i, cbs), m, version, phase, cb, isTracked, hasFailed, isLate)
<1> DEFINE w == View(q, i, cbs)
           x == View(Tail(q), i, cbs)
<1>1. Tail(q) \in Seq(Events) /\ w \in Views /\ x \in Views /\ Shifted(w, x)
  BY HeadTailProperties, ViewTyped, TailShifts
<1>2. 1 \notin w.found \cup w.lost /\ 1 \notin w.cbLost \cup w.updated /\ 1 \notin w.resolve
  BY HeadAt, ViewFields
<1>3. Agrees(w, m, version, phase, cb, isTracked, hasFailed, isLate)
  OBVIOUS
<1>4. View(Tail(q) \o more, i, cbs) = x
  <2> DEFINE t == Tail(q)
  <2>1. t \in Seq(Events)
    BY <1>1
  <2> HIDE DEF t
  <2>2. View(t \o more, i, cbs) = View(t, i, cbs)
    BY <2>1, QuietKeeps
  <2>. QED  BY <2>2 DEF t
<1> HIDE DEF w, x
<1>5. phase # "absent" => isTracked
  BY <1>3 DEF Agrees
<1>6. Agrees(x, m, version, phase, cb, isTracked, hasFailed, isLate)
  BY <1>1, <1>2, <1>3, <1>5, TakeOther
<1>. QED  BY <1>4, <1>6

LEMMA LostHandled ==
    ASSUME NEW q \in Seq(Events), q # <<>>, NEW more \in Seq(Events), NEW i, NEW cbs, NEW m,
           NEW version, NEW phase, NEW cb, NEW isTracked, NEW hasFailed, NEW isLate,
           Agrees(View(q, i, cbs), m, version, phase, cb, isTracked, hasFailed, isLate),
           Head(q).kind = "lost", InstOf(Head(q)) = i, Quiet(more, i)
    PROVE  Agrees(View(Tail(q) \o more, i, cbs), m, version, "absent", NoCallback, FALSE,
                  hasFailed, FALSE)
<1> DEFINE w == View(q, i, cbs)
           x == View(Tail(q), i, cbs)
<1>1. Tail(q) \in Seq(Events) /\ w \in Views /\ x \in Views /\ Shifted(w, x)
  BY HeadTailProperties, ViewTyped, TailShifts
<1>2. 1 \in w.lost /\ 1 \notin w.found \cup w.cbLost
  BY HeadAt, ViewFields
<1>3. Agrees(w, m, version, phase, cb, isTracked, hasFailed, isLate)
  OBVIOUS
<1>4. View(Tail(q) \o more, i, cbs) = x
  <2> DEFINE t == Tail(q)
  <2>1. t \in Seq(Events)
    BY <1>1
  <2> HIDE DEF t
  <2>2. View(t \o more, i, cbs) = View(t, i, cbs)
    BY <2>1, QuietKeeps
  <2>. QED  BY <2>2 DEF t
<1> HIDE DEF w, x
<1>. QED  BY <1>1, <1>2, <1>3, <1>4, TakeLost

LEMMA PromisedByUpdate ==
    ASSUME NEW q \in Seq(Events), NEW more \in Seq(Events), NEW i, NEW cbs, NEW m, NEW phase,
           At(more, {"updated"}, i) # {}, At(more, {"cbLost"}, i) = {}
    PROVE  Promised(View(q \o more, i, cbs), m, phase)
<1>1. PICK k \in At(more, {"updated"}, i) : TRUE
  OBVIOUS
<1>2. /\ Len(q) \in Nat /\ Len(q) + k \in Positions /\ (Len(q) + k) - Len(q) = k
      /\ Len(q) + k > Len(q)
  BY DEF At, Positions
<1>3. Len(q) + k \in At(q \o more, {"updated"}, i)
  BY <1>1, <1>2, AtOfAppended
<1>4. ASSUME NEW j \in At(q \o more, {"cbLost"}, i) PROVE j < Len(q) + k
  <2>1. j \in Positions
    BY DEF At, Positions
  <2>2. j \in At(q, {"cbLost"}, i)
    BY <2>1, AtOfAppended
  <2>3. j <= Len(q)
    BY <2>2 DEF At
  <2>. QED  BY <1>2, <2>1, <2>3 DEF Positions
<1>. QED  BY <1>3, <1>4, ViewFields DEF Promised

LEMMA PromisedByResolve ==
    ASSUME NEW q \in Seq(Events), NEW more \in Seq(Events), NEW i, NEW cbs, NEW m, NEW phase,
           At(more, {"resolve"}, i) # {}, At(more, {"cbLost"}, i) = {},
           At(q, {"cbLost"}, i) = {}, m.cbLost = {}
    PROVE  Promised(View(q \o more, i, cbs), m, phase)
<1>1. PICK k \in At(more, {"resolve"}, i) : TRUE
  OBVIOUS
<1>2. Len(q) \in Nat /\ Len(q) + k \in Positions /\ (Len(q) + k) - Len(q) = k
  BY DEF At, Positions
<1>3. Len(q) + k \in At(q \o more, {"resolve"}, i)
  BY <1>1, <1>2, AtOfAppended
<1>4. At(q \o more, {"cbLost"}, i) = {}
  <2>1. At(q \o more, {"cbLost"}, i) \subseteq Positions
    BY DEF At, Positions
  <2>. QED  BY <2>1, AtOfAppended
<1>. QED  BY <1>3, <1>4, ViewFields DEF Promised

LEMMA FoundHandled ==
    ASSUME NEW q \in Seq(Events), q # <<>>, NEW more \in Seq(Events), NEW i, NEW cbs, NEW m,
           NEW version, NEW phase, NEW cb, NEW isTracked, NEW hasFailed, NEW isLate,
           NEW nowCb, NEW nowFailed,
           Agrees(View(q, i, cbs), m, version, phase, cb, isTracked, hasFailed, isLate),
           Head(q).kind = "found", InstOf(Head(q)) = i,
           At(more, {"found"}, i) = {}, At(more, {"lost"}, i) = {}, At(more, {"cbLost"}, i) = {},
           version = Absent => At(more, {"updated"}, i) = {},
           version # Absent =>
              \/ nowFailed \/ At(more, {"updated"}, i) # {}
              \/ At(more, {"resolve"}, i) # {} /\ At(Tail(q), {"cbLost"}, i) \cup m.cbLost = {}
    PROVE  Agrees(View(Tail(q) \o more, i, cbs), m, version, phase, nowCb, TRUE, nowFailed, isLate)
<1> DEFINE p == q \o more
           w == View(p, i, cbs)
           x == View(Tail(p), i, cbs)
<1>1. /\ p \in Seq(Events) /\ p # <<>> /\ Head(p) = Head(q) /\ Tail(p) = Tail(q) \o more
      /\ Tail(q) \in Seq(Events)
  BY ConcatProperties, HeadTailProperties, LenProperties, EmptySeq
<1>2. Tail(p) \in Seq(Events) /\ w \in Views /\ x \in Views /\ Shifted(w, x)
  BY <1>1, HeadTailProperties, ViewTyped, TailShifts
<1>3. 1 \in w.found /\ 1 \notin w.lost \cup w.cbLost
  <2>1. \A kinds : 1 \in At(p, kinds, i) <=> Head(q).kind \in kinds
    BY <1>1, HeadAt
  <2> HIDE DEF p
  <2>. QED  BY <2>1, ViewFields
<1>4. Agrees(w, m, version, phase, cb, isTracked, hasFailed, isLate)
  BY AppendKeeps
<1>5. version # Absent => nowFailed \/ Promised(x, m, phase)
  <2>1. At(more, {"updated"}, i) # {} => Promised(x, m, phase)
    BY <1>1, PromisedByUpdate
  <2>2. At(more, {"resolve"}, i) # {} /\ At(Tail(q), {"cbLost"}, i) \cup m.cbLost = {} =>
            Promised(x, m, phase)
    BY <1>1, PromisedByResolve
  <2>. QED  BY <2>1, <2>2
<1> HIDE DEF w, x
<1>6. Agrees(x, m, version, phase, nowCb, TRUE, nowFailed, isLate)
  BY <1>2, <1>3, <1>4, <1>5, TakeFound
<1>. QED  BY <1>1, <1>6 DEF x

LEMMA ResolveHandled ==
    ASSUME NEW q \in Seq(Events), q # <<>>, NEW i, NEW cbs, NEW m,
           NEW version, NEW phase, NEW cb, NEW isTracked, NEW hasFailed, NEW isLate,
           NEW nowPhase, NEW nowTracked, NEW nowFailed,
           Agrees(View(q, i, cbs), m, version, phase, cb, isTracked, hasFailed, isLate),
           Head(q).kind = "resolve", InstOf(Head(q)) = i,
           version = Absent => nowPhase \in {phase, "absent"}, hasFailed => nowFailed,
           nowPhase # "absent" \/ nowFailed, nowPhase # "absent" => nowTracked
    PROVE  Agrees(View(Tail(q), i, cbs), m, version, nowPhase, cb, nowTracked, nowFailed, isLate)
<1> DEFINE w == View(q, i, cbs)
           x == View(Tail(q), i, cbs)
<1>1. w \in Views /\ x \in Views /\ Shifted(w, x)
  BY HeadTailProperties, ViewTyped, TailShifts
<1>2. 1 \notin w.found \cup w.lost /\ 1 \notin w.cbLost \cup w.updated
  BY HeadAt, ViewFields
<1>3. Agrees(w, m, version, phase, cb, isTracked, hasFailed, isLate)
  OBVIOUS
<1> HIDE DEF w, x
<1>4. nowPhase # "absent" \/ nowFailed \/ (1 \notin w.resolve /\ nowPhase = phase)
  OBVIOUS
<1>5. Agrees(x, m, version, nowPhase, cb, nowTracked, nowFailed, isLate)
  BY <1>1, <1>2, <1>3, <1>4, TakeOther, Zenon
<1>. QED  BY <1>5 DEF x

\* An event is taken from one queue to the other.
LEMMA AppendJoins ==
    ASSUME NEW q \in Seq(Events), q # <<>>, NEW r \in Seq(Events), NEW i, NEW cbs
    PROVE  Joins(View(q, i, cbs), View(r, i, cbs), View(Append(r, Head(q)), i, cbs))
<1> DEFINE n == Len(r) + 1
           e == Head(q)
           s == Append(r, e)
<1>1. /\ n \in Positions /\ e \in Events /\ s \in Seq(Events) /\ Len(s) = n
      /\ \A k \in 1..Len(r) : s[k] = r[k]
      /\ s[n] = e /\ 1..n = 1..Len(r) \cup {n} /\ \A k \in 1..Len(r) : k < n
  BY HeadTailProperties, AppendProperties, LenProperties DEF Positions
<1> HIDE DEF n, e, s
<1>2. ASSUME NEW kinds
      PROVE  At(s, kinds, i) = At(r, kinds, i) \cup (IF 1 \in At(q, kinds, i) THEN {n} ELSE {})
  <2>1. 1 \in At(q, kinds, i) <=> e.kind \in kinds /\ InstOf(e) = i
    BY HeadAt DEF e
  <2>. QED  BY <1>1, <2>1 DEF At
<1>3. Live(s, i, cbs) = Live(r, i, cbs) \cup (IF 1 \in Live(q, i, cbs) THEN {n} ELSE {})
  <2>1. 1 \in Live(q, i, cbs) <=> e.kind = "updated" /\ InstOf(e) = i /\ e.cb \in cbs
    BY HeadAt DEF e
  <2>. QED  BY <1>1, <2>1 DEF At, Live
<1>4. \A kinds : \A k \in At(r, kinds, i) : k < n
  BY <1>1 DEF At
<1>5. \A k \in Live(r, i, cbs) : k < n
  BY <1>4 DEF Live
<1>6. Joins(View(q, i, cbs), View(r, i, cbs), View(s, i, cbs))
  BY <1>1, <1>2, <1>3, <1>4, <1>5, ViewFields DEF Joins
<1>. QED  BY <1>6 DEF s, e

LEMMA PostedHandled ==
    ASSUME NEW q \in Seq(Events), q # <<>>, NEW r \in Seq(Events), NEW i, NEW cbs,
           NEW version, NEW phase, NEW cb, NEW isTracked, NEW hasFailed, NEW isLate,
           Agrees(View(q, i, cbs), View(r, i, cbs), version, phase, cb, isTracked, hasFailed,
                  isLate),
           Head(q).kind \in Posted
    PROVE  Agrees(View(Tail(q), i, cbs), View(Append(r, Head(q)), i, cbs), version, phase, cb,
                  isTracked, hasFailed, isLate)
<1> DEFINE w == View(q, i, cbs)
           x == View(Tail(q), i, cbs)
           m == View(r, i, cbs)
           m2 == View(Append(r, Head(q)), i, cbs)
<1>1. /\ w \in Views /\ x \in Views /\ m \in Views /\ m2 \in Views /\ Shifted(w, x)
      /\ Joins(w, m, m2)
  <2>1. Head(q) \in Events /\ Tail(q) \in Seq(Events)
    BY HeadTailProperties
  <2>2. Append(r, Head(q)) \in Seq(Events)
    BY <2>1, AppendProperties
  <2>. QED  BY <2>1, <2>2, ViewTyped, TailShifts, AppendJoins
<1>2. /\ 1 \notin w.found \cup w.lost /\ 1 \notin w.resolve
      /\ ~(1 \in w.updated /\ 1 \in w.cbLost) /\ w.live \subseteq w.updated
  BY HeadAt, ViewFields DEF Posted
<1>3. Agrees(w, m, version, phase, cb, isTracked, hasFailed, isLate)
  OBVIOUS
<1> HIDE DEF w, x, m, m2
<1>4. Agrees(x, m2, version, phase, cb, isTracked, hasFailed, isLate)
  BY <1>1, <1>2, <1>3, TakePosted
<1>. QED  BY <1>4 DEF x, m2

\* The first callback on the main thread: an update of this instance,
LEMMA UpdatedHandled ==
    ASSUME NEW q \in Seq(Events), NEW r \in Seq(Events), r # <<>>, NEW i, NEW cbs,
           NEW version, NEW phase, NEW cb, NEW isTracked, NEW hasFailed, NEW isLate,
           NEW nowPhase, NEW nowLate,
           Agrees(View(q, i, cbs), View(r, i, cbs), version, phase, cb, isTracked, hasFailed,
                  isLate),
           Head(r).kind = "updated", InstOf(Head(r)) = i,
           nowPhase # "absent", Head(r).cb \in cbs \/ nowLate
    PROVE  Agrees(View(q, i, cbs), View(Tail(r), i, cbs), version, nowPhase, cb, TRUE, hasFailed,
                  nowLate)
<1> DEFINE w == View(q, i, cbs)
           m == View(r, i, cbs)
           m2 == View(Tail(r), i, cbs)
<1>1. w \in Views /\ m \in Views /\ m2 \in Views /\ Shifted(m, m2)
  BY HeadTailProperties, ViewTyped, TailShifts
<1>2. 1 \in m.updated /\ 1 \notin m.cbLost /\ (Head(r).cb \in cbs => 1 \in m.live)
  BY HeadAt, ViewFields
<1>3. Agrees(w, m, version, phase, cb, isTracked, hasFailed, isLate)
  OBVIOUS
<1> HIDE DEF w, m, m2
<1>4. 1 \in m.live \/ nowLate
  BY <1>2
<1>5. Agrees(w, m2, version, nowPhase, cb, TRUE, hasFailed, nowLate)
  BY <1>1, <1>2, <1>3, <1>4, TakeUpdated
<1>. QED  BY <1>5 DEF w, m2

\* a callback's loss,
LEMMA CbLostHandled ==
    ASSUME NEW q \in Seq(Events), NEW r \in Seq(Events), r # <<>>, NEW i, NEW cbs,
           NEW version, NEW phase, NEW cb, NEW isTracked, NEW hasFailed, NEW isLate,
           Agrees(View(q, i, cbs), View(r, i, cbs), version, phase, cb, isTracked, hasFailed,
                  isLate),
           Head(r).kind = "cbLost", InstOf(Head(r)) = i
    PROVE  Agrees(View(q, i, cbs), View(Tail(r), i, cbs), version, "absent", NoCallback, FALSE,
                  hasFailed, FALSE)
<1> DEFINE w == View(q, i, cbs)
           m == View(r, i, cbs)
           m2 == View(Tail(r), i, cbs)
<1>1. w \in Views /\ m \in Views /\ m2 \in Views /\ Shifted(m, m2)
  BY HeadTailProperties, ViewTyped, TailShifts
<1>2. 1 \in m.cbLost /\ 1 \notin m.updated /\ m.live \subseteq m.updated
  BY HeadAt, ViewFields
<1>3. Agrees(w, m, version, phase, cb, isTracked, hasFailed, isLate)
  OBVIOUS
<1> HIDE DEF w, m, m2
<1>4. Agrees(w, m2, version, "absent", NoCallback, FALSE, hasFailed, FALSE)
  BY <1>1, <1>2, <1>3, TakeCbLost
<1>. QED  BY <1>4 DEF w, m2

\* or no news of it.
LEMMA NoNewsHandled ==
    ASSUME NEW q \in Seq(Events), NEW r \in Seq(Events), r # <<>>, NEW i, NEW cbs,
           NEW version, NEW phase, NEW cb, NEW isTracked, NEW hasFailed, NEW isLate,
           NEW nowCb, nowCb \in {cb, NoCallback},
           Agrees(View(q, i, cbs), View(r, i, cbs), version, phase, cb, isTracked, hasFailed,
                  isLate),
           InstOf(Head(r)) # i \/ Head(r).kind \in {"unregistered", "refused"}
    PROVE  Agrees(View(q, i, cbs), View(Tail(r), i, cbs), version, phase, nowCb, isTracked,
                  hasFailed, isLate)
<1> DEFINE w == View(q, i, cbs)
           m == View(r, i, cbs)
           m2 == View(Tail(r), i, cbs)
<1>1. w \in Views /\ m \in Views /\ m2 \in Views /\ Shifted(m, m2)
  BY HeadTailProperties, ViewTyped, TailShifts
<1>2. 1 \notin m.cbLost \cup m.updated /\ m.live \subseteq m.updated
  BY HeadAt, ViewFields
<1>3. Agrees(w, m, version, phase, cb, isTracked, hasFailed, isLate)
  OBVIOUS
<1> HIDE DEF w, m, m2
<1>4. Agrees(w, m2, version, phase, nowCb, isTracked, hasFailed, isLate)
  BY <1>1, <1>2, <1>3, TakeNoNews
<1>. QED  BY <1>4 DEF w, m2
------------------------------------------------------------------------------
(* Records and sequences *)

LEMMA SendOne ==
    ASSUME CommonTyped, NEW i \in Insts, NEW a \in BOOLEAN, NEW b \in BOOLEAN,
           Send({[inst |-> i, active |-> a, resolved |-> b]})
    PROVE  LET r == [inst |-> i, active |-> a, resolved |-> b]
           IN  /\ known' \in [Insts -> Phases]
               /\ known' = [known EXCEPT ![i] = PhaseAfter(known[i], r)]
               /\ reports' = {<<i, k, b>> : k \in KindsOf(known[i], r)}
<1> DEFINE r == [inst |-> i, active |-> a, resolved |-> b]
<1>1. (CHOOSE x \in {r} : x.inst = i) = r
  OBVIOUS
<1>2. \A j \in Insts : (\E x \in {r} : x.inst = j) <=> j = i
  OBVIOUS
<1>3. known' = [j \in Insts |-> IF j = i THEN PhaseAfter(known[j], r) ELSE known[j]]
  BY <1>1, <1>2 DEF Send
<1>4. PhaseAfter(known[i], r) \in Phases
  BY DEF PhaseAfter, Phases, CommonTyped
<1>5. reports' = {<<i, k, b>> : k \in KindsOf(known[i], r)}
  BY DEF Send
<1>. QED  BY <1>3, <1>4, <1>5 DEF CommonTyped

LEMMA PhaseOfRecord ==
    /\ \A phase, i : PhaseAfter(phase, Inactive(i)) = "absent"
    /\ \A phase, i : PhaseAfter(phase, Active(i, TRUE)) = "resolved"
    /\ \A phase, i : PhaseAfter(phase, Active(i, FALSE)) # "absent"
<1>1. \A i : /\ Inactive(i).active = FALSE
             /\ Active(i, TRUE).active = TRUE /\ Active(i, TRUE).resolved = TRUE
             /\ Active(i, FALSE).active = TRUE /\ Active(i, FALSE).resolved = FALSE
  BY DEF Inactive, Active
<1>2. \A phase, i : PhaseAfter(phase, Inactive(i)) = "absent"
  BY <1>1 DEF PhaseAfter
<1>3. \A phase, i : PhaseAfter(phase, Active(i, TRUE)) = "resolved"
  BY <1>1 DEF PhaseAfter
<1>4. \A phase, i : PhaseAfter(phase, Active(i, FALSE)) # "absent"
  BY <1>1 DEF PhaseAfter
<1>. QED  BY <1>2, <1>3, <1>4

LEMMA SetToSeqLemma ==
    ASSUME NEW S, IsFiniteSet(S)
    PROVE  /\ SetToSeq(S) \in [1..Cardinality(S) -> S] /\ SetToSeq(S) \in Seq(S)
           /\ Cardinality(S) \in Nat /\ Len(SetToSeq(S)) = Cardinality(S)
           /\ \A j, k \in 1..Cardinality(S) : SetToSeq(S)[j] = SetToSeq(S)[k] => j = k
           /\ \A x \in S : \E k \in 1..Cardinality(S) : SetToSeq(S)[k] = x
<1> DEFINE n == Cardinality(S)
           f == SetToSeq(S)
<1>1. n \in Nat /\ ExistsBijection(1..n, S)
  BY FS_CardinalityType
<1>2. \E g \in [1..n -> S] : IsInjective(g)
  BY <1>1 DEF ExistsBijection, Bijection, Injection, IsInjective
<1>3. f \in [1..n -> S] /\ IsInjective(f)
  BY <1>2 DEF SetToSeq
<1>4. f \in Injection(1..n, S)
  BY <1>3 DEF Injection, IsInjective
<1>5. Cardinality(1..n) = n
  BY <1>1, FS_Interval
<1>6. f \in Surjection(1..n, S)
  BY <1>4, <1>5, FS_Injection
<1>. QED  BY <1>1, <1>3, <1>6 DEF Surjection, IsInjective

------------------------------------------------------------------------------
(* What the system and the handlers append *)

LEMMA OneEvent ==
    ASSUME NEW e \in Events
    PROVE  /\ <<e>> \in Seq(Events)
           /\ \A kinds, i : At(<<e>>, kinds, i) =
                 IF e.kind \in kinds /\ InstOf(e) = i THEN {1} ELSE {}
BY DEF At

LEMMA NoneAppended ==
    ASSUME NEW q \in Seq(Events), NEW more \in Seq(Events), NEW kinds, NEW i,
           At(q, kinds, i) = {}, At(more, kinds, i) = {}
    PROVE  At(q \o more, kinds, i) = {}
<1>1. At(q \o more, kinds, i) \subseteq Positions
  BY DEF At, Positions
<1>. QED  BY <1>1, AtOfAppended

LEMMA SomeAppended ==
    ASSUME NEW q \in Seq(Events), NEW more \in Seq(Events), NEW kinds, NEW i,
           At(q, kinds, i) # {} \/ At(more, kinds, i) # {}
    PROVE  At(q \o more, kinds, i) # {}
<1>1. /\ Len(q) \in Nat
      /\ At(q, kinds, i) \subseteq Positions /\ At(more, kinds, i) \subseteq Positions
  BY DEF At, Positions
<1>2. CASE At(q, kinds, i) # {}
  BY <1>1, <1>2, AtOfAppended
<1>3. CASE At(more, kinds, i) # {}
  <2>1. PICK k \in At(more, kinds, i) : TRUE
    BY <1>3
  <2>2. Len(q) + k \in Positions /\ (Len(q) + k) - Len(q) = k
    BY <1>1, <2>1 DEF Positions
  <2>. QED  BY <2>1, <2>2, AtOfAppended
<1>. QED  BY <1>2, <1>3

\* One event to each of some callbacks.
Tell(kind, cbs) == SetToSeq({With(kind, c) : c \in cbs})

LEMMA TellLemma ==
    ASSUME NEW kind \in Posted,
           NEW cbs \in SUBSET Callbacks, IsFiniteSet(cbs)
    PROVE  /\ Tell(kind, cbs) \in Seq(CbEvents) /\ Tell(kind, cbs) \in Seq(Events)
           /\ \A k \in 1..Len(Tell(kind, cbs)) :
                 /\ Tell(kind, cbs)[k].kind = kind /\ Tell(kind, cbs)[k].cb \in cbs
                 /\ InstOf(Tell(kind, cbs)[k]) = Tell(kind, cbs)[k].cb.inst
           /\ \A c \in cbs : \E k \in 1..Len(Tell(kind, cbs)) : Tell(kind, cbs)[k].cb = c
           /\ cbs = {} => Tell(kind, cbs) = <<>>
<1> DEFINE S == {With(kind, c) : c \in cbs}
           q == SetToSeq(S)
<1>1. IsFiniteSet(S)
  <2> DEFINE f == [c \in cbs |-> With(kind, c)]
  <2>1. f \in Surjection(cbs, S)
    BY DEF Surjection
  <2>. QED  BY <2>1, FS_Surjection
<1>2. S \subseteq CbEvents /\ CbEvents \subseteq Events
  BY DEF With, CbEvents, Events
<1>3. /\ q \in Seq(S) /\ Len(q) = Cardinality(S) /\ Cardinality(S) \in Nat
      /\ \A k \in 1..Len(q) : q[k] \in S
      /\ \A e \in S : \E k \in 1..Len(q) : q[k] = e
  <2> HIDE DEF S
  <2>. QED  BY <1>1, SetToSeqLemma
<1>4. \A e \in S : e.kind = kind /\ e.cb \in cbs /\ InstOf(e) = e.cb.inst
  BY DEF With, InstOf, Posted
<1>5. \A c \in cbs : \E e \in S : e.cb = c
  <2>1. \A c \in cbs : With(kind, c) \in S /\ With(kind, c).cb = c
    BY DEF With
  <2> HIDE DEF S
  <2>. QED  BY <2>1
<1>6. q = Tell(kind, cbs)
  BY DEF Tell
<1> HIDE DEF S, q
<1>7. q \in Seq(CbEvents) /\ q \in Seq(Events)
  BY <1>2, <1>3
<1>8. cbs = {} => q = <<>>
  <2>1. cbs = {} => S = {} /\ Cardinality(S) = 0
    BY FS_EmptySet DEF S
  <2>. QED  BY <1>3, <1>7, <2>1, EmptySeq
<1>9. /\ \A k \in 1..Len(q) : q[k].kind = kind /\ q[k].cb \in cbs /\ InstOf(q[k]) = q[k].cb.inst
      /\ \A c \in cbs : \E k \in 1..Len(q) : q[k].cb = c
  BY <1>3, <1>4, <1>5
<1>. QED  BY <1>6, <1>7, <1>8, <1>9

\* A callback that is over is told so: that is no news of an instance.
LEMMA UnregisteredIsQuiet ==
    ASSUME AndroidTyped
    PROVE  /\ Unregistered \in Seq(CbEvents) /\ Unregistered \in Seq(Events)
           /\ \A i : Quiet(Unregistered, i)
           /\ \A k \in 1..Len(Unregistered) : Unregistered[k].cb \in registered
           /\ registered = {} => Unregistered = <<>>
<1> DEFINE gone == registered \ registered'
<1>1. gone \in SUBSET Callbacks /\ IsFiniteSet(gone) /\ gone \subseteq registered
  BY FS_Subset DEF AndroidTyped
<1>2. Unregistered = Tell("unregistered", gone) /\ "unregistered" \in Posted
  BY DEF Unregistered, Tell, Posted
<1> HIDE DEF gone
<1>3. /\ Unregistered \in Seq(CbEvents) /\ Unregistered \in Seq(Events)
      /\ \A k \in 1..Len(Unregistered) :
            Unregistered[k].kind = "unregistered" /\ Unregistered[k].cb \in gone
      /\ gone = {} => Unregistered = <<>>
  BY <1>1, <1>2, TellLemma
<1>4. \A i : Quiet(Unregistered, i)
  BY <1>3 DEF Quiet, Kinds, At
<1>. QED  BY <1>1, <1>3, <1>4

------------------------------------------------------------------------------
(* The steps of the Android plug-in *)

LEMMA MadeGrows ==
    ASSUME NEW n \in Nat, NEW n2 \in Nat, n <= n2, NEW q \in Seq(Made(n))
    PROVE  q \in Seq(Made(n2))
<1>1. Made(n) \subseteq Made(n2)
  <2>1. SUFFICES ASSUME NEW e \in Made(n), e.kind \in Posted PROVE e.cb.id <= n2
    BY DEF Made
  <2>2. e.cb.id <= n /\ e.cb.id \in Nat
    BY <2>1, EventKinds DEF Made, Callbacks
  <2>. QED  BY <2>2
<1>. QED  BY <1>1

\* Callbacks may have been unregistered, or one made that nothing was posted for.
LEMMA Reregistered ==
    ASSUME AndroidInv, browse = "open", NEW i \in Insts, NEW cbs,
           \A c \in cbs : c \in registered \/ ~(c.id <= created)
    PROVE  Agrees(View(nsdQueue, i, cbs), View(mainQueue, i, cbs), net[i], known[i],
                  infoCallbacks[i], i \in tracked, i \in failed, i \in late)
<1>1. nsdQueue \in Seq(Made(created)) /\ mainQueue \in Seq(Made(created)) /\ AgreesAt(i)
  BY DEF AndroidInv, Numbered
<1>2. ASSUME NEW q \in Seq(Made(created))
      PROVE  Fewer(View(q, i, cbs), View(q, i, registered))
  <2>1. ASSUME NEW k \in 1..Len(q), q[k].kind = "updated" PROVE q[k].cb.id <= created
    <3>1. q[k] \in Made(created)
      BY <1>2
    <3>. QED  BY <2>1, <3>1 DEF Made, Posted
  <2>2. \A k \in 1..Len(q) : q[k].kind = "updated" /\ q[k].cb \in cbs => q[k].cb \in registered
    BY <2>1
  <2>. QED  BY <2>2, FewerLive
<1>3. Fewer(View(nsdQueue, i, cbs), View(nsdQueue, i, registered))
      /\ Fewer(View(mainQueue, i, cbs), View(mainQueue, i, registered))
  BY <1>1, <1>2
<1>. QED  BY <1>1, <1>3, FewerAgrees, Zenon DEF AgreesAt

\* What an instance that is found begins with: the first update of a callback, the
\* refusal of one, a resolution, or nothing.
Starts(i, cb, more) ==
    /\ more \in {<<>>, <<With("updated", cb)>>, <<With("refused", cb)>>, <<On("resolve", i)>>}
    /\ net[i] # Absent =>
          \/ i \in failed' \/ more = <<With("updated", cb)>>
          \/ ~modern /\ more = <<On("resolve", i)>>
    /\ net[i] = Absent => more # <<With("updated", cb)>>
    /\ ~modern => registered' = registered /\ more = <<On("resolve", i)>>
    /\ registered' \in {registered, registered \cup {cb}}
    /\ created' \in {created, cb.id}
    /\ registered' # registered \/ more \notin {<<>>, <<On("resolve", i)>>} => created' = cb.id
    /\ infoCallbacks' \in {infoCallbacks, [infoCallbacks EXCEPT ![i] = cb.id]}
    /\ failed' \in {failed \ {i}, failed \cup {i}}

LEMMA FoundStarts ==
    ASSUME AndroidInv, browse = "open", nsdQueue # <<>>, NEW i, i = Head(nsdQueue).inst,
           Head(nsdQueue).kind = "found", OnServiceFound(i), NEW cb,
           cb = [id |-> created + 1, inst |-> i]
    PROVE  \E more : Starts(i, cb, more) /\ nsdQueue' = Tail(nsdQueue) \o more
<1>1. nsdQueue \in Seq(Events) /\ mainQueue \in Seq(Events) /\ AndroidTyped
  BY QueueTypes DEF AndroidInv
<1>2. /\ Head(nsdQueue) \in Events /\ i \in Insts /\ InstOf(Head(nsdQueue)) = i
      /\ Tail(nsdQueue) \in Seq(Events)
  BY <1>1, HeadTailProperties, EventKinds
<1>3. infoCallbacks[i] = NoCallback
  <2>1. /\ View(nsdQueue, i, registered) \in Views
        /\ 1 \in View(nsdQueue, i, registered).found
    BY <1>1, <1>2, ViewTyped, HeadAt, ViewFields
  <2>2. Alternates(View(nsdQueue, i, registered), infoCallbacks[i])
    BY <1>2 DEF AndroidInv, AgreesAt, Agrees
  <2>. QED  BY <2>1, <2>2, FoundIsNew
<1>4. cb \in Callbacks /\ cb.id = created + 1
  BY <1>1, <1>2 DEF Callbacks, AndroidTyped
<1>5. /\ With("refused", cb) \in Events /\ With("updated", cb) \in Events
      /\ On("resolve", i) \in Events
  BY <1>2, <1>4 DEF With, On, Events, CbEvents, OwnEvents, Posted
<1>6. /\ Append(Tail(nsdQueue), With("refused", cb)) = Tail(nsdQueue) \o <<With("refused", cb)>>
      /\ Append(Tail(nsdQueue), On("resolve", i)) = Tail(nsdQueue) \o <<On("resolve", i)>>
      /\ Tail(nsdQueue) = Tail(nsdQueue) \o <<>>
  <2> DEFINE t == Tail(nsdQueue)
  <2>1. t \in Seq(Events)
    BY <1>2
  <2> HIDE DEF t
  <2>2. \A e \in Events : Append(t, e) = t \o <<e>>
    BY <2>1, AppendIsConcat
  <2>3. t = t \o <<>>
    BY <2>1, ConcatEmptySeq
  <2>. QED  BY <1>5, <2>2, <2>3 DEF t
<1>7. /\ On("resolve", i) # With("updated", cb) /\ With("refused", cb) # With("updated", cb)
      /\ On("resolve", i) # With("refused", cb)
  <2>1. On("resolve", i).kind = "resolve" /\ With("updated", cb).kind = "updated"
        /\ With("refused", cb).kind = "refused"
    BY DEF On, With
  <2>. QED  BY <2>1
<1>8. /\ <<>> # <<With("updated", cb)>> /\ <<On("resolve", i)>> # <<With("updated", cb)>>
      /\ <<With("refused", cb)>> # <<With("updated", cb)>>
      /\ <<With("refused", cb)>> \notin {<<>>, <<On("resolve", i)>>}
      /\ <<>> # <<On("resolve", i)>>
  BY <1>7
<1> DEFINE updated == <<With("updated", cb)>>
           refused == <<With("refused", cb)>>
           resolve == <<On("resolve", i)>>
<1>9. i \in Present <=> net[i] # Absent
  BY <1>2 DEF Present
<1>10. modern \in BOOLEAN
  BY <1>1 DEF AndroidTyped
<1> HIDE DEF updated, refused, resolve
<1>11. CASE modern /\ StartInfoCallback(i)
  <2>1. \/ /\ created' = cb.id /\ infoCallbacks' = [infoCallbacks EXCEPT ![i] = cb.id]
           /\ \/ /\ registered' = registered \cup {cb}
                 /\ nsdQueue' = Tail(nsdQueue) \o (IF i \in Present THEN updated ELSE <<>>)
                 /\ failed' = failed \ {i}
              \/ /\ nsdQueue' = Tail(nsdQueue) \o refused
                 /\ failed' = failed \cup {i} /\ UNCHANGED registered
        \/ /\ nsdQueue' = Tail(nsdQueue) \o <<>> /\ failed' = failed \cup {i}
           /\ UNCHANGED <<created, infoCallbacks, registered>>
    BY <1>6, <1>11 DEF StartInfoCallback, updated, refused
  <2>2. CASE /\ created' = cb.id /\ infoCallbacks' = [infoCallbacks EXCEPT ![i] = cb.id]
             /\ registered' = registered \cup {cb} /\ failed' = failed \ {i}
             /\ nsdQueue' = Tail(nsdQueue) \o (IF i \in Present THEN updated ELSE <<>>)
    <3>1. Starts(i, cb, IF i \in Present THEN updated ELSE <<>>)
      BY <1>8, <1>9, <1>11, <2>2, Zenon DEF Starts, updated
    <3>. QED  BY <2>2, <3>1
  <2>3. CASE /\ created' = cb.id /\ infoCallbacks' = [infoCallbacks EXCEPT ![i] = cb.id]
             /\ nsdQueue' = Tail(nsdQueue) \o refused
             /\ failed' = failed \cup {i} /\ UNCHANGED registered
    <3>1. i \in failed'
      BY <2>3
    <3>2. Starts(i, cb, refused)
      BY <1>8, <1>11, <2>3, <3>1, Zenon DEF Starts, refused
    <3>. QED  BY <2>3, <3>2
  <2>4. CASE /\ nsdQueue' = Tail(nsdQueue) \o <<>> /\ failed' = failed \cup {i}
             /\ UNCHANGED <<created, infoCallbacks, registered>>
    <3>1. i \in failed'
      BY <2>4
    <3>2. Starts(i, cb, <<>>)
      BY <1>8, <1>11, <2>4, <3>1, Zenon DEF Starts
    <3>. QED  BY <2>4, <3>2
  <2>. QED  BY <2>1, <2>2, <2>3, <2>4
<1>12. CASE /\ ~modern /\ nsdQueue' = Tail(nsdQueue) \o resolve /\ failed' = failed \ {i}
            /\ UNCHANGED <<created, infoCallbacks, registered>>
  <2>1. Starts(i, cb, resolve)
    BY <1>8, <1>12, Zenon DEF Starts, resolve
  <2>. QED  BY <1>12, <2>1
<1>. QED  BY <1>3, <1>6, <1>10, <1>11, <1>12 DEF OnServiceFound, resolve

\* Nothing of an instance changes but its place in the queues.
Same(j) ==
    /\ net'[j] = net[j] /\ known'[j] = known[j] /\ infoCallbacks'[j] = infoCallbacks[j]
    /\ (j \in tracked') = (j \in tracked) /\ (j \in failed') = (j \in failed)
    /\ (j \in late') = (j \in late)

Reregisters == \A c \in registered' : c \in registered \/ ~(c.id <= created)

LEMMA NsdOthers ==
    ASSUME AndroidInv, browse = "open", nsdQueue # <<>>, NEW more \in Seq(Events),
           nsdQueue' = Tail(nsdQueue) \o more, mainQueue' = mainQueue, Reregisters,
           NEW j \in Insts, InstOf(Head(nsdQueue)) # j, Quiet(more, j), Same(j)
    PROVE  AgreesAt(j)'
<1>1. nsdQueue \in Seq(Events)
  BY QueueTypes DEF AndroidInv
<1>2. Agrees(View(nsdQueue, j, registered'), View(mainQueue, j, registered'), net[j], known[j],
             infoCallbacks[j], j \in tracked, j \in failed, j \in late)
  BY Reregistered DEF Reregisters
<1>3. Agrees(View(Tail(nsdQueue) \o more, j, registered'), View(mainQueue, j, registered'), net[j],
             known[j], infoCallbacks[j], j \in tracked, j \in failed, j \in late)
  BY <1>1, <1>2, OthersKeep
<1>. QED  BY <1>3 DEF AgreesAt, Same

LEMMA MainOthers ==
    ASSUME AndroidInv, browse = "open", mainQueue # <<>>, NEW more \in Seq(Events),
           nsdQueue' = nsdQueue \o more, mainQueue' = Tail(mainQueue), Reregisters,
           NEW j \in Insts, InstOf(Head(mainQueue)) # j, Quiet(more, j), Same(j)
    PROVE  AgreesAt(j)'
<1>1. nsdQueue \in Seq(Events) /\ mainQueue \in Seq(Events)
  BY QueueTypes DEF AndroidInv
<1>2. Agrees(View(nsdQueue, j, registered'), View(mainQueue, j, registered'), net[j], known[j],
             infoCallbacks[j], j \in tracked, j \in failed, j \in late)
  BY Reregistered DEF Reregisters
<1>3. Agrees(View(nsdQueue, j, registered'), View(Tail(mainQueue), j, registered'), net[j],
             known[j], infoCallbacks[j], j \in tracked, j \in failed, j \in late)
  BY <1>1, <1>2, NoNewsHandled
<1>4. View(nsdQueue \o more, j, registered') = View(nsdQueue, j, registered')
  BY <1>1, QuietKeeps
<1>. QED  BY <1>3, <1>4 DEF AgreesAt, Same

LEMMA NsdFoundStep ==
    ASSUME AndroidInv, browse = "open", nsdQueue # <<>>,
           NEW i, i = Head(nsdQueue).inst, Head(nsdQueue).kind = "found", OnServiceFound(i),
           UNCHANGED <<modern, browse, net, changes>>
    PROVE  AndroidInv'
<1>0. PICK cb : cb = [id |-> created + 1, inst |-> i]
  OBVIOUS
<1> DEFINE updated == <<With("updated", cb)>>
           refused == <<With("refused", cb)>>
           resolve == <<On("resolve", i)>>
<1>1. /\ nsdQueue \in Seq(Events) /\ mainQueue \in Seq(Events) /\ AndroidTyped /\ CommonTyped
      /\ Numbered /\ Legacy /\ created \in Nat
  BY QueueTypes DEF AndroidInv, AndroidTyped
<1>2. i \in Insts /\ InstOf(Head(nsdQueue)) = i /\ Tail(nsdQueue) \in Seq(Events)
  BY <1>1, HeadTailProperties, EventKinds
<1>3. PICK more : Starts(i, cb, more) /\ nsdQueue' = Tail(nsdQueue) \o more
  BY <1>0, FoundStarts
<1>4. /\ tracked' = tracked \cup {i} /\ known' = known /\ mainQueue' = mainQueue /\ late' = late
  BY DEF OnServiceFound, SendNothing
<1>5. /\ cb \in Callbacks /\ cb.id = created + 1 /\ cb.inst = i
  BY <1>0, <1>1, <1>2 DEF Callbacks, AndroidTyped
<1>6. /\ With("updated", cb) \in CbEvents /\ With("refused", cb) \in CbEvents
      /\ On("resolve", i) \in OwnEvents
      /\ With("updated", cb).kind = "updated" /\ InstOf(With("updated", cb)) = i
      /\ With("refused", cb).kind = "refused" /\ InstOf(With("refused", cb)) = i
      /\ On("resolve", i).kind = "resolve" /\ InstOf(On("resolve", i)) = i
      /\ With("updated", cb).cb = cb /\ With("refused", cb).cb = cb
  BY <1>2, <1>5 DEF With, On, CbEvents, OwnEvents, Posted, InstOf
<1>7. CbEvents \subseteq Events /\ OwnEvents \subseteq Events
  BY DEF Events
<1>8. /\ \A kinds, j : At(updated, kinds, j) = IF "updated" \in kinds /\ j = i THEN {1} ELSE {}
      /\ \A kinds, j : At(refused, kinds, j) = IF "refused" \in kinds /\ j = i THEN {1} ELSE {}
      /\ \A kinds, j : At(resolve, kinds, j) = IF "resolve" \in kinds /\ j = i THEN {1} ELSE {}
      /\ \A kinds, j : At(<<>>, kinds, j) = {}
      /\ updated \in Seq(Events) /\ refused \in Seq(Events) /\ resolve \in Seq(Events)
      /\ <<>> \in Seq(Events)
  <2>1. \A kinds, j : At(<<>>, kinds, j) = {}
    BY DEF At
  <2>. QED  BY <1>6, <1>7, <2>1, OneEvent
<1>9. /\ more \in {<<>>, updated, refused, resolve}
      /\ net[i] # Absent => i \in failed' \/ more = updated \/ (~modern /\ more = resolve)
      /\ net[i] = Absent => more # updated
      /\ ~modern => registered' = registered /\ more = resolve
      /\ registered' \in {registered, registered \cup {cb}}
      /\ created' \in {created, cb.id}
      /\ registered' # registered => created' = cb.id
      /\ more \in {updated, refused} => created' = cb.id
      /\ infoCallbacks' \in {infoCallbacks, [infoCallbacks EXCEPT ![i] = cb.id]}
      /\ failed' \in {failed \ {i}, failed \cup {i}}
  <2>1. updated # resolve /\ updated # <<>> /\ refused # resolve /\ refused # <<>>
    BY <1>6
  <2>2. more \in {updated, refused} => more \notin {<<>>, <<On("resolve", i)>>}
    BY <2>1
  <2>. QED  BY <1>3, <2>2, Zenon DEF Starts
<1>9a. created' \in Nat /\ created <= created'
  BY <1>1, <1>5, <1>9
<1>10. /\ more \in Seq(Made(created'))
       /\ ~modern => more \in Seq(OwnEvents)
  <2>1. /\ created' = cb.id => With("updated", cb) \in Made(created')
        /\ created' = cb.id => With("refused", cb) \in Made(created')
        /\ On("resolve", i) \in Made(created')
    BY <1>5, <1>6, <1>7, <1>9a DEF Made, Posted, Callbacks
  <2>2. /\ created' = cb.id => updated \in Seq(Made(created')) /\ refused \in Seq(Made(created'))
        /\ resolve \in Seq(Made(created')) /\ <<>> \in Seq(Made(created'))
        /\ resolve \in Seq(OwnEvents)
    BY <1>6, <2>1
  <2> HIDE DEF updated, refused, resolve
  <2>. QED  BY <1>9, <2>2
<1> HIDE DEF updated, refused, resolve
<1>11. more \in Seq(Events) /\ \A kinds, j : j # i => At(more, kinds, j) = {}
  BY <1>9, <1>8
<1>12. Reregisters
  BY <1>1, <1>9, <1>5 DEF Reregisters
<1>13. AndroidTyped'
  <2>1. IsFiniteSet(registered') /\ registered' \subseteq Callbacks
    <3>1. IsFiniteSet(registered \cup {cb}) /\ registered \cup {cb} \subseteq Callbacks
      BY <1>1, <1>5, FS_AddElement DEF AndroidTyped
    <3>. QED  BY <1>1, <1>9, <3>1 DEF AndroidTyped
  <2>2. nsdQueue' \in Seq(Events)
    BY <1>2, <1>3, <1>11, ConcatProperties
  <2>3. infoCallbacks' \in [Insts -> Nat \cup {NoCallback}]
    BY <1>1, <1>2, <1>9, <1>9a, <1>5 DEF AndroidTyped
  <2>4. failed' \subseteq Insts
    BY <1>1, <1>2, <1>9 DEF AndroidTyped
  <2>. QED  BY <1>1, <1>2, <1>4, <1>9a, <2>1, <2>2, <2>3, <2>4 DEF AndroidTyped
<1>14. Numbered'
  <2>1. /\ Tail(nsdQueue) \in Seq(Made(created)) /\ mainQueue \in Seq(Made(created))
    BY <1>1, HeadTailProperties DEF Numbered
  <2>2. /\ Tail(nsdQueue) \in Seq(Made(created')) /\ mainQueue \in Seq(Made(created'))
    BY <1>1, <1>9a, <2>1, MadeGrows
  <2>3. nsdQueue' \in Seq(Made(created'))
    BY <1>3, <1>10, <2>2, ConcatProperties
  <2>4. \A c \in registered' : c.id <= created'
    <3>1. \A c \in registered : c.id <= created /\ c.id \in Nat
      BY <1>1 DEF Numbered, AndroidTyped, Callbacks
    <3>2. CASE registered' = registered
      BY <1>1, <1>9a, <3>1, <3>2
    <3>3. CASE registered' # registered
      <4>1. created' = cb.id /\ registered' = registered \cup {cb}
        BY <1>9, <3>3
      <4>. QED  BY <1>1, <1>5, <1>9a, <3>1, <4>1
    <3>. QED  BY <3>2, <3>3
  <2>. QED  BY <1>4, <2>2, <2>3, <2>4 DEF Numbered
<1>15. Legacy'
  <2>1. SUFFICES ASSUME ~modern
                 PROVE  registered' = {} /\ mainQueue' = <<>> /\ nsdQueue' \in Seq(OwnEvents)
    BY DEF Legacy
  <2>2. registered = {} /\ mainQueue = <<>> /\ nsdQueue \in Seq(OwnEvents)
    BY <1>1, <2>1 DEF Legacy
  <2>3. Tail(nsdQueue) \in Seq(OwnEvents)
    BY <2>2, HeadTailProperties
  <2>4. registered' = registered
    BY <1>9, <2>1
  <2>. QED  BY <1>3, <1>4, <1>10, <2>1, <2>2, <2>3, <2>4, ConcatProperties
<1>16. ASSUME NEW j \in Insts, j # i PROVE AgreesAt(j)'
  <2>1. Quiet(more, j)
    BY <1>11, <1>16 DEF Quiet
  <2>2. Same(j)
    <3>1. /\ (j \in tracked') = (j \in tracked) /\ (j \in failed') = (j \in failed)
      BY <1>9, <1>4, <1>16
    <3>2. infoCallbacks'[j] = infoCallbacks[j]
      BY <1>1, <1>9, <1>16 DEF AndroidTyped
    <3>. QED  BY <1>4, <3>1, <3>2 DEF Same
  <2>. QED  BY <1>2, <1>3, <1>4, <1>11, <1>12, <1>16, <2>1, <2>2, NsdOthers
<1>17. AgreesAt(i)'
  <2> DEFINE m == View(mainQueue, i, registered')
  <2>1. Agrees(View(nsdQueue, i, registered'), m, net[i], known[i], infoCallbacks[i],
               i \in tracked, i \in failed, i \in late)
    BY <1>2, <1>12, Reregistered DEF Reregisters
  <2>2. At(more, {"found"}, i) = {} /\ At(more, {"lost"}, i) = {} /\ At(more, {"cbLost"}, i) = {}
    BY <1>9, <1>8
  <2>3. net[i] = Absent => At(more, {"updated"}, i) = {}
    BY <1>9, <1>8
  <2>4. ~modern => At(Tail(nsdQueue), {"cbLost"}, i) \cup m.cbLost = {}
    <3>1. SUFFICES ASSUME ~modern PROVE At(Tail(nsdQueue), {"cbLost"}, i) \cup m.cbLost = {}
      OBVIOUS
    <3>2. mainQueue = <<>> /\ nsdQueue \in Seq(OwnEvents)
      BY <1>1, <3>1 DEF Legacy
    <3>3. Tail(nsdQueue) \in Seq(OwnEvents)
      BY <3>2, HeadTailProperties
    <3>4. At(Tail(nsdQueue), {"cbLost"}, i) = {}
      <4> DEFINE t == Tail(nsdQueue)
      <4>1. \A k \in 1..Len(t) : t[k].kind # "cbLost"
        <5>1. \A k \in 1..Len(t) : t[k] \in OwnEvents
          <6> HIDE DEF t
          <6>. QED  BY <3>3 DEF t
        <5> HIDE DEF t
        <5>. QED  BY <5>1 DEF OwnEvents
      <4> HIDE DEF t
      <4>2. At(t, {"cbLost"}, i) = {}
        BY <4>1 DEF At
      <4>. QED  BY <4>2 DEF t
    <3>5. m.cbLost = At(mainQueue, {"cbLost"}, i)
      BY ViewFields
    <3>. QED  BY <3>2, <3>4, <3>5, <1>8
  <2>5. net[i] # Absent =>
           \/ i \in failed' \/ At(more, {"updated"}, i) # {}
           \/ At(more, {"resolve"}, i) # {} /\ At(Tail(nsdQueue), {"cbLost"}, i) \cup m.cbLost = {}
    BY <1>9, <1>8, <2>4
  <2> HIDE DEF m
  <2>6. Agrees(View(Tail(nsdQueue) \o more, i, registered'), m, net[i], known[i],
               infoCallbacks'[i], TRUE, i \in failed', i \in late)
    BY <1>1, <1>2, <1>11, <2>1, <2>2, <2>3, <2>5, FoundHandled
  <2>7. (i \in tracked') = TRUE
    BY <1>4
  <2>8. /\ nsdQueue' = Tail(nsdQueue) \o more /\ mainQueue' = mainQueue /\ net' = net
        /\ known' = known /\ late' = late
    BY <1>3, <1>4
  <2>. QED  BY <2>6, <2>7, <2>8 DEF AgreesAt, m
<1>18. \A j \in Insts : AgreesAt(j)'
  <2>1. ASSUME NEW j \in Insts PROVE AgreesAt(j)'
    <3>1. CASE j = i
      BY <3>1, <1>17
    <3>2. CASE j # i
      BY <3>2, <1>16
    <3>. QED  BY <3>1, <3>2
  <2>. QED  BY <2>1
<1>. QED  BY <1>1, <1>4, <1>13, <1>14, <1>15, <1>18 DEF AndroidInv, CommonTyped

\* What a queue may hold.
NsdFits(q)  == q \in Seq(Made(created)) /\ (~modern => q \in Seq(OwnEvents))
MainFits(q) == q \in Seq(CbEvents) /\ q \in Seq(Made(created)) /\ (~modern => q = <<>>)

LEMMA QueuesFit ==
    ASSUME AndroidInv
    PROVE  /\ NsdFits(nsdQueue) /\ MainFits(mainQueue)
           /\ nsdQueue # <<>> => NsdFits(Tail(nsdQueue))
           /\ mainQueue # <<>> => MainFits(Tail(mainQueue))
           /\ NsdFits(Unregistered)
           /\ \A q, r : NsdFits(q) /\ NsdFits(r) => NsdFits(q \o r)
           /\ nsdQueue # <<>> /\ Head(nsdQueue).kind \in Posted =>
                 MainFits(Append(mainQueue, Head(nsdQueue)))
<1>1. NsdFits(nsdQueue) /\ MainFits(mainQueue)
  BY EmptySeq DEF NsdFits, MainFits, AndroidInv, AndroidTyped, Numbered, Legacy
<1>2. nsdQueue # <<>> => NsdFits(Tail(nsdQueue))
  BY <1>1, HeadTailProperties DEF NsdFits
<1>3. mainQueue # <<>> => MainFits(Tail(mainQueue))
  BY <1>1, HeadTailProperties DEF MainFits
<1>4. NsdFits(Unregistered)
  <2>1. /\ Unregistered \in Seq(CbEvents)
        /\ \A k \in 1..Len(Unregistered) : Unregistered[k].cb \in registered
        /\ registered = {} => Unregistered = <<>>
    BY UnregisteredIsQuiet DEF AndroidInv
  <2> HIDE DEF Unregistered
  <2>2. \A k \in 1..Len(Unregistered) : Unregistered[k] \in Made(created)
    BY <2>1 DEF AndroidInv, Numbered, Made, Events
  <2>3. Unregistered \in Seq(Made(created))
    BY <2>1, <2>2
  <2>4. ~modern => Unregistered \in Seq(OwnEvents)
    BY <2>1 DEF AndroidInv, Legacy
  <2>. QED  BY <2>3, <2>4 DEF NsdFits
<1>5. ASSUME NEW q, NEW r, NsdFits(q), NsdFits(r) PROVE NsdFits(q \o r)
  BY <1>5, ConcatProperties DEF NsdFits
<1>6. ASSUME nsdQueue # <<>>, Head(nsdQueue).kind \in Posted
      PROVE  MainFits(Append(mainQueue, Head(nsdQueue)))
  <2>1. Head(nsdQueue) \in Made(created) /\ Head(nsdQueue) \in Events
    BY <1>1, <1>6, HeadTailProperties DEF NsdFits, Made
  <2>2. Head(nsdQueue) \in CbEvents /\ Head(nsdQueue) \notin OwnEvents
    BY <1>6, <2>1, EventKinds DEF OwnEvents, Posted
  <2>3. modern
    <3>1. SUFFICES ASSUME ~modern PROVE FALSE
      OBVIOUS
    <3>2. Head(nsdQueue) \in OwnEvents
      BY <1>1, <1>6, <3>1, HeadTailProperties DEF NsdFits
    <3>. QED  BY <2>2, <3>2
  <2>. QED  BY <1>1, <2>1, <2>2, <2>3, AppendProperties DEF MainFits
<1>. QED  BY <1>1, <1>2, <1>3, <1>4, <1>5, <1>6

LEMMA FitsTyped ==
    ASSUME AndroidInv, NsdFits(nsdQueue'), MainFits(mainQueue'), UNCHANGED <<modern, created>>,
           registered' \subseteq registered,
           infoCallbacks' \in [Insts -> Nat \cup {NoCallback}],
           tracked' \subseteq Insts, failed' \subseteq Insts, late' \subseteq Insts
    PROVE  AndroidTyped' /\ Numbered' /\ Legacy'
<1>1. registered' \subseteq Callbacks /\ IsFiniteSet(registered')
  BY FS_Subset DEF AndroidInv, AndroidTyped
<1>2. nsdQueue' \in Seq(Events)
  <2>1. Made(created) \subseteq Events
    BY DEF Made
  <2>. QED  BY <2>1 DEF NsdFits
<1>3. AndroidTyped'
  BY <1>1, <1>2 DEF AndroidInv, AndroidTyped, MainFits
<1>4. Numbered'
  BY DEF AndroidInv, Numbered, NsdFits, MainFits
<1>5. Legacy'
  BY DEF AndroidInv, Legacy, NsdFits, MainFits
<1>. QED  BY <1>3, <1>4, <1>5

\* A loss is handled: what is known of the instance is forgotten, and of no other.
LEMMA LostEffects ==
    ASSUME AndroidInv, browse = "open", NEW i \in Insts, NEW isListener \in BOOLEAN,
           HandleLost(i, isListener), UNCHANGED <<failed, net>>
    PROVE  /\ known' \in [Insts -> Phases] /\ known'[i] = "absent"
           /\ infoCallbacks' \in [Insts -> Nat \cup {NoCallback}] /\ infoCallbacks'[i] = NoCallback
           /\ tracked' = tracked \ {i} /\ late' = late \ {i}
           /\ registered' \subseteq registered
           /\ \A j \in Insts : j # i => Same(j)
<1>1. CommonTyped /\ AndroidTyped /\ AgreesAt(i)
  BY DEF AndroidInv
<1>2. /\ known' \in [Insts -> Phases] /\ known'[i] = "absent"
      /\ \A j \in Insts : j # i => known'[j] = known[j]
  <2>1. CASE i \in tracked \/ (infoCallbacks[i] # NoCallback /\ isListener)
    <3>1. Send({[inst |-> i, active |-> FALSE, resolved |-> FALSE]})
      BY <2>1 DEF HandleLost, Inactive
    <3>2. /\ known' \in [Insts -> Phases]
          /\ known' = [known EXCEPT ![i] = PhaseAfter(known[i], Inactive(i))]
      BY <1>1, <3>1, SendOne DEF Inactive
    <3>. QED  BY <1>1, <3>2, PhaseOfRecord DEF CommonTyped
  <2>2. CASE ~(i \in tracked \/ (infoCallbacks[i] # NoCallback /\ isListener))
    <3>1. known' = known
      BY <2>2 DEF HandleLost, SendNothing
    <3>2. known[i] = "absent"
      BY <1>1, <2>2 DEF AgreesAt, Agrees
    <3>. QED  BY <1>1, <3>1, <3>2 DEF CommonTyped
  <2>. QED  BY <2>1, <2>2
<1>3. /\ infoCallbacks' = [infoCallbacks EXCEPT ![i] = NoCallback]
      /\ tracked' = tracked \ {i} /\ late' = late \ {i} /\ registered' \subseteq registered
  BY DEF HandleLost
<1>4. ASSUME NEW j \in Insts, j # i PROVE Same(j)
  <2>1. infoCallbacks'[j] = infoCallbacks[j]
    BY <1>1, <1>3, <1>4 DEF AndroidTyped
  <2>. QED  BY <1>2, <1>3, <1>4, <2>1 DEF Same
<1>. QED  BY <1>1, <1>2, <1>3, <1>4 DEF AndroidTyped

LEMMA NsdLostStep ==
    ASSUME AndroidInv, browse = "open", nsdQueue # <<>>,
           NEW i, i = Head(nsdQueue).inst, Head(nsdQueue).kind = "lost", HandleLost(i, TRUE),
           nsdQueue' = Tail(nsdQueue) \o Unregistered,
           UNCHANGED <<created, mainQueue, failed, modern, browse, net, changes>>
    PROVE  AndroidInv'
<1>1. nsdQueue \in Seq(Events) /\ mainQueue \in Seq(Events) /\ AndroidTyped /\ CommonTyped
  BY QueueTypes DEF AndroidInv
<1>2. i \in Insts /\ InstOf(Head(nsdQueue)) = i
  BY <1>1, HeadTailProperties, EventKinds
<1>3. /\ known' \in [Insts -> Phases] /\ known'[i] = "absent"
      /\ infoCallbacks' \in [Insts -> Nat \cup {NoCallback}] /\ infoCallbacks'[i] = NoCallback
      /\ tracked' = tracked \ {i} /\ late' = late \ {i}
      /\ registered' \subseteq registered
      /\ \A j \in Insts : j # i => Same(j)
  BY <1>2, LostEffects
<1>4. Unregistered \in Seq(Events) /\ \A j : Quiet(Unregistered, j)
  BY <1>1, UnregisteredIsQuiet
<1>5. Reregisters
  BY <1>3 DEF Reregisters
<1>6. AndroidTyped' /\ Numbered' /\ Legacy'
  <2>1. NsdFits(nsdQueue') /\ MainFits(mainQueue')
    BY QueuesFit
  <2>. QED  BY <1>1, <1>3, <2>1, FitsTyped DEF AndroidTyped
<1>7. ASSUME NEW j \in Insts, j # i PROVE AgreesAt(j)'
  BY <1>2, <1>3, <1>4, <1>5, <1>7, NsdOthers
<1>8. AgreesAt(i)'
  <2>1. Agrees(View(nsdQueue, i, registered'), View(mainQueue, i, registered'), net[i], known[i],
               infoCallbacks[i], i \in tracked, i \in failed, i \in late)
    BY <1>2, <1>5, Reregistered DEF Reregisters
  <2>2. Agrees(View(Tail(nsdQueue) \o Unregistered, i, registered'),
               View(mainQueue, i, registered'), net[i], "absent", NoCallback, FALSE,
               i \in failed, FALSE)
    BY <1>1, <1>2, <1>4, <2>1, LostHandled
  <2>3. (i \in tracked') = FALSE /\ (i \in late') = FALSE
    BY <1>3
  <2>. QED  BY <1>3, <2>2, <2>3 DEF AgreesAt
<1>9. \A j \in Insts : AgreesAt(j)'
  BY <1>7, <1>8
<1>. QED  BY <1>1, <1>3, <1>6, <1>9 DEF AndroidInv, CommonTyped

\* One instance is told of, or taken back.
LEMMA SendsOfOne ==
    ASSUME CommonTyped, NEW i \in Insts, NEW a \in BOOLEAN, NEW b \in BOOLEAN,
           Send({[inst |-> i, active |-> a, resolved |-> b]})
    PROVE  /\ known' \in [Insts -> Phases]
           /\ \A j \in Insts : j # i => known'[j] = known[j]
           /\ a => known'[i] # "absent"
           /\ ~a => known'[i] = "absent"
<1> DEFINE r == [inst |-> i, active |-> a, resolved |-> b]
<1>1. /\ known' \in [Insts -> Phases]
      /\ known' = [known EXCEPT ![i] = PhaseAfter(known[i], r)]
  BY SendOne
<1>2. a => PhaseAfter(known[i], r) # "absent"
  BY DEF PhaseAfter
<1>3. ~a => PhaseAfter(known[i], r) = "absent"
  BY DEF PhaseAfter
<1> HIDE DEF r
<1>. QED  BY <1>1, <1>2, <1>3 DEF CommonTyped

LEMMA NsdResolveStep ==
    ASSUME AndroidInv, browse = "open", nsdQueue # <<>>,
           NEW i, i = Head(nsdQueue).inst, Head(nsdQueue).kind = "resolve", OnResolveAnswered(i),
           nsdQueue' = Tail(nsdQueue),
           UNCHANGED <<infoCallbacks, registered, created, mainQueue, late, modern, browse, net,
                       changes>>
    PROVE  AndroidInv'
<1>1. /\ nsdQueue \in Seq(Events) /\ mainQueue \in Seq(Events) /\ AndroidTyped /\ CommonTyped
      /\ <<>> \in Seq(Events) /\ nsdQueue' = Tail(nsdQueue) \o <<>>
  <2>1. nsdQueue \in Seq(Events) /\ mainQueue \in Seq(Events) /\ AndroidTyped /\ CommonTyped
    BY QueueTypes DEF AndroidInv
  <2> DEFINE t == Tail(nsdQueue)
  <2>2. t \in Seq(Events)
    BY <2>1, HeadTailProperties
  <2> HIDE DEF t
  <2>3. t = t \o <<>>
    BY <2>2, ConcatEmptySeq
  <2>. QED  BY <2>1, <2>3 DEF t
<1>2. i \in Insts /\ InstOf(Head(nsdQueue)) = i
  BY <1>1, HeadTailProperties, EventKinds
<1>3. /\ known' \in [Insts -> Phases]
      /\ \A j \in Insts : j # i => known'[j] = known[j]
      /\ \/ net[i] # Absent /\ known'[i] # "absent" /\ tracked' = tracked \cup {i} /\ failed' = failed
         \/ known'[i] = "absent" /\ tracked' = tracked /\ failed' = failed \cup {i}
  <2>1. CASE /\ i \in Present /\ tracked' = tracked \cup {i} /\ UNCHANGED failed
             /\ \E hasHost \in BOOLEAN : Send({Active(i, hasHost)})
    <3>1. PICK hasHost \in BOOLEAN : Send({[inst |-> i, active |-> TRUE, resolved |-> hasHost]})
      BY <2>1 DEF Active
    <3>. QED  BY <1>1, <1>2, <2>1, <3>1, SendsOfOne DEF Present
  <2>2. CASE Send({Inactive(i)}) /\ failed' = failed \cup {i} /\ UNCHANGED tracked
    <3>1. Send({[inst |-> i, active |-> FALSE, resolved |-> FALSE]})
      BY <2>2 DEF Inactive
    <3>. QED  BY <1>1, <1>2, <2>2, <3>1, SendsOfOne
  <2>. QED  BY <2>1, <2>2 DEF OnResolveAnswered
<1>4. Reregisters
  BY DEF Reregisters
<1>5. AndroidTyped' /\ Numbered' /\ Legacy'
  <2>1. NsdFits(nsdQueue') /\ MainFits(mainQueue')
    BY QueuesFit
  <2>. QED  BY <1>1, <1>2, <1>3, <2>1, FitsTyped DEF AndroidTyped
<1>6. ASSUME NEW j \in Insts, j # i PROVE AgreesAt(j)'
  <2>1. Quiet(<<>>, j)
    BY DEF Quiet, At
  <2>2. Same(j)
    BY <1>3, <1>6 DEF Same
  <2>. QED  BY <1>1, <1>2, <1>4, <1>6, <2>1, <2>2, NsdOthers
<1>7. AgreesAt(i)'
  <2>1. AgreesAt(i)
    BY <1>2 DEF AndroidInv
  <2>2. /\ net[i] = Absent => known'[i] \in {known[i], "absent"}
        /\ i \in failed => i \in failed'
        /\ known'[i] # "absent" \/ i \in failed'
        /\ known'[i] # "absent" => i \in tracked'
    BY <1>3
  <2> DEFINE nowTracked == i \in tracked'
             nowFailed == i \in failed'
             nowPhase == known'[i]
  <2> HIDE DEF nowTracked, nowFailed, nowPhase
  <2>3. Agrees(View(Tail(nsdQueue), i, registered), View(mainQueue, i, registered), net[i],
               nowPhase, infoCallbacks[i], nowTracked, nowFailed, i \in late)
    <3>1. /\ net[i] = Absent => nowPhase \in {known[i], "absent"}
          /\ i \in failed => nowFailed
          /\ nowPhase # "absent" \/ nowFailed
          /\ nowPhase # "absent" => nowTracked
      BY <2>2 DEF nowTracked, nowFailed, nowPhase
    <3>. QED  BY <1>1, <1>2, <2>1, <3>1, ResolveHandled DEF AgreesAt
  <2>. QED  BY <2>3 DEF AgreesAt, nowTracked, nowFailed, nowPhase
<1>8. \A j \in Insts : AgreesAt(j)'
  BY <1>6, <1>7
<1>. QED  BY <1>1, <1>3, <1>5, <1>8 DEF AndroidInv, CommonTyped

LEMMA NsdMovesStep ==
    ASSUME AndroidInv, nsdQueue # <<>>, Head(nsdQueue).kind \in Posted \/ browse # "open",
           nsdQueue' = Tail(nsdQueue),
           mainQueue' = IF Head(nsdQueue).kind \in Posted THEN Append(mainQueue, Head(nsdQueue))
                        ELSE mainQueue,
           UNCHANGED <<known, tracked, infoCallbacks, registered, created, failed, late, modern,
                       browse, net, changes>>
    PROVE  AndroidInv'
<1>1. /\ nsdQueue \in Seq(Events) /\ mainQueue \in Seq(Events) /\ AndroidTyped /\ CommonTyped
  BY QueueTypes DEF AndroidInv
<1>2. AndroidTyped' /\ Numbered' /\ Legacy'
  <2>1. NsdFits(nsdQueue') /\ MainFits(mainQueue')
    BY QueuesFit
  <2>. QED  BY <1>1, <2>1, FitsTyped DEF AndroidTyped
<1>3. ASSUME browse = "none" PROVE Untouched'
  <2>1. nsdQueue \in Seq([kind : {"lost"}, inst : Insts]) /\ Untouched
    BY <1>3 DEF AndroidInv, Untouched
  <2>2. Tail(nsdQueue) \in Seq([kind : {"lost"}, inst : Insts])
    BY <2>1, HeadTailProperties
  <2>3. Head(nsdQueue).kind = "lost"
    <3>1. Head(nsdQueue) \in [kind : {"lost"}, inst : Insts]
      BY <2>1, HeadTailProperties
    <3>. QED  BY <3>1
  <2>. QED  BY <2>1, <2>2, <2>3 DEF Untouched, Posted
<1>4. ASSUME browse = "open", NEW j \in Insts PROVE AgreesAt(j)'
  <2>1. AgreesAt(j) /\ Head(nsdQueue).kind \in Posted
    BY <1>4 DEF AndroidInv
  <2>2. Agrees(View(Tail(nsdQueue), j, registered),
               View(Append(mainQueue, Head(nsdQueue)), j, registered), net[j], known[j],
               infoCallbacks[j], j \in tracked, j \in failed, j \in late)
    BY <1>1, <2>1, PostedHandled DEF AgreesAt
  <2>. QED  BY <2>1, <2>2 DEF AgreesAt
<1>. QED  BY <1>1, <1>2, <1>3, <1>4 DEF AndroidInv, CommonTyped

LEMMA AndroidRunNsdStep ==
    ASSUME AndroidInv, AndroidRunNsd
    PROVE  AndroidInv'
<1>1. nsdQueue # <<>> /\ UNCHANGED <<modern, browse, net, changes>>
  BY DEF AndroidRunNsd
<1>2. PICK i : i = Head(nsdQueue).inst
  OBVIOUS
<1>3. CASE Head(nsdQueue).kind = "found" /\ browse = "open" /\ OnServiceFound(i)
  BY <1>1, <1>2, <1>3, NsdFoundStep
<1>4. CASE /\ Head(nsdQueue).kind = "lost" /\ browse = "open" /\ HandleLost(i, TRUE)
           /\ nsdQueue' = Tail(nsdQueue) \o Unregistered
           /\ UNCHANGED <<created, mainQueue, failed>>
  BY <1>1, <1>2, <1>4, NsdLostStep
<1>5. CASE /\ Head(nsdQueue).kind = "resolve" /\ browse = "open" /\ OnResolveAnswered(i)
           /\ nsdQueue' = Tail(nsdQueue)
           /\ UNCHANGED <<infoCallbacks, registered, created, mainQueue, late>>
  BY <1>1, <1>2, <1>5, NsdResolveStep
<1>6. CASE /\ Head(nsdQueue).kind \in Posted \/ browse # "open"
           /\ nsdQueue' = Tail(nsdQueue)
           /\ mainQueue' = IF Head(nsdQueue).kind \in Posted
                           THEN Append(mainQueue, Head(nsdQueue)) ELSE mainQueue
           /\ SendNothing
           /\ UNCHANGED <<tracked, infoCallbacks, registered, created, failed, late>>
  BY <1>1, <1>6, NsdMovesStep DEF SendNothing
<1>. QED  BY <1>2, <1>3, <1>4, <1>5, <1>6 DEF AndroidRunNsd

LEMMA MainHead ==
    ASSUME AndroidInv, mainQueue # <<>>, NEW i, i = Head(mainQueue).cb.inst
    PROVE  /\ nsdQueue \in Seq(Events) /\ mainQueue \in Seq(Events) /\ AndroidTyped /\ CommonTyped
           /\ i \in Insts /\ InstOf(Head(mainQueue)) = i
           /\ <<>> \in Seq(Events) /\ nsdQueue = nsdQueue \o <<>> /\ \A j : Quiet(<<>>, j)
<1>1. nsdQueue \in Seq(Events) /\ mainQueue \in Seq(Events) /\ AndroidTyped /\ CommonTyped
  BY QueueTypes DEF AndroidInv
<1>2. Head(mainQueue) \in CbEvents
  BY <1>1, HeadTailProperties DEF AndroidTyped
<1>3. i \in Insts /\ InstOf(Head(mainQueue)) = i
  BY <1>2, EventKinds DEF Events, Callbacks
<1>4. <<>> \in Seq(Events) /\ nsdQueue = nsdQueue \o <<>>
  BY <1>1, ConcatEmptySeq
<1>5. \A j : Quiet(<<>>, j)
  BY DEF Quiet, At
<1>. QED  BY <1>1, <1>3, <1>4, <1>5

LEMMA MainUpdatedStep ==
    ASSUME AndroidInv, browse = "open", mainQueue # <<>>, NEW i, i = Head(mainQueue).cb.inst,
           Head(mainQueue).kind = "updated", OnServiceUpdated(Head(mainQueue).cb),
           mainQueue' = Tail(mainQueue),
           UNCHANGED <<infoCallbacks, registered, nsdQueue, modern, browse, created, failed, net,
                       changes>>
    PROVE  AndroidInv'
<1>1. /\ nsdQueue \in Seq(Events) /\ mainQueue \in Seq(Events) /\ AndroidTyped /\ CommonTyped
      /\ i \in Insts /\ InstOf(Head(mainQueue)) = i
      /\ <<>> \in Seq(Events) /\ nsdQueue = nsdQueue \o <<>> /\ \A j : Quiet(<<>>, j)
  BY MainHead
<1>2. /\ known' \in [Insts -> Phases] /\ known'[i] # "absent"
      /\ \A j \in Insts : j # i => known'[j] = known[j]
  <2>1. PICK hasHost \in BOOLEAN : Send({[inst |-> i, active |-> TRUE, resolved |-> hasHost]})
    BY DEF OnServiceUpdated, Active
  <2>. QED  BY <1>1, <2>1, SendsOfOne
<1>3. /\ tracked' = tracked \cup {i}
      /\ late' \in {late \ {i}, late \cup {i}}
      /\ Head(mainQueue).cb \in registered \/ i \in late'
  BY DEF OnServiceUpdated
<1>4. Reregisters
  BY DEF Reregisters
<1>5. AndroidTyped' /\ Numbered' /\ Legacy'
  <2>1. NsdFits(nsdQueue') /\ MainFits(mainQueue')
    BY QueuesFit
  <2>. QED  BY <1>1, <1>3, <2>1, FitsTyped DEF AndroidTyped
<1>6. ASSUME NEW j \in Insts, j # i PROVE AgreesAt(j)'
  <2>1. Same(j)
    BY <1>2, <1>3, <1>6 DEF Same
  <2>. QED  BY <1>1, <1>4, <1>6, <2>1, MainOthers
<1>7. AgreesAt(i)'
  <2>1. AgreesAt(i)
    BY <1>1 DEF AndroidInv
  <2> DEFINE nowLate == i \in late'
             nowPhase == known'[i]
  <2>2. nowPhase # "absent" /\ (Head(mainQueue).cb \in registered \/ nowLate)
    BY <1>2, <1>3
  <2> HIDE DEF nowLate, nowPhase
  <2>3. Agrees(View(nsdQueue, i, registered), View(Tail(mainQueue), i, registered), net[i],
               nowPhase, infoCallbacks[i], TRUE, i \in failed, nowLate)
    BY <1>1, <2>1, <2>2, UpdatedHandled DEF AgreesAt
  <2>4. (i \in tracked') = TRUE
    BY <1>3
  <2>. QED  BY <2>3, <2>4 DEF AgreesAt, nowLate, nowPhase
<1>8. \A j \in Insts : AgreesAt(j)'
  BY <1>6, <1>7
<1>. QED  BY <1>1, <1>2, <1>5, <1>8 DEF AndroidInv, CommonTyped

LEMMA MainCbLostStep ==
    ASSUME AndroidInv, browse = "open", mainQueue # <<>>, NEW i, i = Head(mainQueue).cb.inst,
           Head(mainQueue).kind = "cbLost", HandleLost(i, FALSE),
           mainQueue' = Tail(mainQueue), nsdQueue' = nsdQueue \o Unregistered,
           UNCHANGED <<modern, browse, created, failed, net, changes>>
    PROVE  AndroidInv'
<1>1. /\ nsdQueue \in Seq(Events) /\ mainQueue \in Seq(Events) /\ AndroidTyped /\ CommonTyped
      /\ i \in Insts /\ InstOf(Head(mainQueue)) = i
  BY MainHead
<1>2. /\ known' \in [Insts -> Phases] /\ known'[i] = "absent"
      /\ infoCallbacks' \in [Insts -> Nat \cup {NoCallback}] /\ infoCallbacks'[i] = NoCallback
      /\ tracked' = tracked \ {i} /\ late' = late \ {i}
      /\ registered' \subseteq registered
      /\ \A j \in Insts : j # i => Same(j)
  BY <1>1, LostEffects
<1>3. Unregistered \in Seq(Events) /\ \A j : Quiet(Unregistered, j)
  BY <1>1, UnregisteredIsQuiet
<1>4. Reregisters
  BY <1>2 DEF Reregisters
<1>5. AndroidTyped' /\ Numbered' /\ Legacy'
  <2>1. NsdFits(nsdQueue') /\ MainFits(mainQueue')
    BY QueuesFit
  <2>. QED  BY <1>1, <1>2, <2>1, FitsTyped DEF AndroidTyped
<1>6. ASSUME NEW j \in Insts, j # i PROVE AgreesAt(j)'
  BY <1>1, <1>2, <1>3, <1>4, <1>6, MainOthers
<1>7. AgreesAt(i)'
  <2>1. Agrees(View(nsdQueue, i, registered'), View(mainQueue, i, registered'), net[i], known[i],
               infoCallbacks[i], i \in tracked, i \in failed, i \in late)
    BY <1>1, <1>4, Reregistered DEF Reregisters
  <2>2. Agrees(View(nsdQueue, i, registered'), View(Tail(mainQueue), i, registered'), net[i],
               "absent", NoCallback, FALSE, i \in failed, FALSE)
    BY <1>1, <2>1, CbLostHandled
  <2>3. View(nsdQueue \o Unregistered, i, registered') = View(nsdQueue, i, registered')
    BY <1>1, <1>3, QuietKeeps
  <2>4. (i \in tracked') = FALSE /\ (i \in late') = FALSE
    BY <1>2
  <2>. QED  BY <1>2, <2>2, <2>3, <2>4 DEF AgreesAt
<1>8. \A j \in Insts : AgreesAt(j)'
  BY <1>6, <1>7
<1>. QED  BY <1>1, <1>2, <1>5, <1>8 DEF AndroidInv, CommonTyped

LEMMA MainForgetsStep ==
    ASSUME AndroidInv, browse = "open", mainQueue # <<>>, NEW i, i = Head(mainQueue).cb.inst,
           Head(mainQueue).kind \in {"unregistered", "refused"},
           infoCallbacks' = [infoCallbacks EXCEPT ![i] = NoCallback],
           mainQueue' = Tail(mainQueue),
           UNCHANGED <<known, tracked, registered, nsdQueue, late, modern, browse, created, failed,
                       net, changes>>
    PROVE  AndroidInv'
<1>1. /\ nsdQueue \in Seq(Events) /\ mainQueue \in Seq(Events) /\ AndroidTyped /\ CommonTyped
      /\ i \in Insts /\ InstOf(Head(mainQueue)) = i
  BY MainHead
<1>2. AndroidTyped' /\ Numbered' /\ Legacy'
  <2>1. NsdFits(nsdQueue') /\ MainFits(mainQueue')
    BY QueuesFit
  <2>. QED  BY <1>1, <2>1, FitsTyped DEF AndroidTyped
<1>3. ASSUME NEW j \in Insts PROVE AgreesAt(j)'
  <2> DEFINE nowCb == infoCallbacks'[j]
  <2>1. nowCb \in {infoCallbacks[j], NoCallback}
    BY <1>1 DEF AndroidTyped
  <2>2. AgreesAt(j)
    BY DEF AndroidInv
  <2>3. InstOf(Head(mainQueue)) # j \/ Head(mainQueue).kind \in {"unregistered", "refused"}
    OBVIOUS
  <2> HIDE DEF nowCb
  <2>4. Agrees(View(nsdQueue, j, registered), View(Tail(mainQueue), j, registered), net[j],
               known[j], nowCb, j \in tracked, j \in failed, j \in late)
    BY <1>1, <2>1, <2>2, <2>3, NoNewsHandled DEF AgreesAt
  <2>. QED  BY <2>4 DEF AgreesAt, nowCb
<1>. QED  BY <1>1, <1>2, <1>3 DEF AndroidInv, CommonTyped

LEMMA AndroidRunMainStep ==
    ASSUME AndroidInv, AndroidRunMain
    PROVE  AndroidInv'
<1>1. /\ mainQueue # <<>> /\ mainQueue' = Tail(mainQueue)
      /\ UNCHANGED <<modern, browse, created, failed, net, changes>>
  BY DEF AndroidRunMain
<1>2. PICK i : i = Head(mainQueue).cb.inst
  OBVIOUS
<1>3. CASE /\ browse # "open" /\ SendNothing
           /\ UNCHANGED <<tracked, infoCallbacks, registered, nsdQueue, late>>
  <2>1. AndroidTyped' /\ Numbered' /\ Legacy'
    <3>1. NsdFits(nsdQueue') /\ MainFits(mainQueue')
      BY <1>1, <1>3, QueuesFit
    <3>. QED  BY <1>1, <1>3, <3>1, FitsTyped DEF AndroidInv, AndroidTyped
  <2>2. browse # "none"
    BY <1>1 DEF AndroidInv, Untouched
  <2>. QED  BY <1>1, <1>3, <2>1, <2>2 DEF AndroidInv, CommonTyped, SendNothing
<1>4. CASE /\ browse = "open" /\ Head(mainQueue).kind = "updated"
           /\ OnServiceUpdated(Head(mainQueue).cb)
           /\ UNCHANGED <<infoCallbacks, registered, nsdQueue>>
  BY <1>1, <1>2, <1>4, MainUpdatedStep
<1>5. CASE /\ browse = "open" /\ Head(mainQueue).kind = "cbLost" /\ HandleLost(i, FALSE)
           /\ nsdQueue' = nsdQueue \o Unregistered
  BY <1>1, <1>2, <1>5, MainCbLostStep
<1>6. CASE /\ browse = "open" /\ Head(mainQueue).kind \in {"unregistered", "refused"}
           /\ infoCallbacks' = [infoCallbacks EXCEPT ![i] = NoCallback]
           /\ SendNothing
           /\ UNCHANGED <<tracked, registered, nsdQueue, late>>
  BY <1>1, <1>2, <1>6, MainForgetsStep DEF SendNothing
<1>. QED  BY <1>2, <1>3, <1>4, <1>5, <1>6 DEF AndroidRunMain

\* Each service there is gets one event.
LEMMA AndroidBrowseStartStep ==
    ASSUME AndroidInv, AndroidBrowseStart
    PROVE  AndroidInv'
<1> DEFINE n == Cardinality(Present)
           order == SetToSeq(Present)
           founds == [k \in 1..n |-> On("found", order[k])]
<1>1. /\ browse = "none" /\ browse' = "open" /\ nsdQueue' = founds /\ known' = known
      /\ UNCHANGED <<modern, tracked, infoCallbacks, registered, created, mainQueue, failed, late,
                     net>>
      /\ AndroidTyped /\ CommonTyped /\ Untouched
  BY DEF AndroidBrowseStart, AndroidInv, SendNothing
<1>2. Present \subseteq Insts /\ IsFiniteSet(Present)
  BY InstanceAssumption, FS_Subset DEF Present
<1>3. /\ order \in [1..n -> Present] /\ n \in Nat
      /\ \A j, k \in 1..n : order[j] = order[k] => j = k
      /\ \A x \in Present : \E k \in 1..n : order[k] = x
  BY <1>2, SetToSeqLemma
<1> HIDE DEF n, order
<1>4. /\ founds \in Seq(OwnEvents) /\ Len(founds) = n
      /\ \A k \in 1..n : founds[k].kind = "found" /\ InstOf(founds[k]) = order[k]
  <2>1. \A k \in 1..n : /\ On("found", order[k]) \in OwnEvents
                        /\ On("found", order[k]).kind = "found"
                        /\ InstOf(On("found", order[k])) = order[k]
    BY <1>2, <1>3 DEF On, OwnEvents, InstOf
  <2>2. founds \in [1..n -> OwnEvents]
    BY <2>1
  <2>3. founds \in Seq(OwnEvents) /\ Len(founds) = n
    BY <1>3, <2>2, LenProperties
  <2>. QED  BY <2>1, <2>3
<1> HIDE DEF founds
<1>5. AndroidTyped' /\ Numbered' /\ Legacy'
  <2>1. OwnEvents \subseteq Made(created)
    BY DEF OwnEvents, Made, Events, Posted
  <2>2. NsdFits(nsdQueue')
    BY <1>1, <1>4, <2>1 DEF NsdFits
  <2>3. MainFits(mainQueue')
    BY <1>1, QueuesFit
  <2>. QED  BY <1>1, <2>2, <2>3, FitsTyped DEF AndroidTyped
<1>7. ASSUME NEW i \in Insts PROVE AgreesAt(i)'
  <2> DEFINE w == View(founds, i, registered)
             m == View(mainQueue, i, registered)
  <2>1. \A kinds : "found" \notin kinds => At(founds, kinds, i) = {}
    BY <1>4 DEF At
  <2>2. w.lost = {} /\ w.cbLost = {} /\ w.updated = {} /\ w.resolve = {} /\ w.live = {}
    BY <2>1 DEF View, Live
  <2>3. w.found = {k \in 1..n : order[k] = i}
    BY <1>4 DEF View, At
  <2>4. m.live = {}
    BY <1>1 DEF View, Live, At, Untouched
  <2>5. known[i] = "absent" /\ infoCallbacks[i] = NoCallback
    BY <1>1 DEF Untouched
  <2>6. AgreesAt(i)' <=>
           Agrees(w, m, net[i], "absent", NoCallback, i \in tracked, i \in failed, i \in late)
    BY <1>1, <2>5 DEF AgreesAt
  <2> HIDE DEF w, m
  <2>7. Alternates(w, NoCallback)
    <3>1. \A j, k \in w.found : ~(j < k)
      BY <1>3, <2>3
    <3>. QED  BY <3>1 DEF Alternates
  <2>8. CASE net[i] = Absent
    <3>1. w.found = {}
      BY <1>3, <2>3, <2>8 DEF Present
    <3>. QED  BY <2>2, <2>4, <2>6, <2>7, <2>8, <3>1 DEF Agrees, Withdrawn, Heard, Outlived
  <2>9. CASE net[i] # Absent
    <3>1. w.found # {}
      <4>1. i \in Present
        BY <2>9 DEF Present
      <4>. QED  BY <1>3, <2>3, <4>1
    <3>2. Announced(w, m, "absent", i \in failed)
      BY <2>2, <3>1 DEF Announced
    <3>. QED  BY <2>6, <2>7, <2>9, <3>2 DEF Agrees
  <2>. QED  BY <2>8, <2>9
<1>. QED  BY <1>1, <1>5, <1>7 DEF AndroidInv, CommonTyped

LEMMA AndroidBrowseStopStep ==
    ASSUME AndroidInv, AndroidBrowseStop
    PROVE  AndroidInv'
<1>1. /\ browse' = "closed" /\ known' = known
      /\ infoCallbacks' = [i \in Insts |-> NoCallback]
      /\ UNCHANGED <<modern, tracked, created, nsdQueue, mainQueue, failed, late, net>>
      /\ AndroidTyped /\ CommonTyped /\ registered' \subseteq registered
  BY DEF AndroidBrowseStop, AndroidInv, SendNothing
<1>2. AndroidTyped' /\ Numbered' /\ Legacy'
  <2>1. NsdFits(nsdQueue') /\ MainFits(mainQueue')
    BY <1>1, QueuesFit
  <2>. QED  BY <1>1, <2>1, FitsTyped DEF AndroidTyped
<1>. QED  BY <1>1, <1>2 DEF AndroidInv, CommonTyped

\* What the system tells of a change, in the order it tells it.
Told(i, version, isFirst) ==
    LET listening == {c \in registered : c.inst = i}
    IN  IF version = Absent
        THEN {<<On("lost", i)>> \o Tell("cbLost", listening),
              Tell("cbLost", listening) \o <<On("lost", i)>>}
        ELSE {(IF isFirst THEN <<On("found", i)>> ELSE <<>>) \o Tell("updated", listening)}

LEMMA ToldLemma ==
    ASSUME AndroidInv, NEW i \in Insts, NEW version, NEW isFirst \in BOOLEAN,
           NEW more \in Told(i, version, isFirst)
    PROVE  /\ more \in Seq(Events) /\ NsdFits(more)
           /\ \A kinds, j : j # i => At(more, kinds, j) = {}
           /\ version = Absent =>
                 /\ At(more, {"found"}, i) = {} /\ At(more, {"updated"}, i) = {}
                 /\ At(more, {"lost"}, i) # {}
                 /\ \A c \in registered : c.inst = i => At(more, {"cbLost"}, i) # {}
           /\ version # Absent =>
                 /\ At(more, {"lost"}, i) = {} /\ At(more, {"cbLost"}, i) = {}
                 /\ At(more, {"found"}, i) = IF isFirst THEN {1} ELSE {}
<1> DEFINE listening == {c \in registered : c.inst = i}
           lost == On("lost", i)
           found == On("found", i)
<1>1. /\ listening \in SUBSET Callbacks /\ IsFiniteSet(listening)
      /\ \A c \in listening : c.inst = i /\ c \in registered
  BY FS_Subset DEF AndroidInv, AndroidTyped
<1>2. /\ lost \in Events /\ lost.kind = "lost" /\ InstOf(lost) = i
      /\ found \in Events /\ found.kind = "found" /\ InstOf(found) = i
      /\ lost \in OwnEvents /\ found \in OwnEvents
      /\ lost \in Made(created) /\ found \in Made(created)
  BY DEF On, Events, OwnEvents, InstOf, Made, Posted
<1>8. \A c \in registered : c.inst = i => c \in listening
  OBVIOUS
<1> HIDE DEF listening, lost, found
<1>3. ASSUME NEW kind \in {"updated", "cbLost"}
      PROVE  /\ Tell(kind, listening) \in Seq(Events) /\ NsdFits(Tell(kind, listening))
             /\ \A kinds, j : j # i \/ kind \notin kinds => At(Tell(kind, listening), kinds, j) = {}
             /\ \A kinds : \A c \in registered : c.inst = i /\ kind \in kinds =>
                               At(Tell(kind, listening), kinds, i) # {}
  <2> DEFINE cbs == Tell(kind, listening)
  <2>1. /\ cbs \in Seq(CbEvents) /\ cbs \in Seq(Events)
        /\ \A k \in 1..Len(cbs) :
              cbs[k].kind = kind /\ cbs[k].cb \in registered /\ InstOf(cbs[k]) = i
        /\ listening = {} => cbs = <<>>
        /\ \A c \in listening : \E k \in 1..Len(cbs) : cbs[k].cb = c
    <3>1. kind \in Posted
      BY DEF Posted
    <3>. QED  BY <1>1, <3>1, TellLemma
  <2> HIDE DEF cbs
  <2>2. \A kinds, j : j # i \/ kind \notin kinds => At(cbs, kinds, j) = {}
    BY <2>1 DEF At
  <2>3. ASSUME NEW kinds, kind \in kinds, NEW c \in registered, c.inst = i
        PROVE  At(cbs, kinds, i) # {}
    <3>1. PICK k \in 1..Len(cbs) : cbs[k].cb = c
      BY <1>8, <2>1, <2>3
    <3>. QED  BY <2>1, <2>3, <3>1 DEF At
  <2>4. NsdFits(cbs)
    <3>1. \A k \in 1..Len(cbs) : cbs[k] \in Made(created)
      BY <2>1 DEF AndroidInv, Numbered, Made, Events
    <3>2. ~modern => cbs = <<>>
      BY <1>1, <2>1 DEF AndroidInv, Legacy
    <3>3. cbs \in Seq(Made(created))
      BY <2>1, <3>1
    <3>. QED  BY <3>2, <3>3 DEF NsdFits
  <2>. QED  BY <2>1, <2>2, <2>3, <2>4 DEF cbs
<1>4. /\ <<lost>> \in Seq(Events) /\ <<found>> \in Seq(Events) /\ <<>> \in Seq(Events)
      /\ NsdFits(<<lost>>) /\ NsdFits(<<found>>) /\ NsdFits(<<>>)
      /\ \A kinds, j : At(<<lost>>, kinds, j) = IF "lost" \in kinds /\ j = i THEN {1} ELSE {}
      /\ \A kinds, j : At(<<found>>, kinds, j) = IF "found" \in kinds /\ j = i THEN {1} ELSE {}
      /\ \A kinds, j : At(<<>>, kinds, j) = {}
  <2>1. \A kinds, j : At(<<>>, kinds, j) = {}
    BY DEF At
  <2>2. NsdFits(<<lost>>) /\ NsdFits(<<found>>) /\ NsdFits(<<>>)
    BY <1>2 DEF NsdFits
  <2>. QED  BY <1>2, <2>1, <2>2, OneEvent
<1>5. ASSUME version = Absent
      PROVE  /\ more \in Seq(Events) /\ NsdFits(more)
             /\ \A kinds, j : j # i \/ kinds \cap {"lost", "cbLost"} = {} => At(more, kinds, j) = {}
             /\ At(more, {"lost"}, i) # {}
             /\ \A c \in registered : c.inst = i => At(more, {"cbLost"}, i) # {}
  <2> DEFINE cbs == Tell("cbLost", listening)
             loss == <<lost>>
  <2>1. more = loss \o cbs \/ more = cbs \o loss
    BY <1>5 DEF Told, listening, lost
  <2>2. /\ cbs \in Seq(Events) /\ loss \in Seq(Events) /\ NsdFits(cbs) /\ NsdFits(loss)
        /\ \A kinds, j : j # i \/ "cbLost" \notin kinds => At(cbs, kinds, j) = {}
        /\ \A kinds : \A c \in registered : c.inst = i /\ "cbLost" \in kinds =>
                          At(cbs, kinds, i) # {}
        /\ \A kinds, j : At(loss, kinds, j) = IF "lost" \in kinds /\ j = i THEN {1} ELSE {}
    BY <1>3, <1>4
  <2> HIDE DEF cbs, loss
  <2>3. more \in Seq(Events)
    <3>1. loss \o cbs \in Seq(Events) /\ cbs \o loss \in Seq(Events)
      BY <2>2, ConcatProperties
    <3>. QED  BY <2>1, <3>1
  <2>4. ASSUME NEW kinds, NEW j, j # i \/ kinds \cap {"lost", "cbLost"} = {}
        PROVE  At(more, kinds, j) = {}
    <3>1. At(cbs, kinds, j) = {} /\ At(loss, kinds, j) = {}
      BY <2>2, <2>4
    <3>. QED  BY <2>1, <2>2, <3>1, NoneAppended
  <2>5. At(more, {"lost"}, i) # {}
    <3>1. At(loss, {"lost"}, i) # {}
      BY <2>2
    <3>2. At(loss \o cbs, {"lost"}, i) # {} /\ At(cbs \o loss, {"lost"}, i) # {}
      BY <2>2, <3>1, SomeAppended
    <3>. QED  BY <2>1, <3>2
  <2>6. ASSUME NEW c \in registered, c.inst = i PROVE At(more, {"cbLost"}, i) # {}
    <3>1. At(cbs, {"cbLost"}, i) # {}
      BY <2>2, <2>6
    <3>2. At(loss \o cbs, {"cbLost"}, i) # {} /\ At(cbs \o loss, {"cbLost"}, i) # {}
      BY <2>2, <3>1, SomeAppended
    <3>. QED  BY <2>1, <3>2
  <2>7. NsdFits(more)
    <3>1. NsdFits(loss \o cbs) /\ NsdFits(cbs \o loss)
      BY <2>2, QueuesFit
    <3>. QED  BY <2>1, <3>1
  <2>. QED  BY <2>3, <2>4, <2>5, <2>6, <2>7
<1>6. ASSUME version # Absent
      PROVE  /\ more \in Seq(Events) /\ NsdFits(more)
             /\ \A kinds, j : j # i => At(more, kinds, j) = {}
             /\ At(more, {"lost"}, i) = {} /\ At(more, {"cbLost"}, i) = {}
             /\ At(more, {"found"}, i) = IF isFirst THEN {1} ELSE {}
  <2> DEFINE first == IF isFirst THEN <<found>> ELSE <<>>
             cbs == Tell("updated", listening)
  <2>1. more = first \o cbs
    BY <1>6 DEF Told, listening, found
  <2>2. /\ cbs \in Seq(Events) /\ NsdFits(cbs)
        /\ \A kinds, j : j # i \/ "updated" \notin kinds => At(cbs, kinds, j) = {}
    BY <1>3
  <2>3. /\ first \in Seq(Events) /\ NsdFits(first)
        /\ \A kinds, j : At(first, kinds, j) =
              IF isFirst /\ "found" \in kinds /\ j = i THEN {1} ELSE {}
    BY <1>4
  <2> HIDE DEF first, cbs
  <2>4. more \in Seq(Events) /\ NsdFits(more)
    BY <2>1, <2>2, <2>3, ConcatProperties, QueuesFit
  <2>5. ASSUME NEW kinds, NEW j, j # i \/ (kinds \cap {"found", "updated"} = {})
        PROVE  At(more, kinds, j) = {}
    <3>1. At(cbs, kinds, j) = {} /\ At(first, kinds, j) = {}
      BY <2>2, <2>3, <2>5
    <3>. QED  BY <2>1, <2>2, <2>3, <3>1, NoneAppended
  <2>6. At(more, {"found"}, i) = IF isFirst THEN {1} ELSE {}
    <3>1. At(cbs, {"found"}, i) = {} /\ At(first, {"found"}, i) = IF isFirst THEN {1} ELSE {}
      BY <2>2, <2>3
    <3>2. \A k \in Positions : k \in At(more, {"found"}, i) <=> k \in At(first, {"found"}, i)
      BY <2>1, <2>2, <2>3, <3>1, AtOfAppended
    <3>3. At(more, {"found"}, i) \subseteq Positions /\ At(first, {"found"}, i) \subseteq Positions
      BY DEF At, Positions
    <3>4. At(more, {"found"}, i) = At(first, {"found"}, i)
      BY <3>2, <3>3
    <3>. QED  BY <3>1, <3>4
  <2>. QED  BY <2>4, <2>5, <2>6
<1>. QED  BY <1>5, <1>6

\* From one version to another, the instance is as much there as before.
LEMMA VersionChanges ==
    ASSUME NEW w, NEW m, NEW version, NEW other, NEW phase, NEW cb, NEW isTracked, NEW hasFailed,
           NEW isLate, version # Absent, other # Absent,
           Agrees(w, m, version, phase, cb, isTracked, hasFailed, isLate)
    PROVE  Agrees(w, m, other, phase, cb, isTracked, hasFailed, isLate)
BY DEF Agrees

LEMMA AndroidNetChangesStep ==
    ASSUME AndroidInv, NEW i \in Insts, NEW version \in Versions \cup {Absent},
           AndroidNetChanges(i, version)
    PROVE  AndroidInv'
<1> DEFINE isFirst == net[i] = Absent /\ browse = "open"
<1>1. /\ version # net[i] /\ net' = [net EXCEPT ![i] = version] /\ known' = known
      /\ UNCHANGED <<modern, browse, tracked, infoCallbacks, registered, created,
                     mainQueue, failed, late>>
      /\ AndroidTyped /\ CommonTyped
  BY DEF AndroidNetChanges, NetChanges, AndroidInv, SendNothing
<1>2. mainQueue \in Seq(Events) /\ nsdQueue \in Seq(Events)
  BY <1>1, QueueTypes
<1>0. isFirst \in BOOLEAN /\ (isFirst <=> net[i] = Absent /\ browse = "open")
  OBVIOUS
<1>3. PICK more \in Told(i, version, isFirst) : nsdQueue' = nsdQueue \o more
  <2> DEFINE losses == Tell("cbLost", {c \in registered : c.inst = i})
             updates == Tell("updated", {c \in registered : c.inst = i})
             loss == <<On("lost", i)>>
             first == IF isFirst THEN <<On("found", i)>> ELSE <<>>
  <2>1. losses \in Seq(Events) /\ updates \in Seq(Events)
    <3>1. {c \in registered : c.inst = i} \in SUBSET Callbacks
          /\ IsFiniteSet({c \in registered : c.inst = i})
      BY <1>1, FS_Subset DEF AndroidTyped
    <3>2. "cbLost" \in Posted /\ "updated" \in Posted
      BY DEF Posted
    <3>. QED  BY <3>1, <3>2, TellLemma
  <2>2. loss \in Seq(Events) /\ first \in Seq(Events)
    <3>1. On("lost", i) \in Events /\ On("found", i) \in Events
      BY DEF On, Events, OwnEvents
    <3>. QED  BY <3>1, OneEvent
  <2>3. nsdQueue' \in
           IF version = Absent
           THEN {nsdQueue \o loss \o losses, nsdQueue \o losses \o loss}
           ELSE {nsdQueue \o first \o updates}
    BY DEF AndroidNetChanges, Tell
  <2>4. Told(i, version, isFirst) =
           IF version = Absent THEN {loss \o losses, losses \o loss} ELSE {first \o updates}
    BY DEF Told
  <2> HIDE DEF losses, updates, loss, first
  <2>5. /\ (nsdQueue \o loss) \o losses = nsdQueue \o (loss \o losses)
        /\ (nsdQueue \o losses) \o loss = nsdQueue \o (losses \o loss)
        /\ (nsdQueue \o first) \o updates = nsdQueue \o (first \o updates)
    <3>1. \A q, r \in Seq(Events) : (nsdQueue \o q) \o r = nsdQueue \o (q \o r)
      BY <1>2, ConcatAssociative
    <3>. QED  BY <2>1, <2>2, <3>1
  <2>6. CASE version = Absent
    <3>1. nsdQueue' = nsdQueue \o (loss \o losses) \/ nsdQueue' = nsdQueue \o (losses \o loss)
      BY <2>3, <2>5, <2>6
    <3>2. loss \o losses \in Told(i, version, isFirst) /\ losses \o loss \in Told(i, version, isFirst)
      BY <2>4, <2>6
    <3>. QED  BY <3>1, <3>2
  <2>7. CASE version # Absent
    <3>1. nsdQueue' = nsdQueue \o (first \o updates)
      BY <2>3, <2>5, <2>7
    <3>2. first \o updates \in Told(i, version, isFirst)
      BY <2>4, <2>7
    <3>. QED  BY <3>1, <3>2
  <2>. QED  BY <2>6, <2>7
<1> HIDE DEF isFirst
<1>4. /\ more \in Seq(Events) /\ NsdFits(more)
      /\ \A kinds, j : j # i => At(more, kinds, j) = {}
      /\ version = Absent =>
            /\ At(more, {"found"}, i) = {} /\ At(more, {"updated"}, i) = {}
            /\ At(more, {"lost"}, i) # {}
            /\ \A c \in registered : c.inst = i => At(more, {"cbLost"}, i) # {}
      /\ version # Absent =>
            /\ At(more, {"lost"}, i) = {} /\ At(more, {"cbLost"}, i) = {}
            /\ At(more, {"found"}, i) = IF isFirst THEN {1} ELSE {}
  BY <1>0, ToldLemma
<1>5. AndroidTyped' /\ Numbered' /\ Legacy'
  <2>1. NsdFits(nsdQueue') /\ MainFits(mainQueue')
    BY <1>1, <1>3, <1>4, QueuesFit
  <2>. QED  BY <1>1, <2>1, FitsTyped DEF AndroidTyped
<1>6. CommonTyped'
  BY <1>1 DEF CommonTyped
<1>7. ASSUME browse = "none" PROVE Untouched'
  <2>1. /\ registered = {} /\ nsdQueue \in Seq([kind : {"lost"}, inst : Insts])
        /\ mainQueue = <<>>
        /\ \A j \in Insts : known[j] = "absent" /\ infoCallbacks[j] = NoCallback
    BY <1>7 DEF AndroidInv, Untouched
  <2>2. \A kind \in {"updated", "cbLost"} : Tell(kind, {c \in registered : c.inst = i}) = <<>>
    <3>1. {c \in registered : c.inst = i} = {} /\ IsFiniteSet({})
      BY <2>1, FS_EmptySet
    <3>2. \A kind \in {"updated", "cbLost"} : Tell(kind, {}) = <<>>
      BY <3>1, TellLemma DEF Posted
    <3>. QED  BY <3>1, <3>2
  <2>3. /\ <<On("lost", i)>> \in Seq([kind : {"lost"}, inst : Insts])
        /\ <<>> \in Seq([kind : {"lost"}, inst : Insts])
    BY DEF On
  <2>4. more \in Seq([kind : {"lost"}, inst : Insts])
    <3> DEFINE loss == <<On("lost", i)>>
    <3>1. ~isFirst
      BY <1>0, <1>7
    <3>2. more \in {loss \o <<>>, <<>> \o loss, <<>> \o <<>>}
      BY <2>2, <3>1 DEF Told
    <3>3. loss \in Seq([kind : {"lost"}, inst : Insts])
      BY <2>3
    <3> HIDE DEF loss
    <3>4. more \in {loss, <<>>}
      BY <2>3, <3>2, <3>3, ConcatEmptySeq
    <3>. QED  BY <2>3, <3>3, <3>4
  <2>5. nsdQueue' \in Seq([kind : {"lost"}, inst : Insts])
    BY <1>3, <2>1, <2>4, ConcatProperties
  <2>. QED  BY <1>1, <2>1, <2>5 DEF Untouched
<1>8. ASSUME browse = "open", NEW j \in Insts PROVE AgreesAt(j)'
  <2> DEFINE m == View(mainQueue, j, registered)
  <2>1. Agrees(View(nsdQueue, j, registered), m, net[j], known[j], infoCallbacks[j],
               j \in tracked, j \in failed, j \in late)
    BY <1>8 DEF AndroidInv, AgreesAt
  <2>2. SUFFICES Agrees(View(nsdQueue \o more, j, registered), m, net'[j], known[j],
                        infoCallbacks[j], j \in tracked, j \in failed, j \in late)
    BY <1>1, <1>3 DEF AgreesAt
  <2>5. m.live = Live(mainQueue, j, registered)
    BY ViewFields
  <2> HIDE DEF m
  <2>3. CASE j # i
    <3>1. net'[j] = net[j]
      BY <1>1, <2>3 DEF CommonTyped
    <3>. QED  BY <1>2, <1>4, <2>1, <2>3, <3>1, AppendKeeps
  <2>4. CASE j = i
    <3>1. net'[i] = version
      BY <1>1 DEF CommonTyped
    <3>2. CASE version = Absent
      <4>1. net[i] # Absent /\ At(more, {"found"}, i) = {} /\ At(more, {"updated"}, i) = {}
            /\ At(more, {"lost"}, i) # {}
        BY <1>1, <1>4, <3>2
      <4>2. \A q, k : q \in Seq(Events) /\ k \in Live(q, i, registered) =>
                         At(more, {"cbLost"}, i) # {}
        <5>1. SUFFICES ASSUME NEW q \in Seq(Events), NEW k \in Live(q, i, registered)
                       PROVE  At(more, {"cbLost"}, i) # {}
          OBVIOUS
        <5>2. q[k].kind = "updated" /\ InstOf(q[k]) = i /\ q[k].cb \in registered
          BY DEF Live, At
        <5>3. q[k].cb.inst = i
          BY <5>2 DEF InstOf
        <5>. QED  BY <1>4, <3>2, <5>2, <5>3
      <4>3. Live(nsdQueue, i, registered) \cup m.live # {} => At(more, {"cbLost"}, i) # {}
        BY <1>2, <2>4, <2>5, <4>2
      <4>4. Agrees(View(nsdQueue, i, registered), m, net[i], known[i], infoCallbacks[i],
                   i \in tracked, i \in failed, i \in late)
        BY <2>1, <2>4
      <4>5. Agrees(View(nsdQueue \o more, i, registered), m, Absent, known[i], infoCallbacks[i],
                   i \in tracked, i \in failed, i \in late)
        BY <1>2, <1>4, <4>1, <4>3, <4>4, GoneAgrees
      <4>. QED  BY <2>4, <3>1, <3>2, <4>5
    <3>3. CASE version # Absent /\ net[i] = Absent
      <4>1. /\ At(more, {"found"}, i) = {1} /\ At(more, {"lost"}, i) = {}
        BY <1>0, <1>4, <1>8, <3>3
      <4>2. Agrees(View(nsdQueue, i, registered), m, Absent, known[i], infoCallbacks[i],
                   i \in tracked, i \in failed, i \in late)
        BY <2>1, <2>4, <3>3
      <4>. QED  BY <1>2, <1>4, <2>4, <3>1, <3>3, <4>1, <4>2, ComesAgrees
    <3>4. CASE version # Absent /\ net[i] # Absent
      <4>1. /\ At(more, {"found"}, i) = {} /\ At(more, {"lost"}, i) = {}
            /\ At(more, {"cbLost"}, i) = {}
        BY <1>0, <1>4, <3>4
      <4>2. Agrees(View(nsdQueue \o more, i, registered), m, net[i], known[i], infoCallbacks[i],
                   i \in tracked, i \in failed, i \in late)
        BY <1>2, <1>4, <2>1, <2>4, <3>4, <4>1, AppendKeeps
      <4>. QED  BY <2>4, <3>1, <3>4, <4>2, VersionChanges
    <3>. QED  BY <3>2, <3>3, <3>4
  <2>. QED  BY <2>3, <2>4
<1>. QED  BY <1>1, <1>5, <1>6, <1>7, <1>8 DEF AndroidInv

LEMMA AndroidInitial == CommonInit /\ AndroidInit => AndroidInv
<1>. SUFFICES ASSUME CommonInit, AndroidInit PROVE AndroidInv
  OBVIOUS
<1>1. AndroidTyped
  BY FS_EmptySet DEF AndroidInit, AndroidTyped
<1>2. CommonTyped
  BY DEF CommonInit, CommonTyped, Phases
<1>3. Untouched /\ Numbered /\ Legacy
  BY DEF CommonInit, AndroidInit, Untouched, Numbered, Legacy
<1>. QED  BY <1>1, <1>2, <1>3 DEF AndroidInit, AndroidInv

LEMMA AndroidStep ==
    ASSUME AndroidInv, AndroidNext
    PROVE  AndroidInv'
<1>1. CASE AndroidBrowseStart
  BY <1>1, AndroidBrowseStartStep
<1>2. CASE AndroidBrowseStop
  BY <1>2, AndroidBrowseStopStep
<1>3. CASE \E i \in Insts : \E v \in Versions \cup {Absent} : AndroidNetChanges(i, v)
  BY <1>3, AndroidNetChangesStep
<1>4. CASE AndroidRunNsd
  BY <1>4, AndroidRunNsdStep
<1>5. CASE AndroidRunMain
  BY <1>5, AndroidRunMainStep
<1>. QED  BY <1>1, <1>2, <1>3, <1>4, <1>5 DEF AndroidNext

LEMMA AndroidStutter ==
    ASSUME AndroidInv, UNCHANGED <<common, androidVars>>
    PROVE  AndroidInv'
BY DEF common, androidVars, AndroidInv, AndroidTyped, CommonTyped, Numbered, Legacy, Made,
       Untouched, AgreesAt

\* With nothing under way, what is left of Agrees is the agreement itself.
LEMMA AndroidAgrees ==
    ASSUME AndroidInv, AndroidSettled, NEW i \in Insts
    PROVE  /\ net[i] # Absent => known[i] # "absent" \/ i \in failed
           /\ known[i] # "absent" => net[i] # Absent \/ i \in late
<1>1. \A kinds : At(nsdQueue, kinds, i) = {} /\ At(mainQueue, kinds, i) = {}
  BY DEF At, AndroidSettled
<1>2. AgreesAt(i)
  BY DEF AndroidInv, AndroidSettled
<1>3. net[i] = Absent => known[i] = "absent" \/ i \in late
  BY <1>1, <1>2 DEF AgreesAt, Agrees, Heard, View
<1>4. net[i] # Absent => known[i] # "absent" \/ i \in failed
  BY <1>1, <1>2 DEF AgreesAt, Agrees, Announced, Promised, View
<1>. QED  BY <1>3, <1>4

------------------------------------------------------------------------------
(* What the consumer is told *)

\* The kinds a step tells of an instance go with its phase.
LegalAt(i) ==
    Abstract!Legal({k \in Abstract!Kind : <<i, k>> \in {<<r[1], r[2]>> : r \in reports'}},
                   known[i], known'[i])

\* What is told as resolved has host and port, and an update has them on iOS if the
\* answer applied last had.
Resolves == \A r \in reports' : r[2] = "resolved" => r[3]
Updates  == \A r \in reports' : r[2] = "updated" => (r[3] <=> resolved'[r[1]] # Nowhere)

\* A record a plug-in may send of an instance: it takes back only what was told.
Permitted(r, phase) ==
    \/ r = Inactive(r.inst) /\ phase # "absent"
    \/ \E hasHost \in BOOLEAN : r = Active(r.inst, hasHost)

LEMMA PermittedIsLegal ==
    ASSUME NEW r, NEW phase \in Phases, Permitted(r, phase)
    PROVE  /\ Abstract!Legal(KindsOf(phase, r), phase, PhaseAfter(phase, r))
           /\ PhaseAfter(phase, r) \in Phases
           /\ KindsOf(phase, r) \subseteq Abstract!Kind
           /\ "resolved" \in KindsOf(phase, r) => r.resolved
           /\ "updated" \in KindsOf(phase, r) => r.active /\ phase = "resolved"
<1>1. CASE r = Inactive(r.inst) /\ phase # "absent"
  <2>1. r.active = FALSE
    BY <1>1 DEF Inactive
  <2>2. KindsOf(phase, r) = {"removed"} /\ PhaseAfter(phase, r) = "absent"
    BY <2>1 DEF KindsOf, PhaseAfter
  <2>. QED  BY <1>1, <2>2 DEF Abstract!Legal, Abstract!Kind, Phases
<1>2. CASE r = Active(r.inst, TRUE)
  <2>1. r.active = TRUE /\ r.resolved = TRUE
    BY <1>2 DEF Active
  <2>2. PhaseAfter(phase, r) = "resolved"
    BY <2>1 DEF PhaseAfter
  <2>3. /\ phase = "absent" => KindsOf(phase, r) = {"found", "resolved"}
        /\ phase = "found" => KindsOf(phase, r) = {"resolved"}
        /\ phase = "resolved" => KindsOf(phase, r) = {"updated"}
    BY <2>1 DEF KindsOf
  <2>. QED  BY <2>1, <2>2, <2>3 DEF Abstract!Legal, Abstract!Kind, Phases
<1>3. CASE r = Active(r.inst, FALSE)
  <2>1. r.active = TRUE /\ r.resolved = FALSE
    BY <1>3 DEF Active
  <2>2. PhaseAfter(phase, r) = IF phase = "absent" THEN "found" ELSE phase
    BY <2>1 DEF PhaseAfter
  <2>3. /\ phase = "absent" => KindsOf(phase, r) = {"found"}
        /\ phase = "found" => KindsOf(phase, r) = {}
        /\ phase = "resolved" => KindsOf(phase, r) = {"updated"}
    BY <2>1 DEF KindsOf
  <2>. QED  BY <1>3, <2>1, <2>2, <2>3 DEF Abstract!Legal, Abstract!Kind, Phases
<1>. QED  BY <1>1, <1>2, <1>3 DEF Permitted

LEMMA SendPermitted ==
    ASSUME CommonTyped, NEW records, Send(records),
           \A r \in records : r.inst \in Insts /\ Permitted(r, known[r.inst]),
           \A r, s \in records : r.inst = s.inst => r = s
    PROVE  /\ known' \in [Insts -> Phases]
           /\ \A r \in records : known'[r.inst] = PhaseAfter(known[r.inst], r)
           /\ \A i \in Insts : (\A r \in records : r.inst # i) => known'[i] = known[i]
           /\ (\A i \in Insts : LegalAt(i)) /\ Resolves
           /\ (\A r \in records : r.active /\ known[r.inst] = "resolved" =>
                                     (r.resolved <=> resolved'[r.inst] # Nowhere)) => Updates
<1>1. \A r \in records : (CHOOSE s \in records : s.inst = r.inst) = r
  OBVIOUS
<1>2. known' = [i \in Insts |->
          IF \E r \in records : r.inst = i
          THEN PhaseAfter(known[i], CHOOSE r \in records : r.inst = i) ELSE known[i]]
  BY DEF Send
<1>3. \A r \in records : known'[r.inst] = PhaseAfter(known[r.inst], r)
  BY <1>1, <1>2
<1>4. \A i \in Insts : (\A r \in records : r.inst # i) => known'[i] = known[i]
  BY <1>2
<1>5. \A r \in records :
         /\ Abstract!Legal(KindsOf(known[r.inst], r), known[r.inst], known'[r.inst])
         /\ known'[r.inst] \in Phases
         /\ KindsOf(known[r.inst], r) \subseteq Abstract!Kind
         /\ "resolved" \in KindsOf(known[r.inst], r) => r.resolved
         /\ "updated" \in KindsOf(known[r.inst], r) => r.active /\ known[r.inst] = "resolved"
  BY <1>3, PermittedIsLegal DEF CommonTyped
<1>6. known' \in [Insts -> Phases]
  <2>1. \A i \in Insts : known'[i] \in Phases
    BY <1>4, <1>5 DEF CommonTyped
  <2>. QED  BY <1>2, <2>1
<1>7. reports' = UNION {{<<r.inst, k, r.resolved>> : k \in KindsOf(known[r.inst], r)} :
                              r \in records}
  BY DEF Send
<1>8. Resolves
  BY <1>5, <1>7 DEF Resolves
<1>10. ASSUME \A r \in records : r.active /\ known[r.inst] = "resolved" =>
                                  (r.resolved <=> resolved'[r.inst] # Nowhere)
       PROVE  Updates
  BY <1>5, <1>7, <1>10 DEF Updates
<1>9. ASSUME NEW i \in Insts
      PROVE  LegalAt(i)
  <2> DEFINE kinds == {k \in Abstract!Kind : <<i, k>> \in {<<r[1], r[2]>> : r \in reports'}}
  <2>1. \A k : <<i, k>> \in {<<r[1], r[2]>> : r \in reports'} <=>
                  \E r \in records : r.inst = i /\ k \in KindsOf(known[i], r)
    <3>1. ASSUME NEW k, NEW t \in reports', t[1] = i, t[2] = k
          PROVE  \E r \in records : r.inst = i /\ k \in KindsOf(known[i], r)
      <4>1. PICK r \in records : t \in {<<r.inst, l, r.resolved>> : l \in KindsOf(known[r.inst], r)}
        BY <1>7
      <4>. QED  BY <3>1, <4>1
    <3>2. ASSUME NEW k, NEW r \in records, r.inst = i, k \in KindsOf(known[i], r)
          PROVE  \E t \in reports' : t[1] = i /\ t[2] = k
      <4>1. <<r.inst, k, r.resolved>> \in reports'
        BY <1>7, <3>2
      <4>. QED  BY <3>2, <4>1
    <3>3. \A k : <<i, k>> \in {<<r[1], r[2]>> : r \in reports'} <=>
                    \E t \in reports' : t[1] = i /\ t[2] = k
      OBVIOUS
    <3>. QED  BY <3>1, <3>2, <3>3
  <2>2. CASE \E r \in records : r.inst = i
    <3>1. PICK r \in records : r.inst = i
      BY <2>2
    <3>2. kinds = KindsOf(known[i], r)
      BY <1>5, <2>1, <3>1
    <3>. QED  BY <1>5, <3>1, <3>2 DEF LegalAt
  <2>3. CASE \A r \in records : r.inst # i
    <3>1. kinds = {} /\ known'[i] = known[i]
      BY <1>4, <2>1, <2>3
    <3>. QED  BY <3>1 DEF LegalAt, Abstract!Legal
  <2>. QED  BY <2>2, <2>3
<1>. QED  BY <1>3, <1>4, <1>6, <1>8, <1>9, <1>10

LEMMA NothingTold ==
    ASSUME SendNothing
    PROVE  (\A i \in Insts : LegalAt(i)) /\ Resolves /\ Updates
BY DEF SendNothing, Resolves, Updates, LegalAt, Abstract!Legal

\* Android removes what it has not told of, and is legal otherwise.
LEMMA AndroidReports ==
    ASSUME AndroidInv, AndroidNext, platform = "android"
    PROVE  (\A i \in Insts : RemovesUntold(i) \/ LegalAt(i)) /\ Resolves
<1>1. CommonTyped /\ AndroidTyped
  BY DEF AndroidInv
<1>2. ASSUME NEW i \in Insts, NEW r, Send({r}), r.inst = i, Permitted(r, known[i])
      PROVE  (\A j \in Insts : LegalAt(j)) /\ Resolves
  <2> DEFINE records == {r}
  <2>1. /\ \A s \in records : s.inst \in Insts /\ Permitted(s, known[s.inst])
        /\ \A s, t \in records : s.inst = t.inst => s = t
        /\ Send(records)
    BY <1>2
  <2> HIDE DEF records
  <2>. QED  BY <1>1, <2>1, SendPermitted
<1>3. ASSUME NEW i \in Insts, NEW hasHost \in BOOLEAN, Send({Active(i, hasHost)})
      PROVE  (\A j \in Insts : LegalAt(j)) /\ Resolves
  <2>1. Active(i, hasHost).inst = i
    BY DEF Active
  <2>2. Permitted(Active(i, hasHost), known[i])
    BY <2>1 DEF Permitted
  <2>. QED  BY <1>2, <1>3, <2>1, <2>2
<1>4. ASSUME NEW i \in Insts, Send({Inactive(i)})
      PROVE  (\A j \in Insts : RemovesUntold(j) \/ LegalAt(j)) /\ Resolves
  <2>1. Inactive(i).inst = i
    BY DEF Inactive
  <2>2. CASE known[i] # "absent"
    <3>1. Permitted(Inactive(i), known[i])
      BY <2>1, <2>2 DEF Permitted
    <3>. QED  BY <1>2, <1>4, <2>1, <3>1
  <2>3. CASE known[i] = "absent"
    <3>1. /\ known' = [known EXCEPT ![i] = PhaseAfter(known[i], Inactive(i))]
          /\ reports' = {<<i, k, FALSE>> : k \in KindsOf(known[i], Inactive(i))}
      <4>1. Send({[inst |-> i, active |-> FALSE, resolved |-> FALSE]})
        BY <1>4 DEF Inactive
      <4>. QED  BY <1>1, <4>1, SendOne DEF Inactive
    <3>2. KindsOf(known[i], Inactive(i)) = {"removed"}
      BY DEF KindsOf, Inactive
    <3>3. reports' = {<<i, "removed", FALSE>>}
      BY <3>1, <3>2
    <3>4. known'[i] = "absent" /\ \A j \in Insts : j # i => known'[j] = known[j]
      BY <1>1, <3>1, PhaseOfRecord DEF CommonTyped
    <3>5. RemovesUntold(i)
      <4>1. <<i, "removed", FALSE>>[1] = i
        OBVIOUS
      <4>2. {r \in reports' : r[1] = i} = {<<i, "removed", FALSE>>}
        BY <3>3, <4>1, Zenon
      <4>. QED  BY <2>3, <3>4, <4>2 DEF RemovesUntold
    <3>6. ASSUME NEW j \in Insts, j # i PROVE LegalAt(j)
      <4>1. \A k : <<j, k>> \notin {<<r[1], r[2]>> : r \in reports'}
        BY <3>3, <3>6
      <4>. QED  BY <3>4, <3>6, <4>1 DEF LegalAt, Abstract!Legal
    <3>7. Resolves
      BY <3>3 DEF Resolves
    <3>. QED  BY <3>5, <3>6, <3>7
  <2>. QED  BY <2>2, <2>3
<1>5. CASE SendNothing
  BY <1>5, NothingTold
<1>6. CASE AndroidRunNsd
  <2>1. nsdQueue # <<>> /\ Head(nsdQueue) \in Events
    BY <1>1, <1>6, HeadTailProperties DEF AndroidRunNsd, AndroidTyped
  <2>2. \/ SendNothing
        \/ /\ Head(nsdQueue).kind \in {"lost", "resolve"}
           /\ \/ Send({Inactive(Head(nsdQueue).inst)})
              \/ \E hasHost \in BOOLEAN : Send({Active(Head(nsdQueue).inst, hasHost)})
    BY <1>6 DEF AndroidRunNsd, HandleLost, OnServiceFound, OnResolveAnswered
  <2>3. Head(nsdQueue).kind \in {"lost", "resolve"} => Head(nsdQueue).inst \in Insts
    BY <2>1, EventKinds
  <2>. QED  BY <1>3, <1>4, <1>5, <2>2, <2>3
<1>7. CASE AndroidRunMain
  <2>1. mainQueue # <<>> /\ Head(mainQueue) \in CbEvents
    BY <1>1, <1>7, HeadTailProperties DEF AndroidRunMain, AndroidTyped
  <2>2. \/ SendNothing \/ Send({Inactive(Head(mainQueue).cb.inst)})
        \/ \E hasHost \in BOOLEAN : Send({Active(Head(mainQueue).cb.inst, hasHost)})
    BY <1>7 DEF AndroidRunMain, HandleLost, OnServiceUpdated
  <2>3. Head(mainQueue).cb.inst \in Insts
    BY <2>1 DEF CbEvents, Callbacks
  <2>. QED  BY <1>3, <1>4, <1>5, <2>2, <2>3
<1>. QED  BY <1>5, <1>6, <1>7 DEF AndroidNext, AndroidBrowseStart, AndroidBrowseStop,
                                AndroidNetChanges

------------------------------------------------------------------------------
(* The steps of the iOS plug-in *)

Tells == (\A i \in Insts : LegalAt(i)) /\ Resolves /\ Updates

LEMMA AppliedSnapshot ==
    ASSUME NEW snapshot \in Snapshots, NEW endpoint \in Endpoints
    PROVE  /\ ApplyResolved(snapshot, endpoint) \in Snapshots
           /\ ApplyResolved(snapshot, endpoint) # Absent
<1> DEFINE merged == Append(snapshot.merged, endpoint)
<1>1. merged \in Seq(Endpoints) /\ merged # <<>>
  BY AppendProperties DEF Snapshots
<1>2. ApplyResolved(snapshot, endpoint) = [txt |-> snapshot.txt, merged |-> merged]
  <2>1. snapshot = [txt |-> snapshot.txt, merged |-> snapshot.merged]
    BY DEF Snapshots
  <2>2. \A t, m : [[txt |-> t, merged |-> m] EXCEPT !.merged = Append(@, endpoint)]
                     = [txt |-> t, merged |-> Append(m, endpoint)]
    BY SMTT(30)
  <2>. QED  BY <2>1, <2>2, Zenon DEF ApplyResolved
<1> HIDE DEF merged
<1>3. ApplyResolved(snapshot, endpoint) \in Snapshots
  BY <1>1, <1>2 DEF Snapshots
<1>. QED  BY <1>1, <1>2, <1>3, EndpointAssumption DEF Snapshots

LEMMA SnapshotOf ==
    ASSUME NEW i, NEW version \in Versions, resolved[i] \in Endpoints \cup {Absent}
    PROVE  /\ NextSnapshot(i, version) \in Snapshots /\ NextSnapshot(i, version) # Absent
           /\ HasEndpoint(NextSnapshot(i, version)) <=> resolved[i] \notin {Absent, Nowhere}
<1>1. Snapshot(version) \in Snapshots /\ Snapshot(version).merged = <<>>
  BY DEF Snapshot, Snapshots
<1>2. CASE resolved[i] = Absent
  <2>1. NextSnapshot(i, version) = Snapshot(version)
    BY <1>2 DEF NextSnapshot
  <2>. QED  BY <1>1, <1>2, <2>1, EndpointAssumption DEF HasEndpoint, Snapshots
<1>3. CASE resolved[i] # Absent
  <2> DEFINE merged == Append(<<>>, resolved[i])
  <2>1. /\ merged \in Seq(Endpoints) /\ merged # <<>>
        /\ Len(merged) = 1 /\ merged[1] = resolved[i]
    BY <1>3
  <2> HIDE DEF merged
  <2>2. ApplyResolved(Snapshot(version), resolved[i]) = [txt |-> version, merged |-> merged]
    BY DEF ApplyResolved, Snapshot, merged
  <2>3. NextSnapshot(i, version) = [txt |-> version, merged |-> merged]
    BY <1>3, <2>2 DEF NextSnapshot
  <2>4. NextSnapshot(i, version) \in Snapshots /\ NextSnapshot(i, version).merged = merged
    BY <2>1, <2>3 DEF Snapshots
  <2>. QED  BY <1>3, <2>1, <2>4, EndpointAssumption DEF HasEndpoint, Snapshots
<1>. QED  BY <1>2, <1>3

LEMMA TaskKinds ==
    \A t \in Tasks :
        /\ t.kind = "results" => t.net \in [Insts -> Versions \cup {Absent}]
        /\ t.kind = "resolution" => t.inst \in Insts /\ t.endpoint \in Endpoints
        /\ t.kind = "failure" => t.inst \in Insts
BY DEF Tasks

\* The queue's first block runs.
LEMMA FirstRuns ==
    ASSUME NEW q \in Seq(Tasks), q # <<>>, NEW now, LastIs(q, now)
    PROVE  /\ Head(q) \in Tasks /\ Tail(q) \in Seq(Tasks) /\ LastIs(Tail(q), now)
           /\ NoResults(Tail(q)) /\ Head(q).kind = "results" => Head(q).net = now
           /\ NoResults(Tail(q)) /\ Head(q).kind # "results" => NoResults(q)
<1> DEFINE r == Tail(q)
           n == Len(q)
<1>1. /\ n \in Nat /\ n # 0 /\ r \in Seq(Tasks) /\ Len(r) = n - 1
      /\ \A k \in 1..(n - 1) : r[k] = q[k + 1]
      /\ Head(q) = q[1] /\ Head(q) \in Tasks
  BY HeadTailProperties, LenProperties, EmptySeq
<1>2. \A k \in 1..n : q[k].kind = "results" /\ (\A j \in (k + 1)..n : q[j].kind # "results") =>
                          q[k].net = now
  BY DEF LastIs
<1> HIDE DEF r, n
<1>3. \A j \in 2..n : j - 1 \in 1..(n - 1) /\ r[j - 1] = q[j]
  BY <1>1
<1>4. ASSUME NEW k \in 1..(n - 1), r[k].kind = "results",
             \A j \in (k + 1)..(n - 1) : r[j].kind # "results"
      PROVE  r[k].net = now
  <2>1. k + 1 \in 1..n /\ r[k] = q[k + 1]
    BY <1>1
  <2>2. ASSUME NEW j \in ((k + 1) + 1)..n PROVE q[j].kind # "results"
    <3>1. j \in 2..n /\ j - 1 \in (k + 1)..(n - 1)
      BY <1>1
    <3>. QED  BY <1>3, <1>4, <3>1
  <2>. QED  BY <1>2, <1>4, <2>1, <2>2
<1>5. ASSUME NoResults(r) PROVE \A j \in 2..n : q[j].kind # "results"
  BY <1>1, <1>3, <1>5 DEF NoResults
<1>6. NoResults(r) /\ Head(q).kind = "results" => Head(q).net = now
  BY <1>1, <1>2, <1>5
<1>7. NoResults(r) /\ Head(q).kind # "results" => NoResults(q)
  BY <1>1, <1>5 DEF NoResults, n
<1>. QED  BY <1>1, <1>4, <1>6, <1>7 DEF LastIs, r

\* A block is posted.
LEMMA BlockPosted ==
    ASSUME NEW q \in Seq(Tasks), NEW t \in Tasks, NEW now
    PROVE  /\ Append(q, t) \in Seq(Tasks)
           /\ t.kind # "results" /\ LastIs(q, now) => LastIs(Append(q, t), now)
           /\ NoResults(Append(q, t)) => NoResults(q) /\ t.kind # "results"
           /\ t.kind = "results" /\ t.net = now => LastIs(Append(q, t), now)
<1> DEFINE r == Append(q, t)
           n == Len(q)
<1>1. /\ n \in Nat /\ r \in Seq(Tasks) /\ Len(r) = n + 1
      /\ r[n + 1] = t /\ \A k \in 1..n : r[k] = q[k]
  BY AppendProperties, LenProperties
<1> HIDE DEF r, n
<1>2. \A k \in 1..(n + 1) : k \in 1..n \/ k = n + 1
  BY <1>1
<1>3. ASSUME t.kind # "results", LastIs(q, now) PROVE LastIs(r, now)
  <2>1. SUFFICES ASSUME NEW k \in 1..(n + 1), r[k].kind = "results",
                        \A j \in (k + 1)..(n + 1) : r[j].kind # "results"
                 PROVE  r[k].net = now
    BY <1>1, <2>1 DEF LastIs
  <2>2. k \in 1..n /\ r[k] = q[k]
    BY <1>1, <1>2, <1>3, <2>1
  <2>3. \A j \in (k + 1)..n : q[j].kind # "results"
    BY <1>1, <2>1, <2>2
  <2>. QED  BY <1>3, <2>1, <2>2, <2>3 DEF LastIs, n
<1>4. NoResults(r) => NoResults(q) /\ t.kind # "results"
  BY <1>1 DEF NoResults, n
<1>5. ASSUME t.kind = "results", t.net = now PROVE LastIs(r, now)
  <2>1. SUFFICES ASSUME NEW k \in 1..(n + 1), r[k].kind = "results",
                        \A j \in (k + 1)..(n + 1) : r[j].kind # "results"
                 PROVE  r[k].net = now
    BY <1>1, <2>1 DEF LastIs
  <2>2. k = n + 1
    BY <1>1, <1>2, <1>5, <2>1
  <2>. QED  BY <1>1, <1>5, <2>2
<1>. QED  BY <1>1, <1>3, <1>4, <1>5 DEF r

\* A step that tells nothing and leaves what the session has of the services alone.
LEMMA SilentStep ==
    ASSUME IosInv, IosTyped', CommonTyped', SendNothing, UNCHANGED <<services, resolved>>,
           ResultsAreCurrent'
    PROVE  IosInv' /\ Tells
BY NothingTold DEF Tells, IosInv, Kept, SendNothing

LEMMA IosBrowseSteps ==
    ASSUME IosInv, IosBrowseStart \/ IosBrowseStop \/ RunStart \/ RunStop
    PROVE  IosInv' /\ Tells
<1>1. /\ IosTyped /\ CommonTyped /\ ResultsAreCurrent /\ tasks \in Seq(Tasks)
      /\ SendNothing /\ UNCHANGED <<services, resolved, made, net>>
  BY DEF IosInv, IosTyped, IosBrowseStart, IosBrowseStop, RunStart, RunStop
<1>2. CommonTyped'
  BY <1>1 DEF CommonTyped, SendNothing
<1>3. CASE IosBrowseStart
  <2>1. tasks' = <<[kind |-> "start"]>> /\ [kind |-> "start"] \in Tasks
    BY <1>3 DEF IosBrowseStart, Tasks
  <2>2. IosTyped'
    BY <1>1, <1>3, <2>1 DEF IosTyped, IosBrowseStart
  <2>3. ResultsAreCurrent'
    BY <1>3 DEF IosBrowseStart, ResultsAreCurrent
  <2>. QED  BY <1>1, <1>2, <2>2, <2>3, SilentStep
<1>4. CASE IosBrowseStop
  <2> DEFINE t == [kind |-> "stop"]
  <2>1. tasks' = Append(tasks, t) /\ t \in Tasks /\ t.kind # "results"
        /\ UNCHANGED <<session, running>>
    BY <1>4 DEF IosBrowseStop, Tasks
  <2> HIDE DEF t
  <2>2. IosTyped'
    BY <1>1, <2>1, BlockPosted DEF IosTyped
  <2>3. ResultsAreCurrent'
    BY <1>1, <2>1, BlockPosted DEF ResultsAreCurrent
  <2>. QED  BY <1>1, <1>2, <2>2, <2>3, SilentStep
<1>5. CASE RunStart
  <2> DEFINE t == Results
  <2>1. /\ tasks # <<>> /\ tasks' = Append(Tail(tasks), t) /\ UNCHANGED running
        /\ Tail(tasks) \in Seq(Tasks)
    BY <1>1, <1>5, HeadTailProperties DEF RunStart
  <2>2. t \in Tasks /\ t.kind = "results" /\ t.net = net
    BY <1>1 DEF Results, Tasks, CommonTyped
  <2> HIDE DEF t
  <2>3. IosTyped'
    BY <1>1, <2>1, <2>2, BlockPosted DEF IosTyped
  <2>4. LastIs(tasks', net) /\ ~NoResults(tasks')
    BY <1>1, <2>1, <2>2, BlockPosted
  <2>5. ResultsAreCurrent'
    BY <1>1, <2>4 DEF ResultsAreCurrent
  <2>. QED  BY <1>1, <1>2, <2>3, <2>5, SilentStep
<1>6. CASE RunStop
  <2>1. /\ tasks # <<>> /\ tasks' = Tail(tasks) /\ session' = "stopped"
        /\ Tail(tasks) \in Seq(Tasks)
    BY <1>1, <1>6, HeadTailProperties DEF RunStop
  <2>2. running' \subseteq [id : Nat, inst : Insts, cancelled : BOOLEAN]
    <3>1. running' = {[r EXCEPT !.cancelled = @ \/ r.id = resolvers[r.inst]] : r \in running}
      BY <1>6 DEF RunStop
    <3>. QED  BY <1>1, <3>1 DEF IosTyped
  <2>3. IosTyped'
    BY <1>1, <2>1, <2>2 DEF IosTyped
  <2>4. ResultsAreCurrent'
    BY <2>1 DEF ResultsAreCurrent
  <2>. QED  BY <1>1, <1>2, <2>3, <2>4, SilentStep
<1>. QED  BY <1>3, <1>4, <1>5, <1>6

LEMMA IosNetChangesStep ==
    ASSUME IosInv, NEW i \in Insts, NEW version \in Versions \cup {Absent},
           IosNetChanges(i, version)
    PROVE  IosInv' /\ Tells
<1> DEFINE t == [kind |-> "results", net |-> net']
<1>1. /\ net' = [net EXCEPT ![i] = version] /\ SendNothing
      /\ tasks' = IF session = "open" THEN Append(tasks, t) ELSE tasks
      /\ UNCHANGED <<session, services, resolved, resolvers, running, made>>
      /\ IosTyped /\ CommonTyped /\ ResultsAreCurrent /\ tasks \in Seq(Tasks)
  BY DEF IosInv, IosTyped, IosNetChanges, NetChanges, Results
<1>2. CommonTyped'
  BY <1>1 DEF CommonTyped, SendNothing
<1>3. t \in Tasks /\ t.kind = "results" /\ t.net = net'
  BY <1>2 DEF Tasks, CommonTyped
<1> HIDE DEF t
<1>4. IosTyped'
  BY <1>1, <1>3, BlockPosted DEF IosTyped
<1>5. ASSUME session = "open" PROVE LastIs(tasks', net') /\ ~NoResults(tasks')
  BY <1>1, <1>3, <1>5, BlockPosted
<1>6. ResultsAreCurrent'
  BY <1>1, <1>5 DEF ResultsAreCurrent
<1>. QED  BY <1>1, <1>2, <1>4, <1>6, SilentStep

LEMMA ResolverSettlesStep ==
    ASSUME IosInv, NEW r \in running, ResolverSettles(r)
    PROVE  IosInv' /\ Tells
<1>1. /\ running' = running \ {r} /\ SendNothing
      /\ UNCHANGED <<session, services, resolved, resolvers, made, net>>
      /\ IosTyped /\ CommonTyped /\ ResultsAreCurrent /\ tasks \in Seq(Tasks)
  BY DEF IosInv, IosTyped, ResolverSettles
<1>2. UNCHANGED tasks \/ \E t \in Tasks : t.kind # "results" /\ tasks' = Append(tasks, t)
  <2>1. r.inst \in Insts
    BY <1>1 DEF IosTyped
  <2>2. /\ \A e \in Endpoints :
              LET t == [kind |-> "resolution", inst |-> r.inst, endpoint |-> e]
              IN  t \in Tasks /\ t.kind # "results"
        /\ LET t == [kind |-> "failure", inst |-> r.inst] IN t \in Tasks /\ t.kind # "results"
    BY <2>1 DEF Tasks
  <2>. QED  BY <2>2 DEF ResolverSettles
<1>3. CommonTyped'
  BY <1>1 DEF CommonTyped, SendNothing
<1>4. CASE UNCHANGED tasks
  <2>1. IosTyped' /\ ResultsAreCurrent'
    BY <1>1, <1>4 DEF IosTyped, ResultsAreCurrent
  <2>. QED  BY <1>1, <1>3, <2>1, SilentStep
<1>5. ASSUME NEW t \in Tasks, t.kind # "results", tasks' = Append(tasks, t)
      PROVE  IosInv' /\ Tells
  <2>1. IosTyped'
    BY <1>1, <1>5, BlockPosted DEF IosTyped
  <2>2. ResultsAreCurrent'
    BY <1>1, <1>5, BlockPosted DEF ResultsAreCurrent
  <2>. QED  BY <1>1, <1>3, <2>1, <2>2, SilentStep
<1>. QED  BY <1>2, <1>4, <1>5

\* A resolver's answer: it counts only for an instance that is still there.
LEMMA RunResolutionStep ==
    ASSUME IosInv, RunResolution
    PROVE  IosInv' /\ Tells
<1> DEFINE t == Head(tasks)
           i == t.inst
<1>1. /\ tasks # <<>> /\ t.kind \in {"resolution", "failure"} /\ tasks' = Tail(tasks)
      /\ UNCHANGED <<session, running, made, net>>
      /\ IosTyped /\ CommonTyped /\ ResultsAreCurrent /\ tasks \in Seq(Tasks)
  BY DEF IosInv, IosTyped, RunResolution
<1>2. t \in Tasks /\ i \in Insts /\ Tail(tasks) \in Seq(Tasks)
  BY <1>1, HeadTailProperties, TaskKinds
<1>3. ASSUME \A j \in Insts : services'[j] = Absent <=> services[j] = Absent
      PROVE  ResultsAreCurrent'
  <2>1. SUFFICES ASSUME session = "open"
                 PROVE  /\ LastIs(Tail(tasks), net)
                        /\ NoResults(Tail(tasks)) =>
                              \A j \in Insts : services'[j] = Absent <=> net[j] = Absent
    BY <1>1, <2>1 DEF ResultsAreCurrent
  <2>2. LastIs(tasks, net)
    BY <1>1, <2>1 DEF ResultsAreCurrent
  <2>3. LastIs(Tail(tasks), net) /\ (NoResults(Tail(tasks)) => NoResults(tasks))
    BY <1>1, <2>2, FirstRuns
  <2>. QED  BY <1>1, <1>3, <2>1, <2>3 DEF ResultsAreCurrent
<1>4. CASE SendNothing /\ UNCHANGED <<resolved, services>>
  <2>1. IosTyped' /\ CommonTyped'
    BY <1>1, <1>2, <1>4 DEF IosTyped, CommonTyped, SendNothing
  <2>. QED  BY <1>3, <1>4, <2>1, SilentStep
<1>5. CASE /\ t.kind = "resolution" /\ services[i] # Absent
           /\ resolved' = [resolved EXCEPT ![i] = t.endpoint]
           /\ services' = [services EXCEPT ![i] = ApplyResolved(@, t.endpoint)]
           /\ Send({Active(i, t.endpoint # Nowhere)})
  <2> DEFINE e == t.endpoint
             snapshot == ApplyResolved(services[i], e)
  <2>1. e \in Endpoints /\ e # Absent
    BY <1>2, <1>5, TaskKinds, EndpointAssumption
  <2>2. /\ snapshot \in Snapshots /\ snapshot # Absent
    <3>1. services[i] \in Snapshots
      BY <1>1, <1>2, <1>5 DEF IosTyped
    <3>. QED  BY <2>1, <3>1, AppliedSnapshot
  <2> HIDE DEF snapshot
  <2>3. /\ services'[i] = snapshot /\ resolved'[i] = e
        /\ \A j \in Insts \ {i} : services'[j] = services[j] /\ resolved'[j] = resolved[j]
        /\ services' \in [Insts -> Snapshots \cup {Absent}]
        /\ resolved' \in [Insts -> Endpoints \cup {Absent}]
    BY <1>1, <1>2, <1>5, <2>1, <2>2 DEF IosTyped, snapshot
  <2>4. IosTyped'
    BY <1>1, <1>2, <2>3 DEF IosTyped
  <2>5. PICK hasHost \in BOOLEAN : hasHost = (e # Nowhere)
    OBVIOUS
  <2>6. /\ known' \in [Insts -> Phases]
        /\ known'[i] = PhaseAfter(known[i], Active(i, hasHost))
        /\ \A j \in Insts \ {i} : known'[j] = known[j]
        /\ Tells
    <3> DEFINE record == Active(i, hasHost)
               records == {record}
    <3>0. record.inst = i /\ record.resolved = hasHost /\ Permitted(record, known[i])
      BY DEF Permitted, Active
    <3>1. /\ \A r \in records : r.inst \in Insts /\ Permitted(r, known[r.inst])
          /\ \A r, q \in records : r.inst = q.inst => r = q
          /\ Send(records)
      BY <1>2, <1>5, <2>5, <3>0
    <3>2. \A r \in records : r.active /\ known[r.inst] = "resolved" =>
                                (r.resolved <=> resolved'[r.inst] # Nowhere)
      BY <2>3, <2>5, <3>0
    <3>3. /\ known' \in [Insts -> Phases]
          /\ \A r \in records : known'[r.inst] = PhaseAfter(known[r.inst], r)
          /\ \A j \in Insts : (\A r \in records : r.inst # j) => known'[j] = known[j]
          /\ Tells
      <4> HIDE DEF records
      <4>. QED  BY <1>1, <3>1, <3>2, SendPermitted DEF Tells
    <3> HIDE DEF record
    <3>. QED  BY <3>0, <3>3 DEF record
  <2>10. /\ known'[i] # "absent"
         /\ e # Nowhere => known'[i] = "resolved"
    BY <2>5, <2>6, PhaseOfRecord
  <2>7. CommonTyped'
    BY <1>1, <2>6 DEF CommonTyped
  <2>8. \A j \in Insts : Kept(j)'
    <3>1. SUFFICES ASSUME NEW j \in Insts PROVE Kept(j)'
      OBVIOUS
    <3>2. CASE j = i
      BY <2>1, <2>2, <2>3, <2>10, <3>2 DEF Kept
    <3>3. CASE j # i
      BY <2>3, <2>6, <3>3 DEF Kept, IosInv
    <3>. QED  BY <3>2, <3>3
  <2>9. ResultsAreCurrent'
    BY <1>3, <1>5, <2>2, <2>3
  <2>. QED  BY <2>4, <2>6, <2>7, <2>8, <2>9 DEF IosInv
<1>. QED  BY <1>4, <1>5 DEF RunResolution, ApplyResolution

\* A numbering of a finite set exists.
LEMMA NumberingExists ==
    ASSUME NEW S, IsFiniteSet(S)
    PROVE  /\ Cardinality(S) \in Nat
           /\ \E f \in [S -> 1..Cardinality(S)] : \A x, y \in S : f[x] = f[y] => x = y
<1> DEFINE n == Cardinality(S)
           q == SetToSeq(S)
           f == [x \in S |-> CHOOSE k \in 1..n : q[k] = x]
<1>1. /\ n \in Nat /\ \A x \in S : \E k \in 1..n : q[k] = x
  BY SetToSeqLemma
<1> HIDE DEF n, q
<1>2. \A x \in S : f[x] \in 1..n /\ q[f[x]] = x
  BY <1>1
<1>3. f \in [S -> 1..n]
  BY <1>2
<1> HIDE DEF f
<1>4. \A x, y \in S : f[x] = f[y] => x = y
  BY <1>2
<1>. QED  BY <1>1, <1>3, <1>4 DEF n

\* Results: what the consumer is told is what becomes of the session's services.
LEMMA RunResultsStep ==
    ASSUME IosInv, RunResults
    PROVE  IosInv' /\ Tells
<1> DEFINE t == Head(tasks)
           results == t.net
<1>1. /\ tasks # <<>> /\ t.kind = "results" /\ tasks' = Tail(tasks)
      /\ UNCHANGED <<session, net>>
      /\ IosTyped /\ CommonTyped /\ ResultsAreCurrent /\ tasks \in Seq(Tasks)
  BY DEF IosInv, IosTyped, RunResults
<1>2. t \in Tasks /\ Tail(tasks) \in Seq(Tasks)
      /\ results \in [Insts -> Versions \cup {Absent}]
  BY <1>1, HeadTailProperties, TaskKinds
<1>3. ASSUME session = "open"
      PROVE  /\ LastIs(Tail(tasks), net)
             /\ NoResults(Tail(tasks)) => results = net
  BY <1>1, <1>3, FirstRuns DEF ResultsAreCurrent
<1>4. CASE /\ session # "open" /\ SendNothing
           /\ UNCHANGED <<services, resolved, resolvers, running, made>>
  <2>1. IosTyped' /\ CommonTyped' /\ ResultsAreCurrent'
    BY <1>1, <1>2, <1>4 DEF IosTyped, CommonTyped, SendNothing, ResultsAreCurrent
  <2>. QED  BY <1>4, <2>1, SilentStep
<1>5. CASE session = "open"
  <2> DEFINE next == NextServices(results)
             gone == {i \in Insts : services[i] # Absent /\ results[i] = Absent}
             new  == {i \in Insts : /\ results[i] # Absent /\ resolved[i] = Absent
                                    /\ resolvers[i] = NoResolver}
             order == CHOOSE f \in [new -> 1..Cardinality(new)] :
                         \A i, j \in new : f[i] = f[j] => i = j
             changed == {j \in Insts : next[j] \notin {Absent, services[j]}}
             records == {Record(i, next[i]) : i \in changed} \cup {Inactive(i) : i \in gone}
             stillThere == {IF r.id \in {resolvers[i] : i \in gone}
                               THEN [r EXCEPT !.cancelled = TRUE] ELSE r : r \in running}
             started == {[id |-> made + order[i], inst |-> i, cancelled |-> FALSE] : i \in new}
  <2>1. /\ services' = next /\ Send(records)
        /\ resolved' = [i \in Insts |-> IF i \in gone THEN Absent ELSE resolved[i]]
        /\ made' = made + Cardinality(new)
        /\ running' = stillThere \cup started
    BY <1>1, <1>5 DEF RunResults
  <2>2. /\ order \in [new -> 1..Cardinality(new)] /\ Cardinality(new) \in Nat
    <3>1. IsFiniteSet(new)
      BY InstanceAssumption, FS_Subset
    <3> HIDE DEF new
    <3>. QED  BY <3>1, NumberingExists
  <2>3. \A i \in Insts :
           /\ next[i] \in Snapshots \cup {Absent}
           /\ next[i] = Absent <=> results[i] = Absent
           /\ next[i] # Absent =>
                  (HasEndpoint(next[i]) <=> resolved[i] \notin {Absent, Nowhere})
    <3>1. SUFFICES ASSUME NEW i \in Insts
                   PROVE  /\ next[i] \in Snapshots \cup {Absent}
                          /\ next[i] = Absent <=> results[i] = Absent
                          /\ next[i] # Absent =>
                                (HasEndpoint(next[i]) <=> resolved[i] \notin {Absent, Nowhere})
      OBVIOUS
    <3>2. next[i] = IF results[i] = Absent THEN Absent ELSE NextSnapshot(i, results[i])
      BY DEF NextServices
    <3>3. results[i] # Absent => results[i] \in Versions
      BY <1>2
    <3>4. resolved[i] \in Endpoints \cup {Absent}
      BY <1>1 DEF IosTyped
    <3> HIDE DEF next
    <3>. QED  BY <3>2, <3>3, <3>4, SnapshotOf
  <2>4. running' \subseteq [id : Nat, inst : Insts, cancelled : BOOLEAN]
    <3>1. running \subseteq [id : Nat, inst : Insts, cancelled : BOOLEAN] /\ made \in Nat
      BY <1>1 DEF IosTyped
    <3>2. \A i \in new : made + order[i] \in Nat /\ i \in Insts
      <4>1. \A i \in new : order[i] \in 1..Cardinality(new) /\ i \in Insts
        BY <2>2
      <4> HIDE DEF order, new
      <4>. QED  BY <2>2, <3>1, <4>1
    <3> HIDE DEF order, new, gone
    <3>3. \A r \in running : [r EXCEPT !.cancelled = TRUE] \in [id : Nat, inst : Insts, cancelled : BOOLEAN]
      BY <3>1
    <3>4. stillThere \subseteq [id : Nat, inst : Insts, cancelled : BOOLEAN]
      BY <3>1, <3>3
    <3>5. started \subseteq [id : Nat, inst : Insts, cancelled : BOOLEAN]
      <4>1. SUFFICES ASSUME NEW i \in new
                     PROVE  [id |-> made + order[i], inst |-> i, cancelled |-> FALSE]
                                \in [id : Nat, inst : Insts, cancelled : BOOLEAN]
        OBVIOUS
      <4>2. made + order[i] \in Nat /\ i \in Insts
        BY <3>2
      <4>. QED  BY <4>2
    <3> HIDE DEF stillThere, started
    <3>. QED  BY <2>1, <3>4, <3>5
  <2>5. /\ services' \in [Insts -> Snapshots \cup {Absent}]
        /\ resolved' \in [Insts -> Endpoints \cup {Absent}]
    <3>1. next = [i \in Insts |-> next[i]]
      BY DEF NextServices
    <3>2. services' = [i \in Insts |-> next[i]]
      BY <2>1, <3>1
    <3>3. resolved \in [Insts -> Endpoints \cup {Absent}]
      BY <1>1 DEF IosTyped
    <3> HIDE DEF next, gone
    <3>. QED  BY <2>1, <2>3, <3>2, <3>3
  <2>6. IosTyped'
    <3> HIDE DEF new
    <3>1. made' \in Nat
      BY <1>1, <2>1, <2>2 DEF IosTyped
    <3>. QED  BY <1>1, <1>2, <2>4, <2>5, <3>1 DEF IosTyped
  <2>7. \A i \in Insts : Kept(i)
    BY DEF IosInv
  <2>8. \A i \in changed :
           /\ Record(i, next[i]) = Active(i, HasEndpoint(next[i]))
           /\ HasEndpoint(next[i]) <=> resolved[i] \notin {Absent, Nowhere}
    BY <2>3 DEF Record
  <2>9. \A i \in changed : /\ i \notin gone /\ Record(i, next[i]).inst = i
                           /\ Record(i, next[i]).resolved = HasEndpoint(next[i])
                           /\ Permitted(Record(i, next[i]), known[i])
    <3>1. SUFFICES ASSUME NEW i \in changed
                   PROVE  /\ i \notin gone /\ Record(i, next[i]).inst = i
                          /\ Record(i, next[i]).resolved = HasEndpoint(next[i])
                          /\ Permitted(Record(i, next[i]), known[i])
      OBVIOUS
    <3>2. i \notin gone
      BY <2>3
    <3>3. PICK hasHost \in BOOLEAN : hasHost = HasEndpoint(next[i])
      BY DEF HasEndpoint
    <3>4. Record(i, next[i]) = Active(i, hasHost)
      BY <2>8, <3>3
    <3> HIDE DEF changed, gone, next
    <3>5. Active(i, hasHost).inst = i /\ Active(i, hasHost).resolved = hasHost
      BY DEF Active
    <3>. QED  BY <3>2, <3>3, <3>4, <3>5 DEF Permitted
  <2>10. \A i \in gone : Inactive(i).inst = i /\ Permitted(Inactive(i), known[i])
    BY <2>7 DEF Inactive, Permitted, Kept
  <2> HIDE DEF next
  <2>11. changed \subseteq Insts /\ gone \subseteq Insts
    OBVIOUS
  <2>12. \A i \in changed : Record(i, next[i]) \in records
    OBVIOUS
  <2>13. \A i \in gone : Inactive(i) \in records
    OBVIOUS
  <2>14. \A r \in records : \/ r.inst \in changed /\ r = Record(r.inst, next[r.inst])
                            \/ r.inst \in gone /\ r = Inactive(r.inst)
    <3> HIDE DEF changed, gone
    <3>. QED  BY <2>9, <2>10
  <2>15. /\ known' \in [Insts -> Phases]
         /\ \A r \in records : known'[r.inst] = PhaseAfter(known[r.inst], r)
         /\ \A i \in Insts : (\A r \in records : r.inst # i) => known'[i] = known[i]
         /\ Tells
    <3>1. \A r \in records : r.inst \in Insts /\ Permitted(r, known[r.inst])
      BY <2>9, <2>10, <2>11, <2>14
    <3>2. \A r, s \in records : r.inst = s.inst => r = s
      BY <2>9, <2>14
    <3>3. \A r \in records : r.active /\ known[r.inst] = "resolved" =>
                                (r.resolved <=> resolved'[r.inst] # Nowhere)
      <4>1. SUFFICES ASSUME NEW r \in records, r.active, known[r.inst] = "resolved"
                     PROVE  r.resolved <=> resolved'[r.inst] # Nowhere
        OBVIOUS
      <4>2. r.inst \in changed /\ r = Record(r.inst, next[r.inst])
        <5>1. r # Inactive(r.inst)
          BY <4>1 DEF Inactive
        <5>. QED  BY <2>14, <5>1
      <4>3. resolved'[r.inst] = resolved[r.inst] /\ resolved[r.inst] # Absent
        BY <2>1, <2>7, <2>9, <4>1, <4>2 DEF Kept
      <4>4. r.resolved = HasEndpoint(next[r.inst])
        BY <2>9, <4>2
      <4>. QED  BY <2>8, <4>2, <4>3, <4>4
    <3> HIDE DEF records
    <3>. QED  BY <1>1, <2>1, <3>1, <3>2, <3>3, SendPermitted DEF Tells
  <2>16. /\ \A i \in changed :
                known'[i] = IF resolved[i] \notin {Absent, Nowhere} THEN "resolved"
                            ELSE PhaseAfter(known[i], Active(i, FALSE))
         /\ \A i \in gone : known'[i] = "absent"
         /\ \A i \in Insts \ (changed \cup gone) : known'[i] = known[i]
    <3>1. \A i \in changed : known'[i] = PhaseAfter(known[i], Record(i, next[i]))
      BY <2>9, <2>12, <2>15
    <3>2. \A i \in changed :
             known'[i] = IF resolved[i] \notin {Absent, Nowhere} THEN "resolved"
                         ELSE PhaseAfter(known[i], Active(i, FALSE))
      <4>1. SUFFICES ASSUME NEW i \in changed
                     PROVE  known'[i] = IF resolved[i] \notin {Absent, Nowhere} THEN "resolved"
                                        ELSE PhaseAfter(known[i], Active(i, FALSE))
        OBVIOUS
      <4>2. PICK hasHost \in BOOLEAN : hasHost = HasEndpoint(next[i])
        BY DEF HasEndpoint
      <4> HIDE DEF changed
      <4>3. /\ known'[i] = PhaseAfter(known[i], Active(i, hasHost))
            /\ hasHost <=> resolved[i] \notin {Absent, Nowhere}
        BY <2>8, <3>1, <4>2
      <4>4. CASE hasHost = TRUE
        BY <4>3, <4>4, PhaseOfRecord
      <4>5. CASE hasHost = FALSE
        BY <4>3, <4>5
      <4>. QED  BY <4>4, <4>5
    <3>3. \A i \in gone : known'[i] = "absent"
      BY <2>10, <2>13, <2>15, PhaseOfRecord
    <3>4. \A i \in Insts \ (changed \cup gone) : \A r \in records : r.inst # i
      BY <2>14
    <3>. QED  BY <2>15, <3>2, <3>3, <3>4
  <2>17. \A i \in Insts : Kept(i)'
    <3>1. SUFFICES ASSUME NEW i \in Insts PROVE Kept(i)'
      OBVIOUS
    <3>2. Kept(i)
      BY <2>7
    <3>3. /\ services'[i] = next[i]
          /\ resolved'[i] = IF i \in gone THEN Absent ELSE resolved[i]
      BY <2>1
    <3>4. CASE i \in gone
      <4>1. known'[i] = "absent" /\ services'[i] = Absent /\ resolved'[i] = Absent
        BY <2>3, <2>16, <3>3, <3>4
      <4>. QED  BY <4>1 DEF Kept
    <3>5. CASE i \in changed
      <4>1. i \notin gone /\ next[i] # Absent
        BY <2>9, <3>5
      <4>2. PhaseAfter(known[i], Active(i, FALSE)) # "absent"
        BY PhaseOfRecord
      <4>3. PhaseAfter(known[i], Active(i, FALSE)) = "resolved" => known[i] = "resolved"
        <5>1. Active(i, FALSE).active = TRUE /\ Active(i, FALSE).resolved = FALSE
          BY DEF Active
        <5>. QED  BY <5>1 DEF PhaseAfter
      <4>4. /\ known'[i] # "absent" /\ resolved'[i] = resolved[i]
            /\ resolved[i] \notin {Absent, Nowhere} => known'[i] = "resolved"
            /\ known'[i] = "resolved" =>
                  resolved[i] \notin {Absent, Nowhere} \/ known[i] = "resolved"
        BY <2>16, <3>3, <3>5, <4>1, <4>2, <4>3
      <4> HIDE DEF changed, gone
      <4>. QED  BY <3>2, <3>3, <4>1, <4>4 DEF Kept
    <3>6. CASE i \notin gone /\ i \notin changed
      <4>1. known'[i] = known[i] /\ resolved'[i] = resolved[i]
        BY <2>16, <3>3, <3>6
      <4>2. next[i] = Absent <=> services[i] = Absent
        <5>1. next[i] = Absent \/ next[i] = services[i]
          BY <3>6
        <5>2. services[i] # Absent => results[i] # Absent
          BY <3>6
        <5>. QED  BY <2>3, <5>1, <5>2
      <4>. QED  BY <2>3, <3>2, <3>3, <4>1, <4>2 DEF Kept
    <3>. QED  BY <3>4, <3>5, <3>6
  <2>18. ResultsAreCurrent'
    <3>1. LastIs(tasks', net')
      BY <1>1, <1>3, <1>5
    <3>2. ASSUME NoResults(tasks'), NEW i \in Insts PROVE services'[i] = Absent <=> net'[i] = Absent
      BY <1>1, <1>3, <1>5, <2>1, <2>3, <3>2
    <3>. QED  BY <3>1, <3>2 DEF ResultsAreCurrent
  <2>19. CommonTyped'
    BY <1>1, <2>15 DEF CommonTyped
  <2>. QED  BY <2>6, <2>15, <2>17, <2>18, <2>19 DEF IosInv
<1>. QED  BY <1>4, <1>5 DEF RunResults

LEMMA IosInitial == CommonInit /\ IosInit => IosInv
<1>. SUFFICES ASSUME CommonInit, IosInit PROVE IosInv
  OBVIOUS
<1>1. CommonTyped /\ IosTyped
  BY DEF CommonInit, CommonTyped, Phases, IosInit, IosTyped
<1>2. \A i \in Insts : Kept(i)
  BY DEF CommonInit, IosInit, Kept
<1>3. ResultsAreCurrent
  BY DEF IosInit, ResultsAreCurrent
<1>. QED  BY <1>1, <1>2, <1>3 DEF IosInv

LEMMA IosStep ==
    ASSUME IosInv, IosNext
    PROVE  IosInv' /\ Tells
<1>1. CASE IosBrowseStart \/ IosBrowseStop \/ RunStart \/ RunStop
  BY <1>1, IosBrowseSteps
<1>2. CASE \E i \in Insts : \E v \in Versions \cup {Absent} : IosNetChanges(i, v)
  BY <1>2, IosNetChangesStep
<1>3. CASE RunResults
  BY <1>3, RunResultsStep
<1>4. CASE RunResolution
  BY <1>4, RunResolutionStep
<1>5. CASE \E r \in running : ResolverSettles(r)
  BY <1>5, ResolverSettlesStep
<1>. QED  BY <1>1, <1>2, <1>3, <1>4, <1>5 DEF IosNext

LEMMA IosStutter ==
    ASSUME IosInv, UNCHANGED <<common, iosVars>>
    PROVE  IosInv'
BY DEF IosInv, CommonTyped, IosTyped, Kept, ResultsAreCurrent, LastIs, NoResults, common, iosVars

LEMMA IosAgrees ==
    ASSUME IosInv, IosSettled, NEW i \in Insts
    PROVE  known[i] # "absent" <=> net[i] # Absent
<1>1. NoResults(tasks)
  BY EmptySeq DEF IosSettled, NoResults
<1>2. services[i] = Absent <=> net[i] = Absent
  BY <1>1 DEF IosInv, ResultsAreCurrent, IosSettled
<1>. QED  BY <1>2 DEF IosInv, Kept

------------------------------------------------------------------------------
(* The theorems *)

\* DnsSdPlugin.swift: what the consumer was told is what the session keeps, and the
\* last results posted are those of the system.
THEOREM IosInvariant == Spec => [](platform = "ios" => IosInv)
<1> DEFINE J == platform = "ios" => IosInv
<1>1. Init => J
  BY IosInitial DEF Init
<1>2. J /\ [Next]_vars => J'
  <2>1. SUFFICES ASSUME J, [Next]_vars, platform' = "ios" PROVE IosInv'
    OBVIOUS
  <2>2. CASE platform = "android" /\ AndroidNext /\ UNCHANGED <<platform, iosVars>>
    BY <2>1, <2>2
  <2>3. CASE platform = "ios" /\ IosNext /\ UNCHANGED <<platform, androidVars>>
    BY <2>1, <2>3, IosStep
  <2>4. CASE UNCHANGED vars
    BY <2>1, <2>4, IosStutter DEF vars
  <2>. QED  BY <2>1, <2>2, <2>3, <2>4 DEF Next
<1> HIDE DEF J
<1>3. Spec => []J
  BY <1>1, <1>2, PTL DEF Spec
<1>. QED  BY <1>3 DEF J

\* DnsSdPlugin.kt and DnsSdPlugin.swift: what is still to be handled, of each
\* instance, ends in what the system has of it, however far the two queues of Android
\* are apart.
THEOREM MobileInvariant == Spec => []MobileInv
<1>1. Init => MobileInv
  BY IosInitial, AndroidInitial DEF Init, MobileInv
<1>2. MobileInv /\ [Next]_vars => MobileInv'
  <2>1. SUFFICES ASSUME MobileInv, [Next]_vars PROVE MobileInv'
    OBVIOUS
  <2>2. CASE platform = "android" /\ AndroidNext /\ UNCHANGED <<platform, iosVars>>
    BY <2>1, <2>2, AndroidStep DEF MobileInv
  <2>3. CASE platform = "ios" /\ IosNext /\ UNCHANGED <<platform, androidVars>>
    BY <2>1, <2>3, IosStep DEF MobileInv
  <2>4. CASE UNCHANGED vars
    BY <2>1, <2>4, IosStutter, AndroidStutter DEF vars, MobileInv
  <2>. QED  BY <2>1, <2>2, <2>3, <2>4 DEF Next
<1>. QED  BY <1>1, <1>2, PTL DEF Spec

\* adapter-core.ts over either plug-in: once everything under way is handled, the
\* consumer of an open browse believes in exactly the instances the system has, but
\* for failed resolutions and late updates on Android.
THEOREM ConsumerAgrees == Spec => []AgreesWithSystem
<1>1. MobileInv => AgreesWithSystem
  BY AndroidAgrees, IosAgrees DEF MobileInv, AgreesWithSystem
<1>. QED  BY <1>1, MobileInvariant, PTL

\* adapter-core.ts over either plug-in: the consumer sees every instance through the
\* life every backend promises, but that Android removes what it has not told of;
\* what is told as resolved has host and port, and on iOS an update has them exactly
\* if the answer applied last had.
THEOREM LifecycleIsKept == Spec => LifecycleKept
<1> DEFINE Step ==
        /\ \A i \in Insts :
             \/ RemovesUntold(i)
             \/ Abstract!Legal({k \in Abstract!Kind : <<i, k>> \in {<<r[1], r[2]>> : r \in reports'}},
                               known[i], known'[i])
        /\ \A r \in reports' :
             /\ r[2] = "resolved" => r[3]
             /\ r[2] = "updated" /\ platform = "ios" => (r[3] <=> resolved'[r[1]] # Nowhere)
<1>1. ASSUME MobileInv, [Next]_vars PROVE [Step]_vars
  <2>1. CASE platform = "ios" /\ IosNext /\ UNCHANGED <<platform, androidVars>>
    <3>1. (\A i \in Insts : LegalAt(i)) /\ Resolves /\ Updates
      BY <1>1, <2>1, IosStep DEF MobileInv, Tells
    <3>. QED  BY <3>1 DEF LegalAt, Resolves, Updates
  <2>2. CASE platform = "android" /\ AndroidNext /\ UNCHANGED <<platform, iosVars>>
    <3>1. (\A i \in Insts : RemovesUntold(i) \/ LegalAt(i)) /\ Resolves
      BY <1>1, <2>2, AndroidReports DEF MobileInv
    <3>. QED  BY <2>2, <3>1 DEF LegalAt, Resolves
  <2>3. CASE UNCHANGED vars
    BY <2>3
  <2>. QED  BY <1>1, <2>1, <2>2, <2>3 DEF Next
<1>2. Spec => []MobileInv
  BY MobileInvariant
<1>3. Spec => [][Next]_vars
  BY PTL DEF Spec
<1>. QED  BY <1>1, <1>2, <1>3, PTL DEF LifecycleKept
=============================================================================
