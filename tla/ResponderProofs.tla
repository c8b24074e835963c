--------------------------- MODULE ResponderProofs ---------------------------
(***************************************************************************)
(* Proofs about Responder, for any number of renames, probes and           *)
(* announcements and any record data.  RInv, the inductive invariant, adds  *)
(* to the properties of the run what they rest on: which flags go together, *)
(* that names are taken in order, and what each pending timer says of the   *)
(* probes already sent.                                                    *)
(*                                                                         *)
(* The second part is about NameClaim, two of them and the link.  It looks *)
(* at each responder only as far as the other can tell (a view: its phase,  *)
(* name, probes sent), and ClaimInv says what either can still hear of the  *)
(* other before it would claim a name that the other has.                  *)
(***************************************************************************)
EXTENDS NameClaim, TLAPS, WellFoundedInduction, NaturalsInduction

\* The flags of the lifecycle: a responder is registered while it is started and
\* not closed, and announces from the moment its promise resolves.
FlagsAgree ==
    /\ registered <=> started /\ ~closed
    /\ announcing <=> ready = "resolved"
    /\ ready = "rejected" => closed
    /\ ~started => timers = {} /\ ~announcing /\ contested = {} /\ claimed = {}
    /\ closed => timers = {} /\ started
    /\ flushTimer => announcing
    /\ claimed # {} => announcing

\* Names are taken in the order of their numbers, and the records are those of
\* the current one.
NamesInOrder ==
    /\ ~closed => instanceName = renameAttempt
    /\ renameAttempt > MaxRename => closed
    /\ records = IF started THEN RecordsOf(instanceName) ELSE {}
    /\ \A n \in contested \cup claimed : n <= instanceName

\* What a pending timer says of the probes sent for the current name.
ProbesCounted ==
    \A t \in timers :
        /\ t.fn = "sendProbe" => probes = t.sent
        /\ t.fn = "onProbeDone" => probes = ProbeCount

\* A conflict heard under the current name is remembered until it is given up,
\* and is only remembered before the first claim.
ConflictRemembered ==
    /\ ~closed /\ instanceName \in contested => probeConflict
    /\ probeConflict => ~announcing

\* Only stop(), the engine or the last failed rename close a responder.
ClosedForAReason ==
    /\ closed => stopped \/ engineClosed \/ renameAttempt > MaxRename
    /\ stopped => closed

RInv ==
    /\ TypeOK
    /\ FlagsAgree
    /\ NamesInOrder
    /\ ProbesCounted
    /\ ConflictRemembered
    /\ ClosedForAReason
    /\ WindowHasTimer
    /\ PendingAnswersAreCurrent
    /\ OneChain
    /\ SilentUntilReady
    /\ StopWithdrawsLastName

------------------------------------------------------------------------------
(* Lemmas about records and timers *)

\* The records of a name that can be taken are records the responder may own.
LEMMA RecordsAreOurs ==
    ASSUME NEW n \in Names
    PROVE  RecordsOf(n) \subseteq OurRecord
BY DEF OurRecord

\* Answers and their additionals are records of the current name.
LEMMA AnswersAreRecords ==
    ASSUME NEW answers, answers \subseteq records
    PROVE  WithAdditionals(answers) \subseteq records
BY DEF WithAdditionals, Unique

LEMMA AnswersForAreRecords ==
    ASSUME NEW questions, NEW known
    PROVE  AnswersFor(questions, known) \subseteq records
BY DEF AnswersFor

\* What is known of a timer from its closure.
LEMMA TimersTyped ==
    /\ FlushTimer \in TimerSet
    /\ Timer("onProbeDone", 0) \in TimerSet
    /\ Timer("sendProbe", 0) \in TimerSet
    /\ \A k \in Nat : k < ProbeCount => Timer("sendProbe", k) \in TimerSet
    /\ \A k \in Nat : 0 < k /\ k < AnnounceCount => Timer("announce", k) \in TimerSet
BY ProbeAssumption, AnnounceAssumption DEF TimerSet, Timer, FlushTimer

LEMMA TimerFields ==
    ASSUME NEW t \in TimerSet
    PROVE  /\ t.fn \in {"sendProbe", "announce", "onProbeDone", "flush"}
           /\ t.sent \in Nat
           /\ t = Timer(t.fn, t.sent)
           /\ t.fn = "sendProbe" => t.sent < ProbeCount
           /\ t.fn = "announce" => t.sent < AnnounceCount /\ t.sent > 0
           /\ t.fn = "flush" <=> t = FlushTimer
           /\ t.fn = "onProbeDone" <=> t = Timer("onProbeDone", 0)
BY ProbeAssumption, AnnounceAssumption DEF TimerSet, Timer, FlushTimer

------------------------------------------------------------------------------
(* Type correctness *)

LEMMA RenameTypeOK ==
    ASSUME TypeOK, NEW remaining, remaining \subseteq TimerSet,
           ProbeNextName(remaining)
    PROVE  /\ instanceName' \in Names /\ renameAttempt' \in Nat
           /\ records' \subseteq OurRecord /\ timers' \subseteq TimerSet
           /\ probeConflict' \in BOOLEAN /\ probes' \in Nat
           /\ UNCHANGED <<started, closed, registered, ready>>
<1>1. renameAttempt + 1 \in Names
  BY MaxRenameAssumption DEF TypeOK, ProbeNextName, Names
<1>2. renameAttempt + 1 \in Nat
  BY DEF TypeOK
<1>3. records' \subseteq OurRecord
  BY <1>1, RecordsAreOurs DEF ProbeNextName
<1>4. timers' \subseteq TimerSet
  BY TimersTyped DEF ProbeNextName
<1> QED
  BY <1>1, <1>2, <1>3, <1>4 DEF ProbeNextName, control

LEMMA GiveUpTypeOK ==
    ASSUME TypeOK, GiveUp
    PROVE  /\ instanceName' \in Names /\ renameAttempt' \in Nat
           /\ records' \subseteq OurRecord /\ timers' \subseteq TimerSet
           /\ probeConflict' \in BOOLEAN /\ probes' \in Nat
           /\ ready' \in {"pending", "resolved", "rejected"}
           /\ started' = started /\ closed' \in BOOLEAN /\ registered' \in BOOLEAN
           /\ pendingAnswers' \subseteq OurRecord /\ flushTimer' \in BOOLEAN
<1>1. renameAttempt' \in Nat
  BY DEF TypeOK, GiveUp
<1>2. ready' \in {"pending", "resolved", "rejected"}
  BY DEF TypeOK, GiveUp
<1>3. UNCHANGED <<instanceName, records, probeConflict, probes>> /\ Close
  BY DEF GiveUp
<1> QED
  BY <1>1, <1>2, <1>3, Zenon DEF TypeOK, Close

LEMMA TypeInit == Init => TypeOK
<1>1. 0 \in Names
  BY MaxRenameAssumption DEF Names
<1>2. Init => instanceName \in Names /\ renameAttempt \in Nat /\ probes \in Nat
  BY <1>1 DEF Init
<1> QED
  BY <1>2, Zenon DEF Init, TypeOK

LEMMA TypeStep ==
    ASSUME TypeOK, [Next]_vars
    PROVE  TypeOK'
<1> USE DEF TypeOK
<1>1. CASE Start
  BY <1>1, RecordsAreOurs, TimersTyped DEF Start, window
<1>2. CASE SendProbe
  <2> PICK t \in timers : /\ t.fn = "sendProbe"
                          /\ probes' = probes + 1
                          /\ timers' = (timers \ {t}) \cup
                               {IF t.sent + 1 >= ProbeCount
                                THEN Timer("onProbeDone", 0)
                                ELSE Timer("sendProbe", t.sent + 1)}
    BY <1>2 DEF SendProbe
  <2>1. t.sent + 1 \in Nat
    BY TimerFields
  <2>2. timers' \subseteq TimerSet
    BY <2>1, TimersTyped, ProbeAssumption
  <2> QED
    BY <1>2, <2>2 DEF SendProbe, control, naming, window
<1>3. CASE ClaimName
  <2>1. timers' \subseteq TimerSet
    BY <1>3, TimersTyped, AnnounceAssumption DEF ClaimName, AnnounceAgain
  <2>2. exposed' \subseteq OurRecord
    BY <1>3 DEF ClaimName, Send
  <2> QED
    BY <1>3, <2>1, <2>2 DEF ClaimName, control, naming, window
<1>4. CASE LoseName
  <2>1. CASE GiveUp
    BY <1>4, <2>1, GiveUpTypeOK DEF LoseName
  <2>2. CASE ProbeNextName(timers \ {Timer("onProbeDone", 0)}) /\ UNCHANGED window
    BY <1>4, <2>2, RenameTypeOK DEF LoseName, window
  <2> QED
    BY <1>4, <2>1, <2>2 DEF LoseName, Rename
<1>5. CASE Announce
  <2> PICK t \in timers : /\ t.fn = "announce"
                          /\ Send(records)
                          /\ AnnounceAgain(timers \ {t}, t.sent + 1)
    BY <1>5 DEF Announce
  <2>1. t.sent + 1 \in Nat /\ 0 < t.sent + 1
    BY TimerFields
  <2>2. timers' \subseteq TimerSet
    BY <2>1, TimersTyped, AnnounceAssumption DEF AnnounceAgain
  <2>3. exposed' \subseteq OurRecord
    BY DEF Send
  <2> QED
    BY <1>5, <2>2, <2>3 DEF Announce, control, naming, window
<1>6. CASE FlushAnswers
  <2>1. WithAdditionals(pendingAnswers) \subseteq OurRecord
    BY DEF WithAdditionals, Unique
  <2> QED
    BY <1>6, <2>1 DEF FlushAnswers, Send, control, naming
<1>7. ASSUME NEW n \in Names, NEW a \in PeerProbe(n), OnRivalProbe(n, a)
      PROVE  TypeOK'
  <2>1. LosesTieBreak(records, a) \in BOOLEAN
    BY DEF LosesTieBreak
  <2> QED
    BY <1>7, <2>1 DEF OnRivalProbe, control, naming, window
<1>8. ASSUME NEW n \in Names, NEW a \in PeerProbe(n), OnLateProbe(n, a)
      PROVE  TypeOK'
  <2>1. exposed' \subseteq OurRecord
    BY <1>8, AnswersForAreRecords, AnswersAreRecords DEF OnLateProbe, Send
  <2> QED
    BY <1>8, <2>1 DEF OnLateProbe, control, naming, window
<1>9. ASSUME NEW q \in Question, NEW known \in KnownAnswers, OnQuery(q, known)
      PROVE  TypeOK'
  <2>1. pendingAnswers' \subseteq OurRecord
    BY <1>9, AnswersForAreRecords DEF OnQuery
  <2> QED
    BY <1>9, <2>1, TimersTyped DEF OnQuery, control, naming, history
<1>10. ASSUME NEW a \in PeerRecord, OnConflict(a)
       PROVE  TypeOK'
  <2>1. CASE ~announcing /\ probeConflict' = TRUE
               /\ UNCHANGED <<control, naming, timers, window, ready, probes>>
    BY <1>10, <2>1 DEF OnConflict, control, naming, window
  <2>2. CASE GiveUp
    BY <1>10, <2>2, GiveUpTypeOK DEF OnConflict
  <2>3. CASE ProbeNextName({}) /\ pendingAnswers' = {} /\ flushTimer' = FALSE
    BY <1>10, <2>3, RenameTypeOK DEF OnConflict
  <2> QED
    BY <1>10, <2>1, <2>2, <2>3 DEF OnConflict, Reprobe
<1>11. CASE Stop
  BY <1>11 DEF Stop, Close, control, naming, window
<1>12. CASE EngineClose
  BY <1>12 DEF EngineClose, Close, control, naming, window, history
<1>13. CASE UNCHANGED vars
  BY <1>13 DEF vars, control, naming, window, history
<1> QED
  BY <1>1, <1>2, <1>3, <1>4, <1>5, <1>6, <1>7, <1>8, <1>9, <1>10, <1>11, <1>12, <1>13
  DEF Next, TimerFires, FromPeers

\* Every variable keeps its type, whatever the peers send.
THEOREM TypeCorrect == Spec => []TypeOK
BY TypeInit, TypeStep, PTL DEF Spec

------------------------------------------------------------------------------
(* The inductive invariant *)

LEMMA RInvInit == Init => RInv
<1> SUFFICES ASSUME Init PROVE RInv
  OBVIOUS
<1>1. TypeOK
  BY TypeInit
<1>2. NamesInOrder
  BY MaxRenameAssumption DEF Init, NamesInOrder
<1>3. FlagsAgree /\ ConflictRemembered /\ ClosedForAReason
  BY DEF Init, FlagsAgree, ConflictRemembered, ClosedForAReason
<1>4. ProbesCounted /\ OneChain /\ SilentUntilReady
  BY DEF Init, ProbesCounted, OneChain, SilentUntilReady
<1>5. WindowHasTimer /\ PendingAnswersAreCurrent /\ StopWithdrawsLastName
  BY DEF Init, WindowHasTimer, PendingAnswersAreCurrent, StopWithdrawsLastName
<1> QED
  BY <1>1, <1>2, <1>3, <1>4, <1>5 DEF RInv

\* close() for a given reason keeps the invariant, whatever the caller adds.
LEMMA CloseRInv ==
    ASSUME RInv, TypeOK', started, Close,
           stopped' \/ engineClosed' \/ renameAttempt' > MaxRename,
           ready' = "rejected" => ready # "resolved",
           ready # "resolved" => ready' # "resolved",
           ready = "resolved" => ready' = "resolved",
           UNCHANGED <<announcing, probeConflict, instanceName, records, claimed>>,
           contested' \subseteq contested \cup {instanceName},
           SilentUntilReady', StopWithdrawsLastName'
    PROVE  RInv'
<1> USE DEF RInv, Close
<1>1. FlagsAgree'
  BY DEF FlagsAgree
<1>2. NamesInOrder'
  <2>1. \A n \in (contested \cup claimed)' : n <= instanceName'
    BY DEF NamesInOrder, TypeOK, Names
  <2> QED
    BY <2>1 DEF NamesInOrder
<1>3. ProbesCounted' /\ OneChain' /\ ConflictRemembered'
  BY DEF ProbesCounted, OneChain, ConflictRemembered
<1>4. ClosedForAReason'
  BY DEF ClosedForAReason
<1>5. WindowHasTimer' /\ PendingAnswersAreCurrent'
  BY DEF WindowHasTimer, PendingAnswersAreCurrent
<1> QED
  BY <1>1, <1>2, <1>3, <1>4, <1>5

\* Moving on to the next name keeps the invariant, once the timers of the name
\* given up are gone.
LEMMA NextNameRInv ==
    ASSUME RInv, TypeOK', started, ~closed,
           NEW remaining, remaining \subseteq {FlushTimer},
           ProbeNextName(remaining),
           flushTimer' <=> FlushTimer \in remaining,
           flushTimer' => announcing, pendingAnswers' = {},
           UNCHANGED <<announcing, engineClosed, claimed, exposed, stopped>>,
           contested' \subseteq contested \cup {instanceName}
    PROVE  RInv'
<1> USE DEF RInv
<1>1. /\ instanceName' = instanceName + 1 /\ instanceName \in Nat
      /\ renameAttempt' = instanceName'
      /\ started' = started /\ closed' = closed /\ registered' = registered
      /\ ready' = ready /\ probes' = 0 /\ probeConflict' = FALSE
      /\ records' = RecordsOf(instanceName')
      /\ timers' = remaining \cup {Timer("sendProbe", 0)}
      /\ renameAttempt' <= MaxRename
  BY MaxRenameAssumption DEF ProbeNextName, control, NamesInOrder, TypeOK, Names
<1>2. Timer("sendProbe", 0) # FlushTimer
  BY DEF Timer, FlushTimer
<1>3. FlagsAgree'
  BY <1>1 DEF FlagsAgree
<1>4. \A n \in (contested \cup claimed)' : n \in Nat /\ n < instanceName'
  BY <1>1 DEF NamesInOrder, TypeOK, Names
<1>5. NamesInOrder'
  BY <1>1, <1>4, MaxRenameAssumption DEF NamesInOrder
<1>6. ProbesCounted'
  BY <1>1 DEF ProbesCounted, Timer, FlushTimer
<1>7. ConflictRemembered' /\ ClosedForAReason'
  BY <1>1, <1>4 DEF ConflictRemembered, ClosedForAReason
<1>8. WindowHasTimer' /\ PendingAnswersAreCurrent' /\ StopWithdrawsLastName'
  BY <1>1, <1>2 DEF WindowHasTimer, PendingAnswersAreCurrent, StopWithdrawsLastName,
                    ClosedForAReason
<1>9. OneChain'
  <2>1. \A t, u \in timers' \ {FlushTimer} : t = u
    BY <1>1
  <2>2. Timer("sendProbe", 0) \in timers' /\ Timer("sendProbe", 0).fn = "sendProbe"
    BY <1>1 DEF Timer
  <2> QED
    BY <2>1, <2>2 DEF OneChain
<1>10. SilentUntilReady'
  BY <1>1 DEF SilentUntilReady
<1> QED
  BY <1>3, <1>5, <1>6, <1>7, <1>8, <1>9, <1>10

\* A responder that has run out of names closes; nothing is left to withdraw
\* unless it had claimed one before.
LEMMA GiveUpRInv ==
    ASSUME RInv, TypeOK', started, ~closed, GiveUp,
           UNCHANGED <<announcing, engineClosed, claimed, exposed, stopped>>,
           contested' \subseteq contested \cup {instanceName}
    PROVE  RInv'
<1>1. renameAttempt' > MaxRename /\ renameAttempt' \in Nat
  BY DEF GiveUp, RInv, TypeOK
<1>2. SilentUntilReady'
  BY DEF GiveUp, RInv, SilentUntilReady, FlagsAgree
<1>3. StopWithdrawsLastName'
  BY <1>1, MaxRenameAssumption DEF StopWithdrawsLastName
<1> QED
  BY <1>1, <1>2, <1>3, CloseRInv DEF GiveUp

LEMMA RInvStep ==
    ASSUME RInv, [Next]_vars
    PROVE  RInv'
<1> USE DEF RInv
<1>0. TypeOK'
  BY TypeStep
<1>1. CASE Start
  <2>1. /\ ~started /\ ~closed /\ timers = {} /\ ~announcing /\ ready # "resolved"
        /\ contested = {} /\ claimed = {}
    BY <1>1 DEF Start, FlagsAgree
  <2>2. Timer("sendProbe", 0) # FlushTimer
    BY DEF Timer, FlushTimer
  <2>3. FlagsAgree'
    BY <1>1, <2>1 DEF Start, FlagsAgree, window
  <2>4. NamesInOrder'
    BY <1>1, <2>1 DEF Start, NamesInOrder
  <2>5. ProbesCounted' /\ ConflictRemembered' /\ ClosedForAReason'
    BY <1>1, <2>1 DEF Start, ProbesCounted, ConflictRemembered, ClosedForAReason, Timer
  <2>6. WindowHasTimer'
    BY <1>1, <2>1, <2>2 DEF Start, WindowHasTimer, window
  <2>7. PendingAnswersAreCurrent'
    BY <1>1, <2>1 DEF Start, PendingAnswersAreCurrent, WindowHasTimer, window
  <2>8. OneChain'
    <3>1. timers' = {Timer("sendProbe", 0)} /\ Timer("sendProbe", 0).fn = "sendProbe"
      BY <1>1, <2>1 DEF Start, Timer
    <3> QED
      BY <3>1 DEF OneChain
  <2>9. SilentUntilReady' /\ StopWithdrawsLastName'
    BY <1>1, <2>1 DEF Start, SilentUntilReady, StopWithdrawsLastName, ClosedForAReason
  <2> QED
    BY <1>0, <2>3, <2>4, <2>5, <2>6, <2>7, <2>8, <2>9
<1>2. CASE SendProbe
  <2> PICK t \in timers : /\ t.fn = "sendProbe"
                          /\ probes' = probes + 1
                          /\ timers' = (timers \ {t}) \cup
                               {IF t.sent + 1 >= ProbeCount
                                THEN Timer("onProbeDone", 0)
                                ELSE Timer("sendProbe", t.sent + 1)}
    BY <1>2 DEF SendProbe
  <2> DEFINE next == IF t.sent + 1 >= ProbeCount THEN Timer("onProbeDone", 0)
                                                 ELSE Timer("sendProbe", t.sent + 1)
  <2>1. /\ t.sent \in Nat /\ t.sent < ProbeCount /\ t # FlushTimer
        /\ probes = t.sent /\ started /\ ~closed
    BY TimerFields DEF TypeOK, ProbesCounted, FlagsAgree
  <2>2. next # FlushTimer /\ next.fn \in {"sendProbe", "onProbeDone"}
    BY DEF Timer, FlushTimer
  <2>3. next.fn = "sendProbe" => next.sent = probes + 1
    BY <2>1 DEF Timer
  <2>4. next.fn = "onProbeDone" => probes + 1 = ProbeCount
    BY <2>1, ProbeAssumption DEF Timer
  <2>5. timers' = (timers \ {t}) \cup {next}
    OBVIOUS
  <2> HIDE DEF next
  <2>6. timers' \ {FlushTimer} = {next}
    BY <2>1, <2>2, <2>5 DEF OneChain
  <2>7. FlushTimer \in timers' <=> FlushTimer \in timers
    BY <2>1, <2>2, <2>5
  <2>8. UNCHANGED <<control, naming, probeConflict, announcing, window, ready,
                    engineClosed, contested, claimed, exposed, stopped>>
    BY <1>2 DEF SendProbe
  <2>9. ProbesCounted'
    BY <2>1, <2>3, <2>4, <2>6 DEF ProbesCounted, FlushTimer, Timer
  <2>10. OneChain'
    BY <2>2, <2>6, <2>5 DEF OneChain
  <2>11. FlagsAgree' /\ NamesInOrder' /\ ConflictRemembered' /\ ClosedForAReason'
    BY <2>1, <2>8 DEF FlagsAgree, NamesInOrder, ConflictRemembered, ClosedForAReason,
                      control, naming, window
  <2>12. WindowHasTimer' /\ PendingAnswersAreCurrent' /\ SilentUntilReady'
         /\ StopWithdrawsLastName'
    BY <2>7, <2>8 DEF WindowHasTimer, PendingAnswersAreCurrent, SilentUntilReady,
                      StopWithdrawsLastName, naming, window
  <2> QED
    BY <1>0, <2>9, <2>10, <2>11, <2>12
<1>3. CASE ClaimName
  <2> DEFINE done == Timer("onProbeDone", 0)
  <2>1. /\ done # FlushTimer /\ done \in timers /\ started /\ ~closed
        /\ ready # "rejected" /\ ~stopped
    BY <1>3 DEF ClaimName, Timer, FlushTimer, FlagsAgree, ClosedForAReason
  <2>2. timers \ {done} \subseteq {FlushTimer}
    BY <2>1 DEF OneChain
  <2>3. \/ timers' = timers \ {done}
        \/ timers' = (timers \ {done}) \cup {Timer("announce", 1)}
    BY <1>3 DEF ClaimName, AnnounceAgain
  <2>4. Timer("announce", 1) # FlushTimer /\ Timer("announce", 1).fn = "announce"
    BY DEF Timer, FlushTimer
  <2>5. FlushTimer \in timers' <=> FlushTimer \in timers
    BY <2>1, <2>3, <2>4
  <2>6. UNCHANGED <<control, naming, probeConflict, window, engineClosed, probes,
                    contested, stopped>> /\ announcing' /\ ready' = "resolved"
        /\ claimed' = claimed \cup {instanceName} /\ ~probeConflict
    BY <1>3, <2>1 DEF ClaimName, TypeOK
  <2>7. FlagsAgree'
    BY <2>1, <2>6 DEF FlagsAgree, control, window
  <2>8. NamesInOrder'
    BY <2>1, <2>6 DEF NamesInOrder, control, naming, TypeOK, Names
  <2>9. ProbesCounted'
    BY <2>2, <2>3, <2>4 DEF ProbesCounted, FlushTimer, Timer
  <2>10. ConflictRemembered' /\ ClosedForAReason' /\ SilentUntilReady'
    BY <2>1, <2>6 DEF ConflictRemembered, ClosedForAReason, SilentUntilReady, control, naming
  <2>11. WindowHasTimer' /\ PendingAnswersAreCurrent' /\ StopWithdrawsLastName'
    BY <2>1, <2>5, <2>6 DEF WindowHasTimer, PendingAnswersAreCurrent,
                            StopWithdrawsLastName, naming, window
  <2>12. OneChain'
    BY <2>2, <2>3, <2>6 DEF OneChain, naming
  <2> QED
    BY <1>0, <2>7, <2>8, <2>9, <2>10, <2>11, <2>12
<1>4. CASE LoseName
  <2> DEFINE done == Timer("onProbeDone", 0)
  <2>1. /\ done # FlushTimer /\ done \in timers /\ started /\ ~closed
        /\ probeConflict /\ ~announcing
    BY <1>4 DEF LoseName, Timer, FlushTimer, FlagsAgree, ConflictRemembered
  <2>2. timers \ {done} \subseteq {FlushTimer}
    BY <2>1 DEF OneChain
  <2>3. ~flushTimer /\ pendingAnswers = {} /\ FlushTimer \notin timers
    BY <2>1 DEF FlagsAgree, WindowHasTimer
  <2>4. UNCHANGED <<announcing, engineClosed, contested, claimed, exposed, stopped>>
    BY <1>4 DEF LoseName
  <2>5. CASE GiveUp
    BY <1>0, <2>1, <2>4, <2>5, GiveUpRInv
  <2>6. CASE ProbeNextName(timers \ {done}) /\ UNCHANGED window
    BY <1>0, <2>1, <2>2, <2>3, <2>4, <2>6, NextNameRInv DEF window
  <2> QED
    BY <1>4, <2>5, <2>6 DEF LoseName, Rename
<1>5. CASE Announce
  <2> PICK t \in timers : /\ t.fn = "announce"
                          /\ Send(records)
                          /\ AnnounceAgain(timers \ {t}, t.sent + 1)
    BY <1>5 DEF Announce
  <2> DEFINE next == Timer("announce", t.sent + 1)
  <2>1. /\ t # FlushTimer /\ started /\ ~closed /\ next # FlushTimer
        /\ next.fn = "announce"
    BY DEF FlagsAgree, FlushTimer, Timer
  <2>2. timers \ {t} \subseteq {FlushTimer}
    BY <2>1 DEF OneChain
  <2>3. timers' = timers \ {t} \/ timers' = (timers \ {t}) \cup {next}
    BY DEF AnnounceAgain
  <2>4. t.fn # "sendProbe" /\ t.fn # "onProbeDone" /\ t \in timers \ {FlushTimer}
    BY <2>1
  <2>5. instanceName \in claimed
    BY <2>1, <2>4 DEF OneChain, FlushTimer, Timer
  <2>7. UNCHANGED <<control, naming, probeConflict, announcing, window, ready,
                    engineClosed, probes, contested, claimed, stopped>>
    BY <1>5 DEF Announce
  <2>8. FlushTimer \in timers' <=> FlushTimer \in timers
    BY <2>1, <2>3
  <2>9. FlagsAgree' /\ NamesInOrder' /\ ConflictRemembered' /\ ClosedForAReason'
    BY <2>1, <2>7 DEF FlagsAgree, NamesInOrder, ConflictRemembered, ClosedForAReason,
                      control, naming, window
  <2>10. ProbesCounted'
    BY <2>1, <2>2, <2>3, <2>7 DEF ProbesCounted, FlushTimer, Timer
  <2>11. OneChain'
    BY <2>2, <2>3, <2>5, <2>7 DEF OneChain, naming
  <2>12. WindowHasTimer' /\ PendingAnswersAreCurrent' /\ StopWithdrawsLastName'
    BY <2>1, <2>7, <2>8 DEF WindowHasTimer, PendingAnswersAreCurrent,
                            StopWithdrawsLastName, ClosedForAReason, naming, window, control
  <2>13. SilentUntilReady'
    BY <2>5, <2>7 DEF SilentUntilReady, FlagsAgree
  <2> QED
    BY <1>0, <2>9, <2>10, <2>11, <2>12, <2>13
<1>6. CASE FlushAnswers
  <2>1. /\ flushTimer /\ announcing /\ ready = "resolved" /\ started /\ ~closed /\ ~stopped
    BY <1>6 DEF FlushAnswers, WindowHasTimer, FlagsAgree, ClosedForAReason
  <2>2. UNCHANGED <<control, naming, probeConflict, announcing, ready, engineClosed,
                    probes, contested, claimed, stopped>>
        /\ flushTimer' = FALSE /\ pendingAnswers' = {} /\ timers' = timers \ {FlushTimer}
    BY <1>6 DEF FlushAnswers
  <2>3. FlagsAgree' /\ NamesInOrder' /\ ConflictRemembered' /\ ClosedForAReason'
    BY <2>1, <2>2 DEF FlagsAgree, NamesInOrder, ConflictRemembered, ClosedForAReason,
                      control, naming
  <2>4. ProbesCounted'
    BY <2>2 DEF ProbesCounted
  <2>5. OneChain'
    BY <2>2 DEF OneChain, control, naming, FlushTimer, Timer
  <2>6. WindowHasTimer' /\ PendingAnswersAreCurrent' /\ StopWithdrawsLastName'
        /\ SilentUntilReady'
    BY <2>1, <2>2 DEF WindowHasTimer, PendingAnswersAreCurrent, StopWithdrawsLastName,
                      SilentUntilReady
  <2> QED
    BY <1>0, <2>3, <2>4, <2>5, <2>6
<1>7. ASSUME NEW n \in Names, NEW a \in PeerProbe(n), OnRivalProbe(n, a)
      PROVE  RInv'
  <2>1. ~closed /\ ~announcing /\ instanceName \in Nat /\ instanceName <= instanceName
    BY <1>7 DEF OnRivalProbe, TypeOK, Names
  <2>2. UNCHANGED <<control, naming, timers, announcing, window, ready, engineClosed,
                    probes, claimed, exposed, stopped>>
    BY <1>7 DEF OnRivalProbe
  <2>3. \/ contested' = contested /\ (probeConflict => probeConflict')
        \/ contested' = contested \cup {instanceName} /\ probeConflict'
    BY <1>7 DEF OnRivalProbe
  <2>4. started
    BY <1>7 DEF OnRivalProbe, FlagsAgree
  <2>5. FlagsAgree' /\ ConflictRemembered' /\ ClosedForAReason'
    BY <2>1, <2>2, <2>3, <2>4 DEF FlagsAgree, ConflictRemembered, ClosedForAReason,
                                  control, naming, window
  <2>6. NamesInOrder'
    BY <2>1, <2>2, <2>3 DEF NamesInOrder, control, naming
  <2>7. ProbesCounted' /\ OneChain' /\ WindowHasTimer' /\ PendingAnswersAreCurrent'
        /\ SilentUntilReady' /\ StopWithdrawsLastName'
    BY <2>2 DEF ProbesCounted, OneChain, WindowHasTimer, PendingAnswersAreCurrent,
                SilentUntilReady, StopWithdrawsLastName, control, naming, window
  <2> QED
    BY <1>0, <2>5, <2>6, <2>7
<1>8. ASSUME NEW n \in Names, NEW a \in PeerProbe(n), OnLateProbe(n, a)
      PROVE  RInv'
  <2>1. ~closed /\ announcing /\ ready = "resolved" /\ ~stopped
    BY <1>8 DEF OnLateProbe, FlagsAgree, ClosedForAReason
  <2>2. UNCHANGED <<control, naming, timers, probeConflict, announcing, window, ready,
                    engineClosed, probes, contested, claimed, stopped>>
    BY <1>8 DEF OnLateProbe
  <2>3. FlagsAgree' /\ ConflictRemembered' /\ ClosedForAReason' /\ NamesInOrder'
    BY <2>2 DEF FlagsAgree, ConflictRemembered, ClosedForAReason, NamesInOrder,
                control, naming, window
  <2>4. ProbesCounted' /\ OneChain' /\ WindowHasTimer' /\ PendingAnswersAreCurrent'
    BY <2>2 DEF ProbesCounted, OneChain, WindowHasTimer, PendingAnswersAreCurrent,
                control, naming, window
  <2>5. SilentUntilReady' /\ StopWithdrawsLastName'
    BY <2>1, <2>2 DEF SilentUntilReady, StopWithdrawsLastName
  <2> QED
    BY <1>0, <2>3, <2>4, <2>5
<1>9. ASSUME NEW q \in Question, NEW known \in KnownAnswers, OnQuery(q, known)
      PROVE  RInv'
  <2>1. UNCHANGED <<control, naming, probeConflict, announcing, ready, engineClosed, history>>
        /\ flushTimer' = TRUE /\ announcing /\ ~closed
    BY <1>9 DEF OnQuery
  <2>2. timers' = timers \cup {FlushTimer}
    BY <1>9 DEF OnQuery, WindowHasTimer
  <2>3. pendingAnswers' \subseteq records
    BY <1>9, AnswersForAreRecords DEF OnQuery, PendingAnswersAreCurrent
  <2>4. FlagsAgree' /\ ConflictRemembered' /\ ClosedForAReason' /\ NamesInOrder'
    BY <2>1 DEF FlagsAgree, ConflictRemembered, ClosedForAReason, NamesInOrder,
                control, naming, history
  <2>5. ProbesCounted'
    BY <2>1, <2>2 DEF ProbesCounted, FlushTimer, Timer, history
  <2>6. OneChain'
    BY <2>1, <2>2 DEF OneChain, control, naming, history
  <2>7. WindowHasTimer' /\ PendingAnswersAreCurrent' /\ SilentUntilReady'
        /\ StopWithdrawsLastName'
    BY <2>1, <2>2, <2>3 DEF WindowHasTimer, PendingAnswersAreCurrent, SilentUntilReady,
                            StopWithdrawsLastName, naming, history
  <2> QED
    BY <1>0, <2>4, <2>5, <2>6, <2>7
<1>10. ASSUME NEW a \in PeerRecord, OnConflict(a)
       PROVE  RInv'
  <2>1. /\ contested' = contested \cup {instanceName} /\ ~closed /\ started
        /\ UNCHANGED <<announcing, engineClosed, claimed, exposed, stopped>>
    BY <1>10 DEF OnConflict, FlagsAgree
  <2>2. CASE /\ ~announcing /\ probeConflict' = TRUE
             /\ UNCHANGED <<control, naming, timers, window, ready, probes>>
    <3>1. instanceName \in Nat /\ instanceName <= instanceName
      BY DEF TypeOK, Names
    <3>2. FlagsAgree' /\ ConflictRemembered' /\ ClosedForAReason'
      BY <2>1, <2>2 DEF FlagsAgree, ConflictRemembered, ClosedForAReason,
                        control, naming, window
    <3>3. NamesInOrder'
      BY <2>1, <2>2, <3>1 DEF NamesInOrder, control, naming
    <3>4. ProbesCounted' /\ OneChain' /\ WindowHasTimer' /\ PendingAnswersAreCurrent'
          /\ SilentUntilReady' /\ StopWithdrawsLastName'
      BY <2>1, <2>2 DEF ProbesCounted, OneChain, WindowHasTimer, PendingAnswersAreCurrent,
                        SilentUntilReady, StopWithdrawsLastName, control, naming, window
    <3> QED
      BY <1>0, <3>2, <3>3, <3>4
  <2>3. CASE GiveUp
    BY <1>0, <2>1, <2>3, GiveUpRInv
  <2>4. CASE ProbeNextName({}) /\ pendingAnswers' = {} /\ flushTimer' = FALSE
    BY <1>0, <2>1, <2>4, NextNameRInv
  <2> QED
    BY <1>10, <2>2, <2>3, <2>4 DEF OnConflict, Reprobe
<1>11. CASE Stop
  <2>1. CASE closed
    <3>1. UNCHANGED <<control, naming, timers, probeConflict, announcing, window, ready,
                      engineClosed, probes, contested, claimed, exposed>>
          /\ stopped' /\ ready = "resolved" /\ ~stopped /\ ~engineClosed
      BY <1>11, <2>1 DEF Stop
    <3>2. renameAttempt > MaxRename /\ ~(renameAttempt <= MaxRename)
      BY <2>1, <3>1, MaxRenameAssumption DEF ClosedForAReason, TypeOK
    <3>3. FlagsAgree' /\ ConflictRemembered' /\ ClosedForAReason' /\ NamesInOrder'
      BY <2>1, <3>1 DEF FlagsAgree, ConflictRemembered, ClosedForAReason, NamesInOrder,
                        control, naming, window
    <3>4. ProbesCounted' /\ OneChain' /\ WindowHasTimer' /\ PendingAnswersAreCurrent'
          /\ SilentUntilReady' /\ StopWithdrawsLastName'
      BY <3>1, <3>2 DEF ProbesCounted, OneChain, WindowHasTimer, PendingAnswersAreCurrent,
                        SilentUntilReady, StopWithdrawsLastName, control, naming, window
    <3> QED
      BY <1>0, <3>3, <3>4
  <2>2. CASE ~closed
    <3>1. /\ UNCHANGED <<naming, probeConflict, announcing, ready, engineClosed,
                         probes, contested, claimed>>
          /\ Close /\ stopped' /\ ready = "resolved"
          /\ exposed' = IF announcing THEN exposed \ records ELSE exposed
      BY <1>11, <2>2 DEF Stop
    <3>2. started /\ announcing
      BY <3>1, <2>2 DEF FlagsAgree
    <3>3. SilentUntilReady'
      BY <3>1 DEF SilentUntilReady
    <3>4. StopWithdrawsLastName'
      BY <3>1, <3>2 DEF StopWithdrawsLastName, naming
    <3> QED
      BY <1>0, <3>1, <3>2, <3>3, <3>4, CloseRInv DEF naming
  <2> QED
    BY <2>1, <2>2
<1>12. CASE EngineClose
  <2>1. engineClosed' /\ UNCHANGED <<naming, probeConflict, announcing, ready, history>>
    BY <1>12 DEF EngineClose
  <2>2. SilentUntilReady' /\ StopWithdrawsLastName'
    BY <2>1 DEF SilentUntilReady, StopWithdrawsLastName, naming, history
  <2>3. CASE registered
    <3>1. Close /\ started
      BY <1>12, <2>3 DEF EngineClose, FlagsAgree
    <3> QED
      BY <1>0, <2>1, <2>2, <3>1, CloseRInv DEF naming, history
  <2>4. CASE ~registered
    <3>1. UNCHANGED <<control, timers, window>>
      BY <1>12, <2>4 DEF EngineClose
    <3>2. FlagsAgree' /\ ConflictRemembered' /\ ClosedForAReason' /\ NamesInOrder'
      BY <2>1, <3>1 DEF FlagsAgree, ConflictRemembered, ClosedForAReason, NamesInOrder,
                        control, naming, window, history
    <3>3. ProbesCounted' /\ OneChain' /\ WindowHasTimer' /\ PendingAnswersAreCurrent'
      BY <2>1, <3>1 DEF ProbesCounted, OneChain, WindowHasTimer, PendingAnswersAreCurrent,
                        control, naming, window, history
    <3> QED
      BY <1>0, <2>2, <3>2, <3>3
  <2> QED
    BY <2>3, <2>4
<1>13. CASE UNCHANGED vars
  BY <1>0, <1>13 DEF vars, control, naming, window, history, FlagsAgree,
     ConflictRemembered, ClosedForAReason, NamesInOrder, ProbesCounted, OneChain,
     WindowHasTimer, PendingAnswersAreCurrent, SilentUntilReady, StopWithdrawsLastName
<1> QED
  BY <1>1, <1>2, <1>3, <1>4, <1>5, <1>6, <1>7, <1>8, <1>9, <1>10, <1>11, <1>12, <1>13
  DEF Next, TimerFires, FromPeers

\* The invariant of the responder's whole lifecycle.
THEOREM InvariantHolds == Spec => []RInv
BY RInvInit, RInvStep, PTL DEF Spec

\* A step that announces a new name is the end of an undisturbed probing.
LEMMA ClaimStep ==
    ASSUME RInv, Next
    PROVE  \A n \in claimed' \ claimed : n \notin contested /\ probes = ProbeCount
<1>1. CASE ClaimName
  <2>1. claimed' = claimed \cup {instanceName} /\ ~probeConflict
        /\ Timer("onProbeDone", 0) \in timers
    BY <1>1 DEF ClaimName
  <2>2. ~closed /\ probes = ProbeCount
    BY <2>1 DEF RInv, FlagsAgree, ProbesCounted, Timer
  <2>3. instanceName \notin contested
    BY <2>1, <2>2 DEF RInv, ConflictRemembered
  <2> QED
    BY <2>1, <2>2, <2>3
<1>2. CASE ~ClaimName
  BY <1>2 DEF Next, TimerFires, FromPeers, Start, SendProbe, LoseName, Announce,
     FlushAnswers, OnRivalProbe, OnLateProbe, OnQuery, OnConflict, Stop, EngineClose,
     history
<1> QED
  BY <1>1, <1>2

------------------------------------------------------------------------------
(* What the invariant says of the code *)

\* clearTimers: no re-probe leaves a window open whose flush timer is dead.
THEOREM WindowIsSound == Spec => []WindowHasTimer
<1>1. RInv => WindowHasTimer
  BY DEF RInv
<1> QED
  BY <1>1, InvariantHolds, PTL

\* What waits in the window is a record of the present name: a rename between a
\* query and its answer leaves none of the old name behind (reprobe, bufferAnswers).
THEOREM AnswersAreCurrent == Spec => []PendingAnswersAreCurrent
<1>1. RInv => PendingAnswersAreCurrent
  BY DEF RInv
<1> QED
  BY <1>1, InvariantHolds, PTL

\* One chain of probes or announcements at a time, and the chain that is to
\* claim the current name is never lost.
THEOREM ChainIsSound == Spec => []OneChain
<1>1. RInv => OneChain
  BY DEF RInv
<1> QED
  BY <1>1, InvariantHolds, PTL

\* Nothing is sent to peers before the promise resolves, or if it rejects.
THEOREM NothingBeforeReady == Spec => []SilentUntilReady
<1>1. RInv => SilentUntilReady
  BY DEF RInv
<1> QED
  BY <1>1, InvariantHolds, PTL

\* A contested name is never announced from the next state on.
THEOREM ContestedNamesAreGivenUp == Spec => []ContestedIsGivenUp
<1>1. RInv => ContestedIsGivenUp
  BY DEF RInv, ConflictRemembered, ContestedIsGivenUp
<1> QED
  BY <1>1, InvariantHolds, PTL

\* The goodbye of stop() withdraws all the records of the last name.
THEOREM GoodbyeIsComplete == Spec => []StopWithdrawsLastName
<1>1. RInv => StopWithdrawsLastName
  BY DEF RInv
<1> QED
  BY <1>1, InvariantHolds, PTL

\* Names are announced only at the end of an undisturbed probing.
THEOREM OnlyUncontestedClaims == Spec => ClaimsAreUncontested
<1>1. RInv /\ [Next]_vars =>
        [\A n \in claimed' \ claimed : n \notin contested /\ probes = ProbeCount]_vars
  BY ClaimStep
<1> QED
  BY <1>1, InvariantHolds, PTL DEF Spec, ClaimsAreUncontested

------------------------------------------------------------------------------
(***************************************************************************)
(* Two responders that want one name (NameClaim).  While nothing is lost,   *)
(* LosslessInv says of each host what the other one can still hear of it:    *)
(* the host that will lose the tie-break is not far ahead of the other's     *)
(* probe, and a host that probes for a name the other holds has the          *)
(* announcement under way to it.  Steps are proved of any two hosts first,   *)
(* seen as records; the steps of ours and of the rival are then the same     *)
(* with the hosts swapped.                                                  *)
(***************************************************************************)

\* A host as the other one sees it: not there, probing, holding its name, or gone
\* after it held it.
PhaseOf(isStarted, isClosed, announces) ==
    IF ~isStarted THEN "off"
    ELSE IF announces THEN IF isClosed THEN "gone" ELSE "holding"
    ELSE IF isClosed THEN "off" ELSE "probing"

HostView(n, phase, sent, warned, host, data) ==
    [name |-> n, phase |-> phase, sent |-> sent, warned |-> warned,
     host |-> host, data |-> data]

Ours == HostView(instanceName, PhaseOf(started, closed, announcing), probes,
                 probeConflict, OurHost, OurData)

Theirs == HostView(instanceName2, PhaseOf(started2, closed2, announcing2), probes2,
                   probeConflict2, RivalHost, RivalData)

\* The records of a host that has a name.
Recs(x) ==
    {Rec("PTR", Service, x.name), Rec("PTR", Enumeration, 0),
     Rec("SRV", Instance(x.name), x.data), Rec("TXT", Instance(x.name), x.data)}
        \cup {Rec("A", <<"host", x.host>>, a) : a \in Addrs}

\* A response that says whose the name is.
Claims(p) == p.kind = "response" /\ \E r \in p.records : r.type \in {"SRV", "TXT"}

Is(p, what) ==
    /\ what = "probe" => p.kind = "probe"
    /\ what = "claim" => Claims(p)

\* A packet of this sort is under way to a host; one that is has crossed
\* (was sent before) a packet to the other host.
UnderWay(l, host, what) == \E k \in 1..Len(l) : l[k].to = host /\ Is(l[k], what)

Crossed(l, host, what, other) ==
    \E j, k \in 1..Len(l) :
        j < k /\ l[j].to = host /\ Is(l[j], what) /\ l[k].to = other

\* What a host sends is about the name it has.
Says(x, p) ==
    \/ p.kind = "probe" /\ x.phase = "probing" /\ p.records = Unique(Recs(x))
    \/ p.kind = "response" /\ x.phase \in {"holding", "gone"} /\ p.records \subseteq Recs(x)

PacketsOf(x, other, l) == \A k \in 1..Len(l) : l[k].to = other => Says(x, l[k])

\* Of two hosts that probe for one name, the one that will lose the tie-break and
\* does not know it yet is not far ahead: the other's probe is still to come, or
\* under way.
Lags(x, y, l, host, other, ahead) ==
    x.phase = "probing" /\ y.phase = "probing" /\ x.name = y.name
    /\ x.data < y.data /\ ~x.warned =>
        \/ y.sent = 0
        \/ x.sent <= ahead
        \/ UnderWay(l, host, "probe") /\ (y.sent <= 1 \/ x.sent <= 2)
        \/ Crossed(l, host, "probe", other) /\ (y.sent <= 1 \/ x.sent <= 3)

\* A host that probes for a name the other one holds hears of it in time.
Learns(x, y, l, host, other) ==
    x.phase = "probing" /\ y.phase \in {"holding", "gone"} /\ x.name = y.name
    /\ ~x.warned =>
        \/ UnderWay(l, host, "claim") /\ x.sent < ProbeCount
        \/ Crossed(l, host, "claim", other)
        \/ y.phase = "holding" /\ (x.sent = 0 \/ (x.sent = 1 /\ UnderWay(l, other, "any")))
        \/ y.phase = "gone" /\ ~UnderWay(l, host, "claim")

\* Who holds a name is the only one, and will not hear otherwise.
Undisputed(x, y, l, host) ==
    x.phase = "holding" /\ y.phase \in {"holding", "gone"} /\ x.name = y.name =>
        y.phase = "gone" /\ ~UnderWay(l, host, "claim")

Apart(x, y, l, host, other, ahead) ==
    /\ PacketsOf(x, other, l)
    /\ Lags(x, y, l, host, other, ahead)
    /\ Learns(x, y, l, host, other)
    /\ Undisputed(x, y, l, host)
    /\ ahead \in 0..2

\* What holds of a host by itself: it has one chain of timers, and never renames
\* once it holds a name.
OneHost(x, isStarted, isClosed, isRegistered, rs, ts, names, isReady, attempt) ==
    /\ x.name \in Nat /\ x.sent \in 0..ProbeCount /\ attempt \in Nat
    /\ isStarted \in BOOLEAN /\ isClosed \in BOOLEAN /\ x.warned \in BOOLEAN
    /\ isRegistered = (isStarted /\ ~isClosed)
    /\ isStarted => rs = Recs(x)
    /\ ~isStarted => ~isClosed
    /\ names = IF x.phase \in {"holding", "gone"} THEN {x.name} ELSE {}
    /\ isReady => x.phase \in {"holding", "gone"}
    /\ x.phase \in {"off", "gone"} => ts = {}
    /\ x.phase = "probing" =>
          ts = {IF x.sent = ProbeCount THEN Timer("onProbeDone", 0)
                                       ELSE Timer("sendProbe", x.sent)}
    /\ x.phase = "holding" => \A t \in ts : t.fn = "announce"

OursInv ==
    /\ OneHost(Ours, started, closed, registered, records, timers, claimed,
             ready = "resolved", renameAttempt)
    /\ announcing \in BOOLEAN /\ ~engineClosed /\ (announcing => started)

TheirsInv ==
    /\ OneHost(Theirs, started2, closed2, registered2, records2, timers2, claimed2,
             ready2 = "resolved", renameAttempt2)
    /\ announcing2 \in BOOLEAN /\ ~engineClosed2 /\ (announcing2 => started2)

ViewType == [name : Nat, phase : {"off", "probing", "holding", "gone"}, sent : 0..ProbeCount,
             warned : BOOLEAN, host : Nat, data : Nat]

Packets == [to : {"ours", "rival"}, kind : {"probe", "response"},
            records : SUBSET UNION {Recs(v) : v \in ViewType}]

------------------------------------------------------------------------------
(* The link *)

\* A packet sent is behind all that are under way.
LEMMA AppendLink ==
    ASSUME NEW S, NEW l \in Seq(S), NEW p \in S, NEW h, NEW g, NEW what
    PROVE  /\ UnderWay(Append(l, p), h, what) <=>
                  UnderWay(l, h, what) \/ (p.to = h /\ Is(p, what))
           /\ Crossed(Append(l, p), h, what, g) <=>
                  Crossed(l, h, what, g) \/ (p.to = g /\ UnderWay(l, h, what))
<1> DEFINE m == Append(l, p)
<1>1. /\ Len(m) = Len(l) + 1 /\ Len(l) \in Nat /\ m[Len(l) + 1] = p
      /\ \A k \in 1..Len(l) : m[k] = l[k]
  OBVIOUS
<1> HIDE DEF m
<1>2. UnderWay(m, h, what) <=> UnderWay(l, h, what) \/ (p.to = h /\ Is(p, what))
  BY <1>1 DEF UnderWay
<1>3. Crossed(m, h, what, g) => Crossed(l, h, what, g) \/ (p.to = g /\ UnderWay(l, h, what))
  BY <1>1 DEF UnderWay, Crossed
<1>4. Crossed(l, h, what, g) => Crossed(m, h, what, g)
  BY <1>1 DEF Crossed
<1>5. p.to = g /\ UnderWay(l, h, what) => Crossed(m, h, what, g)
  <2> SUFFICES ASSUME p.to = g, NEW j \in 1..Len(l), l[j].to = h, Is(l[j], what)
               PROVE  Crossed(m, h, what, g)
    BY DEF UnderWay
  <2>1. j \in 1..Len(m) /\ Len(l) + 1 \in 1..Len(m) /\ j < Len(l) + 1
    BY <1>1
  <2> QED
    BY <1>1, <2>1 DEF Crossed
<1> QED
  BY <1>2, <1>3, <1>4, <1>5 DEF m

\* A packet received was in front of all that are under way.
LEMMA TailLink ==
    ASSUME NEW S, NEW l \in Seq(S), l # <<>>, NEW h, NEW g, h # g, l[1].to = h, NEW what
    PROVE  /\ Tail(l) \in Seq(S)
           /\ UnderWay(Tail(l), g, what) <=> UnderWay(l, g, what)
           /\ Crossed(l, g, what, h) => Crossed(Tail(l), g, what, h)
           /\ UnderWay(Tail(l), h, what) => UnderWay(l, h, what)
           /\ ~Is(l[1], what) /\ UnderWay(l, h, what) => UnderWay(Tail(l), h, what)
           /\ ~Is(l[1], what) /\ Crossed(l, h, what, g) => Crossed(Tail(l), h, what, g)
<1> DEFINE m == Tail(l)
<1>1. /\ m \in Seq(S) /\ Len(l) \in Nat \ {0} /\ Len(m) = Len(l) - 1
      /\ \A k \in 1..Len(m) : m[k] = l[k + 1]
  OBVIOUS
<1> HIDE DEF m
<1>2. \A k \in 1..Len(l) : k # 1 => k - 1 \in 1..Len(m) /\ m[k - 1] = l[k]
  BY <1>1
<1>3. \A k \in 1..Len(m) : k + 1 \in 1..Len(l)
  BY <1>1
<1>4. UnderWay(m, h, what) => UnderWay(l, h, what)
  BY <1>1, <1>3 DEF UnderWay
<1>5. UnderWay(m, g, what) => UnderWay(l, g, what)
  BY <1>1, <1>3 DEF UnderWay
<1>6. UnderWay(l, g, what) => UnderWay(m, g, what)
  BY <1>2 DEF UnderWay
<1>7. ~Is(l[1], what) /\ UnderWay(l, h, what) => UnderWay(m, h, what)
  BY <1>2 DEF UnderWay
<1>8. Crossed(l, g, what, h) => Crossed(m, g, what, h)
  <2> SUFFICES ASSUME NEW j \in 1..Len(l), NEW k \in 1..Len(l), j < k, l[j].to = g,
                      Is(l[j], what), l[k].to = h
               PROVE  Crossed(m, g, what, h)
    BY DEF Crossed
  <2>1. j # 1 /\ k # 1 /\ j - 1 < k - 1
    BY <1>1
  <2> QED
    BY <1>2, <2>1 DEF Crossed
<1>9. ~Is(l[1], what) /\ Crossed(l, h, what, g) => Crossed(m, h, what, g)
  <2> SUFFICES ASSUME NEW j \in 1..Len(l), NEW k \in 1..Len(l), j < k, l[j].to = h,
                      Is(l[j], what), ~Is(l[1], what), l[k].to = g
               PROVE  Crossed(m, h, what, g)
    BY DEF Crossed
  <2>1. j # 1 /\ k # 1 /\ j - 1 < k - 1
    BY <1>1
  <2> QED
    BY <1>2, <2>1 DEF Crossed
<1> QED
  BY <1>1, <1>4, <1>5, <1>6, <1>7, <1>8, <1>9 DEF m

\* Nothing under way to a host is under way behind or before anything else.
LEMMA NothingUnderWay ==
    ASSUME NEW S, NEW l \in Seq(S), NEW h, NEW g, \A k \in DOMAIN l : l[k].to # g, NEW what
    PROVE  ~UnderWay(l, g, what) /\ ~Crossed(l, h, what, g) /\ ~Crossed(l, g, what, h)
BY DEF UnderWay, Crossed

LEMMA AnySort == ASSUME NEW l, NEW h, NEW what, UnderWay(l, h, what) PROVE UnderWay(l, h, "any")
BY DEF UnderWay, Is

\* A packet sent says what its sender is.
LEMMA AppendPackets ==
    ASSUME NEW S, NEW l \in Seq(S), NEW p \in S, NEW x, NEW g,
           PacketsOf(x, g, l), p.to = g => Says(x, p)
    PROVE  PacketsOf(x, g, Append(l, p))
BY DEF PacketsOf

LEMMA TailPackets ==
    ASSUME NEW S, NEW l \in Seq(S), l # <<>>, NEW x, NEW g, PacketsOf(x, g, l)
    PROVE  PacketsOf(x, g, Tail(l)) /\ (l[1].to = g => Says(x, l[1]))
<1>1. /\ Tail(l) \in Seq(S) /\ Len(l) \in Nat \ {0} /\ Len(Tail(l)) = Len(l) - 1
      /\ \A k \in 1..Len(Tail(l)) : Tail(l)[k] = l[k + 1]
  OBVIOUS
<1> QED
  BY <1>1 DEF PacketsOf

------------------------------------------------------------------------------
(* Two hosts, one step of either *)

Pair(x, y, l, h, g, a, b) ==
    /\ x \in ViewType /\ y \in ViewType /\ l \in Seq(Packets)
    /\ Apart(x, y, l, h, g, a) /\ Apart(y, x, l, g, h, b)

Tags(h, g) == h # g /\ {h, g} = {"ours", "rival"}

\* A host stays what it is when it takes another name.
SameHost(z, x) == z.host = x.host /\ z.data = x.data

\* A set of numbers has a least one.
LEMMA LeastOf == ASSUME NEW S, S \subseteq Nat, S # {}
                 PROVE  \E d \in S : \A e \in S : d <= e
<1> DEFINE R == OpToRel(<, Nat)
<1>1. IsWellFoundedOn(R, Nat)
  BY NatLessThanWellFounded
<1>2. PICK d \in S : \A e \in S : ~(<<e, d>> \in R)
  BY <1>1, WFMin
<1>3. \A e \in S : d <= e
  <2> SUFFICES ASSUME NEW e \in S PROVE d <= e
    OBVIOUS
  <2>1. ~(e < d)
    BY <1>2 DEF OpToRel
  <2> QED
    BY <2>1
<1> QED
  BY <1>3

LEMMA RecsTyped == ASSUME NEW x \in ViewType
                   PROVE  /\ Recs(x) \subseteq UNION {Recs(v) : v \in ViewType}
                          /\ Unique(Recs(x)) \subseteq Recs(x)
                          /\ Rec("SRV", Instance(x.name), x.data) \in Unique(Recs(x))
<1>1. Rec("SRV", Instance(x.name), x.data) \in Unique(Recs(x))
  BY DEF Unique, Recs, Rec
<1> QED
  BY <1>1 DEF Unique

\* After a timer of x fired with a packet for y: none was under way to y.
LEMMA SendLink ==
    ASSUME NEW l \in Seq(Packets), NEW p \in Packets, NEW h, NEW g, Tags(h, g), p.to = g,
           ~UnderWay(l, g, "any"), NEW what
    PROVE  /\ UnderWay(Append(l, p), h, what) <=> UnderWay(l, h, what)
           /\ UnderWay(Append(l, p), g, what) <=> Is(p, what)
           /\ Crossed(Append(l, p), h, what, g) <=> UnderWay(l, h, what)
           /\ ~Crossed(Append(l, p), g, what, h)
           /\ Append(l, p) \in Seq(Packets)
<1>1. /\ UnderWay(Append(l, p), h, what) <=> UnderWay(l, h, what) \/ (p.to = h /\ Is(p, what))
      /\ Crossed(Append(l, p), h, what, g) <=>
            Crossed(l, h, what, g) \/ (p.to = g /\ UnderWay(l, h, what))
  BY AppendLink
<1>2. /\ UnderWay(Append(l, p), g, what) <=> UnderWay(l, g, what) \/ (p.to = g /\ Is(p, what))
      /\ Crossed(Append(l, p), g, what, h) <=>
            Crossed(l, g, what, h) \/ (p.to = h /\ UnderWay(l, g, what))
  BY AppendLink
<1>3. ~UnderWay(l, g, what) /\ ~Crossed(l, h, what, g) /\ ~Crossed(l, g, what, h)
  <2>1. \A k \in DOMAIN l : l[k].to # g
    BY DEF UnderWay, Is
  <2> QED
    BY <2>1, NothingUnderWay
<1>4. Append(l, p) \in Seq(Packets)
  OBVIOUS
<1> QED
  BY <1>1, <1>2, <1>3, <1>4 DEF Tags

LEMMA NonePackets ==
    ASSUME NEW l \in Seq(Packets), NEW g, ~UnderWay(l, g, "any"), NEW x
    PROVE  PacketsOf(x, g, l)
BY DEF UnderWay, Is, PacketsOf

LEMMA NothingOf ==
    ASSUME NEW l \in Seq(Packets), NEW h, NEW g, ~UnderWay(l, g, "any"), NEW what
    PROVE  ~UnderWay(l, g, what) /\ ~Crossed(l, h, what, g) /\ ~Crossed(l, g, what, h)
<1>1. \A k \in DOMAIN l : l[k].to # g
  BY DEF UnderWay, Is
<1> QED
  BY <1>1, NothingUnderWay

LEMMA OffIsSilent ==
    ASSUME NEW l \in Seq(Packets), NEW g, NEW x, PacketsOf(x, g, l), x.phase = "off"
    PROVE  ~UnderWay(l, g, "any")
BY DEF UnderWay, Is, PacketsOf, Says

\* A host probes once more.
LEMMA ProbeStep ==
    ASSUME NEW x, NEW y, NEW z \in ViewType, NEW l, NEW h, NEW g, NEW a, NEW b,
           Tags(h, g), Pair(x, y, l, h, g, a, b), ProbeCount >= 3,
           ~UnderWay(l, g, "any"), SameHost(z, x), z.name = x.name, z.warned = x.warned,
           x.phase = "probing", z.phase = "probing", z.sent = x.sent + 1,
           y.phase = "probing" => a < 2
    PROVE  Pair(z, y, Append(l, Probe(g, Recs(x))), h, g,
                IF y.phase = "probing" THEN a + 1 ELSE 0, 0)
<1> DEFINE p == Probe(g, Recs(x))
           m == Append(l, p)
           a2 == IF y.phase = "probing" THEN a + 1 ELSE 0
<1>1. x \in ViewType /\ y \in ViewType /\ l \in Seq(Packets) /\ a \in 0..2 /\ b \in 0..2
  BY DEF Pair, Apart
<1>3. p \in Packets /\ p.to = g /\ p.kind = "probe" /\ p.records = Unique(Recs(x))
      /\ Is(p, "probe") /\ Is(p, "any")
  <2>1. Unique(Recs(x)) \subseteq UNION {Recs(v) : v \in ViewType}
    BY <1>1, RecsTyped
  <2>2. p = [to |-> g, kind |-> "probe", records |-> Unique(Recs(x))]
    BY DEF Probe, Packet
  <2>3. g \in {"ours", "rival"}
    BY DEF Tags
  <2> HIDE DEF p
  <2> QED
    BY <2>1, <2>2, <2>3 DEF Packets, Is
<1> HIDE DEF p
<1>4. \A what : /\ UnderWay(m, h, what) <=> UnderWay(l, h, what)
                /\ UnderWay(m, g, what) <=> Is(p, what)
                /\ Crossed(m, h, what, g) <=> UnderWay(l, h, what)
                /\ ~Crossed(m, g, what, h)
                /\ m \in Seq(Packets)
  BY <1>1, <1>3, SendLink
<1>5. ~Crossed(l, h, "probe", g) /\ ~Crossed(l, h, "claim", g)
      /\ ~Crossed(l, g, "probe", h) /\ ~UnderWay(l, g, "probe")
  BY <1>1, NothingOf
<1>6. PacketsOf(z, g, m)
  <2>1. Recs(z) = Recs(x)
    BY DEF Recs, SameHost
  <2>2. Says(z, p)
    BY <2>1, <1>3 DEF Says
  <2> QED
    BY <2>2, <1>1, <1>3, NonePackets, AppendPackets
<1>7. PacketsOf(y, h, m)
  BY <1>1, <1>3, AppendPackets DEF Pair, Apart, Tags
<1> HIDE DEF m
<1>8. Lags(z, y, m, h, g, a2)
  BY <1>1, <1>4, <1>5 DEF Pair, Apart, Lags, ViewType, SameHost
<1>9. Lags(y, z, m, g, h, 0)
  BY <1>1, <1>3, <1>4, <1>5 DEF Pair, Apart, Lags, ViewType, SameHost
<1>10. Learns(z, y, m, h, g)
  BY <1>1, <1>3, <1>4, <1>5 DEF Pair, Apart, Learns, ViewType
<1>11. Learns(y, z, m, g, h) /\ Undisputed(z, y, m, h) /\ Undisputed(y, z, m, g)
  BY DEF Learns, Undisputed
<1>12. a2 \in 0..2
  BY <1>1
<1> QED
  BY <1>1, <1>4, <1>6, <1>7, <1>8, <1>9, <1>10, <1>11, <1>12 DEF Pair, Apart, m, p

\* The announcement of a host, and its goodbye.
LEMMA ResponsePacket ==
    ASSUME NEW x \in ViewType, NEW h, NEW g, Tags(h, g), NEW rs, rs \subseteq Recs(x)
    PROVE  LET p == Response(g, rs)
           IN  /\ p \in Packets /\ p.to = g /\ p.kind = "response" /\ p.records = rs
               /\ ~Is(p, "probe") /\ (Is(p, "claim") <=> Claims(p))
<1> DEFINE p == Response(g, rs)
<1>1. p = [to |-> g, kind |-> "response", records |-> rs]
  BY DEF Response, Packet
<1>2. rs \subseteq UNION {Recs(v) : v \in ViewType}
  BY RecsTyped
<1>3. g \in {"ours", "rival"}
  BY DEF Tags
<1> HIDE DEF p
<1>4. p \in Packets /\ p.to = g /\ p.kind = "response" /\ p.records = rs
  BY <1>1, <1>2, <1>3 DEF Packets
<1> QED
  BY <1>4 DEF Is, p

LEMMA AllClaim ==
    ASSUME NEW x \in ViewType, NEW g
    PROVE  Claims(Response(g, Recs(x)))
<1>1. Rec("SRV", Instance(x.name), x.data) \in Recs(x)
  BY DEF Recs
<1>2. Rec("SRV", Instance(x.name), x.data).type \in {"SRV", "TXT"}
  BY DEF Rec
<1> QED
  BY <1>1, <1>2 DEF Claims, Response, Packet

\* A host claims its name, or announces it again: the other host does not hold it.
LEMMA AnnounceStep ==
    ASSUME NEW x, NEW y, NEW z \in ViewType, NEW l, NEW h, NEW g, NEW a, NEW b,
           Tags(h, g), Pair(x, y, l, h, g, a, b), ProbeCount >= 3, x.data # y.data,
           ~UnderWay(l, g, "any"), SameHost(z, x), z.name = x.name, z.warned = x.warned,
           z.phase = "holding", z.sent = x.sent,
           \/ x.phase = "holding"
           \/ x.phase = "probing" /\ x.sent = ProbeCount /\ ~x.warned,
           y.phase = "probing" => a < 2
    PROVE  Pair(z, y, Append(l, Response(g, Recs(x))), h, g,
                IF y.phase = "probing" THEN a + 1 ELSE 0, 0)
<1> DEFINE p == Response(g, Recs(x))
           m == Append(l, p)
           a2 == IF y.phase = "probing" THEN a + 1 ELSE 0
<1>1. x \in ViewType /\ y \in ViewType /\ l \in Seq(Packets) /\ a \in 0..2 /\ b \in 0..2
  BY DEF Pair, Apart
<1>2. p \in Packets /\ p.to = g /\ p.kind = "response" /\ p.records = Recs(x)
      /\ ~Is(p, "probe") /\ Is(p, "claim")
  BY <1>1, ResponsePacket, AllClaim
<1> HIDE DEF p
<1>3. \A what : /\ UnderWay(m, h, what) <=> UnderWay(l, h, what)
                /\ UnderWay(m, g, what) <=> Is(p, what)
                /\ Crossed(m, h, what, g) <=> UnderWay(l, h, what)
                /\ ~Crossed(m, g, what, h)
                /\ m \in Seq(Packets)
  BY <1>1, <1>2, SendLink
<1>4. /\ \A what \in {"probe", "claim"} : ~Crossed(l, h, what, g) /\ ~Crossed(l, g, what, h)
      /\ ~UnderWay(l, g, "probe") /\ ~UnderWay(l, g, "claim")
  BY <1>1, NothingOf
<1>5. PacketsOf(z, g, m)
  <2>1. Recs(z) = Recs(x)
    BY DEF Recs, SameHost
  <2>2. Says(z, p)
    BY <2>1, <1>2 DEF Says
  <2> QED
    BY <2>2, <1>1, <1>2, NonePackets, AppendPackets
<1>6. PacketsOf(y, h, m)
  BY <1>1, <1>2, AppendPackets DEF Pair, Apart, Tags
<1> HIDE DEF m
<1>7. y.phase \in {"holding", "gone"} /\ y.name = x.name => y.phase = "gone"
      /\ ~UnderWay(l, h, "claim")
  BY <1>1, <1>4 DEF Pair, Apart, Learns, Undisputed, ViewType
<1>8. Undisputed(z, y, m, h) /\ Undisputed(y, z, m, g)
  BY <1>3, <1>7 DEF Undisputed
<1>9. Lags(z, y, m, h, g, a2) /\ Lags(y, z, m, g, h, 0) /\ Learns(z, y, m, h, g)
  BY DEF Lags, Learns
<1>10. Learns(y, z, m, g, h)
  <2> SUFFICES ASSUME y.phase = "probing", z.name = y.name, ~y.warned
               PROVE  UnderWay(m, g, "claim") /\ y.sent < ProbeCount
    BY DEF Learns
  <2>1. CASE x.phase = "holding"
    <3>1. y.sent = 0 \/ y.sent = 1
      BY <2>1, <1>4 DEF Pair, Apart, Learns
    <3> QED
      BY <3>1, <1>2, <1>3, ProbeAssumption
  <2>2. CASE x.phase = "probing" /\ x.data < y.data
    BY <2>2, <1>1, <1>2, <1>3, <1>4 DEF Pair, Apart, Lags, ViewType
  <2>3. CASE x.phase = "probing" /\ y.data < x.data
    BY <2>3, <1>1, <1>2, <1>3, <1>4 DEF Pair, Apart, Lags, ViewType
  <2> QED
    BY <2>1, <2>2, <2>3, <1>1 DEF ViewType
<1>11. a2 \in 0..2
  BY <1>1
<1> QED
  BY <1>1, <1>3, <1>5, <1>6, <1>8, <1>9, <1>10, <1>11 DEF Pair, Apart, m, p

\* stop(): a goodbye follows what is under way.
LEMMA StopStep ==
    ASSUME NEW x, NEW y, NEW z \in ViewType, NEW l, NEW h, NEW g, NEW a, NEW b,
           NEW a2 \in 0..2, NEW b2 \in 0..2,
           Tags(h, g), Pair(x, y, l, h, g, a, b), ProbeCount >= 3,
           SameHost(z, x), z.name = x.name, x.phase = "holding", z.phase = "gone"
    PROVE  Pair(z, y, Append(l, Response(g, Recs(x))), h, g, a2, b2)
<1> DEFINE p == Response(g, Recs(x))
           m == Append(l, p)
<1>1. x \in ViewType /\ y \in ViewType /\ l \in Seq(Packets)
  BY DEF Pair
<1>2. p \in Packets /\ p.to = g /\ p.kind = "response" /\ p.records = Recs(x)
      /\ Is(p, "claim")
  BY <1>1, ResponsePacket, AllClaim
<1> HIDE DEF p
<1>3. /\ UnderWay(m, g, "claim") /\ m \in Seq(Packets)
      /\ Crossed(l, g, "claim", h) => Crossed(m, g, "claim", h)
  BY <1>1, <1>2, AppendLink
<1>4. PacketsOf(z, g, m)
  <2>1. Recs(z) = Recs(x)
    BY DEF Recs, SameHost
  <2>2. Says(z, p) /\ \A q : Says(x, q) => Says(z, q)
    BY <2>1, <1>2 DEF Says
  <2>3. PacketsOf(z, g, l)
    BY <2>2 DEF Pair, Apart, PacketsOf
  <2> QED
    BY <2>2, <2>3, <1>1, <1>2, AppendPackets
<1>5. PacketsOf(y, h, m)
  BY <1>1, <1>2, AppendPackets DEF Pair, Apart, Tags
<1> HIDE DEF m
<1>6. Lags(z, y, m, h, g, a2) /\ Lags(y, z, m, g, h, b2) /\ Learns(z, y, m, h, g)
      /\ Undisputed(z, y, m, h)
  BY DEF Lags, Learns, Undisputed
<1>7. Learns(y, z, m, g, h)
  <2> SUFFICES ASSUME y.phase = "probing", x.name = y.name, ~y.warned
               PROVE  y.sent < ProbeCount \/ Crossed(m, g, "claim", h)
    BY <1>3 DEF Learns
  <2>1. y.sent < ProbeCount \/ Crossed(l, g, "claim", h) \/ y.sent = 0 \/ y.sent = 1
    BY DEF Pair, Apart, Learns
  <2> QED
    BY <2>1, <1>1, <1>3, ProbeAssumption
<1>8. Undisputed(y, z, m, g)
  BY DEF Pair, Apart, Undisputed
<1> QED
  BY <1>1, <1>3, <1>4, <1>5, <1>6, <1>7, <1>8 DEF Pair, Apart, m, p

\* A host begins to probe for a name, its first or the next one.
LEMMA BeginStep ==
    ASSUME NEW x, NEW y, NEW z \in ViewType, NEW l, NEW h, NEW g, NEW a, NEW b,
           NEW a2 \in 0..2, NEW b2 \in 0..2,
           Pair(x, y, l, h, g, a, b), ~UnderWay(l, g, "any"),
           z.phase = "probing", z.sent = 0
    PROVE  Pair(z, y, l, h, g, a2, b2)
<1>1. x \in ViewType /\ y \in ViewType /\ l \in Seq(Packets)
  BY DEF Pair
<1>2. PacketsOf(z, g, l)
  BY <1>1, NonePackets
<1>3. Lags(z, y, l, h, g, a2) /\ Lags(y, z, l, g, h, b2)
  BY DEF Lags
<1>4. Learns(z, y, l, h, g)
  BY ProbeAssumption DEF Learns
<1>5. Learns(y, z, l, g, h) /\ Undisputed(z, y, l, h) /\ Undisputed(y, z, l, g)
  BY DEF Learns, Undisputed
<1> QED
  BY <1>1, <1>2, <1>3, <1>4, <1>5 DEF Pair, Apart

\* A host that has run out of names is gone without a word.
LEMMA QuitStep ==
    ASSUME NEW x, NEW y, NEW z \in ViewType, NEW l, NEW h, NEW g, NEW a, NEW b,
           NEW a2 \in 0..2, NEW b2 \in 0..2,
           Pair(x, y, l, h, g, a, b), ~UnderWay(l, g, "any"), z.phase = "off"
    PROVE  Pair(z, y, l, h, g, a2, b2)
<1>1. x \in ViewType /\ y \in ViewType /\ l \in Seq(Packets)
  BY DEF Pair
<1>2. PacketsOf(z, g, l)
  BY <1>1, NonePackets
<1>3. Lags(z, y, l, h, g, a2) /\ Lags(y, z, l, g, h, b2) /\ Learns(z, y, l, h, g)
      /\ Learns(y, z, l, g, h) /\ Undisputed(z, y, l, h) /\ Undisputed(y, z, l, g)
  BY DEF Lags, Learns, Undisputed
<1> QED
  BY <1>1, <1>2, <1>3 DEF Pair, Apart

------------------------------------------------------------------------------
(* What a packet does *)

\* The fields of a record, and what the tie-break compares of it.
LEMMA RecFields ==
    ASSUME NEW t, NEW n, NEW d
    PROVE  /\ Rec(t, n, d).type = t /\ Rec(t, n, d).name = n /\ Rec(t, n, d).data = d
           /\ Key(Rec(t, n, d)) = [type |-> t, data |-> d]
BY DEF Rec, Key

\* The records a host must own alone.
LEMMA UniqueRecs ==
    ASSUME NEW x
    PROVE  Unique(Recs(x)) =
               {Rec("SRV", Instance(x.name), x.data), Rec("TXT", Instance(x.name), x.data)}
                   \cup {Rec("A", <<"host", x.host>>, d) : d \in Addrs}
<1>1. /\ \A n, d : Rec("PTR", n, d).type = "PTR" /\ Rec("SRV", n, d).type = "SRV"
      /\ \A n, d : Rec("TXT", n, d).type = "TXT" /\ Rec("A", n, d).type = "A"
      /\ "PTR" \notin {"SRV", "TXT", "A"}
  BY RecFields
<1> QED
  BY <1>1 DEF Unique, Recs

\* The host with the lesser RDATA loses the tie-break against the other's probe.
LEMMA WeakLoses ==
    ASSUME NEW x \in ViewType, NEW y \in ViewType, x.name = y.name, x.data < y.data
    PROVE  LosesTieBreak(Recs(x), Unique(Recs(y)))
<1> DEFINE ours     == {Key(r) : r \in Unique(Recs(x))}
           theirs   == {Key(r) : r \in Comparable(Unique(Recs(y)), Recs(x))}
           onlyOne  == (ours \ theirs) \cup (theirs \ ours)
           Least(r) == r \in onlyOne /\ \A s \in onlyOne : ~RecordLess(s, r)
           first    == CHOOSE r \in onlyOne : \A s \in onlyOne : ~RecordLess(s, r)
           K(t, d)  == [type |-> t, data |-> d]
           as       == {K("A", d) : d \in Addrs}
           same     == x.host = y.host
<1>1. /\ x.data \in Nat /\ y.data \in Nat /\ Addrs \subseteq Nat
      /\ TypeNum["A"] = 1 /\ TypeNum["TXT"] = 16 /\ TypeNum["SRV"] = 33
  BY DataAssumption DEF ViewType, TypeNum
<1>2. Unique(Recs(x)) = {Rec("SRV", Instance(x.name), x.data), Rec("TXT", Instance(x.name), x.data)}
                            \cup {Rec("A", <<"host", x.host>>, d) : d \in Addrs}
  BY UniqueRecs
<1>3. Unique(Recs(y)) = {Rec("SRV", Instance(x.name), y.data), Rec("TXT", Instance(x.name), y.data)}
                            \cup {Rec("A", <<"host", y.host>>, d) : d \in Addrs}
  BY UniqueRecs
<1>4. ours = {K("SRV", x.data), K("TXT", x.data)} \cup as
  BY <1>2, RecFields
<1>5. Comparable(Unique(Recs(y)), Recs(x)) =
          {Rec("SRV", Instance(x.name), y.data), Rec("TXT", Instance(x.name), y.data)}
              \cup (IF same THEN {Rec("A", <<"host", y.host>>, d) : d \in Addrs} ELSE {})
  <2>1. \A d : (\E o \in Unique(Recs(x)) : SameNameType(o, Rec("A", <<"host", y.host>>, d)))
                <=> same /\ Addrs # {}
    BY <1>2, RecFields DEF SameNameType, Instance
  <2>2. \A t \in {"SRV", "TXT"} :
            \E o \in Unique(Recs(x)) : SameNameType(o, Rec(t, Instance(x.name), y.data))
    BY <1>2, RecFields DEF SameNameType
  <2> QED
    BY <1>3, <2>1, <2>2 DEF Comparable
<1>6. theirs = {K("SRV", y.data), K("TXT", y.data)} \cup (IF same THEN as ELSE {})
  BY <1>5, RecFields
<1>7. onlyOne = {K("SRV", x.data), K("TXT", x.data), K("SRV", y.data), K("TXT", y.data)}
                    \cup (IF same THEN {} ELSE as)
  BY <1>1, <1>4, <1>6
<1> HIDE DEF ours, theirs, onlyOne
<1>8. \E r : Least(r)
  <2>1. CASE same \/ Addrs = {}
    <3>1. onlyOne = {K("SRV", x.data), K("TXT", x.data), K("SRV", y.data), K("TXT", y.data)}
      BY <2>1, <1>7
    <3>2. Least(K("TXT", x.data))
      BY <3>1, <1>1 DEF RecordLess
    <3> QED
      BY <3>2
  <2>2. CASE ~same /\ Addrs # {}
    <3>1. PICK d \in Addrs : \A e \in Addrs : d <= e
      BY <2>2, <1>1, LeastOf
    <3>2. Least(K("A", d))
      BY <3>1, <2>2, <1>1, <1>7 DEF RecordLess
    <3> QED
      BY <3>2
  <2> QED
    BY <2>1, <2>2
<1>9. Least(first)
  BY <1>8
<1> HIDE DEF first
<1>10. first \in {K("TXT", x.data)} \cup as
  <2>1. RecordLess(K("TXT", x.data), K("SRV", x.data))
        /\ RecordLess(K("TXT", x.data), K("SRV", y.data))
        /\ RecordLess(K("TXT", x.data), K("TXT", y.data))
    BY <1>1 DEF RecordLess
  <2>2. K("TXT", x.data) \in onlyOne /\ (first \in onlyOne => first \in
          {K("SRV", x.data), K("TXT", x.data), K("SRV", y.data), K("TXT", y.data)} \cup as)
    BY <1>7
  <2> QED
    BY <2>1, <2>2, <1>9
<1>11. first \in ours /\ K("TXT", y.data) \in theirs
  BY <1>4, <1>6, <1>10
<1>12. RecordLess(first, K("TXT", y.data))
  BY <1>1, <1>10 DEF RecordLess
<1> QED
  BY <1>9, <1>11, <1>12 DEF LosesTieBreak, first, onlyOne, ours, theirs

\* A packet to x arrives: what is under way to y stays so.
LEMMA Arrives ==
    ASSUME NEW l \in Seq(Packets), l # <<>>, NEW h, NEW g, Tags(h, g), Head(l).to = h
    PROVE  /\ Tail(l) \in Seq(Packets) /\ Head(l) = l[1] /\ Head(l) \in Packets
           /\ \A what :
                /\ UnderWay(Tail(l), g, what) <=> UnderWay(l, g, what)
                /\ Crossed(l, g, what, h) => Crossed(Tail(l), g, what, h)
                /\ UnderWay(Tail(l), h, what) => UnderWay(l, h, what)
                /\ ~Is(Head(l), what) /\ UnderWay(l, h, what) => UnderWay(Tail(l), h, what)
                /\ ~Is(Head(l), what) /\ Crossed(l, h, what, g) => Crossed(Tail(l), h, what, g)
<1>1. Tail(l) \in Seq(Packets) /\ Head(l) = l[1] /\ Head(l) \in Packets
  OBVIOUS
<1> QED
  BY <1>1, TailLink DEF Tags

\* A probe reaches a host that probes itself.
LEMMA WeighStep ==
    ASSUME NEW x, NEW y, NEW z \in ViewType, NEW l, NEW h, NEW g, NEW a, NEW b,
           Tags(h, g), Pair(x, y, l, h, g, a, b), l # <<>>, Head(l).to = h,
           Head(l).kind = "probe", SameHost(z, x), z.name = x.name, z.sent = x.sent,
           x.phase = "probing", z.phase = "probing",
           z.warned = (x.warned \/ LosesTieBreak(Recs(x), Head(l).records))
    PROVE  Pair(z, y, Tail(l), h, g, a, b)
<1>1. x \in ViewType /\ y \in ViewType /\ l \in Seq(Packets) /\ a \in 0..2 /\ b \in 0..2
  BY DEF Pair, Apart
<1>2. /\ PacketsOf(x, g, Tail(l)) /\ PacketsOf(y, h, Tail(l)) /\ Says(y, Head(l))
  BY <1>1, Arrives, TailPackets DEF Pair, Apart
<1>3. y.phase = "probing" /\ Head(l).records = Unique(Recs(y))
  BY <1>2 DEF Says
<1>4. PacketsOf(z, g, Tail(l))
  <2>1. Recs(z) = Recs(x)
    BY DEF Recs, SameHost
  <2> QED
    BY <1>2, <2>1 DEF PacketsOf, Says
<1>5. Lags(z, y, Tail(l), h, g, a)
  BY <1>1, <1>3, WeakLoses DEF Lags, SameHost
<1>6. Lags(y, z, Tail(l), g, h, b)
  BY <1>1, Arrives DEF Pair, Apart, Lags, SameHost
<1>7. Learns(z, y, Tail(l), h, g) /\ Learns(y, z, Tail(l), g, h)
      /\ Undisputed(z, y, Tail(l), h) /\ Undisputed(y, z, Tail(l), g)
  BY <1>3 DEF Learns, Undisputed
<1> QED
  BY <1>1, <1>2, <1>4, <1>5, <1>6, <1>7, Arrives DEF Pair, Apart

\* A probe reaches a host that holds a name: it answers if it is the one probed for.
LEMMA DefendStep ==
    ASSUME NEW x, NEW y, NEW l, NEW h, NEW g, NEW a, NEW b,
           Tags(h, g), Pair(x, y, l, h, g, a, b), l # <<>>, Head(l).to = h, ProbeCount >= 3,
           Head(l).kind = "probe", x.phase = "holding"
    PROVE  Pair(x, y, Tail(l) \o Replies(g, Defence(Recs(x), Head(l))), h, g, a, b)
<1> DEFINE answers == Defence(Recs(x), Head(l))
           t       == Tail(l)
           m       == t \o Replies(g, answers)
           p       == Response(g, answers)
<1>1. x \in ViewType /\ y \in ViewType /\ l \in Seq(Packets) /\ a \in 0..2 /\ b \in 0..2
  BY DEF Pair, Apart
<1>2. PacketsOf(x, g, t) /\ PacketsOf(y, h, t) /\ Says(y, Head(l)) /\ t \in Seq(Packets)
  BY <1>1, Arrives, TailPackets DEF Pair, Apart
<1>3. y.phase = "probing" /\ Head(l).records = Unique(Recs(y))
  BY <1>2 DEF Says
<1>4. answers \subseteq Recs(x)
  BY DEF Defence
<1>5. p \in Packets /\ p.to = g /\ p.kind = "response" /\ p.records = answers
      /\ (Is(p, "claim") <=> Claims(p))
  BY <1>1, <1>4, ResponsePacket
<1>6. m = IF answers = {} THEN t ELSE Append(t, p)
  BY <1>2, <1>5 DEF Replies
<1>7. x.name = y.name => answers # {} /\ Claims(p)
  <2> SUFFICES ASSUME x.name = y.name PROVE answers # {} /\ Claims(p)
    OBVIOUS
  <2> DEFINE mine == Rec("SRV", Instance(x.name), x.data)
             other == Rec("SRV", Instance(y.name), y.data)
  <2>1. mine \in Recs(x) /\ other \in Head(l).records
    BY <1>1, <1>3, RecsTyped
  <2>2. mine.name = other.name /\ mine.type = "SRV"
    BY RecFields
  <2> HIDE DEF mine, other
  <2>3. mine \in answers
    BY <2>1, <2>2 DEF Defence, Asks
  <2> HIDE DEF answers, p
  <2> QED
    BY <2>2, <2>3, <1>5 DEF Claims
<1> HIDE DEF answers, p, m, t
<1>8. PacketsOf(x, g, m) /\ PacketsOf(y, h, m) /\ m \in Seq(Packets)
  <2>1. Says(x, p)
    BY <1>4, <1>5 DEF Says
  <2>2. PacketsOf(x, g, Append(t, p)) /\ PacketsOf(y, h, Append(t, p))
    BY <2>1, <1>2, <1>5, AppendPackets DEF Tags
  <2> QED
    BY <2>2, <1>2, <1>5, <1>6
<1>9. \A what : /\ UnderWay(l, g, what) => UnderWay(m, g, what)
                /\ Crossed(l, g, what, h) => Crossed(m, g, what, h)
                /\ UnderWay(m, h, what) => UnderWay(l, h, what)
  <2> TAKE what
  <2>1. /\ UnderWay(l, g, what) => UnderWay(t, g, what)
        /\ Crossed(l, g, what, h) => Crossed(t, g, what, h)
        /\ UnderWay(t, h, what) => UnderWay(l, h, what)
    BY <1>1, Arrives DEF t
  <2>2. /\ UnderWay(t, g, what) => UnderWay(Append(t, p), g, what)
        /\ Crossed(t, g, what, h) => Crossed(Append(t, p), g, what, h)
        /\ UnderWay(Append(t, p), h, what) => UnderWay(t, h, what)
    BY <1>2, <1>5, AppendLink DEF Tags
  <2> QED
    BY <2>1, <2>2, <1>6
<1>10. x.name = y.name => UnderWay(m, g, "claim")
  BY <1>2, <1>5, <1>6, <1>7, AppendLink
<1>11. Learns(y, x, m, g, h)
  <2> SUFFICES ASSUME x.name = y.name, ~y.warned
               PROVE  y.sent < ProbeCount \/ Crossed(m, g, "claim", h)
    BY <1>10 DEF Learns
  <2>1. y.sent < ProbeCount \/ Crossed(l, g, "claim", h) \/ y.sent = 0 \/ y.sent = 1
    BY <1>3 DEF Pair, Apart, Learns
  <2> QED
    BY <2>1, <1>1, <1>9, ProbeAssumption
<1>12. Lags(x, y, m, h, g, a) /\ Lags(y, x, m, g, h, b) /\ Learns(x, y, m, h, g)
       /\ Undisputed(x, y, m, h) /\ Undisputed(y, x, m, g)
  BY <1>3 DEF Lags, Learns, Undisputed
<1> QED
  BY <1>1, <1>8, <1>11, <1>12 DEF Pair, Apart, m, t, answers

\* Which records of the other host contradict ours: those of the same instance.
OneAddressOrHost(x, y) == x.host = y.host => \A d, e \in Addrs : d = e

\* Two hosts contradict each other only about a name both have.
LEMMA ConflictIsOfName ==
    ASSUME NEW x \in ViewType, NEW y \in ViewType, OneAddressOrHost(x, y),
           NEW rs, rs \subseteq Recs(y), ConflictsWith(rs, Recs(x))
    PROVE  x.name = y.name /\ \E r \in rs : r.type \in {"SRV", "TXT"}
<1>1. PICK r \in rs, o \in Unique(Recs(x)) : Conflicting(r, o)
  BY DEF ConflictsWith
<1>2. r.type = o.type /\ r.name = o.name /\ r.data # o.data
  BY <1>1 DEF Conflicting, SameNameType
<1>3. /\ r.type \in {"PTR", "SRV", "TXT", "A"}
      /\ r.type \in {"SRV", "TXT"} => r.name = Instance(y.name)
      /\ r.type = "A" => r.name = <<"host", y.host>> /\ r.data \in Addrs
  <2>1. r \in Recs(y)
    OBVIOUS
  <2> QED
    BY <2>1, RecFields DEF Recs
<1>4. /\ o.type \in {"SRV", "TXT", "A"}
      /\ o.type \in {"SRV", "TXT"} => o.name = Instance(x.name)
      /\ o.type = "A" => o.name = <<"host", x.host>> /\ o.data \in Addrs
  <2>1. o \in {Rec("SRV", Instance(x.name), x.data), Rec("TXT", Instance(x.name), x.data)}
                 \cup {Rec("A", <<"host", x.host>>, d) : d \in Addrs}
    BY UniqueRecs
  <2> QED
    BY <2>1, RecFields
<1>5. r.type # "A"
  BY <1>2, <1>3, <1>4 DEF OneAddressOrHost
<1> QED
  BY <1>2, <1>3, <1>4, <1>5 DEF Instance

\* A claim of our name contradicts our records.
LEMMA ClaimConflicts ==
    ASSUME NEW x \in ViewType, NEW y \in ViewType, x.name = y.name, x.data # y.data,
           NEW rs, rs \subseteq Recs(y), NEW r \in rs, r.type \in {"SRV", "TXT"}
    PROVE  ConflictsWith(rs, Recs(x))
<1>1. r.name = Instance(x.name) /\ r.data = y.data
  BY RecFields DEF Recs
<1>2. PICK o \in Unique(Recs(x)) : o = Rec(r.type, Instance(x.name), x.data)
  BY UniqueRecs
<1>3. Conflicting(r, o)
  BY <1>1, <1>2, RecFields DEF Conflicting, SameNameType
<1> QED
  BY <1>2, <1>3 DEF ConflictsWith

\* A response that contradicts ours reaches a host: it is about its own name, which
\* it does not hold yet.
LEMMA ConflictStep ==
    ASSUME NEW x, NEW y, NEW z \in ViewType, NEW l, NEW h, NEW g, NEW a, NEW b,
           Tags(h, g), Pair(x, y, l, h, g, a, b), l # <<>>, Head(l).to = h,
           OneAddressOrHost(x, y), Head(l).kind = "response",
           ConflictsWith(Head(l).records, Recs(x)),
           SameHost(z, x), z.name = x.name, z.sent = x.sent, z.phase = x.phase, z.warned
    PROVE  /\ x.phase # "holding"
           /\ x.phase = "probing" => Pair(z, y, Tail(l), h, g, a, b)
<1>1. x \in ViewType /\ y \in ViewType /\ l \in Seq(Packets) /\ a \in 0..2 /\ b \in 0..2
  BY DEF Pair, Apart
<1>2. /\ PacketsOf(x, g, Tail(l)) /\ PacketsOf(y, h, Tail(l)) /\ Says(y, Head(l))
  BY <1>1, Arrives, TailPackets DEF Pair, Apart
<1>3. y.phase \in {"holding", "gone"} /\ Head(l).records \subseteq Recs(y)
  BY <1>2 DEF Says
<1>4. x.name = y.name /\ Claims(Head(l))
  BY <1>1, <1>3, ConflictIsOfName DEF Claims
<1>5. UnderWay(l, h, "claim")
  <2>1. 1 \in 1..Len(l) /\ Head(l) = l[1]
    BY <1>1
  <2> QED
    BY <1>4, <2>1 DEF UnderWay, Is
<1>6. x.phase # "holding"
  BY <1>3, <1>4, <1>5 DEF Pair, Apart, Undisputed
<1>7. ASSUME x.phase = "probing" PROVE Pair(z, y, Tail(l), h, g, a, b)
  <2>1. PacketsOf(z, g, Tail(l))
    <3>1. Recs(z) = Recs(x)
      BY DEF Recs, SameHost
    <3> QED
      BY <1>2, <3>1 DEF PacketsOf, Says
  <2>2. Lags(z, y, Tail(l), h, g, a) /\ Lags(y, z, Tail(l), g, h, b)
        /\ Learns(z, y, Tail(l), h, g) /\ Learns(y, z, Tail(l), g, h)
        /\ Undisputed(z, y, Tail(l), h) /\ Undisputed(y, z, Tail(l), g)
    BY <1>3, <1>7 DEF Lags, Learns, Undisputed
  <2> QED
    BY <1>1, <1>2, <2>1, <2>2, Arrives DEF Pair, Apart
<1> QED
  BY <1>6, <1>7

\* A packet that says nothing to a host.
LEMMA IgnoreStep ==
    ASSUME NEW x, NEW y, NEW l, NEW h, NEW g, NEW a, NEW b,
           Tags(h, g), Pair(x, y, l, h, g, a, b), l # <<>>, Head(l).to = h, x.data # y.data,
           \/ x.phase \in {"off", "gone"}
           \/ Head(l).kind = "response" /\ ~ConflictsWith(Head(l).records, Recs(x))
    PROVE  Pair(x, y, Tail(l), h, g, a, b)
<1>1. x \in ViewType /\ y \in ViewType /\ l \in Seq(Packets) /\ a \in 0..2 /\ b \in 0..2
  BY DEF Pair, Apart
<1>2. /\ PacketsOf(x, g, Tail(l)) /\ PacketsOf(y, h, Tail(l)) /\ Says(y, Head(l))
  BY <1>1, Arrives, TailPackets DEF Pair, Apart
<1>3. x.phase \in {"off", "gone"}
      \/ (y.phase \in {"holding", "gone"} /\ (x.name = y.name => ~Is(Head(l), "claim")))
  <2> SUFFICES ASSUME x.phase \notin {"off", "gone"}
               PROVE  y.phase \in {"holding", "gone"} /\ (x.name = y.name => ~Is(Head(l), "claim"))
    OBVIOUS
  <2>1. y.phase \in {"holding", "gone"} /\ Head(l).records \subseteq Recs(y)
    BY <1>2 DEF Says
  <2> QED
    BY <1>1, <2>1, ClaimConflicts DEF Is, Claims
<1>4. \A what : /\ UnderWay(l, g, what) <=> UnderWay(Tail(l), g, what)
                /\ Crossed(l, g, what, h) => Crossed(Tail(l), g, what, h)
                /\ UnderWay(Tail(l), h, what) => UnderWay(l, h, what)
                /\ ~Is(Head(l), what) /\ UnderWay(l, h, what) => UnderWay(Tail(l), h, what)
                /\ ~Is(Head(l), what) /\ Crossed(l, h, what, g) => Crossed(Tail(l), h, what, g)
  BY <1>1, Arrives
<1>5. Lags(x, y, Tail(l), h, g, a) /\ Lags(y, x, Tail(l), g, h, b)
  BY <1>3 DEF Lags
<1>6. Learns(x, y, Tail(l), h, g)
  BY <1>3, <1>4 DEF Pair, Apart, Learns
<1>7. Learns(y, x, Tail(l), g, h)
  BY <1>3, <1>4 DEF Pair, Apart, Learns
<1>8. Undisputed(x, y, Tail(l), h) /\ Undisputed(y, x, Tail(l), g)
  BY <1>4 DEF Pair, Apart, Undisputed
<1> QED
  BY <1>1, <1>2, <1>5, <1>6, <1>7, <1>8, Arrives DEF Pair, Apart

------------------------------------------------------------------------------
(* The steps of each host: ours, then those of the rival, which runs the same code *)

LEMMA ViewFields ==
    ASSUME NEW n, NEW ph, NEW s, NEW w, NEW h, NEW d
    PROVE  LET v == HostView(n, ph, s, w, h, d)
           IN  /\ v.name = n /\ v.phase = ph /\ v.sent = s /\ v.warned = w
               /\ v.host = h /\ v.data = d
               /\ n \in Nat /\ ph \in {"off", "probing", "holding", "gone"}
                  /\ s \in 0..ProbeCount /\ w \in BOOLEAN /\ h \in Nat /\ d \in Nat
                     => v \in ViewType
BY DEF HostView, ViewType

LEMMA OursRecords ==
    \A x : x.host = OurHost /\ x.data = OurData => RecordsOf(x.name) = Recs(x)
BY DEF RecordsOf, Recs, Host

LEMMA TheirsRecords ==
    \A x : x.host = RivalHost /\ x.data = RivalData => Rival!RecordsOf(x.name) = Recs(x)
BY DEF Rival!RecordsOf, Recs, Rival!Host, Rival!Rec, Rec, Rival!Service, Service,
       Rival!Enumeration, Enumeration, Rival!Instance, Instance

LEMMA SameTieBreak == \A rs, ts : Rival!LosesTieBreak(rs, ts) <=> LosesTieBreak(rs, ts)
BY DEF Rival!LosesTieBreak, LosesTieBreak, Rival!Unique, Unique, Rival!Comparable, Comparable,
       Rival!Key, Key, Rival!RecordLess, RecordLess, Rival!TypeNum, TypeNum,
       Rival!SameNameType, SameNameType

LEMMA SameConflicts == \A rs, ts : Rival!ConflictsWith(rs, ts) <=> ConflictsWith(rs, ts)
BY DEF Rival!ConflictsWith, ConflictsWith, Rival!Unique, Unique, Rival!Conflicting, Conflicting,
       Rival!SameNameType, SameNameType

\* What the other host sees of ours, before and after a step.
LEMMA OursFields ==
    /\ Ours.name = instanceName /\ Ours.phase = PhaseOf(started, closed, announcing)
    /\ Ours.sent = probes /\ Ours.warned = probeConflict /\ Ours.host = OurHost
    /\ Ours.data = OurData
    /\ Ours'.name = instanceName' /\ Ours'.phase = PhaseOf(started', closed', announcing')
    /\ Ours'.sent = probes' /\ Ours'.warned = probeConflict' /\ Ours'.host = OurHost
    /\ Ours'.data = OurData
BY ViewFields DEF Ours

\* Nothing of ours changes.
LEMMA OursStay == ASSUME OursInv, UNCHANGED vars PROVE OursInv' /\ Ours' = Ours /\ timers' = timers
<1>1. UNCHANGED <<started, closed, registered, instanceName, renameAttempt, records,
                  timers, announcing, ready, engineClosed, probes, claimed,
                  probeConflict>>
  BY DEF vars, control, naming, history
<1>2. Ours' = Ours
  BY <1>1 DEF Ours
<1> QED
  BY <1>1, <1>2 DEF OursInv, OneHost

\* A host probes exactly while a timer of probing is pending.
LEMMA OursTyped ==
    /\ OursInv => Ours \in ViewType /\ (Ours.phase = "probing" <=> Probing(timers))
    /\ OursInv' => Ours' \in ViewType
<1>1. PhaseOf(started, closed, announcing) \in {"off", "probing", "holding", "gone"}
      /\ PhaseOf(started', closed', announcing') \in {"off", "probing", "holding", "gone"}
  BY DEF PhaseOf
<1>2. OursInv => Ours \in ViewType
  BY <1>1, OursFields, ViewFields, HostAssumption, DataAssumption, RivalAssumption
     DEF OursInv, OneHost, Ours
<1>3. OursInv' => Ours' \in ViewType
  BY <1>1, OursFields, ViewFields, HostAssumption, DataAssumption, RivalAssumption
     DEF OursInv, OneHost, Ours
<1>4. OursInv /\ Ours.phase = "probing" => Probing(timers)
  <2> SUFFICES ASSUME OursInv, Ours.phase = "probing" PROVE Probing(timers)
    OBVIOUS
  <2>1. PICK t : timers = {t} /\ t \in {Timer("onProbeDone", 0), Timer("sendProbe", Ours.sent)}
    BY DEF OursInv, OneHost
  <2> QED
    BY <2>1 DEF Probing, Timer
<1>5. OursInv /\ Ours.phase # "probing" => ~Probing(timers)
  <2>1. OursInv => Ours.phase \in {"off", "gone", "probing", "holding"}
    BY <1>1, OursFields
  <2> QED
    BY <2>1 DEF OursInv, OneHost, Probing
<1> QED
  BY <1>2, <1>3, <1>4, <1>5

\* The phase of a host, and what it says of its flags and timers.
LEMMA OursPhases ==
    ASSUME OursInv
    PROVE  /\ Ours.phase \in {"off", "gone"} <=> (~registered \/ closed)
           /\ Ours.phase = "probing" <=> registered /\ ~closed /\ ~announcing
           /\ Ours.phase = "holding" <=> registered /\ ~closed /\ announcing
           /\ registered => started /\ records = Recs(Ours)
           /\ (\E t \in timers : t.fn \in {"sendProbe", "onProbeDone"}) => Ours.phase = "probing"
           /\ (\E t \in timers : t.fn = "announce") => Ours.phase = "holding"
<1>1. Ours.phase \in {"off", "gone", "probing", "holding"}
  BY OursFields DEF PhaseOf
<1>2. (\E t \in timers : t.fn = "announce") => Ours.phase # "probing"
  BY DEF OursInv, OneHost, Timer
<1> QED
  BY <1>1, <1>2, OursFields DEF OursInv, OneHost, PhaseOf

\* sendProbe of ours: one probe more, and the next timer of the chain.
LEMMA OursProbes ==
    ASSUME OursInv, SendProbe
    PROVE  /\ OursInv' /\ SameHost(Ours', Ours) /\ Ours'.name = Ours.name
           /\ Ours'.warned = Ours.warned
           /\ Ours.phase = "probing" /\ Ours'.phase = "probing" /\ Ours'.sent = Ours.sent + 1
           /\ records = Recs(Ours)
<1>1. PICK t \in timers : /\ t.fn = "sendProbe"
                          /\ timers' = (timers \ {t}) \cup
                               {IF t.sent + 1 >= ProbeCount THEN Timer("onProbeDone", 0)
                                                            ELSE Timer("sendProbe", t.sent + 1)}
  BY DEF SendProbe, Timer
<1>2. probes' = probes + 1
      /\ UNCHANGED <<started, closed, registered, instanceName, renameAttempt, records,
                     probeConflict, announcing, ready, engineClosed, claimed>>
  BY DEF SendProbe, control, naming
<1>3. Ours.phase = "probing" /\ records = Recs(Ours)
  BY <1>1, OursPhases
<1>4. timers = {t} /\ t = Timer("sendProbe", probes) /\ probes # ProbeCount
  BY <1>1, <1>3, OursFields DEF OursInv, OneHost, Timer
<1>5. SameHost(Ours', Ours) /\ Ours'.name = Ours.name /\ Ours'.warned = Ours.warned
      /\ Ours'.phase = "probing" /\ Ours'.sent = Ours.sent + 1
  BY <1>2, <1>3, OursFields DEF SameHost
<1>6. Recs(Ours') = Recs(Ours)
  BY <1>5 DEF Recs, SameHost
<1>7. probes + 1 \in 0..ProbeCount /\ (probes + 1 >= ProbeCount <=> probes + 1 = ProbeCount)
  BY <1>4, OursFields, ProbeAssumption DEF OursInv, OneHost
<1>8. t.sent = probes
  BY <1>4 DEF Timer
<1>9. OursInv'
  <2>1. timers' = {IF Ours'.sent = ProbeCount THEN Timer("onProbeDone", 0)
                                            ELSE Timer("sendProbe", Ours'.sent)}
    BY <1>1, <1>4, <1>5, <1>7, <1>8, OursFields
  <2> QED
    BY <2>1, <1>2, <1>3, <1>5, <1>6, <1>7, OursFields DEF OursInv, OneHost
<1> QED
  BY <1>3, <1>5, <1>9

\* onProbeDone without a conflict, and announce.
LEMMA OursAnnounces ==
    ASSUME OursInv, ClaimName \/ Announce
    PROVE  /\ OursInv' /\ SameHost(Ours', Ours) /\ Ours'.name = Ours.name
           /\ Ours'.warned = Ours.warned
           /\ Ours'.sent = Ours.sent /\ Ours'.phase = "holding" /\ records = Recs(Ours)
           /\ \/ Ours.phase = "holding"
              \/ Ours.phase = "probing" /\ Ours.sent = ProbeCount /\ ~Ours.warned
<1>1. CASE ClaimName
  <2>1. /\ Timer("onProbeDone", 0) \in timers /\ ~probeConflict /\ announcing'
        /\ timers' = (timers \ {Timer("onProbeDone", 0)}) \cup
                         (IF 1 < AnnounceCount THEN {Timer("announce", 1)} ELSE {})
        /\ claimed' = claimed \cup {instanceName}
        /\ UNCHANGED <<started, closed, registered, instanceName, renameAttempt, records,
                       probeConflict, engineClosed, probes>>
    BY <1>1 DEF ClaimName, AnnounceAgain, Timer, control, naming
  <2>2. Ours.phase = "probing" /\ records = Recs(Ours)
    BY <2>1, OursPhases DEF Timer
  <2>3. Ours.sent = ProbeCount /\ timers = {Timer("onProbeDone", 0)}
    BY <2>1, <2>2 DEF OursInv, OneHost, Timer
  <2>4. /\ SameHost(Ours', Ours) /\ Ours'.name = Ours.name /\ Ours'.warned = Ours.warned
        /\ Ours'.sent = Ours.sent /\ Ours'.phase = "holding" /\ ~Ours.warned
    BY <2>1, <2>2, OursFields, OursPhases DEF SameHost, PhaseOf, OursInv, OneHost
  <2>5. Recs(Ours') = Recs(Ours)
    BY <2>4 DEF Recs, SameHost
  <2>6. \A t \in timers' : t.fn = "announce"
    BY <2>1, <2>3 DEF Timer
  <2>7. OursInv'
    BY <2>1, <2>2, <2>4, <2>5, <2>6, OursFields, OursPhases DEF OursInv, OneHost
  <2> QED
    BY <2>2, <2>3, <2>4, <2>7
<1>2. CASE Announce
  <2>1. PICK u \in timers : /\ u.fn = "announce"
                            /\ timers' = (timers \ {u}) \cup
                                 (IF u.sent + 1 < AnnounceCount THEN {Timer("announce", u.sent + 1)}
                                                                ELSE {})
    BY <1>2 DEF Announce, AnnounceAgain, Timer
  <2>2. UNCHANGED <<started, closed, registered, instanceName, renameAttempt, records,
                    probeConflict, announcing, ready, engineClosed, probes, claimed>>
    BY <1>2 DEF Announce, control, naming
  <2>3. Ours.phase = "holding" /\ records = Recs(Ours)
    BY <2>1, OursPhases
  <2>4. /\ SameHost(Ours', Ours) /\ Ours'.name = Ours.name /\ Ours'.warned = Ours.warned
        /\ Ours'.sent = Ours.sent /\ Ours'.phase = "holding"
    BY <2>2, <2>3, OursFields DEF SameHost
  <2>5. Recs(Ours') = Recs(Ours)
    BY <2>4 DEF Recs, SameHost
  <2>6. \A t \in timers' : t.fn = "announce"
    BY <2>1, <2>3 DEF Timer, OursInv, OneHost
  <2>7. OursInv'
    BY <2>2, <2>3, <2>4, <2>5, <2>6, OursFields DEF OursInv, OneHost
  <2> QED
    BY <2>3, <2>4, <2>7
<1> QED
  BY <1>1, <1>2

\* onProbeDone after a conflict: the next name, or none.
LEMMA OursLosesName ==
    ASSUME OursInv, LoseName
    PROVE  /\ OursInv'
           /\ Ours'.phase = "off" \/ (Ours'.phase = "probing" /\ Ours'.sent = 0)
           /\ Ours.warned /\ (Ours'.name # 0 \/ Ours'.warned)
<1>1. Ours.phase = "probing" /\ records = Recs(Ours) /\ timers = {Timer("onProbeDone", 0)}
  <2>1. Timer("onProbeDone", 0) \in timers
    BY DEF LoseName, Timer
  <2>2. Ours.phase = "probing"
    BY <2>1, OursPhases DEF Timer
  <2> QED
    BY <2>1, <2>2, OursPhases DEF OursInv, OneHost
<1>2. UNCHANGED <<announcing, engineClosed, claimed>> /\ Ours.warned
  BY OursFields DEF LoseName
<1>3. started /\ ~closed /\ registered /\ ~announcing
  BY <1>1, OursPhases
<1>4. CASE GiveUp
  <2>1. /\ closed' = TRUE /\ registered' = FALSE /\ timers' = {}
        /\ renameAttempt' = renameAttempt + 1
        /\ ready' # "resolved"
        /\ UNCHANGED <<started, instanceName, records, probeConflict, probes>>
    BY <1>1, <1>4 DEF GiveUp, Close, OursInv, OneHost
  <2>2. Ours'.phase = "off"
    BY <2>1, <1>2, <1>3, OursFields DEF PhaseOf
  <2>3. Recs(Ours') = Recs(Ours)
    BY <2>1, OursFields DEF Recs
  <2>4. OursInv'
    <3>1. claimed' = {} /\ records' = Recs(Ours')
      BY <1>1, <1>2, <2>1, <2>3 DEF OursInv, OneHost
    <3>2. Ours'.sent \in 0..ProbeCount /\ Ours'.name \in Nat /\ Ours'.warned \in BOOLEAN
          /\ renameAttempt' \in Nat
      BY <2>1, OursFields DEF OursInv, OneHost
    <3> QED
      BY <1>2, <1>3, <2>1, <2>2, <3>1, <3>2 DEF OursInv, OneHost
  <2>5. Ours'.warned
    BY <1>2, <2>1, OursFields
  <2> QED
    BY <1>2, <2>2, <2>4, <2>5
<1>5. CASE ~GiveUp
  <2>1. /\ renameAttempt' = renameAttempt + 1 /\ instanceName' = renameAttempt + 1
        /\ records' = RecordsOf(renameAttempt + 1) /\ probeConflict' = FALSE
        /\ timers' = {Timer("sendProbe", 0)} /\ probes' = 0
        /\ UNCHANGED <<started, closed, registered, ready>>
    BY <1>1, <1>5 DEF LoseName, Rename, ProbeNextName, Timer, control
  <2>2. Ours'.phase = "probing" /\ Ours'.sent = 0
    BY <2>1, <1>2, <1>3, OursFields DEF PhaseOf
  <2>3. records' = Recs(Ours')
    BY <2>1, OursFields, OursRecords
  <2>4. OursInv'
    <3>1. timers' = {IF Ours'.sent = ProbeCount THEN Timer("onProbeDone", 0)
                                              ELSE Timer("sendProbe", Ours'.sent)}
      BY <2>1, <2>2, ProbeAssumption
    <3>2. claimed' = {} /\ ready' # "resolved"
      BY <1>1, <1>2, <2>1 DEF OursInv, OneHost
    <3>3. Ours'.sent \in 0..ProbeCount /\ Ours'.name \in Nat /\ renameAttempt' \in Nat
      <4>1. renameAttempt \in Nat
        BY DEF OursInv, OneHost
      <4> QED
        BY <2>1, <2>2, <4>1, OursFields, ProbeAssumption
    <3>4. Ours'.warned \in BOOLEAN
      BY <2>1, OursFields
    <3> QED
      BY <1>2, <1>3, <2>1, <2>2, <2>3, <3>1, <3>2, <3>3, <3>4 DEF OursInv, OneHost
  <2>5. Ours'.name # 0
    <3>1. renameAttempt \in Nat
      BY DEF OursInv, OneHost
    <3> QED
      BY <2>1, <3>1, OursFields
  <2> QED
    BY <1>2, <2>2, <2>4, <2>5
<1> QED
  BY <1>4, <1>5

\* start() of ours: probing begins.
LEMMA OursStarts ==
    ASSUME OursInv, Start
    PROVE  /\ OursInv' /\ Ours.phase = "off" /\ Ours'.phase = "probing" /\ Ours'.sent = 0
           /\ timers' # timers /\ ~started /\ Ours'.name = Ours.name /\ ~Ours'.warned
<1>1. /\ ~started /\ started' = TRUE /\ registered' = TRUE /\ probeConflict' = FALSE /\ probes' = 0
      /\ records' = RecordsOf(instanceName)
      /\ timers' = timers \cup {Timer("sendProbe", 0)}
      /\ UNCHANGED <<closed, instanceName, renameAttempt, announcing, ready,
                     engineClosed, claimed>>
  BY DEF Start, Timer
<1>2. Ours.phase = "off" /\ ~closed /\ ~announcing /\ timers = {}
  BY <1>1, OursFields DEF PhaseOf, OursInv, OneHost
<1>3. Ours'.phase = "probing" /\ Ours'.sent = 0
  BY <1>1, <1>2, OursFields DEF PhaseOf
<1>4. records' = Recs(Ours')
  BY <1>1, OursFields, OursRecords
<1>5. OursInv'
  <2>1. timers' = {IF Ours'.sent = ProbeCount THEN Timer("onProbeDone", 0)
                                            ELSE Timer("sendProbe", Ours'.sent)}
    BY <1>1, <1>2, <1>3, ProbeAssumption
  <2>2. claimed' = {} /\ ready' # "resolved"
    BY <1>1, <1>2 DEF OursInv, OneHost
  <2>3. Ours'.sent \in 0..ProbeCount /\ Ours'.name \in Nat /\ renameAttempt' \in Nat
    BY <1>1, <1>3, OursFields, ProbeAssumption DEF OursInv, OneHost
  <2>4. Ours'.warned \in BOOLEAN /\ closed = FALSE
    BY <1>1, <1>2, OursFields DEF OursInv, OneHost
  <2> QED
    BY <1>1, <1>2, <1>3, <1>4, <2>1, <2>2, <2>3, <2>4 DEF OursInv, OneHost
<1> QED
  BY <1>1, <1>2, <1>3, <1>5, OursFields

\* stop() of ours: nothing if it is closed, else it is gone for good.
LEMMA OursStops ==
    ASSUME OursInv, Stop
    PROVE  /\ OursInv'
           /\ \/ closed /\ Ours' = Ours
              \/ /\ ~closed /\ SameHost(Ours', Ours) /\ Ours'.name = Ours.name
                 /\ Ours.phase = "holding" /\ Ours'.phase = "gone" /\ records = Recs(Ours)
                 /\ Ours'.warned = Ours.warned
<1>1. UNCHANGED <<instanceName, renameAttempt, records, probeConflict, announcing,
                  ready, engineClosed, probes, claimed>>
      /\ ready = "resolved"
  BY DEF Stop, naming
<1>2. CASE closed
  <2>1. UNCHANGED <<started, closed, registered, timers>>
    BY <1>2 DEF Stop, control
  <2> QED
    BY <1>1, <1>2, <2>1 DEF OursInv, OneHost, Ours
<1>3. CASE ~closed
  <2>1. closed' = TRUE /\ registered' = FALSE /\ timers' = {} /\ UNCHANGED started
    BY <1>3 DEF Stop, Close
  <2>2. Ours.phase = "holding" /\ started /\ announcing /\ records = Recs(Ours)
    BY <1>1, <1>3, OursFields, OursPhases DEF OursInv, OneHost, PhaseOf
  <2>3. Ours'.phase = "gone" /\ SameHost(Ours', Ours) /\ Ours'.name = Ours.name
        /\ Ours'.sent = Ours.sent
        /\ Ours'.warned = Ours.warned
    BY <1>1, <2>1, <2>2, OursFields DEF PhaseOf, SameHost
  <2>4. Recs(Ours') = Recs(Ours)
    BY <2>3 DEF Recs, SameHost
  <2>5. OursInv'
    BY <1>1, <2>1, <2>2, <2>3, <2>4, OursFields DEF OursInv, OneHost
  <2> QED
    BY <1>3, <2>2, <2>3, <2>5
<1> QED
  BY <1>2, <1>3

\* A probe that reaches ours while it probes is weighed in the tie-break.
LEMMA OursWeighs ==
    ASSUME NEW n, NEW rs, OursInv, OnRivalProbe(n, rs)
    PROVE  /\ OursInv' /\ SameHost(Ours', Ours) /\ Ours'.name = Ours.name /\ Ours'.sent = Ours.sent
           /\ Ours.phase = "probing" /\ Ours'.phase = "probing"
           /\ Ours'.warned = (Ours.warned \/ LosesTieBreak(Recs(Ours), rs))
           /\ timers' = timers
<1>1. /\ registered /\ ~closed /\ ~announcing
      /\ probeConflict' = (probeConflict \/ LosesTieBreak(records, rs))
      /\ UNCHANGED <<started, closed, registered, instanceName, renameAttempt, records,
                     timers, announcing, ready, engineClosed, probes, claimed>>
  BY DEF OnRivalProbe, control, naming
<1>2. Ours.phase = "probing" /\ records = Recs(Ours)
  BY <1>1, OursPhases
<1>3. Ours'.warned = (Ours.warned \/ LosesTieBreak(Recs(Ours), rs)) /\ probeConflict' \in BOOLEAN
  BY <1>1, <1>2, OursFields, SameTieBreak DEF OursInv, OneHost
<1>4. Ours'.phase = "probing" /\ SameHost(Ours', Ours) /\ Ours'.name = Ours.name
      /\ Ours'.sent = Ours.sent
  BY <1>1, <1>2, OursFields DEF SameHost
<1>5. Recs(Ours') = Recs(Ours)
  BY <1>4 DEF Recs, SameHost
<1>6. OursInv'
  BY <1>1, <1>2, <1>3, <1>4, <1>5, OursFields DEF OursInv, OneHost
<1> QED
  BY <1>1, <1>2, <1>3, <1>4, <1>6

\* A probe that reaches ours later changes nothing of it.
LEMMA OursDefends ==
    ASSUME NEW n, NEW rs, OursInv, OnLateProbe(n, rs)
    PROVE  /\ OursInv' /\ Ours' = Ours /\ Ours.phase = "holding" /\ records = Recs(Ours)
           /\ timers' = timers
<1>1. /\ registered /\ ~closed /\ announcing
      /\ UNCHANGED <<started, closed, registered, instanceName, renameAttempt, records,
                     timers, announcing, ready, engineClosed, probes, claimed,
                     probeConflict>>
  BY DEF OnLateProbe, control, naming
<1>2. Ours.phase = "holding" /\ records = Recs(Ours)
  BY <1>1, OursPhases
<1>3. Ours' = Ours
  BY <1>1 DEF Ours
<1>4. OursInv'
  BY <1>1, <1>3 DEF OursInv, OneHost
<1> QED
  BY <1>1, <1>2, <1>3, <1>4

\* A contradicting response: before the claim it is remembered.
LEMMA OursHears ==
    ASSUME NEW rs, NEW answer \in rs, OursInv, OnConflict(answer)
    PROVE  /\ ConflictsWith(rs, Recs(Ours)) /\ Ours.phase \in {"probing", "holding"}
           /\ Ours.phase = "probing" =>
                 /\ OursInv' /\ SameHost(Ours', Ours) /\ Ours'.name = Ours.name
                 /\ Ours'.sent = Ours.sent
                 /\ Ours'.phase = "probing" /\ Ours'.warned /\ timers' = timers
<1>1. /\ registered /\ ~closed /\ ConflictsWith({answer}, records)
      /\ UNCHANGED <<announcing, engineClosed, claimed>>
  BY DEF OnConflict
<1>2. Ours.phase \in {"probing", "holding"} /\ records = Recs(Ours)
  BY <1>1, OursPhases
<1>3. ConflictsWith(rs, Recs(Ours))
  BY <1>1, <1>2, SameConflicts DEF ConflictsWith
<1>4. ASSUME Ours.phase = "probing"
      PROVE  /\ OursInv' /\ SameHost(Ours', Ours) /\ Ours'.name = Ours.name
             /\ Ours'.sent = Ours.sent
             /\ Ours'.phase = "probing" /\ Ours'.warned /\ timers' = timers
  <2>1. ~announcing
    BY <1>4, OursPhases
  <2>2. /\ probeConflict' = TRUE
        /\ UNCHANGED <<started, closed, registered, instanceName, renameAttempt, records,
                       timers, ready, probes>>
    BY <2>1 DEF OnConflict, control, naming
  <2>3. SameHost(Ours', Ours) /\ Ours'.name = Ours.name /\ Ours'.sent = Ours.sent
        /\ Ours'.phase = "probing" /\ Ours'.warned
    BY <1>1, <1>4, <2>2, OursFields DEF SameHost
  <2>4. Recs(Ours') = Recs(Ours)
    BY <2>3 DEF Recs, SameHost
  <2>5. OursInv'
    BY <1>1, <1>2, <1>4, <2>2, <2>3, <2>4, OursFields DEF OursInv, OneHost
  <2> QED
    BY <2>2, <2>3, <2>5
<1> QED
  BY <1>2, <1>3, <1>4

\* What the other host sees of the rival, before and after a step.
LEMMA TheirsFields ==
    /\ Theirs.name = instanceName2 /\ Theirs.phase = PhaseOf(started2, closed2, announcing2)
    /\ Theirs.sent = probes2 /\ Theirs.warned = probeConflict2 /\ Theirs.host = RivalHost
    /\ Theirs.data = RivalData
    /\ Theirs'.name = instanceName2' /\ Theirs'.phase = PhaseOf(started2', closed2', announcing2')
    /\ Theirs'.sent = probes2' /\ Theirs'.warned = probeConflict2' /\ Theirs'.host = RivalHost
    /\ Theirs'.data = RivalData
BY ViewFields DEF Theirs

\* Nothing of the rival changes.
LEMMA TheirsStay == ASSUME TheirsInv, UNCHANGED rivalVars
    PROVE  TheirsInv' /\ Theirs' = Theirs /\ timers2' = timers2
<1>1. UNCHANGED <<started2, closed2, registered2, instanceName2, renameAttempt2, records2,
                  timers2, announcing2, ready2, engineClosed2, probes2, claimed2,
                  probeConflict2>>
  BY DEF rivalVars
<1>2. Theirs' = Theirs
  BY <1>1 DEF Theirs
<1> QED
  BY <1>1, <1>2 DEF TheirsInv, OneHost

\* A host probes exactly while a timer of probing is pending.
LEMMA TheirsTyped ==
    /\ TheirsInv => Theirs \in ViewType /\ (Theirs.phase = "probing" <=> Probing(timers2))
    /\ TheirsInv' => Theirs' \in ViewType
<1>1. PhaseOf(started2, closed2, announcing2) \in {"off", "probing", "holding", "gone"}
      /\ PhaseOf(started2', closed2', announcing2') \in {"off", "probing", "holding", "gone"}
  BY DEF PhaseOf
<1>2. TheirsInv => Theirs \in ViewType
  BY <1>1, TheirsFields, ViewFields, HostAssumption, DataAssumption, RivalAssumption
     DEF TheirsInv, OneHost, Theirs
<1>3. TheirsInv' => Theirs' \in ViewType
  BY <1>1, TheirsFields, ViewFields, HostAssumption, DataAssumption, RivalAssumption
     DEF TheirsInv, OneHost, Theirs
<1>4. TheirsInv /\ Theirs.phase = "probing" => Probing(timers2)
  <2> SUFFICES ASSUME TheirsInv, Theirs.phase = "probing" PROVE Probing(timers2)
    OBVIOUS
  <2>1. PICK t : timers2 = {t} /\ t \in {Timer("onProbeDone", 0), Timer("sendProbe", Theirs.sent)}
    BY DEF TheirsInv, OneHost
  <2> QED
    BY <2>1 DEF Probing, Timer
<1>5. TheirsInv /\ Theirs.phase # "probing" => ~Probing(timers2)
  <2>1. TheirsInv => Theirs.phase \in {"off", "gone", "probing", "holding"}
    BY <1>1, TheirsFields
  <2> QED
    BY <2>1 DEF TheirsInv, OneHost, Probing
<1> QED
  BY <1>2, <1>3, <1>4, <1>5

\* The phase of a host, and what it says of its flags and timers.
LEMMA TheirsPhases ==
    ASSUME TheirsInv
    PROVE  /\ Theirs.phase \in {"off", "gone"} <=> (~registered2 \/ closed2)
           /\ Theirs.phase = "probing" <=> registered2 /\ ~closed2 /\ ~announcing2
           /\ Theirs.phase = "holding" <=> registered2 /\ ~closed2 /\ announcing2
           /\ registered2 => started2 /\ records2 = Recs(Theirs)
           /\ (\E t \in timers2 : t.fn \in {"sendProbe", "onProbeDone"}) => Theirs.phase = "probing"
           /\ (\E t \in timers2 : t.fn = "announce") => Theirs.phase = "holding"
<1>1. Theirs.phase \in {"off", "gone", "probing", "holding"}
  BY TheirsFields DEF PhaseOf
<1>2. (\E t \in timers2 : t.fn = "announce") => Theirs.phase # "probing"
  BY DEF TheirsInv, OneHost, Timer
<1> QED
  BY <1>1, <1>2, TheirsFields DEF TheirsInv, OneHost, PhaseOf

\* sendProbe of the rival: one probe more, and the next timer of the chain.
LEMMA TheirsProbes ==
    ASSUME TheirsInv, Rival!SendProbe
    PROVE  /\ TheirsInv' /\ SameHost(Theirs', Theirs) /\ Theirs'.name = Theirs.name
           /\ Theirs'.warned = Theirs.warned
           /\ Theirs.phase = "probing" /\ Theirs'.phase = "probing"
           /\ Theirs'.sent = Theirs.sent + 1
           /\ records2 = Recs(Theirs)
<1>1. PICK t \in timers2 : /\ t.fn = "sendProbe"
                          /\ timers2' = (timers2 \ {t}) \cup
                               {IF t.sent + 1 >= ProbeCount THEN Timer("onProbeDone", 0)
                                                            ELSE Timer("sendProbe", t.sent + 1)}
  BY DEF Rival!SendProbe, Rival!Timer, Timer
<1>2. probes2' = probes2 + 1
      /\ UNCHANGED <<started2, closed2, registered2, instanceName2, renameAttempt2, records2,
                     probeConflict2, announcing2, ready2, engineClosed2, claimed2>>
  BY DEF Rival!SendProbe, Rival!control, Rival!naming
<1>3. Theirs.phase = "probing" /\ records2 = Recs(Theirs)
  BY <1>1, TheirsPhases
<1>4. timers2 = {t} /\ t = Timer("sendProbe", probes2) /\ probes2 # ProbeCount
  BY <1>1, <1>3, TheirsFields DEF TheirsInv, OneHost, Timer
<1>5. SameHost(Theirs', Theirs) /\ Theirs'.name = Theirs.name /\ Theirs'.warned = Theirs.warned
      /\ Theirs'.phase = "probing" /\ Theirs'.sent = Theirs.sent + 1
  BY <1>2, <1>3, TheirsFields DEF SameHost
<1>6. Recs(Theirs') = Recs(Theirs)
  BY <1>5 DEF Recs, SameHost
<1>7. probes2 + 1 \in 0..ProbeCount /\ (probes2 + 1 >= ProbeCount <=> probes2 + 1 = ProbeCount)
  BY <1>4, TheirsFields, ProbeAssumption DEF TheirsInv, OneHost
<1>8. t.sent = probes2
  BY <1>4 DEF Timer
<1>9. TheirsInv'
  <2>1. timers2' = {IF Theirs'.sent = ProbeCount THEN Timer("onProbeDone", 0)
                                            ELSE Timer("sendProbe", Theirs'.sent)}
    BY <1>1, <1>4, <1>5, <1>7, <1>8, TheirsFields
  <2> QED
    BY <2>1, <1>2, <1>3, <1>5, <1>6, <1>7, TheirsFields DEF TheirsInv, OneHost
<1> QED
  BY <1>3, <1>5, <1>9

\* onProbeDone without a conflict, and announce.
LEMMA TheirsAnnounces ==
    ASSUME TheirsInv, Rival!ClaimName \/ Rival!Announce
    PROVE  /\ TheirsInv' /\ SameHost(Theirs', Theirs) /\ Theirs'.name = Theirs.name
           /\ Theirs'.warned = Theirs.warned
           /\ Theirs'.sent = Theirs.sent /\ Theirs'.phase = "holding" /\ records2 = Recs(Theirs)
           /\ \/ Theirs.phase = "holding"
              \/ Theirs.phase = "probing" /\ Theirs.sent = ProbeCount /\ ~Theirs.warned
<1>1. CASE Rival!ClaimName
  <2>1. /\ Timer("onProbeDone", 0) \in timers2 /\ ~probeConflict2 /\ announcing2'
        /\ timers2' = (timers2 \ {Timer("onProbeDone", 0)}) \cup
                         (IF 1 < AnnounceCount THEN {Timer("announce", 1)} ELSE {})
        /\ claimed2' = claimed2 \cup {instanceName2}
        /\ UNCHANGED <<started2, closed2, registered2, instanceName2, renameAttempt2, records2,
                       probeConflict2, engineClosed2, probes2>>
    BY <1>1
       DEF Rival!ClaimName, Rival!AnnounceAgain, Rival!Timer, Timer, Rival!control, Rival!naming
  <2>2. Theirs.phase = "probing" /\ records2 = Recs(Theirs)
    BY <2>1, TheirsPhases DEF Timer
  <2>3. Theirs.sent = ProbeCount /\ timers2 = {Timer("onProbeDone", 0)}
    BY <2>1, <2>2 DEF TheirsInv, OneHost, Timer
  <2>4. /\ SameHost(Theirs', Theirs) /\ Theirs'.name = Theirs.name /\ Theirs'.warned = Theirs.warned
        /\ Theirs'.sent = Theirs.sent /\ Theirs'.phase = "holding" /\ ~Theirs.warned
    BY <2>1, <2>2, TheirsFields, TheirsPhases DEF SameHost, PhaseOf, TheirsInv, OneHost
  <2>5. Recs(Theirs') = Recs(Theirs)
    BY <2>4 DEF Recs, SameHost
  <2>6. \A t \in timers2' : t.fn = "announce"
    BY <2>1, <2>3 DEF Timer
  <2>7. TheirsInv'
    BY <2>1, <2>2, <2>4, <2>5, <2>6, TheirsFields, TheirsPhases DEF TheirsInv, OneHost
  <2> QED
    BY <2>2, <2>3, <2>4, <2>7
<1>2. CASE Rival!Announce
  <2>1. PICK u \in timers2 : /\ u.fn = "announce"
                            /\ timers2' = (timers2 \ {u}) \cup
                                 (IF u.sent + 1 < AnnounceCount THEN {Timer("announce", u.sent + 1)}
                                                                ELSE {})
    BY <1>2 DEF Rival!Announce, Rival!AnnounceAgain, Rival!Timer, Timer
  <2>2. UNCHANGED <<started2, closed2, registered2, instanceName2, renameAttempt2, records2,
                    probeConflict2, announcing2, ready2, engineClosed2, probes2, claimed2>>
    BY <1>2 DEF Rival!Announce, Rival!control, Rival!naming
  <2>3. Theirs.phase = "holding" /\ records2 = Recs(Theirs)
    BY <2>1, TheirsPhases
  <2>4. /\ SameHost(Theirs', Theirs) /\ Theirs'.name = Theirs.name /\ Theirs'.warned = Theirs.warned
        /\ Theirs'.sent = Theirs.sent /\ Theirs'.phase = "holding"
    BY <2>2, <2>3, TheirsFields DEF SameHost
  <2>5. Recs(Theirs') = Recs(Theirs)
    BY <2>4 DEF Recs, SameHost
  <2>6. \A t \in timers2' : t.fn = "announce"
    BY <2>1, <2>3 DEF Timer, TheirsInv, OneHost
  <2>7. TheirsInv'
    BY <2>2, <2>3, <2>4, <2>5, <2>6, TheirsFields DEF TheirsInv, OneHost
  <2> QED
    BY <2>3, <2>4, <2>7
<1> QED
  BY <1>1, <1>2

\* onProbeDone after a conflict: the next name, or none.
LEMMA TheirsLosesName ==
    ASSUME TheirsInv, Rival!LoseName
    PROVE  /\ TheirsInv'
           /\ Theirs'.phase = "off" \/ (Theirs'.phase = "probing" /\ Theirs'.sent = 0)
           /\ Theirs.warned /\ (Theirs'.name # 0 \/ Theirs'.warned)
<1>1. Theirs.phase = "probing" /\ records2 = Recs(Theirs) /\ timers2 = {Timer("onProbeDone", 0)}
  <2>1. Timer("onProbeDone", 0) \in timers2
    BY DEF Rival!LoseName, Rival!Timer, Timer
  <2>2. Theirs.phase = "probing"
    BY <2>1, TheirsPhases DEF Timer
  <2> QED
    BY <2>1, <2>2, TheirsPhases DEF TheirsInv, OneHost
<1>2. UNCHANGED <<announcing2, engineClosed2, claimed2>> /\ Theirs.warned
  BY TheirsFields DEF Rival!LoseName
<1>3. started2 /\ ~closed2 /\ registered2 /\ ~announcing2
  BY <1>1, TheirsPhases
<1>4. CASE Rival!GiveUp
  <2>1. /\ closed2' = TRUE /\ registered2' = FALSE /\ timers2' = {}
        /\ renameAttempt2' = renameAttempt2 + 1
        /\ ready2' # "resolved"
        /\ UNCHANGED <<started2, instanceName2, records2, probeConflict2, probes2>>
    BY <1>1, <1>4 DEF Rival!GiveUp, Rival!Close, TheirsInv, OneHost
  <2>2. Theirs'.phase = "off"
    BY <2>1, <1>2, <1>3, TheirsFields DEF PhaseOf
  <2>3. Recs(Theirs') = Recs(Theirs)
    BY <2>1, TheirsFields DEF Recs
  <2>4. TheirsInv'
    <3>1. claimed2' = {} /\ records2' = Recs(Theirs')
      BY <1>1, <1>2, <2>1, <2>3 DEF TheirsInv, OneHost
    <3>2. Theirs'.sent \in 0..ProbeCount /\ Theirs'.name \in Nat /\ Theirs'.warned \in BOOLEAN
          /\ renameAttempt2' \in Nat
      BY <2>1, TheirsFields DEF TheirsInv, OneHost
    <3> QED
      BY <1>2, <1>3, <2>1, <2>2, <3>1, <3>2 DEF TheirsInv, OneHost
  <2>5. Theirs'.warned
    BY <1>2, <2>1, TheirsFields
  <2> QED
    BY <1>2, <2>2, <2>4, <2>5
<1>5. CASE ~Rival!GiveUp
  <2>1. /\ renameAttempt2' = renameAttempt2 + 1 /\ instanceName2' = renameAttempt2 + 1
        /\ records2' = Rival!RecordsOf(renameAttempt2 + 1) /\ probeConflict2' = FALSE
        /\ timers2' = {Timer("sendProbe", 0)} /\ probes2' = 0
        /\ UNCHANGED <<started2, closed2, registered2, ready2>>
    BY <1>1, <1>5
       DEF Rival!LoseName, Rival!Rename, Rival!ProbeNextName, Rival!Timer, Timer, Rival!control
  <2>2. Theirs'.phase = "probing" /\ Theirs'.sent = 0
    BY <2>1, <1>2, <1>3, TheirsFields DEF PhaseOf
  <2>3. records2' = Recs(Theirs')
    BY <2>1, TheirsFields, TheirsRecords
  <2>4. TheirsInv'
    <3>1. timers2' = {IF Theirs'.sent = ProbeCount THEN Timer("onProbeDone", 0)
                                              ELSE Timer("sendProbe", Theirs'.sent)}
      BY <2>1, <2>2, ProbeAssumption
    <3>2. claimed2' = {} /\ ready2' # "resolved"
      BY <1>1, <1>2, <2>1 DEF TheirsInv, OneHost
    <3>3. Theirs'.sent \in 0..ProbeCount /\ Theirs'.name \in Nat /\ renameAttempt2' \in Nat
      <4>1. renameAttempt2 \in Nat
        BY DEF TheirsInv, OneHost
      <4> QED
        BY <2>1, <2>2, <4>1, TheirsFields, ProbeAssumption
    <3>4. Theirs'.warned \in BOOLEAN
      BY <2>1, TheirsFields
    <3> QED
      BY <1>2, <1>3, <2>1, <2>2, <2>3, <3>1, <3>2, <3>3, <3>4 DEF TheirsInv, OneHost
  <2>5. Theirs'.name # 0
    <3>1. renameAttempt2 \in Nat
      BY DEF TheirsInv, OneHost
    <3> QED
      BY <2>1, <3>1, TheirsFields
  <2> QED
    BY <1>2, <2>2, <2>4, <2>5
<1> QED
  BY <1>4, <1>5

\* start() of the rival: probing begins.
LEMMA TheirsStarts ==
    ASSUME TheirsInv, Rival!Start
    PROVE  /\ TheirsInv' /\ Theirs.phase = "off" /\ Theirs'.phase = "probing" /\ Theirs'.sent = 0
           /\ timers2' # timers2 /\ ~started2 /\ Theirs'.name = Theirs.name /\ ~Theirs'.warned
<1>1. /\ ~started2 /\ started2' = TRUE /\ registered2' = TRUE /\ probeConflict2' = FALSE
      /\ probes2' = 0
      /\ records2' = Rival!RecordsOf(instanceName2)
      /\ timers2' = timers2 \cup {Timer("sendProbe", 0)}
      /\ UNCHANGED <<closed2, instanceName2, renameAttempt2, announcing2, ready2,
                     engineClosed2, claimed2>>
  BY DEF Rival!Start, Rival!Timer, Timer
<1>2. Theirs.phase = "off" /\ ~closed2 /\ ~announcing2 /\ timers2 = {}
  BY <1>1, TheirsFields DEF PhaseOf, TheirsInv, OneHost
<1>3. Theirs'.phase = "probing" /\ Theirs'.sent = 0
  BY <1>1, <1>2, TheirsFields DEF PhaseOf
<1>4. records2' = Recs(Theirs')
  BY <1>1, TheirsFields, TheirsRecords
<1>5. TheirsInv'
  <2>1. timers2' = {IF Theirs'.sent = ProbeCount THEN Timer("onProbeDone", 0)
                                            ELSE Timer("sendProbe", Theirs'.sent)}
    BY <1>1, <1>2, <1>3, ProbeAssumption
  <2>2. claimed2' = {} /\ ready2' # "resolved"
    BY <1>1, <1>2 DEF TheirsInv, OneHost
  <2>3. Theirs'.sent \in 0..ProbeCount /\ Theirs'.name \in Nat /\ renameAttempt2' \in Nat
    BY <1>1, <1>3, TheirsFields, ProbeAssumption DEF TheirsInv, OneHost
  <2>4. Theirs'.warned \in BOOLEAN /\ closed2 = FALSE
    BY <1>1, <1>2, TheirsFields DEF TheirsInv, OneHost
  <2> QED
    BY <1>1, <1>2, <1>3, <1>4, <2>1, <2>2, <2>3, <2>4 DEF TheirsInv, OneHost
<1> QED
  BY <1>1, <1>2, <1>3, <1>5, TheirsFields

\* stop() of the rival: nothing if it is closed, else it is gone for good.
LEMMA TheirsStops ==
    ASSUME TheirsInv, Rival!Stop
    PROVE  /\ TheirsInv'
           /\ \/ closed2 /\ Theirs' = Theirs
              \/ /\ ~closed2 /\ SameHost(Theirs', Theirs) /\ Theirs'.name = Theirs.name
                 /\ Theirs.phase = "holding" /\ Theirs'.phase = "gone" /\ records2 = Recs(Theirs)
                 /\ Theirs'.warned = Theirs.warned
<1>1. UNCHANGED <<instanceName2, renameAttempt2, records2, probeConflict2, announcing2,
                  ready2, engineClosed2, probes2, claimed2>>
      /\ ready2 = "resolved"
  BY DEF Rival!Stop, Rival!naming
<1>2. CASE closed2
  <2>1. UNCHANGED <<started2, closed2, registered2, timers2>>
    BY <1>2 DEF Rival!Stop, Rival!control
  <2> QED
    BY <1>1, <1>2, <2>1 DEF TheirsInv, OneHost, Theirs
<1>3. CASE ~closed2
  <2>1. closed2' = TRUE /\ registered2' = FALSE /\ timers2' = {} /\ UNCHANGED started2
    BY <1>3 DEF Rival!Stop, Rival!Close
  <2>2. Theirs.phase = "holding" /\ started2 /\ announcing2 /\ records2 = Recs(Theirs)
    BY <1>1, <1>3, TheirsFields, TheirsPhases DEF TheirsInv, OneHost, PhaseOf
  <2>3. Theirs'.phase = "gone" /\ SameHost(Theirs', Theirs) /\ Theirs'.name = Theirs.name
        /\ Theirs'.sent = Theirs.sent
        /\ Theirs'.warned = Theirs.warned
    BY <1>1, <2>1, <2>2, TheirsFields DEF PhaseOf, SameHost
  <2>4. Recs(Theirs') = Recs(Theirs)
    BY <2>3 DEF Recs, SameHost
  <2>5. TheirsInv'
    BY <1>1, <2>1, <2>2, <2>3, <2>4, TheirsFields DEF TheirsInv, OneHost
  <2> QED
    BY <1>3, <2>2, <2>3, <2>5
<1> QED
  BY <1>2, <1>3

\* A probe that reaches the rival while it probes is weighed in the tie-break.
LEMMA TheirsWeighs ==
    ASSUME NEW n, NEW rs, TheirsInv, Rival!OnRivalProbe(n, rs)
    PROVE  /\ TheirsInv' /\ SameHost(Theirs', Theirs) /\ Theirs'.name = Theirs.name
           /\ Theirs'.sent = Theirs.sent
           /\ Theirs.phase = "probing" /\ Theirs'.phase = "probing"
           /\ Theirs'.warned = (Theirs.warned \/ LosesTieBreak(Recs(Theirs), rs))
           /\ timers2' = timers2
<1>1. /\ registered2 /\ ~closed2 /\ ~announcing2
      /\ probeConflict2' = (probeConflict2 \/ Rival!LosesTieBreak(records2, rs))
      /\ UNCHANGED <<started2, closed2, registered2, instanceName2, renameAttempt2, records2,
                     timers2, announcing2, ready2, engineClosed2, probes2, claimed2>>
  BY DEF Rival!OnRivalProbe, Rival!control, Rival!naming
<1>2. Theirs.phase = "probing" /\ records2 = Recs(Theirs)
  BY <1>1, TheirsPhases
<1>3. Theirs'.warned = (Theirs.warned \/ LosesTieBreak(Recs(Theirs), rs))
      /\ probeConflict2' \in BOOLEAN
  BY <1>1, <1>2, TheirsFields, SameTieBreak DEF TheirsInv, OneHost
<1>4. Theirs'.phase = "probing" /\ SameHost(Theirs', Theirs) /\ Theirs'.name = Theirs.name
      /\ Theirs'.sent = Theirs.sent
  BY <1>1, <1>2, TheirsFields DEF SameHost
<1>5. Recs(Theirs') = Recs(Theirs)
  BY <1>4 DEF Recs, SameHost
<1>6. TheirsInv'
  BY <1>1, <1>2, <1>3, <1>4, <1>5, TheirsFields DEF TheirsInv, OneHost
<1> QED
  BY <1>1, <1>2, <1>3, <1>4, <1>6

\* A probe that reaches the rival later changes nothing of it.
LEMMA TheirsDefends ==
    ASSUME NEW n, NEW rs, TheirsInv, Rival!OnLateProbe(n, rs)
    PROVE  /\ TheirsInv' /\ Theirs' = Theirs /\ Theirs.phase = "holding" /\ records2 = Recs(Theirs)
           /\ timers2' = timers2
<1>1. /\ registered2 /\ ~closed2 /\ announcing2
      /\ UNCHANGED <<started2, closed2, registered2, instanceName2, renameAttempt2, records2,
                     timers2, announcing2, ready2, engineClosed2, probes2, claimed2,
                     probeConflict2>>
  BY DEF Rival!OnLateProbe, Rival!control, Rival!naming
<1>2. Theirs.phase = "holding" /\ records2 = Recs(Theirs)
  BY <1>1, TheirsPhases
<1>3. Theirs' = Theirs
  BY <1>1 DEF Theirs
<1>4. TheirsInv'
  BY <1>1, <1>3 DEF TheirsInv, OneHost
<1> QED
  BY <1>1, <1>2, <1>3, <1>4

\* A contradicting response: before the claim it is remembered.
LEMMA TheirsHears ==
    ASSUME NEW rs, NEW answer \in rs, TheirsInv, Rival!OnConflict(answer)
    PROVE  /\ ConflictsWith(rs, Recs(Theirs)) /\ Theirs.phase \in {"probing", "holding"}
           /\ Theirs.phase = "probing" =>
                 /\ TheirsInv' /\ SameHost(Theirs', Theirs) /\ Theirs'.name = Theirs.name
                 /\ Theirs'.sent = Theirs.sent
                 /\ Theirs'.phase = "probing" /\ Theirs'.warned /\ timers2' = timers2
<1>1. /\ registered2 /\ ~closed2 /\ Rival!ConflictsWith({answer}, records2)
      /\ UNCHANGED <<announcing2, engineClosed2, claimed2>>
  BY DEF Rival!OnConflict
<1>2. Theirs.phase \in {"probing", "holding"} /\ records2 = Recs(Theirs)
  BY <1>1, TheirsPhases
<1>3. ConflictsWith(rs, Recs(Theirs))
  BY <1>1, <1>2, SameConflicts DEF ConflictsWith
<1>4. ASSUME Theirs.phase = "probing"
      PROVE  /\ TheirsInv' /\ SameHost(Theirs', Theirs) /\ Theirs'.name = Theirs.name
             /\ Theirs'.sent = Theirs.sent
             /\ Theirs'.phase = "probing" /\ Theirs'.warned /\ timers2' = timers2
  <2>1. ~announcing2
    BY <1>4, TheirsPhases
  <2>2. /\ probeConflict2' = TRUE
        /\ UNCHANGED <<started2, closed2, registered2, instanceName2, renameAttempt2, records2,
                       timers2, ready2, probes2>>
    BY <2>1 DEF Rival!OnConflict, Rival!control, Rival!naming
  <2>3. SameHost(Theirs', Theirs) /\ Theirs'.name = Theirs.name /\ Theirs'.sent = Theirs.sent
        /\ Theirs'.phase = "probing" /\ Theirs'.warned
    BY <1>1, <1>4, <2>2, TheirsFields DEF SameHost
  <2>4. Recs(Theirs') = Recs(Theirs)
    BY <2>3 DEF Recs, SameHost
  <2>5. TheirsInv'
    BY <1>1, <1>2, <1>4, <2>2, <2>3, <2>4, TheirsFields DEF TheirsInv, OneHost
  <2> QED
    BY <2>2, <2>3, <2>5
<1> QED
  BY <1>2, <1>3, <1>4

------------------------------------------------------------------------------
(* The steps of both *)

\* Two probes are not enough: TLC finds two holders of one name with ProbeCount = 2.
\* probeCount is 3 (constants.ts) unless the timing option of the node sets another.
ThreeProbes == ProbeCount >= 3

\* Two processes of one host that hear each other were given localAddresses: [], which
\* leaves each the loopback address or none; with several, each record of one would
\* contradict each of the other's (onResponse compares each with each).
OneAddressPerHost == RivalHost = OurHost => \A d, e \in Addrs : d = e

LosslessInv ==
    OursInv /\ TheirsInv /\ Pair(Ours, Theirs, link, "ours", "rival", lead, lead2)

ClaimInv == losses \in Nat /\ (~FromOwnAddress /\ losses = 0 => LosslessInv)

LEMMA PairIsSymmetric ==
    ASSUME NEW x, NEW y, NEW l, NEW h, NEW g, NEW a, NEW b
    PROVE  Pair(x, y, l, h, g, a, b) <=> Pair(y, x, l, g, h, b, a)
BY DEF Pair

\* Each timer that fires is one of the steps above.
LEMMA OurTimerStep ==
    ASSUME ThreeProbes, OneAddressPerHost, LosslessInv, OurTimer
    PROVE  LosslessInv'
<1>1. /\ OursInv /\ TheirsInv /\ Pair(Ours, Theirs, link, "ours", "rival", lead, lead2)
      /\ Tags("ours", "rival")
      /\ UNCHANGED <<rivalVars, losses>> /\ lead2' = 0 /\ InStep(timers2, lead)
      /\ lead' = IF Probing(timers2) THEN lead + 1 ELSE 0
      /\ \A k \in DOMAIN link : link[k].to = "ours"
  BY PairIsSymmetric DEF LosslessInv, OurTimer, Tags
<1>2. TheirsInv' /\ Theirs' = Theirs
  BY <1>1, TheirsStay
<1>3. /\ lead' = IF Theirs.phase = "probing" THEN lead + 1 ELSE 0
      /\ Theirs.phase = "probing" => lead < 2
  BY <1>1, TheirsTyped DEF InStep
<1>4. ~UnderWay(link, "rival", "any")
  BY <1>1 DEF UnderWay, Is, Tags
<1>5. Ours.data # Theirs.data
  BY OursFields, TheirsFields, RivalAssumption
<1>6. lead' \in 0..2 /\ lead2' \in 0..2
  BY <1>1, <1>3 DEF Pair, Apart
<1>7. CASE SendProbe /\ link' = Append(link, Probe("rival", records))
  <2>1. OursInv' /\ Pair(Ours', Theirs, link', "ours", "rival", lead', lead2')
    BY <1>1, <1>3, <1>4, <1>7, OursProbes, OursTyped, ProbeStep DEF ThreeProbes
  <2> QED
    BY <1>2, <2>1, PairIsSymmetric DEF LosslessInv
<1>8. CASE (ClaimName \/ Announce) /\ link' = Append(link, Response("rival", records))
  <2>1. OursInv' /\ Pair(Ours', Theirs, link', "ours", "rival", lead', lead2')
    BY <1>1, <1>3, <1>4, <1>5, <1>8, OursAnnounces, OursTyped, AnnounceStep DEF ThreeProbes
  <2> QED
    BY <1>2, <2>1, PairIsSymmetric DEF LosslessInv
<1>9. CASE LoseName /\ link' = link
  <2>1. OursInv' /\ (Ours'.phase = "off" \/ (Ours'.phase = "probing" /\ Ours'.sent = 0))
    BY <1>1, <1>9, OursLosesName
  <2>2. Ours' \in ViewType
    BY <2>1, OursTyped
  <2>3. CASE Ours'.phase = "off"
    <3>1. Pair(Ours', Theirs, link, "ours", "rival", lead', lead2')
      BY <1>1, <1>4, <1>6, <2>2, <2>3, QuitStep
    <3> QED
      BY <1>2, <1>9, <2>1, <3>1, PairIsSymmetric DEF LosslessInv
  <2>4. CASE Ours'.phase = "probing" /\ Ours'.sent = 0
    <3>1. Pair(Ours', Theirs, link, "ours", "rival", lead', lead2')
      BY <1>1, <1>4, <1>6, <2>2, <2>4, BeginStep
    <3> QED
      BY <1>2, <1>9, <2>1, <3>1, PairIsSymmetric DEF LosslessInv
  <2> QED
    BY <2>1, <2>3, <2>4
<1> QED
  BY <1>7, <1>8, <1>9 DEF OurTimer

\* Starting is a BeginStep of ours.
LEMMA OursBegins ==
    ASSUME LosslessInv, Start, UNCHANGED <<rivalVars, link>>, NewTimers
    PROVE  LosslessInv'
<1>1. /\ OursInv /\ TheirsInv /\ Pair(Ours, Theirs, link, "ours", "rival", lead, lead2)
  BY PairIsSymmetric DEF LosslessInv
<1>2. TheirsInv' /\ Theirs' = Theirs /\ timers2' = timers2
  BY <1>1, TheirsStay
<1>3. OursInv' /\ Ours.phase = "off" /\ Ours'.phase = "probing" /\ Ours'.sent = 0
      /\ timers' # timers
  BY <1>1, OursStarts
<1>4. lead' \in 0..2 /\ lead2' \in 0..2
  BY <1>1, <1>2, <1>3 DEF NewTimers, Pair, Apart
<1>5. ~UnderWay(link, "rival", "any")
  BY <1>1, <1>3, OffIsSilent DEF Pair, Apart
<1>6. Pair(Ours', Theirs, link, "ours", "rival", lead', lead2')
  BY <1>1, <1>3, <1>4, <1>5, OursTyped, BeginStep
<1> QED
  BY <1>2, <1>3, <1>6, PairIsSymmetric DEF LosslessInv

\* Stopping is a StopStep of ours.
LEMMA OursLeaves ==
    ASSUME ThreeProbes, LosslessInv, Stop, UNCHANGED rivalVars, NewTimers,
           link' = link \o Goodbye("rival", records, closed)
    PROVE  LosslessInv'
<1>1. /\ OursInv /\ TheirsInv /\ Pair(Ours, Theirs, link, "ours", "rival", lead, lead2)
      /\ Tags("ours", "rival")
  BY PairIsSymmetric DEF LosslessInv, Tags
<1>2. TheirsInv' /\ Theirs' = Theirs /\ timers2' = timers2 /\ OursInv'
  BY <1>1, TheirsStay, OursStops
<1>3. lead \in 0..2 /\ lead2 \in 0..2 /\ lead' = lead /\ lead2' \in {lead2, 0}
      /\ Ours \in ViewType /\ link \in Seq(Packets)
  BY <1>1, <1>2 DEF NewTimers, Pair, Apart
<1>4. CASE closed /\ Ours' = Ours
  <2>1. link' = link
    BY <1>3, <1>4 DEF Goodbye
  <2>2. lead2' = lead2
    BY <1>4 DEF NewTimers, Stop
  <2> QED
    BY <1>1, <1>2, <1>3, <1>4, <2>1, <2>2, PairIsSymmetric DEF LosslessInv
<1>5. CASE /\ ~closed /\ SameHost(Ours', Ours) /\ Ours'.name = Ours.name
           /\ Ours.phase = "holding" /\ Ours'.phase = "gone" /\ records = Recs(Ours)
  <2>1. link' = Append(link, Response("rival", Recs(Ours)))
    <3>1. Response("rival", Recs(Ours)) \in Packets
      BY <1>1, <1>3, ResponsePacket
    <3> QED
      BY <1>3, <1>5, <3>1 DEF Goodbye
  <2>2. lead' \in 0..2 /\ lead2' \in 0..2
    BY <1>3
  <2>3. Pair(Ours', Theirs, link', "ours", "rival", lead', lead2')
    BY <1>1, <1>2, <1>5, <2>1, <2>2, OursTyped, StopStep DEF ThreeProbes
  <2> QED
    BY <1>2, <2>3, PairIsSymmetric DEF LosslessInv
<1> QED
  BY <1>1, <1>4, <1>5, OursStops

\* Each way to receive a packet is one of the steps above.
LEMMA OursReceiveStep ==
    ASSUME ThreeProbes, OneAddressPerHost, LosslessInv, OursReceives
    PROVE  LosslessInv'
<1>1. /\ OursInv /\ TheirsInv /\ Pair(Ours, Theirs, link, "ours", "rival", lead, lead2)
      /\ Tags("ours", "rival")
      /\ link # <<>> /\ Head(link).to = "ours" /\ UNCHANGED <<rivalVars, losses>> /\ NewTimers
  BY PairIsSymmetric DEF LosslessInv, OursReceives, Tags
<1>2. TheirsInv' /\ Theirs' = Theirs /\ timers2' = timers2
  BY <1>1, TheirsStay
<1>3. Ours.data # Theirs.data /\ OneAddressOrHost(Ours, Theirs)
  BY OursFields, TheirsFields, RivalAssumption DEF OneAddressPerHost, OneAddressOrHost
<1>4. timers' = timers => lead' = lead /\ lead2' = lead2
  BY <1>1, <1>2 DEF NewTimers
<1>5. CASE /\ Head(link).kind = "probe" /\ OnRivalProbe(instanceName2, Head(link).records)
           /\ link' = Tail(link)
  <2>1. OursInv' /\ Pair(Ours', Theirs, link', "ours", "rival", lead, lead2) /\ timers' = timers
    BY <1>1, <1>5, OursWeighs, OursTyped, WeighStep
  <2> QED
    BY <1>2, <1>4, <2>1, PairIsSymmetric DEF LosslessInv
<1>6. CASE /\ Head(link).kind = "probe" /\ OnLateProbe(instanceName2, Head(link).records)
           /\ link' = Tail(link) \o Replies("rival", Defence(records, Head(link)))
  <2>1. OursInv' /\ Ours' = Ours /\ Pair(Ours, Theirs, link', "ours", "rival", lead, lead2)
        /\ timers' = timers
    BY <1>1, <1>6, OursDefends, DefendStep DEF ThreeProbes
  <2> QED
    BY <1>2, <1>4, <2>1, PairIsSymmetric DEF LosslessInv
<1>7. CASE /\ Head(link).kind = "response" /\ link' = Tail(link)
           /\ \E answer \in Head(link).records : OnConflict(answer)
  <2>1. PICK answer \in Head(link).records : OnConflict(answer)
    BY <1>7
  <2>2. /\ ConflictsWith(Head(link).records, Recs(Ours)) /\ Ours.phase \in {"probing", "holding"}
        /\ Ours.phase = "probing" =>
              /\ OursInv' /\ SameHost(Ours', Ours) /\ Ours'.name = Ours.name
              /\ Ours'.sent = Ours.sent
              /\ Ours'.phase = "probing" /\ Ours'.warned /\ timers' = timers
    BY <1>1, <2>1, OursHears
  <2>3. Ours.phase # "holding"
    <3> DEFINE z == [Ours EXCEPT !.warned = TRUE]
    <3>1. z \in ViewType /\ SameHost(z, Ours) /\ z.name = Ours.name /\ z.sent = Ours.sent
          /\ z.phase = Ours.phase /\ z.warned
      BY <1>1, OursTyped DEF ViewType, SameHost
    <3> HIDE DEF z
    <3> QED
      BY <1>1, <1>3, <1>7, <2>2, <3>1, ConflictStep
  <2>4. OursInv' /\ Pair(Ours', Theirs, link', "ours", "rival", lead, lead2) /\ timers' = timers
    BY <1>1, <1>3, <1>7, <2>2, <2>3, OursTyped, ConflictStep
  <2> QED
    BY <1>2, <1>4, <2>4, PairIsSymmetric DEF LosslessInv
<1>8. CASE /\ Ignored(Head(link), records, registered, closed) /\ link' = Tail(link)
           /\ UNCHANGED vars
  <2>1. OursInv' /\ Ours' = Ours /\ timers' = timers
    BY <1>1, <1>8, OursStay
  <2>2. \/ Ours.phase \in {"off", "gone"}
        \/ Head(link).kind = "response" /\ ~ConflictsWith(Head(link).records, Recs(Ours))
    BY <1>1, <1>8, OursPhases DEF Ignored
  <2>3. Pair(Ours, Theirs, link', "ours", "rival", lead, lead2)
    BY <1>1, <1>3, <1>8, <2>2, IgnoreStep
  <2> QED
    BY <1>2, <1>4, <2>1, <2>3, PairIsSymmetric DEF LosslessInv
<1> QED
  BY <1>5, <1>6, <1>7, <1>8 DEF OursReceives

\* Each timer that fires is one of the steps above.
LEMMA RivalTimerStep ==
    ASSUME ThreeProbes, OneAddressPerHost, LosslessInv, RivalTimer
    PROVE  LosslessInv'
<1>1. /\ TheirsInv /\ OursInv /\ Pair(Theirs, Ours, link, "rival", "ours", lead2, lead)
      /\ Tags("rival", "ours")
      /\ UNCHANGED <<vars, losses>> /\ lead' = 0 /\ InStep(timers, lead2)
      /\ lead2' = IF Probing(timers) THEN lead2 + 1 ELSE 0
      /\ \A k \in DOMAIN link : link[k].to = "rival"
  BY PairIsSymmetric DEF LosslessInv, RivalTimer, Tags
<1>2. OursInv' /\ Ours' = Ours
  BY <1>1, OursStay
<1>3. /\ lead2' = IF Ours.phase = "probing" THEN lead2 + 1 ELSE 0
      /\ Ours.phase = "probing" => lead2 < 2
  BY <1>1, OursTyped DEF InStep
<1>4. ~UnderWay(link, "ours", "any")
  BY <1>1 DEF UnderWay, Is, Tags
<1>5. Theirs.data # Ours.data
  BY TheirsFields, OursFields, RivalAssumption
<1>6. lead2' \in 0..2 /\ lead' \in 0..2
  BY <1>1, <1>3 DEF Pair, Apart
<1>7. CASE Rival!SendProbe /\ link' = Append(link, Probe("ours", records2))
  <2>1. TheirsInv' /\ Pair(Theirs', Ours, link', "rival", "ours", lead2', lead')
    BY <1>1, <1>3, <1>4, <1>7, TheirsProbes, TheirsTyped, ProbeStep DEF ThreeProbes
  <2> QED
    BY <1>2, <2>1, PairIsSymmetric DEF LosslessInv
<1>8. CASE (Rival!ClaimName \/ Rival!Announce) /\ link' = Append(link, Response("ours", records2))
  <2>1. TheirsInv' /\ Pair(Theirs', Ours, link', "rival", "ours", lead2', lead')
    BY <1>1, <1>3, <1>4, <1>5, <1>8, TheirsAnnounces, TheirsTyped, AnnounceStep DEF ThreeProbes
  <2> QED
    BY <1>2, <2>1, PairIsSymmetric DEF LosslessInv
<1>9. CASE Rival!LoseName /\ link' = link
  <2>1. TheirsInv' /\ (Theirs'.phase = "off" \/ (Theirs'.phase = "probing" /\ Theirs'.sent = 0))
    BY <1>1, <1>9, TheirsLosesName
  <2>2. Theirs' \in ViewType
    BY <2>1, TheirsTyped
  <2>3. CASE Theirs'.phase = "off"
    <3>1. Pair(Theirs', Ours, link, "rival", "ours", lead2', lead')
      BY <1>1, <1>4, <1>6, <2>2, <2>3, QuitStep
    <3> QED
      BY <1>2, <1>9, <2>1, <3>1, PairIsSymmetric DEF LosslessInv
  <2>4. CASE Theirs'.phase = "probing" /\ Theirs'.sent = 0
    <3>1. Pair(Theirs', Ours, link, "rival", "ours", lead2', lead')
      BY <1>1, <1>4, <1>6, <2>2, <2>4, BeginStep
    <3> QED
      BY <1>2, <1>9, <2>1, <3>1, PairIsSymmetric DEF LosslessInv
  <2> QED
    BY <2>1, <2>3, <2>4
<1> QED
  BY <1>7, <1>8, <1>9 DEF RivalTimer

\* Starting is a BeginStep of the rival.
LEMMA TheirsBegins ==
    ASSUME LosslessInv, Rival!Start, UNCHANGED <<vars, link>>, NewTimers
    PROVE  LosslessInv'
<1>1. /\ TheirsInv /\ OursInv /\ Pair(Theirs, Ours, link, "rival", "ours", lead2, lead)
  BY PairIsSymmetric DEF LosslessInv
<1>2. OursInv' /\ Ours' = Ours /\ timers' = timers
  BY <1>1, OursStay
<1>3. TheirsInv' /\ Theirs.phase = "off" /\ Theirs'.phase = "probing" /\ Theirs'.sent = 0
      /\ timers2' # timers2
  BY <1>1, TheirsStarts
<1>4. lead2' \in 0..2 /\ lead' \in 0..2
  BY <1>1, <1>2, <1>3 DEF NewTimers, Pair, Apart
<1>5. ~UnderWay(link, "ours", "any")
  BY <1>1, <1>3, OffIsSilent DEF Pair, Apart
<1>6. Pair(Theirs', Ours, link, "rival", "ours", lead2', lead')
  BY <1>1, <1>3, <1>4, <1>5, TheirsTyped, BeginStep
<1> QED
  BY <1>2, <1>3, <1>6, PairIsSymmetric DEF LosslessInv

\* Stopping is a StopStep of the rival.
LEMMA TheirsLeaves ==
    ASSUME ThreeProbes, LosslessInv, Rival!Stop, UNCHANGED vars, NewTimers,
           link' = link \o Goodbye("ours", records2, closed2)
    PROVE  LosslessInv'
<1>1. /\ TheirsInv /\ OursInv /\ Pair(Theirs, Ours, link, "rival", "ours", lead2, lead)
      /\ Tags("rival", "ours")
  BY PairIsSymmetric DEF LosslessInv, Tags
<1>2. OursInv' /\ Ours' = Ours /\ timers' = timers /\ TheirsInv'
  BY <1>1, OursStay, TheirsStops
<1>3. lead2 \in 0..2 /\ lead \in 0..2 /\ lead2' = lead2 /\ lead' \in {lead, 0}
      /\ Theirs \in ViewType /\ link \in Seq(Packets)
  BY <1>1, <1>2 DEF NewTimers, Pair, Apart
<1>4. CASE closed2 /\ Theirs' = Theirs
  <2>1. link' = link
    BY <1>3, <1>4 DEF Goodbye
  <2>2. lead' = lead
    BY <1>4 DEF NewTimers, Rival!Stop
  <2> QED
    BY <1>1, <1>2, <1>3, <1>4, <2>1, <2>2, PairIsSymmetric DEF LosslessInv
<1>5. CASE /\ ~closed2 /\ SameHost(Theirs', Theirs) /\ Theirs'.name = Theirs.name
           /\ Theirs.phase = "holding" /\ Theirs'.phase = "gone" /\ records2 = Recs(Theirs)
  <2>1. link' = Append(link, Response("ours", Recs(Theirs)))
    <3>1. Response("ours", Recs(Theirs)) \in Packets
      BY <1>1, <1>3, ResponsePacket
    <3> QED
      BY <1>3, <1>5, <3>1 DEF Goodbye
  <2>2. lead2' \in 0..2 /\ lead' \in 0..2
    BY <1>3
  <2>3. Pair(Theirs', Ours, link', "rival", "ours", lead2', lead')
    BY <1>1, <1>2, <1>5, <2>1, <2>2, TheirsTyped, StopStep DEF ThreeProbes
  <2> QED
    BY <1>2, <2>3, PairIsSymmetric DEF LosslessInv
<1> QED
  BY <1>1, <1>4, <1>5, TheirsStops

\* Each way to receive a packet is one of the steps above.
LEMMA TheirsReceiveStep ==
    ASSUME ThreeProbes, OneAddressPerHost, LosslessInv, RivalReceives
    PROVE  LosslessInv'
<1>1. /\ TheirsInv /\ OursInv /\ Pair(Theirs, Ours, link, "rival", "ours", lead2, lead)
      /\ Tags("rival", "ours")
      /\ link # <<>> /\ Head(link).to = "rival" /\ UNCHANGED <<vars, losses>> /\ NewTimers
  BY PairIsSymmetric DEF LosslessInv, RivalReceives, Tags
<1>2. OursInv' /\ Ours' = Ours /\ timers' = timers
  BY <1>1, OursStay
<1>3. Theirs.data # Ours.data /\ OneAddressOrHost(Theirs, Ours)
  BY TheirsFields, OursFields, RivalAssumption DEF OneAddressPerHost, OneAddressOrHost
<1>4. timers2' = timers2 => lead2' = lead2 /\ lead' = lead
  BY <1>1, <1>2 DEF NewTimers
<1>5. CASE /\ Head(link).kind = "probe" /\ Rival!OnRivalProbe(instanceName, Head(link).records)
           /\ link' = Tail(link)
  <2>1. TheirsInv' /\ Pair(Theirs', Ours, link', "rival", "ours", lead2, lead) /\ timers2' = timers2
    BY <1>1, <1>5, TheirsWeighs, TheirsTyped, WeighStep
  <2> QED
    BY <1>2, <1>4, <2>1, PairIsSymmetric DEF LosslessInv
<1>6. CASE /\ Head(link).kind = "probe" /\ Rival!OnLateProbe(instanceName, Head(link).records)
           /\ link' = Tail(link) \o Replies("ours", Defence(records2, Head(link)))
  <2>1. TheirsInv' /\ Theirs' = Theirs
        /\ Pair(Theirs, Ours, link', "rival", "ours", lead2, lead) /\ timers2' = timers2
    BY <1>1, <1>6, TheirsDefends, DefendStep DEF ThreeProbes
  <2> QED
    BY <1>2, <1>4, <2>1, PairIsSymmetric DEF LosslessInv
<1>7. CASE /\ Head(link).kind = "response" /\ link' = Tail(link)
           /\ \E answer \in Head(link).records : Rival!OnConflict(answer)
  <2>1. PICK answer \in Head(link).records : Rival!OnConflict(answer)
    BY <1>7
  <2>2. /\ ConflictsWith(Head(link).records, Recs(Theirs))
        /\ Theirs.phase \in {"probing", "holding"}
        /\ Theirs.phase = "probing" =>
              /\ TheirsInv' /\ SameHost(Theirs', Theirs) /\ Theirs'.name = Theirs.name
              /\ Theirs'.sent = Theirs.sent
              /\ Theirs'.phase = "probing" /\ Theirs'.warned /\ timers2' = timers2
    BY <1>1, <2>1, TheirsHears
  <2>3. Theirs.phase # "holding"
    <3> DEFINE z == [Theirs EXCEPT !.warned = TRUE]
    <3>1. z \in ViewType /\ SameHost(z, Theirs) /\ z.name = Theirs.name /\ z.sent = Theirs.sent
          /\ z.phase = Theirs.phase /\ z.warned
      BY <1>1, TheirsTyped DEF ViewType, SameHost
    <3> HIDE DEF z
    <3> QED
      BY <1>1, <1>3, <1>7, <2>2, <3>1, ConflictStep
  <2>4. TheirsInv' /\ Pair(Theirs', Ours, link', "rival", "ours", lead2, lead) /\ timers2' = timers2
    BY <1>1, <1>3, <1>7, <2>2, <2>3, TheirsTyped, ConflictStep
  <2> QED
    BY <1>2, <1>4, <2>4, PairIsSymmetric DEF LosslessInv
<1>8. CASE /\ Ignored(Head(link), records2, registered2, closed2) /\ link' = Tail(link)
           /\ UNCHANGED rivalVars
  <2>1. TheirsInv' /\ Theirs' = Theirs /\ timers2' = timers2
    BY <1>1, <1>8, TheirsStay
  <2>2. \/ Theirs.phase \in {"off", "gone"}
        \/ Head(link).kind = "response" /\ ~ConflictsWith(Head(link).records, Recs(Theirs))
    BY <1>1, <1>8, TheirsPhases DEF Ignored
  <2>3. Pair(Theirs, Ours, link', "rival", "ours", lead2, lead)
    BY <1>1, <1>3, <1>8, <2>2, IgnoreStep
  <2> QED
    BY <1>2, <1>4, <2>1, <2>3, PairIsSymmetric DEF LosslessInv
<1> QED
  BY <1>5, <1>6, <1>7, <1>8 DEF RivalReceives

\* Before anybody starts nothing is under way.
LEMMA ClaimInvInit == ClaimInit => ClaimInv
<1> SUFFICES ASSUME ClaimInit PROVE LosslessInv /\ losses = 0
  BY DEF ClaimInv
<1>0. 0 \in Nat /\ 0 \in 0..ProbeCount
  BY ProbeAssumption
<1>1. Ours.phase = "off" /\ OursInv
  <2>1. Ours.phase = "off" /\ Ours.name = 0 /\ Ours.sent = 0 /\ Ours.warned = FALSE
    BY OursFields DEF ClaimInit, Init, PhaseOf
  <2> QED
    BY <1>0, <2>1 DEF ClaimInit, Init, OursInv, OneHost
<1>2. Theirs.phase = "off" /\ TheirsInv
  <2>1. Theirs.phase = "off" /\ Theirs.name = 0 /\ Theirs.sent = 0 /\ Theirs.warned = FALSE
    BY TheirsFields DEF ClaimInit, Rival!Init, PhaseOf
  <2> QED
    BY <1>0, <2>1 DEF ClaimInit, Rival!Init, TheirsInv, OneHost
<1>3. link = <<>> /\ link \in Seq(Packets) /\ lead \in 0..2 /\ lead2 \in 0..2 /\ losses = 0
  BY DEF ClaimInit
<1>4. Pair(Ours, Theirs, link, "ours", "rival", lead, lead2)
  BY <1>1, <1>2, <1>3, OursTyped, TheirsTyped
     DEF Pair, Apart, PacketsOf, Lags, Learns, Undisputed
<1> QED
  BY <1>1, <1>2, <1>3, <1>4 DEF LosslessInv

\* Who hears whom is settled by the deployment (transport.localAddresses()).
LEMMA WhoHearsWhom == [ClaimNext]_claimVars => (FromOwnAddress' <=> FromOwnAddress)
<1> SUFFICES ASSUME [ClaimNext]_claimVars PROVE undeclared' = undeclared
  BY DEF FromOwnAddress
<1> QED
  BY DEF ClaimNext, claimVars, OurTimer, RivalTimer, CallerActs, OursReceives, RivalReceives,
         DropOwn, Lose

LEMMA LossesCount ==
    ASSUME losses \in Nat, [ClaimNext]_claimVars
    PROVE  losses' \in Nat
<1>1. CASE Lose
  BY <1>1 DEF Lose
<1>2. CASE ~Lose
  <2>1. losses' = losses
    BY <1>2 DEF ClaimNext, claimVars, OurTimer, RivalTimer, CallerActs, OursReceives,
         RivalReceives, DropOwn
  <2> QED
    BY <2>1
<1> QED
  BY <1>1, <1>2

\* A loss ends what is claimed; every other step keeps it.
LEMMA ClaimInvStep ==
    ASSUME ThreeProbes, OneAddressPerHost, ClaimInv, [ClaimNext]_claimVars
    PROVE  ClaimInv'
<1>0. SUFFICES ASSUME ~FromOwnAddress PROVE losses' \in Nat /\ (losses' = 0 => LosslessInv')
  BY WhoHearsWhom, LossesCount DEF ClaimInv
<1>1. losses \in Nat /\ (losses = 0 => LosslessInv)
  BY <1>0 DEF ClaimInv
<1>2. CASE OurTimer
  BY <1>1, <1>2, OurTimerStep DEF OurTimer
<1>3. CASE RivalTimer
  BY <1>1, <1>3, RivalTimerStep DEF RivalTimer
<1>4. CASE CallerActs
  BY <1>1, <1>4, OursBegins, TheirsBegins, OursLeaves, TheirsLeaves DEF CallerActs
<1>5. CASE OursReceives
  BY <1>1, <1>5, OursReceiveStep DEF OursReceives
<1>6. CASE RivalReceives
  BY <1>1, <1>6, TheirsReceiveStep DEF RivalReceives
<1>7. CASE Lose
  <2>1. losses' = losses + 1
    BY <1>7 DEF Lose
  <2> QED
    BY <1>1, <2>1
<1>8. CASE UNCHANGED claimVars
  <2>1. UNCHANGED <<vars, rivalVars, link, losses, lead, lead2>>
    BY <1>8 DEF claimVars
  <2>2. LosslessInv => LosslessInv'
    BY <2>1, OursStay, TheirsStay DEF LosslessInv
  <2> QED
    BY <1>1, <2>1, <2>2
<1>9. CASE DropOwn
  BY <1>0, <1>9 DEF DropOwn
<1> QED
  BY <1>9, <1>2, <1>3, <1>4, <1>5, <1>6, <1>7, <1>8 DEF ClaimNext

\* Two holders of one name would each dispute the other.
LEMMA ClaimInvImplies == ClaimInv => NeverBothHold
<1> SUFFICES ASSUME LosslessInv, Holds, RivalHolds, instanceName = instanceName2 PROVE FALSE
  BY DEF ClaimInv, NeverBothHold
<1>1. Ours.phase = "holding"
  BY OursFields, OursPhases DEF LosslessInv, OursInv, OneHost, Holds, PhaseOf
<1>2. Theirs.phase = "holding"
  BY TheirsFields, TheirsPhases DEF LosslessInv, TheirsInv, OneHost, RivalHolds, PhaseOf
<1> QED
  BY <1>1, <1>2, OursFields, TheirsFields DEF LosslessInv, Pair, Apart, Undisputed

\* While nothing is lost each host can still hear what it has to know of the other:
\* who is behind in probing gets the probe or the announcement that stops it before
\* its own last probe (beginProbe, losesTieBreak, onResponse).
THEOREM ClaimInvariant == ThreeProbes /\ OneAddressPerHost /\ ClaimSpec => []ClaimInv
<1> SUFFICES ASSUME ThreeProbes, OneAddressPerHost PROVE ClaimSpec => []ClaimInv
  OBVIOUS
<1>1. ClaimInit => ClaimInv
  BY ClaimInvInit
<1>2. ClaimInv /\ [ClaimNext]_claimVars => ClaimInv'
  BY ClaimInvStep
<1> QED
  BY <1>1, <1>2, PTL DEF ClaimSpec

\* Without losses two responders never hold one name at the same time, whichever
\* starts first and however their probes and announcements cross, for any number of
\* probes from three on (probeCount), any number of renames and any RDATA.
THEOREM OneHolderOfAName == ThreeProbes /\ OneAddressPerHost /\ ClaimSpec => []NeverBothHold
<1> SUFFICES ASSUME ThreeProbes, OneAddressPerHost PROVE ClaimSpec => []NeverBothHold
  OBVIOUS
<1>1. ClaimSpec => []ClaimInv
  BY ClaimInvariant
<1> QED
  BY <1>1, ClaimInvImplies, PTL

------------------------------------------------------------------------------
(* Who keeps the name *)

\* A host gives up the first name it tries, or has heard that it must.
Conceded(x) == x.name # 0 \/ x.warned

\* Only one host concedes: the one that loses the tie-break, or that came late.
Keeps(x, y) ==
    Conceded(y) => ~Conceded(x) /\ (y.data < x.data \/ x.phase \in {"holding", "gone"})

Unwarned(x, isStarted) ==
    /\ x.phase \in {"holding", "gone"} => ~x.warned
    /\ ~isStarted => ~Conceded(x)

LosslessKeep ==
    /\ Keeps(Ours, Theirs) /\ Keeps(Theirs, Ours)
    /\ Unwarned(Ours, started) /\ Unwarned(Theirs, started2)

KeepInv == ~FromOwnAddress /\ losses = 0 => LosslessKeep

\* On one host a tie-break is lost only for the same name, by the lesser RDATA.
LEMMA StrongWins ==
    ASSUME NEW x \in ViewType, NEW y \in ViewType, x.host = y.host, x.data # y.data,
           LosesTieBreak(Recs(x), Unique(Recs(y)))
    PROVE  x.name = y.name /\ x.data < y.data
<1> DEFINE ours     == {Key(r) : r \in Unique(Recs(x))}
           theirs   == {Key(r) : r \in Comparable(Unique(Recs(y)), Recs(x))}
           onlyOne  == (ours \ theirs) \cup (theirs \ ours)
           Least(r) == r \in onlyOne /\ \A s \in onlyOne : ~RecordLess(s, r)
           first    == CHOOSE r \in onlyOne : \A s \in onlyOne : ~RecordLess(s, r)
           K(t, d)  == [type |-> t, data |-> d]
           as       == {K("A", d) : d \in Addrs}
           same     == x.name = y.name
<1>1. /\ x.data \in Nat /\ y.data \in Nat /\ Addrs \subseteq Nat
      /\ TypeNum["A"] = 1 /\ TypeNum["TXT"] = 16 /\ TypeNum["SRV"] = 33
  BY DataAssumption DEF ViewType, TypeNum
<1>2. Unique(Recs(x)) = {Rec("SRV", Instance(x.name), x.data), Rec("TXT", Instance(x.name), x.data)}
                            \cup {Rec("A", <<"host", x.host>>, d) : d \in Addrs}
  BY UniqueRecs
<1>3. Unique(Recs(y)) = {Rec("SRV", Instance(y.name), y.data), Rec("TXT", Instance(y.name), y.data)}
                            \cup {Rec("A", <<"host", x.host>>, d) : d \in Addrs}
  BY UniqueRecs
<1>4. ours = {K("SRV", x.data), K("TXT", x.data)} \cup as
  BY <1>2, RecFields
<1>5. Comparable(Unique(Recs(y)), Recs(x)) =
          {Rec("A", <<"host", x.host>>, d) : d \in Addrs} \cup
              (IF same
               THEN {Rec("SRV", Instance(y.name), y.data), Rec("TXT", Instance(y.name), y.data)}
               ELSE {})
  <2>1. \A d \in Addrs : \E o \in Unique(Recs(x)) : SameNameType(o, Rec("A", <<"host", x.host>>, d))
    BY <1>2, RecFields DEF SameNameType
  <2>2. \A t \in {"SRV", "TXT"} :
            (\E o \in Unique(Recs(x)) : SameNameType(o, Rec(t, Instance(y.name), y.data))) <=> same
    BY <1>2, RecFields DEF SameNameType, Instance
  <2> QED
    BY <1>3, <2>1, <2>2 DEF Comparable
<1>6. theirs = as \cup (IF same THEN {K("SRV", y.data), K("TXT", y.data)} ELSE {})
  BY <1>5, RecFields
<1>7. onlyOne = {K("SRV", x.data), K("TXT", x.data)}
                    \cup (IF same THEN {K("SRV", y.data), K("TXT", y.data)} ELSE {})
  BY <1>1, <1>4, <1>6
<1> HIDE DEF ours, theirs, onlyOne
<1>8. \E r : Least(r)
  <2>1. CASE same /\ y.data < x.data
    <3>1. Least(K("TXT", y.data))
      BY <2>1, <1>1, <1>7 DEF RecordLess
    <3> QED
      BY <3>1
  <2>2. CASE ~same \/ x.data < y.data
    <3>1. Least(K("TXT", x.data))
      BY <2>2, <1>1, <1>7 DEF RecordLess
    <3> QED
      BY <3>1
  <2> QED
    BY <2>1, <2>2, <1>1
<1>9. Least(first)
  BY <1>8
<1>10. IF first \in ours THEN \E t \in theirs : RecordLess(first, t)
                         ELSE ~ \E o \in ours : RecordLess(first, o)
  BY DEF LosesTieBreak, ours, theirs, onlyOne
<1> HIDE DEF first
<1>11. same
  <2> SUFFICES ASSUME ~same PROVE FALSE
    OBVIOUS
  <2>1. first \in {K("SRV", x.data), K("TXT", x.data)} /\ first \in ours
    BY <1>4, <1>7, <1>9
  <2>2. PICK t \in as : RecordLess(first, t)
    BY <1>6, <1>10, <2>1
  <2> QED
    BY <1>1, <2>1, <2>2 DEF RecordLess
<1>12. x.data < y.data
  <2> SUFFICES ASSUME y.data < x.data PROVE FALSE
    BY <1>1
  <2>1. first = K("TXT", y.data)
    BY <1>1, <1>7, <1>9, <1>11 DEF RecordLess
  <2>2. RecordLess(first, K("SRV", x.data)) /\ K("SRV", x.data) \in ours
    BY <1>1, <1>4, <2>1 DEF RecordLess
  <2>3. first \notin ours
    <3>1. first.type = "TXT" /\ first.data = y.data
      BY <2>1
    <3>2. \A r \in ours : r.type = "TXT" => r.data = x.data
      BY <1>4
    <3>3. x.data # y.data
      OBVIOUS
    <3> QED
      BY <3>1, <3>2, <3>3
  <2> QED
    BY <1>10, <2>2, <2>3
<1> QED
  BY <1>11, <1>12

\* A step after which a host has the name and the warning it had.
LEMMA KeepsOn ==
    ASSUME NEW x, NEW y, NEW z, SameHost(z, x), z.name = x.name, z.warned = x.warned,
           x.phase \in {"holding", "gone"} => z.phase \in {"holding", "gone"},
           Keeps(x, y), Keeps(y, x)
    PROVE  Keeps(z, y) /\ Keeps(y, z)
BY DEF Keeps, Conceded, SameHost

\* Only a host that has conceded leaves its name.
LEMMA OurTimerKeeps ==
    ASSUME LosslessInv, LosslessKeep, OurTimer
    PROVE  LosslessKeep'
<1>1. /\ OursInv /\ TheirsInv /\ Keeps(Ours, Theirs) /\ Keeps(Theirs, Ours) /\ UNCHANGED rivalVars
      /\ Unwarned(Ours, started) /\ Unwarned(Theirs, started2)
  BY DEF LosslessInv, LosslessKeep, OurTimer
<1>2. Theirs' = Theirs /\ started2' = started2
  BY <1>1, TheirsStay DEF rivalVars
<1>3. started' = started /\ started
  BY <1>1, OursFields, OursPhases DEF OurTimer, SendProbe, ClaimName, Announce, LoseName,
     Rename, GiveUp, Close, ProbeNextName, control, Timer, OursInv, OneHost, PhaseOf
<1>4. CASE SendProbe
  BY <1>1, <1>2, <1>3, <1>4, OursProbes, KeepsOn DEF LosslessKeep, Unwarned
<1>5. CASE ClaimName \/ Announce
  BY <1>1, <1>2, <1>3, <1>5, OursAnnounces, KeepsOn DEF LosslessKeep, Unwarned
<1>6. CASE LoseName
  <2>1. Ours.warned /\ Conceded(Ours') /\ Ours'.phase \in {"off", "probing"}
        /\ Ours'.data = Ours.data
    BY <1>1, <1>6, OursLosesName, OursFields DEF Conceded
  <2>2. Keeps(Ours', Theirs) /\ Keeps(Theirs, Ours')
    BY <1>1, <2>1 DEF Keeps, Conceded
  <2> QED
    BY <1>1, <1>2, <1>3, <2>1, <2>2 DEF LosslessKeep, Unwarned
<1> QED
  BY <1>4, <1>5, <1>6 DEF OurTimer

\* Starting and stopping concede nothing.
LEMMA OursCallerKeeps ==
    ASSUME LosslessInv, LosslessKeep, UNCHANGED rivalVars, Start \/ Stop
    PROVE  LosslessKeep'
<1>1. /\ OursInv /\ TheirsInv /\ Keeps(Ours, Theirs) /\ Keeps(Theirs, Ours)
      /\ Unwarned(Ours, started) /\ Unwarned(Theirs, started2)
  BY DEF LosslessInv, LosslessKeep
<1>2. Theirs' = Theirs /\ started2' = started2
  BY <1>1, TheirsStay DEF rivalVars
<1>3. CASE Start
  <2>1. ~started /\ started' /\ Ours'.name = Ours.name /\ ~Ours'.warned /\ Ours'.phase = "probing"
        /\ Ours.phase = "off" /\ Ours'.data = Ours.data
    BY <1>1, <1>3, OursStarts, OursFields DEF Start
  <2>2. ~Conceded(Ours) /\ ~Conceded(Ours')
    BY <1>1, <2>1 DEF Unwarned, Conceded
  <2>3. Keeps(Ours', Theirs) /\ Keeps(Theirs, Ours')
    BY <1>1, <2>1, <2>2 DEF Keeps
  <2> QED
    BY <1>1, <1>2, <2>1, <2>3 DEF LosslessKeep, Unwarned
<1>4. CASE Stop
  <2>1. started' = started
    BY <1>4 DEF Stop, Close, control
  <2>2. \/ Ours' = Ours
        \/ /\ SameHost(Ours', Ours) /\ Ours'.name = Ours.name /\ Ours'.warned = Ours.warned
           /\ Ours.phase = "holding" /\ Ours'.phase = "gone"
    BY <1>1, <1>4, OursStops
  <2>3. Keeps(Ours', Theirs) /\ Keeps(Theirs, Ours')
    BY <1>1, <2>2, KeepsOn
  <2>4. Unwarned(Ours', started')
    BY <1>1, <2>1, <2>2 DEF Unwarned, Conceded
  <2> QED
    BY <1>1, <1>2, <2>3, <2>4 DEF LosslessKeep
<1> QED
  BY <1>3, <1>4

\* What makes ours concede: a lost tie-break, or a name that is held.
LEMMA OursReceiveKeeps ==
    ASSUME OneAddressPerHost, RivalHost = OurHost, LosslessInv, LosslessKeep, OursReceives
    PROVE  LosslessKeep'
<1>1. /\ OursInv /\ TheirsInv /\ Keeps(Ours, Theirs) /\ Keeps(Theirs, Ours)
      /\ Unwarned(Ours, started) /\ Unwarned(Theirs, started2)
      /\ Pair(Ours, Theirs, link, "ours", "rival", lead, lead2) /\ Tags("ours", "rival")
      /\ link # <<>> /\ Head(link).to = "ours" /\ UNCHANGED rivalVars
  BY PairIsSymmetric DEF LosslessInv, LosslessKeep, OursReceives, Tags
<1>2. Theirs' = Theirs /\ started2' = started2
  BY <1>1, TheirsStay DEF rivalVars
<1>3. Ours.data # Theirs.data /\ Ours.host = Theirs.host /\ OneAddressOrHost(Ours, Theirs)
      /\ Ours \in ViewType /\ Theirs \in ViewType /\ Ours'.data = Ours.data
  BY <1>1, OursFields, TheirsFields, OursTyped, TheirsTyped, RivalAssumption
     DEF OneAddressPerHost, OneAddressOrHost
<1>4. Says(Theirs, Head(link))
  BY <1>1, Arrives, TailPackets DEF Pair, Apart
<1>5. CASE /\ Head(link).kind = "probe" /\ OnRivalProbe(instanceName2, Head(link).records)
  <2>1. /\ SameHost(Ours', Ours) /\ Ours'.name = Ours.name /\ Ours.phase = "probing"
        /\ Ours'.phase = "probing"
        /\ Ours'.warned = (Ours.warned \/ LosesTieBreak(Recs(Ours), Head(link).records))
    BY <1>1, <1>5, OursWeighs
  <2>2. started /\ started' = started
    BY <1>1, <1>5, <2>1, OursFields DEF OnRivalProbe, control, PhaseOf
  <2>3. Theirs.phase = "probing" /\ Head(link).records = Unique(Recs(Theirs))
    BY <1>4, <1>5 DEF Says
  <2>4. CASE LosesTieBreak(Recs(Ours), Head(link).records)
    <3>1. Ours.name = Theirs.name /\ Ours.data < Theirs.data
      BY <1>3, <2>3, <2>4, StrongWins
    <3>2. ~Conceded(Theirs)
      <4>1. ~(Theirs.data < Ours.data)
        BY <1>3, <3>1 DEF ViewType
      <4> QED
        BY <1>1, <2>1, <3>1, <4>1 DEF Keeps, Conceded
    <3>3. Keeps(Ours', Theirs) /\ Keeps(Theirs, Ours')
      BY <1>3, <3>1, <3>2 DEF Keeps
    <3> QED
      BY <1>1, <1>2, <2>1, <2>2, <3>3 DEF LosslessKeep, Unwarned
  <2>5. CASE ~LosesTieBreak(Recs(Ours), Head(link).records)
    <3>1. Ours'.warned = Ours.warned
      BY <2>1, <2>5, <1>3 DEF ViewType
    <3>2. Keeps(Ours', Theirs) /\ Keeps(Theirs, Ours')
      BY <1>1, <2>1, <3>1, KeepsOn
    <3> QED
      BY <1>1, <1>2, <2>1, <2>2, <3>2 DEF LosslessKeep, Unwarned
  <2> QED
    BY <2>4, <2>5
<1>6. CASE OnLateProbe(instanceName2, Head(link).records)
  <2>1. Ours' = Ours /\ started' = started
    BY <1>1, <1>6, OursDefends DEF OnLateProbe, control
  <2> QED
    BY <1>1, <1>2, <2>1 DEF LosslessKeep
<1>7. CASE /\ Head(link).kind = "response"
           /\ \E answer \in Head(link).records : OnConflict(answer)
  <2>1. PICK answer \in Head(link).records : OnConflict(answer)
    BY <1>7
  <2>2. /\ ConflictsWith(Head(link).records, Recs(Ours)) /\ Ours.phase \in {"probing", "holding"}
        /\ Ours.phase = "probing" =>
              /\ OursInv' /\ SameHost(Ours', Ours) /\ Ours'.name = Ours.name
              /\ Ours'.sent = Ours.sent
              /\ Ours'.phase = "probing" /\ Ours'.warned /\ timers' = timers
    BY <1>1, <2>1, OursHears
  <2>3. Ours.phase # "holding"
    <3> DEFINE z == [Ours EXCEPT !.warned = TRUE]
    <3>1. z \in ViewType /\ SameHost(z, Ours) /\ z.name = Ours.name /\ z.sent = Ours.sent
          /\ z.phase = Ours.phase /\ z.warned
      BY <1>3 DEF ViewType, SameHost
    <3> HIDE DEF z
    <3> QED
      BY <1>1, <1>3, <1>7, <2>2, <3>1, ConflictStep
  <2>4. Theirs.phase \in {"holding", "gone"} /\ Head(link).records \subseteq Recs(Theirs)
    BY <1>4, <1>7 DEF Says
  <2>5. Ours.name = Theirs.name
    BY <1>3, <2>2, <2>4, ConflictIsOfName
  <2>6. ~Conceded(Theirs)
    BY <1>1, <2>4, <2>5 DEF Keeps, Conceded, Unwarned
  <2>7. Keeps(Ours', Theirs) /\ Keeps(Theirs, Ours')
    BY <2>4, <2>6 DEF Keeps
  <2>8. Unwarned(Ours', started')
    <3>1. Ours'.phase = "probing"
      BY <2>2, <2>3
    <3> QED
      BY <3>1, OursFields DEF Unwarned, PhaseOf
  <2> QED
    BY <1>1, <1>2, <2>7, <2>8 DEF LosslessKeep
<1>8. CASE UNCHANGED vars
  <2>1. Ours' = Ours /\ started' = started
    BY <1>1, <1>8, OursStay DEF vars, control, naming, history
  <2> QED
    BY <1>1, <1>2, <2>1 DEF LosslessKeep
<1> QED
  BY <1>5, <1>6, <1>7, <1>8 DEF OursReceives

\* Only a host that has conceded leaves its name.
LEMMA RivalTimerKeeps ==
    ASSUME LosslessInv, LosslessKeep, RivalTimer
    PROVE  LosslessKeep'
<1>1. /\ TheirsInv /\ OursInv /\ Keeps(Theirs, Ours) /\ Keeps(Ours, Theirs) /\ UNCHANGED vars
      /\ Unwarned(Theirs, started2) /\ Unwarned(Ours, started)
  BY DEF LosslessInv, LosslessKeep, RivalTimer
<1>2. Ours' = Ours /\ started' = started
  BY <1>1, OursStay DEF vars, control, naming, history
<1>3. started2' = started2 /\ started2
  BY <1>1, TheirsFields, TheirsPhases
     DEF RivalTimer, Rival!SendProbe, Rival!ClaimName, Rival!Announce, Rival!LoseName,
     Rival!Rename, Rival!GiveUp, Rival!Close, Rival!ProbeNextName, Rival!control, Rival!Timer,
     Timer, TheirsInv, OneHost, PhaseOf
<1>4. CASE Rival!SendProbe
  BY <1>1, <1>2, <1>3, <1>4, TheirsProbes, KeepsOn DEF LosslessKeep, Unwarned
<1>5. CASE Rival!ClaimName \/ Rival!Announce
  BY <1>1, <1>2, <1>3, <1>5, TheirsAnnounces, KeepsOn DEF LosslessKeep, Unwarned
<1>6. CASE Rival!LoseName
  <2>1. Theirs.warned /\ Conceded(Theirs') /\ Theirs'.phase \in {"off", "probing"}
        /\ Theirs'.data = Theirs.data
    BY <1>1, <1>6, TheirsLosesName, TheirsFields DEF Conceded
  <2>2. Keeps(Theirs', Ours) /\ Keeps(Ours, Theirs')
    BY <1>1, <2>1 DEF Keeps, Conceded
  <2> QED
    BY <1>1, <1>2, <1>3, <2>1, <2>2 DEF LosslessKeep, Unwarned
<1> QED
  BY <1>4, <1>5, <1>6 DEF RivalTimer

\* Starting and stopping concede nothing.
LEMMA TheirsCallerKeeps ==
    ASSUME LosslessInv, LosslessKeep, UNCHANGED vars, Rival!Start \/ Rival!Stop
    PROVE  LosslessKeep'
<1>1. /\ TheirsInv /\ OursInv /\ Keeps(Theirs, Ours) /\ Keeps(Ours, Theirs)
      /\ Unwarned(Theirs, started2) /\ Unwarned(Ours, started)
  BY DEF LosslessInv, LosslessKeep
<1>2. Ours' = Ours /\ started' = started
  BY <1>1, OursStay DEF vars, control, naming, history
<1>3. CASE Rival!Start
  <2>1. ~started2 /\ started2' /\ Theirs'.name = Theirs.name /\ ~Theirs'.warned
        /\ Theirs'.phase = "probing"
        /\ Theirs.phase = "off" /\ Theirs'.data = Theirs.data
    BY <1>1, <1>3, TheirsStarts, TheirsFields DEF Rival!Start
  <2>2. ~Conceded(Theirs) /\ ~Conceded(Theirs')
    BY <1>1, <2>1 DEF Unwarned, Conceded
  <2>3. Keeps(Theirs', Ours) /\ Keeps(Ours, Theirs')
    BY <1>1, <2>1, <2>2 DEF Keeps
  <2> QED
    BY <1>1, <1>2, <2>1, <2>3 DEF LosslessKeep, Unwarned
<1>4. CASE Rival!Stop
  <2>1. started2' = started2
    BY <1>4 DEF Rival!Stop, Rival!Close, Rival!control
  <2>2. \/ Theirs' = Theirs
        \/ /\ SameHost(Theirs', Theirs) /\ Theirs'.name = Theirs.name
           /\ Theirs'.warned = Theirs.warned
           /\ Theirs.phase = "holding" /\ Theirs'.phase = "gone"
    BY <1>1, <1>4, TheirsStops
  <2>3. Keeps(Theirs', Ours) /\ Keeps(Ours, Theirs')
    BY <1>1, <2>2, KeepsOn
  <2>4. Unwarned(Theirs', started2')
    BY <1>1, <2>1, <2>2 DEF Unwarned, Conceded
  <2> QED
    BY <1>1, <1>2, <2>3, <2>4 DEF LosslessKeep
<1> QED
  BY <1>3, <1>4

\* What makes the rival concede: a lost tie-break, or a name that is held.
LEMMA TheirsReceiveKeeps ==
    ASSUME OneAddressPerHost, RivalHost = OurHost, LosslessInv, LosslessKeep, RivalReceives
    PROVE  LosslessKeep'
<1>1. /\ TheirsInv /\ OursInv /\ Keeps(Theirs, Ours) /\ Keeps(Ours, Theirs)
      /\ Unwarned(Theirs, started2) /\ Unwarned(Ours, started)
      /\ Pair(Theirs, Ours, link, "rival", "ours", lead2, lead) /\ Tags("rival", "ours")
      /\ link # <<>> /\ Head(link).to = "rival" /\ UNCHANGED vars
  BY PairIsSymmetric DEF LosslessInv, LosslessKeep, RivalReceives, Tags
<1>2. Ours' = Ours /\ started' = started
  BY <1>1, OursStay DEF vars, control, naming, history
<1>3. Theirs.data # Ours.data /\ Theirs.host = Ours.host /\ OneAddressOrHost(Theirs, Ours)
      /\ Theirs \in ViewType /\ Ours \in ViewType /\ Theirs'.data = Theirs.data
  BY <1>1, TheirsFields, OursFields, TheirsTyped, OursTyped, RivalAssumption
     DEF OneAddressPerHost, OneAddressOrHost
<1>4. Says(Ours, Head(link))
  BY <1>1, Arrives, TailPackets DEF Pair, Apart
<1>5. CASE /\ Head(link).kind = "probe" /\ Rival!OnRivalProbe(instanceName, Head(link).records)
  <2>1. /\ SameHost(Theirs', Theirs) /\ Theirs'.name = Theirs.name /\ Theirs.phase = "probing"
        /\ Theirs'.phase = "probing"
        /\ Theirs'.warned = (Theirs.warned \/ LosesTieBreak(Recs(Theirs), Head(link).records))
    BY <1>1, <1>5, TheirsWeighs
  <2>2. started2 /\ started2' = started2
    BY <1>1, <1>5, <2>1, TheirsFields DEF Rival!OnRivalProbe, Rival!control, PhaseOf
  <2>3. Ours.phase = "probing" /\ Head(link).records = Unique(Recs(Ours))
    BY <1>4, <1>5 DEF Says
  <2>4. CASE LosesTieBreak(Recs(Theirs), Head(link).records)
    <3>1. Theirs.name = Ours.name /\ Theirs.data < Ours.data
      BY <1>3, <2>3, <2>4, StrongWins
    <3>2. ~Conceded(Ours)
      <4>1. ~(Ours.data < Theirs.data)
        BY <1>3, <3>1 DEF ViewType
      <4> QED
        BY <1>1, <2>1, <3>1, <4>1 DEF Keeps, Conceded
    <3>3. Keeps(Theirs', Ours) /\ Keeps(Ours, Theirs')
      BY <1>3, <3>1, <3>2 DEF Keeps
    <3> QED
      BY <1>1, <1>2, <2>1, <2>2, <3>3 DEF LosslessKeep, Unwarned
  <2>5. CASE ~LosesTieBreak(Recs(Theirs), Head(link).records)
    <3>1. Theirs'.warned = Theirs.warned
      BY <2>1, <2>5, <1>3 DEF ViewType
    <3>2. Keeps(Theirs', Ours) /\ Keeps(Ours, Theirs')
      BY <1>1, <2>1, <3>1, KeepsOn
    <3> QED
      BY <1>1, <1>2, <2>1, <2>2, <3>2 DEF LosslessKeep, Unwarned
  <2> QED
    BY <2>4, <2>5
<1>6. CASE Rival!OnLateProbe(instanceName, Head(link).records)
  <2>1. Theirs' = Theirs /\ started2' = started2
    BY <1>1, <1>6, TheirsDefends DEF Rival!OnLateProbe, Rival!control
  <2> QED
    BY <1>1, <1>2, <2>1 DEF LosslessKeep
<1>7. CASE /\ Head(link).kind = "response"
           /\ \E answer \in Head(link).records : Rival!OnConflict(answer)
  <2>1. PICK answer \in Head(link).records : Rival!OnConflict(answer)
    BY <1>7
  <2>2. /\ ConflictsWith(Head(link).records, Recs(Theirs))
        /\ Theirs.phase \in {"probing", "holding"}
        /\ Theirs.phase = "probing" =>
              /\ TheirsInv' /\ SameHost(Theirs', Theirs) /\ Theirs'.name = Theirs.name
              /\ Theirs'.sent = Theirs.sent
              /\ Theirs'.phase = "probing" /\ Theirs'.warned /\ timers2' = timers2
    BY <1>1, <2>1, TheirsHears
  <2>3. Theirs.phase # "holding"
    <3> DEFINE z == [Theirs EXCEPT !.warned = TRUE]
    <3>1. z \in ViewType /\ SameHost(z, Theirs) /\ z.name = Theirs.name /\ z.sent = Theirs.sent
          /\ z.phase = Theirs.phase /\ z.warned
      BY <1>3 DEF ViewType, SameHost
    <3> HIDE DEF z
    <3> QED
      BY <1>1, <1>3, <1>7, <2>2, <3>1, ConflictStep
  <2>4. Ours.phase \in {"holding", "gone"} /\ Head(link).records \subseteq Recs(Ours)
    BY <1>4, <1>7 DEF Says
  <2>5. Theirs.name = Ours.name
    BY <1>3, <2>2, <2>4, ConflictIsOfName
  <2>6. ~Conceded(Ours)
    BY <1>1, <2>4, <2>5 DEF Keeps, Conceded, Unwarned
  <2>7. Keeps(Theirs', Ours) /\ Keeps(Ours, Theirs')
    BY <2>4, <2>6 DEF Keeps
  <2>8. Unwarned(Theirs', started2')
    <3>1. Theirs'.phase = "probing"
      BY <2>2, <2>3
    <3> QED
      BY <3>1, TheirsFields DEF Unwarned, PhaseOf
  <2> QED
    BY <1>1, <1>2, <2>7, <2>8 DEF LosslessKeep
<1>8. CASE UNCHANGED rivalVars
  <2>1. Theirs' = Theirs /\ started2' = started2
    BY <1>1, <1>8, TheirsStay DEF rivalVars
  <2> QED
    BY <1>1, <1>2, <2>1 DEF LosslessKeep
<1> QED
  BY <1>5, <1>6, <1>7, <1>8 DEF RivalReceives

LEMMA KeepInvStep ==
    ASSUME OneAddressPerHost, RivalHost = OurHost, ClaimInv, KeepInv, [ClaimNext]_claimVars
    PROVE  KeepInv'
<1>0. SUFFICES ASSUME ~FromOwnAddress PROVE losses' = 0 => LosslessKeep'
  BY WhoHearsWhom DEF KeepInv
<1>1. losses \in Nat /\ (losses = 0 => LosslessInv /\ LosslessKeep)
  BY <1>0 DEF ClaimInv, KeepInv
<1>2. CASE OurTimer
  BY <1>1, <1>2, OurTimerKeeps DEF OurTimer
<1>3. CASE RivalTimer
  BY <1>1, <1>3, RivalTimerKeeps DEF RivalTimer
<1>4. CASE CallerActs
  BY <1>1, <1>4, OursCallerKeeps, TheirsCallerKeeps DEF CallerActs
<1>5. CASE OursReceives
  BY <1>1, <1>5, OursReceiveKeeps DEF OursReceives
<1>6. CASE RivalReceives
  BY <1>1, <1>6, TheirsReceiveKeeps DEF RivalReceives
<1>7. CASE Lose
  <2>1. losses' = losses + 1
    BY <1>7 DEF Lose
  <2> QED
    BY <1>1, <2>1
<1>8. CASE UNCHANGED claimVars
  <2>1. UNCHANGED <<vars, rivalVars, losses>>
    BY <1>8 DEF claimVars
  <2>2. UNCHANGED <<started, started2>>
    BY <2>1 DEF vars, control, rivalVars
  <2>3. LosslessInv /\ LosslessKeep => LosslessKeep'
    BY <2>1, <2>2, OursStay, TheirsStay DEF LosslessInv, LosslessKeep
  <2> QED
    BY <1>1, <2>1, <2>3
<1>9. CASE DropOwn
  BY <1>0, <1>9 DEF DropOwn
<1> QED
  BY <1>9, <1>2, <1>3, <1>4, <1>5, <1>6, <1>7, <1>8 DEF ClaimNext

\* Without losses a free name is not given up by both of two processes of one host:
\* the tie-break has one loser, and who claims the name first keeps it (losesTieBreak,
\* onProbeDone, rename).
THEOREM OneOfThemKeepsTheName ==
    ThreeProbes /\ OneAddressPerHost /\ RivalHost = OurHost /\ ClaimSpec => []OneKeepsTheName
<1> SUFFICES ASSUME ThreeProbes, OneAddressPerHost, RivalHost = OurHost
             PROVE  ClaimSpec => []OneKeepsTheName
  OBVIOUS
<1>1. ClaimSpec => []ClaimInv
  BY ClaimInvariant
<1>2. ClaimInit => KeepInv
  BY OursFields, TheirsFields DEF ClaimInit, Init, Rival!Init, KeepInv, LosslessKeep, Keeps,
     Unwarned, Conceded, PhaseOf
<1>3. KeepInv /\ ClaimInv /\ [ClaimNext]_claimVars => KeepInv'
  BY KeepInvStep
<1>4. KeepInv => OneKeepsTheName
  BY OursFields, TheirsFields DEF KeepInv, LosslessKeep, Keeps, Conceded, OneKeepsTheName
<1> QED
  BY <1>1, <1>2, <1>3, <1>4, PTL DEF ClaimSpec
=============================================================================
