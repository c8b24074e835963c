---------------------------- MODULE MobilePlugins ----------------------------
(***************************************************************************)
(* The two mobile plug-ins against one system and one consumer: a behaviour is   *)
(* one platform's throughout.                                                *)
(***************************************************************************)
EXTENDS AndroidPlugin, IosPlugin

VARIABLE platform

vars == <<platform, common, androidVars, iosVars>>

Init ==
    /\ platform \in {"android", "ios"}
    /\ CommonInit /\ AndroidInit /\ IosInit

Next ==
    \/ platform = "android" /\ AndroidNext /\ UNCHANGED <<platform, iosVars>>
    \/ platform = "ios" /\ IosNext /\ UNCHANGED <<platform, androidVars>>

Spec == Init /\ [][Next]_vars

------------------------------------------------------------------------------
(* Properties *)

\* Once everything under way has been handled, the consumer of an open browse
\* believes in exactly the instances the system has, whatever came, changed, went
\* and came back in between, however far the two threads of Android are apart, and in
\* whichever order losses, updates and late resolutions were delivered.  There are
\* two exceptions on Android: an instance whose resolution failed is taken back or
\* never told, and one that an update of a callback already unregistered brought
\* back stays (finding 16).  No instance that is there is missed for that.
AgreesWithSystem ==
    /\ platform = "ios" /\ IosSettled =>
          \A i \in Insts : known[i] # "absent" <=> net[i] # Absent
    /\ platform = "android" /\ AndroidSettled =>
          \A i \in Insts :
             /\ net[i] # Absent => known[i] # "absent" \/ i \in failed
             /\ known[i] # "absent" => net[i] # Absent \/ i \in late

\* The consumer sees every instance through the life every backend promises: no
\* second found, no update before it is resolved, no removal of what it was not told
\* of, but for Android, which also removes what it has not told of yet.  What is
\* told as resolved has a host and a port.  (What is told as updated should: finding
\* 17.)  On iOS an update has them exactly if the answer applied last had: no browse
\* refresh takes an endpoint back, and none makes one up.
Abstract == INSTANCE ServiceLifecycle WITH
    phase <- known, reports <- {<<r[1], r[2]>> : r \in reports}

RemovesUntold(i) ==
    /\ platform = "android" /\ known[i] = "absent" /\ known'[i] = "absent"
    /\ {r \in reports' : r[1] = i} = {<<i, "removed", FALSE>>}

LifecycleKept ==
    [][/\ \A i \in Insts :
             \/ RemovesUntold(i)
             \/ Abstract!Legal({k \in Abstract!Kind : <<i, k>> \in {<<r[1], r[2]>> : r \in reports'}},
                               known[i], known'[i])
       /\ \A r \in reports' :
             /\ r[2] = "resolved" => r[3]
             /\ r[2] = "updated" /\ platform = "ios" => (r[3] <=> resolved'[r[1]] # Nowhere)]_vars

\* What the comments say of the Android plug-in: BrowseSession.infoCallbacks has
\* the live callbacks, for cleanup, so that none is left when the session is over.
CallbacksAreCleanedUp == browse = "closed" => registered = {}

\* What was lost stays lost, as the comment on handleLost has it: `removed` is told once.
LostStaysLost ==
    platform = "android" /\ AndroidSettled =>
        \A i \in Insts : known[i] # "absent" => net[i] # Absent

\* What adapter-core.ts says of its updates: the contract that they have a host and a
\* port.
UpdatesHaveEndpoint == [][\A r \in reports' : r[2] = "updated" => r[3]]_vars
=============================================================================
