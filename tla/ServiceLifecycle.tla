-------------------------- MODULE ServiceLifecycle --------------------------
(***************************************************************************)
(* What every backend promises the consumer of a browse (types.ts, "Cross-  *)
(* backend contract"): an instance is found, then resolved, then perhaps     *)
(* updated, then removed, and only then found again; and what the consumer   *)
(* is told always agrees with what the backend believes.                    *)
(***************************************************************************)
CONSTANT Insts

VARIABLES
    phase,      \* per instance, how far it has come
    reports     \* the pairs <<instance, kind>> just reported

Phase == {"absent", "found", "resolved"}
Kind  == {"found", "resolved", "updated", "removed"}

Init ==
    /\ phase = [i \in Insts |-> "absent"]
    /\ reports = {}

\* What one step may tell about an instance whose phase goes from p to q.
Legal(kinds, p, q) ==
    \/ kinds = {} /\ p = q
    \/ kinds = {"found"} /\ p = "absent" /\ q = "found"
    \/ kinds = {"resolved"} /\ p = "found" /\ q = "resolved"
    \/ kinds = {"found", "resolved"} /\ p = "absent" /\ q = "resolved"
    \/ kinds = {"updated"} /\ p = "resolved" /\ q = "resolved"
    \/ kinds = {"removed"} /\ p # "absent" /\ q = "absent"

Next ==
    /\ phase' \in [Insts -> Phase]
    /\ \A i \in Insts :
          Legal({k \in Kind : <<i, k>> \in reports'}, phase[i], phase'[i])

Spec == Init /\ [][Next]_<<phase, reports>>
=============================================================================
