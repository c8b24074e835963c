---------------------------- MODULE NativeBrowse ----------------------------
(***************************************************************************)
(* What the mobile plug-ins have in common: the services the operating system  *)
(* sees, and guest-js/adapter-core.ts, which turns the records a plug-in sends *)
(* over its channel into the events the consumer is told.                    *)
(***************************************************************************)
EXTENDS Naturals, Sequences, FiniteSets

CONSTANTS
    Insts,          \* service instances
    Versions,       \* what an instance's TXT record may say
    Absent,
    MaxChanges      \* bound on the changes of the network

ASSUME VersionAssumption == Absent \notin Versions
ASSUME InstanceAssumption == IsFiniteSet(Insts)

VARIABLES
    net,            \* per instance, its version, or Absent
    changes,        \* the number of changes
    known,          \* resolvedByName: absent, found (false) or resolved (true)
    reports         \* the triples <<instance, kind, has an endpoint>> the step told

common == <<net, changes, known, reports>>

CommonInit ==
    /\ net = [i \in Insts |-> Absent] /\ changes = 0
    /\ known = [i \in Insts |-> "absent"] /\ reports = {}

Active(i, resolved) == [inst |-> i, active |-> TRUE, resolved |-> resolved]
Inactive(i) == [inst |-> i, active |-> FALSE, resolved |-> FALSE]

\* Mutant: a removed instance is not forgotten.
PhaseAfter_Remembers(phase, record) ==
    CASE ~record.active                     -> phase
      [] record.active /\ record.resolved   -> "resolved"
      [] record.active /\ ~record.resolved  -> IF phase = "absent" THEN "found" ELSE phase

\* createBrowseMessageHandler: what it remembers after a record,
PhaseAfter(phase, record) ==
    CASE ~record.active                     -> "absent"
      [] record.active /\ record.resolved   -> "resolved"
      [] record.active /\ ~record.resolved  -> IF phase = "absent" THEN "found" ELSE phase

\* Mutant: an instance still unresolved is updated.
KindsOf_NotSuppressed(phase, record) ==
    CASE ~record.active -> {"removed"}
      [] record.active /\ phase = "absent" ->
            {"found"} \cup (IF record.resolved THEN {"resolved"} ELSE {})
      [] record.active /\ phase = "found" ->
            IF record.resolved THEN {"resolved"} ELSE {"updated"}
      [] record.active /\ phase = "resolved" -> {"updated"}

\* and the kinds it passes to the sink, in this order.
KindsOf(phase, record) ==
    CASE ~record.active -> {"removed"}
      [] record.active /\ phase = "absent" ->
            {"found"} \cup (IF record.resolved THEN {"resolved"} ELSE {})
      [] record.active /\ phase = "found" ->
            IF record.resolved THEN {"resolved"} ELSE {}
      [] record.active /\ phase = "resolved" -> {"updated"}

\* The records a handler sends, at most one per instance.
Send(records) ==
    /\ known' = [i \in Insts |->
          IF \E r \in records : r.inst = i
          THEN PhaseAfter(known[i], CHOOSE r \in records : r.inst = i) ELSE known[i]]
    /\ reports' = UNION {{<<r.inst, k, r.resolved>> : k \in KindsOf(known[r.inst], r)} :
                              r \in records}

SendNothing == UNCHANGED known /\ reports' = {}

\* An instance comes, changes or goes.
NetChanges(i, version) ==
    /\ changes < MaxChanges /\ version # net[i]
    /\ net' = [net EXCEPT ![i] = version]
    /\ changes' = changes + 1
=============================================================================
