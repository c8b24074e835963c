----------------------------- MODULE IosPlugin -----------------------------
(***************************************************************************)
(* dns-sd-tauri, ios/Sources/DnsSdPlugin.swift: a browse session on the serial *)
(* session queue, the results NWBrowser posts to it, and the NetService         *)
(* resolvers that run on the main loop.  An advertisement is a listener that    *)
(* is started and cancelled on the same queue.                               *)
(***************************************************************************)
EXTENDS NativeBrowse, SequencesExt

CONSTANTS
    MaxResolvers,   \* bound on the resolvers made
    Endpoints,      \* what a resolver may answer,
    Nowhere,        \* an answer without a host or a port among them
    NoResolver

ASSUME EndpointAssumption ==
    /\ Absent \notin Endpoints /\ Nowhere \in Endpoints
    /\ Absent \notin [txt : Versions, merged : Seq(Endpoints)]

VARIABLES
    tasks,          \* the blocks on sessionQueue
    session,        \* none, open or stopped
    services,       \* BrowseSession.services: the snapshot last sent, or Absent
    resolved,       \* BrowseSession.resolved: the endpoint, or Absent
    resolvers,      \* BrowseSession.resolvers: the resolver's number, or NoResolver
    running,        \* the resolvers on the main loop
    made            \* the number of resolvers made

iosVars == <<tasks, session, services, resolved, resolvers, running, made>>

IosInit ==
    /\ tasks = <<>> /\ session = "none"
    /\ services = [i \in Insts |-> Absent]
    /\ resolved = [i \in Insts |-> Absent]
    /\ resolvers = [i \in Insts |-> NoResolver]
    /\ running = {} /\ made = 0

\* A snapshot's signature: the TXT record and every endpoint merged into it.
\* Its payload has the last of these.
Snapshot(version) == [txt |-> version, merged |-> <<>>]
ApplyResolved(snapshot, endpoint) == [snapshot EXCEPT !.merged = Append(@, endpoint)]

HasEndpoint(snapshot) ==
    snapshot.merged # <<>> /\ snapshot.merged[Len(snapshot.merged)] # Nowhere

Record(i, snapshot) == Active(i, HasEndpoint(snapshot))

\* browse_start and browse_stop post their work, and answer at once.
IosBrowseStart ==
    /\ session = "none" /\ tasks = <<>>
    /\ tasks' = <<[kind |-> "start"]>>
    /\ SendNothing
    /\ UNCHANGED <<session, services, resolved, resolvers, running, made, net, changes>>

IosBrowseStop ==
    /\ session # "stopped" /\ ~\E k \in DOMAIN tasks : tasks[k].kind = "stop"
    /\ session = "open" \/ tasks # <<>>
    /\ tasks' = Append(tasks, [kind |-> "stop"])
    /\ SendNothing
    /\ UNCHANGED <<session, services, resolved, resolvers, running, made, net, changes>>

\* NWBrowser posts its whole set of results whenever it changes.
Results == [kind |-> "results", net |-> net]

IosNetChanges(i, version) ==
    /\ NetChanges(i, version)
    /\ tasks' = IF session = "open" THEN Append(tasks, Results') ELSE tasks
    /\ SendNothing
    /\ UNCHANGED <<session, services, resolved, resolvers, running, made>>

RunStart ==
    /\ tasks # <<>> /\ Head(tasks).kind = "start"
    /\ session' = "open"
    /\ tasks' = Append(Tail(tasks), Results)
    /\ SendNothing
    /\ UNCHANGED <<services, resolved, resolvers, running, made, net, changes>>

\* The snapshot of a result, with the endpoint already resolved.
NextSnapshot(i, version) ==
    IF resolved[i] = Absent THEN Snapshot(version)
    ELSE ApplyResolved(Snapshot(version), resolved[i])

NextServices(results) ==
    [i \in Insts |-> IF results[i] = Absent THEN Absent ELSE NextSnapshot(i, results[i])]

\* handleBrowseResults: what changed is sent, what is new is resolved, what is gone
\* is removed and its resolver cancelled, which takes effect on the main loop.
RunResults ==
    /\ tasks # <<>> /\ Head(tasks).kind = "results"
    /\ tasks' = Tail(tasks)
    /\ IF session # "open"
       THEN SendNothing /\ UNCHANGED <<services, resolved, resolvers, running, made>>
       ELSE LET results == Head(tasks).net
                next == NextServices(results)
                gone == {i \in Insts : services[i] # Absent /\ results[i] = Absent}
                new  == {i \in Insts : /\ results[i] # Absent /\ resolved[i] = Absent
                                       /\ resolvers[i] = NoResolver}
                order == CHOOSE f \in [new -> 1..Cardinality(new)] :
                            \A i, j \in new : f[i] = f[j] => i = j
            IN  /\ services' = next
                /\ Send({Record(i, next[i]) :
                            i \in {j \in Insts : next[j] \notin {Absent, services[j]}}}
                        \cup {Inactive(i) : i \in gone})
                /\ resolved' = [i \in Insts |-> IF i \in gone THEN Absent ELSE resolved[i]]
                /\ made + Cardinality(new) <= MaxResolvers
                /\ made' = made + Cardinality(new)
                /\ resolvers' = [i \in Insts |->
                      IF i \in new THEN made + order[i]
                      ELSE IF i \in gone THEN NoResolver ELSE resolvers[i]]
                /\ running' =
                      {IF r.id \in {resolvers[i] : i \in gone}
                          THEN [r EXCEPT !.cancelled = TRUE] ELSE r : r \in running}
                      \cup {[id |-> made + order[i], inst |-> i, cancelled |-> FALSE] :
                                i \in new}
    /\ UNCHANGED <<session, net, changes>>

\* On the main loop a resolver succeeds, fails, or is stopped if it was cancelled.
ResolverSettles(r) ==
    /\ running' = running \ {r}
    /\ \/ \E e \in Endpoints :
             tasks' = Append(tasks, [kind |-> "resolution", inst |-> r.inst, endpoint |-> e])
       \/ tasks' = Append(tasks, [kind |-> "failure", inst |-> r.inst])
       \/ r.cancelled /\ UNCHANGED tasks
    /\ SendNothing
    /\ UNCHANGED <<session, services, resolved, resolvers, made, net, changes>>

\* applyResolution, for an instance that is still there.
ApplyResolution(i, endpoint) ==
    IF services[i] = Absent THEN SendNothing /\ UNCHANGED <<resolved, services>>
    ELSE /\ resolved' = [resolved EXCEPT ![i] = endpoint]
         /\ services' = [services EXCEPT ![i] = ApplyResolved(@, endpoint)]
         /\ Send({Active(i, endpoint # Nowhere)})

\* The resolver is dropped by its key: it may be another one's by now.
RunResolution ==
    /\ tasks # <<>> /\ Head(tasks).kind \in {"resolution", "failure"}
    /\ LET i == Head(tasks).inst
       IN  /\ resolvers' = [resolvers EXCEPT ![i] = NoResolver]
           /\ IF session = "open" /\ Head(tasks).kind = "resolution"
              THEN ApplyResolution(i, Head(tasks).endpoint)
              ELSE SendNothing /\ UNCHANGED <<resolved, services>>
    /\ tasks' = Tail(tasks)
    /\ UNCHANGED <<session, running, made, net, changes>>

\* stopBrowseSession: of browse_stop, the timeout or a failure of the browser.
RunStop ==
    /\ tasks # <<>> /\ Head(tasks).kind = "stop"
    /\ tasks' = Tail(tasks) /\ session' = "stopped"
    /\ running' = {[r EXCEPT !.cancelled = @ \/ r.id = resolvers[r.inst]] : r \in running}
    /\ resolvers' = [i \in Insts |-> NoResolver]
    /\ SendNothing
    /\ UNCHANGED <<services, resolved, made, net, changes>>

IosNext ==
    \/ IosBrowseStart \/ IosBrowseStop
    \/ \E i \in Insts : \E v \in Versions \cup {Absent} : IosNetChanges(i, v)
    \/ RunStart \/ RunResults \/ RunResolution \/ RunStop
    \/ \E r \in running : ResolverSettles(r)

\* Nothing is under way.
IosSettled == session = "open" /\ tasks = <<>> /\ running = {}
=============================================================================
