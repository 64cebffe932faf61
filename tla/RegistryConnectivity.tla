------------------------ MODULE RegistryConnectivity ------------------------
(***************************************************************************)
(* The SchemaRegistry controller (schemaregistry_controller.go): a health   *)
(* check of the registry endpoint on every reconcile, published in the      *)
(* SchemaRegistry status, with a RequeueAfter of five minutes.              *)
(*                                                                         *)
(* The work queue is modelled as in SchemaLifecycle: dirty keys, keys in    *)
(* flight and keys on a timer.  loadAuthConfig is abstracted to its         *)
(* outcome, authOk[r] (CredentialResolver checks the function itself); the  *)
(* Secret watch enqueues r whenever that outcome may change.  A URL is a    *)
(* model value; up[u] says whether GET /subjects at u answers 200.          *)
(***************************************************************************)
EXTENDS Naturals, FiniteSets

CONSTANTS
    Registries,   \* SchemaRegistry keys
    URLs,         \* spec.url values
    NoURL,
    MaxGen,       \* bound on metadata.generation
    MaxWorkers,   \* concurrent reconciles of the controller
    MaxCrashes    \* bound on restarts of the operator process

VARIABLES
    reg,      \* reg[r]: the SchemaRegistry object as stored
    authOk,   \* authOk[r]: loadAuthConfig succeeds for r's spec.auth
    up,       \* up[u]: the registry at u answers GET /subjects with 200
    queued, timers, pc,
    local,    \* local[r]: the reconciler's copy of the object
    health,   \* health[r]: the outcome of HealthCheck, healthErr == nil
    probed,   \* probed[r]: the URL that HealthCheck used
    crashes   \* restarts of the operator so far

vars == <<reg, authOk, up, queued, timers, pc, local, health, probed, crashes>>

ConnStates == {"", "Connected", "Unreachable"}

\* lastChecked is a timestamp of one-second resolution: a write in the same
\* second as the last one keeps it, a write in a later second changes it.
\* Only that distinction matters (it decides whether the write is a watch
\* event), so it is a bit that a write in a new second flips.
Stamps == {0, 1}

\* status.connectionStatus, lastChecked, observedGeneration and the Ready
\* condition; url is the URL whose health check produced the status
Status == [conn: ConnStates, checked: Stamps, og: 0..MaxGen,
           ready: {"Unknown", "True", "False"}, url: URLs \cup {NoURL}]

NoStatus == [conn |-> "", checked |-> 0, og |-> 0, ready |-> "Unknown", url |-> NoURL]

Object == [exists: BOOLEAN, gen: 0..MaxGen, url: URLs \cup {NoURL}, st: Status]

NoObj == [exists |-> FALSE, gen |-> 0, url |-> NoURL, st |-> NoStatus]

Labels == {"idle", "health", "statusGet", "statusUpdate", "failGet", "failUpdate"}

Busy == {k \in Registries : pc[k] # "idle"}

Notify(r) == queued' = queued \cup {r}

\* a write of reg[r] is a watch event when it changes the stored object
Written(r) == IF reg' # reg THEN Notify(r) ELSE UNCHANGED queued

\* NewClient returns a nil error on every path
NewClientSucceeds == TRUE

\* HealthCheck: GET /subjects answers 200
Healthy(u) == up[u]

Finish(r, requeue) ==
    /\ pc' = [pc EXCEPT ![r] = "idle"]
    /\ local' = [local EXCEPT ![r] = NoObj]
    /\ timers' = IF requeue THEN timers \cup {r} ELSE timers

Goto(r, label) ==
    /\ pc' = [pc EXCEPT ![r] = label]
    /\ UNCHANGED timers

Conflict(r) == reg[r] # local[r]

CtlUnchanged == UNCHANGED <<authOk, up, crashes>>

----------------------------------------------------------------------------

\* Get; NotFound ends the reconcile.  loadAuthConfig follows at once; its
\* error goes to setConditionFailed("AuthLoadFailed").  NewClient cannot
\* fail, so the ClientCreateFailed branch is never taken.
Reconcile(r) ==
    /\ r \in queued
    /\ pc[r] = "idle"
    /\ Cardinality(Busy) < MaxWorkers
    /\ queued' = queued \ {r}
    /\ \/ /\ ~reg[r].exists
          /\ UNCHANGED <<pc, timers, local>>
       \/ /\ reg[r].exists
          /\ local' = [local EXCEPT ![r] = reg[r]]
          /\ Goto(r, IF authOk[r] /\ NewClientSucceeds THEN "health" ELSE "failGet")
    /\ CtlUnchanged
    /\ UNCHANGED <<reg, health, probed>>

\* HealthCheck: GET /subjects on the URL read by this reconcile
HealthCheck(r) ==
    /\ pc[r] = "health"
    /\ health' = [health EXCEPT ![r] = Healthy(local[r].url)]
    /\ probed' = [probed EXCEPT ![r] = local[r].url]
    /\ Goto(r, "statusGet")
    /\ CtlUnchanged
    /\ UNCHANGED <<reg, queued, local>>

\* "Re-fetch before status update to avoid conflicts"; NotFound ends the
\* reconcile without a requeue
RefetchForStatus(r) ==
    /\ pc[r] = "statusGet"
    /\ \/ /\ ~reg[r].exists
          /\ Finish(r, FALSE)
       \/ /\ reg[r].exists
          /\ local' = [local EXCEPT ![r] = reg[r]]
          /\ Goto(r, "statusUpdate")
    /\ CtlUnchanged
    /\ UNCHANGED <<reg, queued, health, probed>>

\* variant: observedGeneration off by one
CheckedStatusGenOffByOne(r, t) ==
    [conn |-> IF health[r] THEN "Connected" ELSE "Unreachable",
     checked |-> t,
     og |-> local[r].gen + 1,
     ready |-> IF health[r] THEN "True" ELSE "False",
     url |-> probed[r]]

\* observedGeneration of the re-fetched copy, lastChecked t, the Ready
\* condition and connectionStatus from the health check
CheckedStatus(r, t) ==
    [conn |-> IF health[r] THEN "Connected" ELSE "Unreachable",
     checked |-> t,
     og |-> local[r].gen,
     ready |-> IF health[r] THEN "True" ELSE "False",
     url |-> probed[r]]

\* variant: the reconcile returns Result{} after a successful check
UpdateStatusNoRequeue(r) ==
    /\ pc[r] = "statusUpdate"
    /\ \/ /\ Conflict(r)
          /\ UNCHANGED <<reg, queued>>
       \/ /\ ~Conflict(r)
          /\ \E t \in Stamps : reg' = [reg EXCEPT ![r].st = CheckedStatus(r, t)]
          /\ Written(r)
    /\ Finish(r, Conflict(r))
    /\ CtlUnchanged
    /\ UNCHANGED <<health, probed>>

\* Status().Update; a conflict is returned as an error (rate-limited retry),
\* success returns RequeueAfter five minutes.  lastChecked is now: the same
\* stamp within the second of the previous write, a new one after it.
UpdateStatus(r) ==
    /\ pc[r] = "statusUpdate"
    /\ \/ /\ Conflict(r)
          /\ UNCHANGED <<reg, queued>>
       \/ /\ ~Conflict(r)
          /\ \E t \in Stamps : reg' = [reg EXCEPT ![r].st = CheckedStatus(r, t)]
          /\ Written(r)
    /\ Finish(r, TRUE)
    /\ CtlUnchanged
    /\ UNCHANGED <<health, probed>>

\* setConditionFailed, re-fetch; NotFound returns nil
SetConditionFailedGet(r) ==
    /\ pc[r] = "failGet"
    /\ \/ /\ ~reg[r].exists
          /\ Finish(r, FALSE)
       \/ /\ reg[r].exists
          /\ local' = [local EXCEPT ![r] = reg[r]]
          /\ Goto(r, "failUpdate")
    /\ CtlUnchanged
    /\ UNCHANGED <<reg, queued, health, probed>>

FailedStatus(r) == [local[r].st EXCEPT !.ready = "False", !.conn = "Unreachable"]

\* setConditionFailed, Status().Update with Ready=False and Unreachable;
\* Reconcile returns Result{} with its error: a conflict is retried, a
\* successful write is not requeued
SetConditionFailedUpdate(r) ==
    /\ pc[r] = "failUpdate"
    /\ \/ /\ Conflict(r)
          /\ UNCHANGED <<reg, queued>>
       \/ /\ ~Conflict(r)
          /\ reg' = [reg EXCEPT ![r].st = FailedStatus(r)]
          /\ Written(r)
    /\ Finish(r, Conflict(r))
    /\ CtlUnchanged
    /\ UNCHANGED <<health, probed>>

TimerFires(r) ==
    /\ r \in timers
    /\ timers' = timers \ {r}
    /\ queued' = queued \cup {r}
    /\ UNCHANGED <<reg, authOk, up, pc, local, health, probed, crashes>>

----------------------------------------------------------------------------
(* Environment                                                             *)

EnvUnchanged == UNCHANGED <<timers, pc, local, health, probed, crashes>>

CreateRegistry(r, u) ==
    /\ ~reg[r].exists
    /\ reg' = [reg EXCEPT ![r] = [NoObj EXCEPT !.exists = TRUE, !.gen = 1, !.url = u]]
    /\ Notify(r)
    /\ UNCHANGED <<authOk, up>> /\ EnvUnchanged

UpdateRegistryURL(r, u) ==
    /\ reg[r].exists
    /\ reg[r].url # u
    /\ reg[r].gen < MaxGen
    /\ reg' = [reg EXCEPT ![r].gen = @ + 1, ![r].url = u]
    /\ Notify(r)
    /\ UNCHANGED <<authOk, up>> /\ EnvUnchanged

\* a SchemaRegistry has no finalizer and is purged at once
DeleteRegistry(r) ==
    /\ reg[r].exists
    /\ reg' = [reg EXCEPT ![r] = NoObj]
    /\ Notify(r)
    /\ UNCHANGED <<authOk, up>> /\ EnvUnchanged

\* a referenced Secret changes and findSchemaRegistriesForSecret enqueues r
SecretChanges(r) ==
    /\ authOk' = [authOk EXCEPT ![r] = ~@]
    /\ Notify(r)
    /\ UNCHANGED <<reg, up>> /\ EnvUnchanged

ServerFlaps(u) ==
    /\ up' = [up EXCEPT ![u] = ~@]
    /\ UNCHANGED <<reg, authOk, queued>> /\ EnvUnchanged

\* The operator process dies and starts again: the queue, its timers and
\* the reconcile in flight are lost, and the informer's initial List hands
\* every stored SchemaRegistry to the queue.
Restart ==
    /\ crashes < MaxCrashes
    /\ crashes' = crashes + 1
    /\ queued' = {k \in Registries : reg[k].exists}
    /\ timers' = {}
    /\ pc' = [k \in Registries |-> "idle"]
    /\ local' = [k \in Registries |-> NoObj]
    /\ health' = [k \in Registries |-> FALSE]
    /\ probed' = [k \in Registries |-> NoURL]
    /\ UNCHANGED <<reg, authOk, up>>

----------------------------------------------------------------------------

Init ==
    /\ reg = [r \in Registries |-> NoObj]
    /\ authOk = [r \in Registries |-> TRUE]
    /\ up = [u \in URLs |-> TRUE]
    /\ queued = {}
    /\ timers = {}
    /\ pc = [r \in Registries |-> "idle"]
    /\ local = [r \in Registries |-> NoObj]
    /\ health = [r \in Registries |-> FALSE]
    /\ probed = [r \in Registries |-> NoURL]
    /\ crashes = 0

Controller(r) ==
    \/ Reconcile(r)
    \/ HealthCheck(r)
    \/ RefetchForStatus(r)
    \/ UpdateStatus(r)
    \/ SetConditionFailedGet(r)
    \/ SetConditionFailedUpdate(r)

Environment ==
    \/ \E r \in Registries, u \in URLs : CreateRegistry(r, u) \/ UpdateRegistryURL(r, u)
    \/ \E r \in Registries : DeleteRegistry(r) \/ SecretChanges(r)
    \/ \E u \in URLs : ServerFlaps(u)
    \/ Restart

Next ==
    \/ \E r \in Registries : Controller(r) \/ TimerFires(r)
    \/ Environment

\* as in SchemaLifecycle: the worker finishes what it started, timers
\* expire, the FIFO queue serves every dirty key
Fairness ==
    \A r \in Registries :
        /\ SF_vars(Reconcile(r))
        /\ WF_vars(Controller(r) /\ pc[r] # "idle")
        /\ WF_vars(TimerFires(r))

Spec == Init /\ [][Next]_vars /\ Fairness

----------------------------------------------------------------------------
(* Properties                                                              *)

TypeOK ==
    /\ reg \in [Registries -> Object]
    /\ local \in [Registries -> Object]
    /\ authOk \in [Registries -> BOOLEAN]
    /\ up \in [URLs -> BOOLEAN]
    /\ queued \subseteq Registries /\ timers \subseteq Registries
    /\ pc \in [Registries -> Labels]
    /\ health \in [Registries -> BOOLEAN]
    /\ probed \in [Registries -> URLs \cup {NoURL}]
    /\ crashes \in 0..MaxCrashes

\* The status describes the spec it claims to have observed: a connection
\* status written by a health check for the current generation comes from
\* a check of the current spec.url.
StatusDescribesObservedURL ==
    \A r \in Registries :
        reg[r].exists /\ reg[r].st.og = reg[r].gen /\ reg[r].st.url # NoURL
            => reg[r].st.url = reg[r].url

\* The server stays up, or stays down, at the URL of a SchemaRegistry whose
\* credentials load.
Settled(r, ok) ==
    /\ reg[r].exists /\ authOk[r]
    /\ up[reg[r].url] = ok

Shows(r, conn) == reg[r].st.conn = conn /\ reg[r].st.og = reg[r].gen

\* Continuous monitoring: once the endpoint settles, the status ends up
\* reporting it for the current generation, through the five-minute
\* requeue, whatever happened before.
ConnectionStatusConverges ==
    \A r \in Registries :
        /\ <>[]Settled(r, TRUE) => <>[]Shows(r, "Connected")
        /\ <>[]Settled(r, FALSE) => <>[]Shows(r, "Unreachable")

\* Spec 4.3: whatever its outcome, a reconcile of a stored SchemaRegistry
\* schedules the next one, by the five-minute RequeueAfter or, for an
\* error, the rate-limited retry.  A step that ends a reconcile (back to
\* idle, not by a restart) with the object still stored leaves it on a timer.
ReconcileReschedules ==
    [][\A r \in Registries :
          (pc[r] # "idle" /\ pc'[r] = "idle" /\ reg'[r].exists
             /\ crashes' = crashes) => r \in timers']_vars

=============================================================================
