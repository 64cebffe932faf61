-------------------------- MODULE SchemaLifecycle --------------------------
(***************************************************************************)
(* The Schema controller (internal/controller/schema_controller.go) driving *)
(* Schema custom resources against a Confluent-style Schema Registry.      *)
(*                                                                         *)
(* One reconcile of a key is a sequence of API-server and HTTP calls; each  *)
(* call is one step, labelled pc[s], so that users, the registry server and *)
(* the SchemaRegistry resource can change between any two of them.  The     *)
(* controller-runtime work queue is modelled by the set of dirty keys       *)
(* (queued), the keys in flight (pc # "idle") and the delayed keys          *)
(* (timers: RequeueAfter and rate-limited retries).  The controller is      *)
(* built without MaxConcurrentReconciles, so at most MaxWorkers (= 1 in the *)
(* code) keys are in flight, and never the same key twice.                  *)
(*                                                                         *)
(* Data is abstracted: a schema text is a model value of Contents and the  *)
(* registry gives the same global id to the same text, so an id is the     *)
(* text it names.  Timestamps, reasons and messages are left out.          *)
(***************************************************************************)
EXTENDS Naturals, Sequences, FiniteSets, Functions

CONSTANTS
    Schemas,      \* Schema resource keys (namespace/name)
    Subjects,     \* registry subjects
    Contents,     \* schema texts; a text is also its registry id
    Levels,       \* compatibility levels
    SubjectOf,    \* spec.subject a Schema is created with
    CompatOf,     \* spec.compatibilityLevel, NoLevel when empty
    Listed,       \* the Schemas in the SchemaRegistry's namespace; the others
                  \* name it through spec.registryRef.namespace
    NoLevel, NoID, NoSubject,
    MaxGen,       \* bound on metadata.generation
    MaxWorkers,   \* concurrent reconciles of the controller
    MaxCrashes    \* bound on restarts of the operator process

ASSUME SubjectOf \in [Schemas -> Subjects]
ASSUME CompatOf \in [Schemas -> Levels \cup {NoLevel}]
ASSUME Listed \subseteq Schemas
ASSUME MaxGen \in Nat /\ MaxWorkers \in Nat \ {0} /\ MaxCrashes \in Nat

VARIABLES
    obj,        \* obj[s]: the Schema object as stored by the API server
    regExists,  \* the referenced SchemaRegistry resource exists
    authOk,     \* loadAuthConfig succeeds with the current secrets
    reachable,  \* the registry server answers HTTP requests
    versions,   \* versions[subj]: texts registered under subj, version i = index i
    config,     \* config[subj]: compatibility level set on the server
    queued,     \* work queue: dirty keys
    timers,     \* work queue: keys waiting for RequeueAfter or a retry
    pc,         \* pc[s]: the next call of the reconcile in flight for s
    local,      \* local[s]: the reconciler's in-memory copy of the object
    resp,       \* resp[s]: the SchemaResponse returned by RegisterSchema
    orphaned,   \* ghost: subjects left behind by a skipped cleanup
    crashes     \* restarts of the operator so far

vars == <<obj, regExists, authOk, reachable, versions, config, queued,
          timers, pc, local, resp, orphaned, crashes>>

Ready == {"Unknown", "True", "False"}

NoVersion == 0 - 1  \* status.version is nil

\* a subject holds each text at most once
VersionNumber == 0..Cardinality(Contents)

Status == [id: Contents \cup {NoID}, ver: {NoVersion} \cup VersionNumber,
           og: 0..MaxGen, ready: Ready]

NoStatus == [id |-> NoID, ver |-> NoVersion, og |-> 0, ready |-> "Unknown"]

Object == [exists: BOOLEAN, gen: 0..MaxGen, content: Contents \cup {NoID},
           subj: Subjects \cup {NoSubject}, fin: BOOLEAN, del: BOOLEAN, st: Status]

\* what a Get returns for a key that is not stored
NoObj == [exists |-> FALSE, gen |-> 0, content |-> NoID, subj |-> NoSubject,
          fin |-> FALSE, del |-> FALSE, st |-> NoStatus]

Labels == {"idle", "delete", "removeFinalizer", "addFinalizer", "refetch",
           "build", "register", "latest", "compat", "statusGet",
           "statusUpdate", "failGet", "failUpdate"}

Busy == {k \in Schemas : pc[k] # "idle"}

----------------------------------------------------------------------------
(* Helpers translated from the code                                        *)

\* buildClient: Get the SchemaRegistry, loadAuthConfig, NewClient (which
\* never fails).
ClientBuilds == regExists /\ authOk

\* a successful write to obj[s] is seen by the watch and enqueues s
Notify(s) == queued' = queued \cup {s}

NoResponse == [id |-> NoID, ver |-> 0]

\* Reconcile returns: the key leaves the in-flight set and its locals are
\* dropped; a RequeueAfter or an error puts it on a timer, Result{} does not.
Finish(s, requeue) ==
    /\ pc' = [pc EXCEPT ![s] = "idle"]
    /\ local' = [local EXCEPT ![s] = NoObj]
    /\ resp' = [resp EXCEPT ![s] = NoResponse]
    /\ timers' = IF requeue THEN timers \cup {s} ELSE timers

\* an Update or Status().Update fails with a conflict when the stored
\* object is no longer the copy it was read from
Conflict(s) == obj[s] # local[s]

\* POST /subjects/{subject}/versions: an identical text is not registered again
RegisterText(seq, c) == IF c \in Range(seq) THEN seq ELSE Append(seq, c)

\* DELETE /subjects/{subject}: every version goes; 404 counts as success
DeleteSubject(subj) == [versions EXCEPT ![subj] = <<>>]

\* PUT /config/{subject}
SetCompatibilityLevel(subj, level) == [config EXCEPT ![subj] = level]

----------------------------------------------------------------------------
(* The reconcile, one action per call                                      *)

\* the reconcile goes on to its next call, keeping its locals
Goto(s, label) ==
    /\ pc' = [pc EXCEPT ![s] = label]
    /\ UNCHANGED timers

\* the server, the secret and the SchemaRegistry are not touched by a step
\* of the controller
CtlUnchanged == UNCHANGED <<regExists, authOk, reachable, crashes>>

\* variant: registration goes ahead without attaching the finalizer
ReconcileWithoutFinalizer(s) ==
    /\ s \in queued
    /\ pc[s] = "idle"
    /\ Cardinality(Busy) < MaxWorkers
    /\ queued' = queued \ {s}
    /\ \/ /\ ~obj[s].exists \/ (obj[s].del /\ ~obj[s].fin)
          /\ UNCHANGED <<pc, timers, local>>
       \/ /\ obj[s].exists /\ obj[s].del /\ obj[s].fin
          /\ Goto(s, "delete")
          /\ local' = [local EXCEPT ![s] = obj[s]]
       \/ /\ obj[s].exists /\ ~obj[s].del
          /\ Goto(s, "build")
          /\ local' = [local EXCEPT ![s] = obj[s]]
    /\ CtlUnchanged
    /\ UNCHANGED <<obj, versions, config, resp, orphaned>>

\* The queue hands s to a worker; Reconcile Gets the object and picks a path:
\* nothing to do, the deletion path, adding the finalizer, or registering.
Reconcile(s) ==
    /\ s \in queued
    /\ pc[s] = "idle"
    /\ Cardinality(Busy) < MaxWorkers
    /\ queued' = queued \ {s}
    /\ \/ /\ ~obj[s].exists \/ (obj[s].del /\ ~obj[s].fin)
          /\ UNCHANGED <<pc, timers, local>>
       \/ /\ obj[s].exists /\ obj[s].del /\ obj[s].fin
          /\ Goto(s, "delete")
          /\ local' = [local EXCEPT ![s] = obj[s]]
       \/ /\ obj[s].exists /\ ~obj[s].del
          /\ Goto(s, IF obj[s].fin THEN "build" ELSE "addFinalizer")
          /\ local' = [local EXCEPT ![s] = obj[s]]
    /\ CtlUnchanged
    /\ UNCHANGED <<obj, versions, config, resp, orphaned>>

\* variant: the error of DeleteSubject is dropped and the finalizer removed
DeleteFromRegistryIgnoresError(s) ==
    LET subj == local[s].subj IN
    /\ pc[s] = "delete"
    /\ versions' = IF ClientBuilds /\ reachable
                   THEN DeleteSubject(subj) ELSE versions
    /\ orphaned' = IF ~ClientBuilds /\ versions[subj] # <<>>
                   THEN orphaned \cup {subj} ELSE orphaned
    /\ Goto(s, "removeFinalizer")
    /\ CtlUnchanged
    /\ UNCHANGED <<obj, config, queued, local, resp>>

\* variant: a client that cannot be built fails the deletion instead of
\* skipping the cleanup
DeleteFromRegistrySkipFails(s) ==
    LET subj == local[s].subj IN
    /\ pc[s] = "delete"
    /\ \/ /\ ~ClientBuilds \/ ~reachable
          /\ Finish(s, TRUE)
          /\ UNCHANGED versions
       \/ /\ ClientBuilds /\ reachable
          /\ versions' = DeleteSubject(subj)
          /\ Goto(s, "removeFinalizer")
          /\ UNCHANGED <<local, resp>>
    /\ CtlUnchanged
    /\ UNCHANGED <<obj, config, queued, orphaned>>

\* deleteFromRegistry: skip cleanup when the client cannot be built,
\* otherwise DeleteSubject (404 counts as success); an error aborts.
DeleteFromRegistry(s) ==
    LET subj == local[s].subj IN
    /\ pc[s] = "delete"
    /\ \/ /\ ~ClientBuilds
          /\ orphaned' = IF versions[subj] # <<>> THEN orphaned \cup {subj}
                                                  ELSE orphaned
          /\ Goto(s, "removeFinalizer")
          /\ UNCHANGED <<versions, local, resp>>
       \/ /\ ClientBuilds /\ ~reachable
          /\ Finish(s, TRUE)
          /\ UNCHANGED <<versions, orphaned>>
       \/ /\ ClientBuilds /\ reachable
          /\ versions' = DeleteSubject(subj)
          /\ Goto(s, "removeFinalizer")
          /\ UNCHANGED <<orphaned, local, resp>>
    /\ CtlUnchanged
    /\ UNCHANGED <<obj, config, queued>>

\* RemoveFinalizer + Update; with no finalizer left the API server purges
\* the terminating object.
RemoveFinalizer(s) ==
    /\ pc[s] = "removeFinalizer"
    /\ \/ /\ Conflict(s)
          /\ Finish(s, TRUE)
          /\ UNCHANGED <<obj, queued>>
       \/ /\ ~Conflict(s)
          /\ obj' = [obj EXCEPT ![s] = NoObj]
          /\ Notify(s)
          /\ Finish(s, FALSE)
    /\ CtlUnchanged
    /\ UNCHANGED <<versions, config, orphaned>>

\* AddFinalizer + Update, before anything is registered
AddFinalizer(s) ==
    /\ pc[s] = "addFinalizer"
    /\ \/ /\ Conflict(s)
          /\ Finish(s, TRUE)
          /\ UNCHANGED <<obj, queued>>
       \/ /\ ~Conflict(s)
          /\ obj' = [obj EXCEPT ![s].fin = TRUE]
          /\ Notify(s)
          /\ Goto(s, "refetch")
          /\ UNCHANGED <<local, resp>>
    /\ CtlUnchanged
    /\ UNCHANGED <<versions, config, orphaned>>

\* a Get of the object into local; NotFound ends the reconcile, with a
\* RequeueAfter when requeue (setConditionFailed) and without otherwise
Refetch(s, next, requeue) ==
    \/ /\ ~obj[s].exists
       /\ Finish(s, requeue)
    \/ /\ obj[s].exists
       /\ local' = [local EXCEPT ![s] = obj[s]]
       /\ Goto(s, next)
       /\ UNCHANGED resp

\* Re-fetch after the finalizer update
RefetchAfterFinalizer(s) ==
    /\ pc[s] = "refetch"
    /\ Refetch(s, "build", FALSE)
    /\ CtlUnchanged
    /\ UNCHANGED <<obj, versions, config, queued, orphaned>>

\* buildClient; a failure goes to setConditionFailed("ClientBuildFailed")
BuildClient(s) ==
    /\ pc[s] = "build"
    /\ Goto(s, IF ClientBuilds THEN "register" ELSE "failGet")
    /\ CtlUnchanged
    /\ UNCHANGED <<obj, versions, config, queued, local, resp, orphaned>>

\* variant: a transport error of the POST is not checked
RegisterSchemaIgnoresError(s) ==
    LET subj == local[s].subj IN
    /\ pc[s] = "register"
    /\ versions' = IF reachable
                   THEN [versions EXCEPT ![subj] = RegisterText(@, local[s].content)]
                   ELSE versions
    /\ resp' = [resp EXCEPT ![s].id = local[s].content]
    /\ Goto(s, "latest")
    /\ CtlUnchanged
    /\ UNCHANGED <<obj, config, queued, local, orphaned>>

\* RegisterSchema, first request: POST the text read by this reconcile; a
\* failure goes to setConditionFailed("RegistrationFailed")
RegisterSchema(s) ==
    LET subj == local[s].subj IN
    /\ pc[s] = "register"
    /\ \/ /\ reachable
          /\ versions' = [versions EXCEPT ![subj] = RegisterText(@, local[s].content)]
          /\ resp' = [resp EXCEPT ![s].id = local[s].content]
          /\ Goto(s, "latest")
       \/ /\ ~reachable
          /\ Goto(s, "failGet")
          /\ UNCHANGED <<versions, resp>>
    /\ CtlUnchanged
    /\ UNCHANGED <<obj, config, queued, local, orphaned>>

\* variant: the version is counted one past the latest
GetLatestVersionOffByOne(s) ==
    LET subj == local[s].subj IN
    /\ pc[s] = "latest"
    /\ resp' = [resp EXCEPT ![s].ver =
                   IF reachable /\ versions[subj] # <<>> THEN Len(versions[subj]) + 1
                                                         ELSE 0]
    /\ Goto(s, "compat")
    /\ CtlUnchanged
    /\ UNCHANGED <<obj, versions, config, queued, local, orphaned>>

\* variant: the version is read from the POST response, which carries only
\* the id
GetLatestVersionFromPost(s) ==
    /\ pc[s] = "latest"
    /\ resp' = [resp EXCEPT ![s].ver = 0]
    /\ Goto(s, "compat")
    /\ CtlUnchanged
    /\ UNCHANGED <<obj, versions, config, queued, local, orphaned>>

\* RegisterSchema, second request: getLatestVersionForSubject; its failure
\* is swallowed and the response carries version 0
GetLatestVersion(s) ==
    LET subj == local[s].subj IN
    /\ pc[s] = "latest"
    /\ resp' = [resp EXCEPT ![s].ver =
                   IF reachable /\ versions[subj] # <<>> THEN Len(versions[subj])
                                                         ELSE 0]
    /\ Goto(s, "compat")
    /\ CtlUnchanged
    /\ UNCHANGED <<obj, versions, config, queued, local, orphaned>>

\* SetCompatibility when a level is declared; its error is only logged
SetCompatibility(s) ==
    LET subj == local[s].subj IN
    /\ pc[s] = "compat"
    /\ config' = IF CompatOf[s] # NoLevel /\ reachable
                 THEN SetCompatibilityLevel(subj, CompatOf[s])
                 ELSE config
    /\ Goto(s, "statusGet")
    /\ CtlUnchanged
    /\ UNCHANGED <<obj, versions, queued, local, resp, orphaned>>

\* "Re-fetch before status update to avoid conflicts"
RefetchForStatus(s) ==
    /\ pc[s] = "statusGet"
    /\ Refetch(s, "statusUpdate", FALSE)
    /\ CtlUnchanged
    /\ UNCHANGED <<obj, versions, config, queued, orphaned>>

\* the new status stamps the generation of the re-fetched copy
RegisteredStatus(s) ==
    [id |-> resp[s].id, ver |-> resp[s].ver, og |-> local[s].gen,
     ready |-> "True"]

\* Status().Update with Ready=True/Registered.  registeredAt is set to now,
\* so even an unchanged status may be a new object, which the watch sees.
UpdateStatus(s) ==
    /\ pc[s] = "statusUpdate"
    /\ \/ /\ Conflict(s)
          /\ UNCHANGED <<obj, queued>>
       \/ /\ ~Conflict(s)
          /\ obj' = [obj EXCEPT ![s].st = RegisteredStatus(s)]
          /\ \/ Notify(s)
             \/ obj[s].st = RegisteredStatus(s) /\ UNCHANGED queued
    /\ Finish(s, Conflict(s))
    /\ CtlUnchanged
    /\ UNCHANGED <<versions, config, orphaned>>

\* setConditionFailed, re-fetch
SetConditionFailedGet(s) ==
    /\ pc[s] = "failGet"
    /\ Refetch(s, "failUpdate", TRUE)
    /\ CtlUnchanged
    /\ UNCHANGED <<obj, versions, config, queued, orphaned>>

FailedStatus(s) == [local[s].st EXCEPT !.ready = "False"]

\* variant: the failure path returns without RequeueAfter
SetConditionFailedUpdateNoRequeue(s) ==
    /\ pc[s] = "failUpdate"
    /\ \/ /\ Conflict(s)
          /\ UNCHANGED <<obj, queued>>
       \/ /\ ~Conflict(s)
          /\ obj' = [obj EXCEPT ![s].st = FailedStatus(s)]
          /\ IF obj[s].st # FailedStatus(s) THEN Notify(s) ELSE UNCHANGED queued
    /\ Finish(s, FALSE)
    /\ CtlUnchanged
    /\ UNCHANGED <<versions, config, orphaned>>

\* setConditionFailed, Status().Update with Ready=False; either way the
\* reconcile asks for RequeueAfter one minute
SetConditionFailedUpdate(s) ==
    /\ pc[s] = "failUpdate"
    /\ \/ /\ Conflict(s)
          /\ UNCHANGED <<obj, queued>>
       \/ /\ ~Conflict(s)
          /\ obj' = [obj EXCEPT ![s].st = FailedStatus(s)]
          /\ IF obj[s].st # FailedStatus(s) THEN Notify(s) ELSE UNCHANGED queued
    /\ Finish(s, TRUE)
    /\ CtlUnchanged
    /\ UNCHANGED <<versions, config, orphaned>>


\* the delaying queue hands a key back when its timer expires
TimerFires(s) ==
    /\ s \in timers
    /\ timers' = timers \ {s}
    /\ queued' = queued \cup {s}
    /\ UNCHANGED <<obj, regExists, authOk, reachable, versions, config, pc,
                   local, resp, orphaned, crashes>>

----------------------------------------------------------------------------
(* The environment: users, the SchemaRegistry resource and its secret, the *)
(* registry server                                                         *)

\* variant: the List finds no Schema (a namespace the Schemas are not in)
EnqueueNoDependents == queued' = queued

\* findSchemasForRegistry: a change of the SchemaRegistry enqueues the Schemas
\* of its namespace whose registryRef.name names it (all Schemas here name
\* the one registry)
EnqueueDependents == queued' = queued \cup {k \in Listed : obj[k].exists}

EnvUnchanged == UNCHANGED <<versions, config, timers, pc, local, resp, orphaned, crashes>>

CreateSchema(s, c) ==
    /\ ~obj[s].exists
    /\ obj' = [obj EXCEPT ![s] = [NoObj EXCEPT !.exists = TRUE, !.gen = 1,
                                               !.content = c, !.subj = SubjectOf[s]]]
    /\ Notify(s)
    /\ UNCHANGED <<regExists, authOk, reachable>> /\ EnvUnchanged

\* variant: the webhook no longer compares the subjects
ValidateUpdateAllowsSubjectChange(old, new) == TRUE

\* SchemaCustomValidator.ValidateUpdate, the admission webhook on every
\* update of a Schema: a change of spec.subject is Forbidden.  The
\* schemaType check has nothing to compare here (the type is not modelled),
\* and validateSchemaSpec accepts every text of Contents.
ValidateUpdate(old, new) == old.subj = new.subj

\* a user's spec change, admitted by the webhook, bumps the generation
UpdateSchema(s, c, j) ==
    LET new == [obj[s] EXCEPT !.content = c, !.subj = j] IN
    /\ obj[s].exists
    /\ new # obj[s]
    /\ obj[s].gen < MaxGen
    /\ ValidateUpdate(obj[s], new)
    /\ obj' = [obj EXCEPT ![s] = [new EXCEPT !.gen = @ + 1]]
    /\ Notify(s)
    /\ UNCHANGED <<regExists, authOk, reachable>> /\ EnvUnchanged

\* kubectl delete: a finalizer holds the object with a deletionTimestamp
DeleteSchema(s) ==
    /\ obj[s].exists /\ ~obj[s].del
    /\ obj' = [obj EXCEPT ![s] = IF obj[s].fin THEN [@ EXCEPT !.del = TRUE]
                                               ELSE NoObj]
    /\ Notify(s)
    /\ UNCHANGED <<regExists, authOk, reachable>> /\ EnvUnchanged

\* the SchemaRegistry resource is deleted, recreated or updated (its
\* status is rewritten on every health check)
RegistryResourceChanges ==
    /\ regExists' \in BOOLEAN
    /\ EnqueueDependents
    /\ UNCHANGED <<obj, authOk, reachable>> /\ EnvUnchanged

\* an auth secret is deleted, recreated or rotated; Schemas do not watch it
SecretChanges ==
    /\ authOk' = ~authOk
    /\ UNCHANGED <<obj, regExists, reachable, queued>> /\ EnvUnchanged

RegistryServerFlaps ==
    /\ reachable' = ~reachable
    /\ UNCHANGED <<obj, regExists, authOk, queued>> /\ EnvUnchanged

\* The operator process dies and starts again, at any point of a reconcile:
\* the work queue, its timers and every reconcile in flight are lost, and
\* the informer's initial List hands every stored Schema to the queue.
\* Only the API server and the registry keep what was done.
Restart ==
    /\ crashes < MaxCrashes
    /\ crashes' = crashes + 1
    /\ queued' = {k \in Schemas : obj[k].exists}
    /\ timers' = {}
    /\ pc' = [k \in Schemas |-> "idle"]
    /\ local' = [k \in Schemas |-> NoObj]
    /\ resp' = [k \in Schemas |-> NoResponse]
    /\ UNCHANGED <<obj, regExists, authOk, reachable, versions, config, orphaned>>

----------------------------------------------------------------------------

Init ==
    /\ obj = [s \in Schemas |-> NoObj]
    /\ regExists = TRUE
    /\ authOk = TRUE
    /\ reachable = TRUE
    /\ versions = [j \in Subjects |-> <<>>]
    /\ config = [j \in Subjects |-> NoLevel]
    /\ queued = {}
    /\ timers = {}
    /\ pc = [s \in Schemas |-> "idle"]
    /\ local = [s \in Schemas |-> NoObj]
    /\ resp = [s \in Schemas |-> [id |-> NoID, ver |-> 0]]
    /\ orphaned = {}
    /\ crashes = 0

Controller(s) ==
    \/ Reconcile(s)
    \/ DeleteFromRegistry(s)
    \/ RemoveFinalizer(s)
    \/ AddFinalizer(s)
    \/ RefetchAfterFinalizer(s)
    \/ BuildClient(s)
    \/ RegisterSchema(s)
    \/ GetLatestVersion(s)
    \/ SetCompatibility(s)
    \/ RefetchForStatus(s)
    \/ UpdateStatus(s)
    \/ SetConditionFailedGet(s)
    \/ SetConditionFailedUpdate(s)

Environment ==
    \/ \E s \in Schemas, c \in Contents :
          CreateSchema(s, c) \/ \E j \in Subjects : UpdateSchema(s, c, j)
    \/ \E s \in Schemas : DeleteSchema(s)
    \/ RegistryResourceChanges
    \/ SecretChanges
    \/ RegistryServerFlaps
    \/ Restart

Next ==
    \/ \E s \in Schemas : Controller(s) \/ TimerFires(s)
    \/ Environment

\* The worker goroutine runs every call it has started to completion and
\* timers expire; the FIFO queue serves every dirty key, which strong
\* fairness on Reconcile(s) expresses when several keys compete for the
\* worker.  Users, the secret, the SchemaRegistry resource and the server
\* are not fair.
Fairness ==
    \A s \in Schemas :
        /\ SF_vars(Reconcile(s))
        /\ WF_vars(Controller(s) /\ pc[s] # "idle")
        /\ WF_vars(TimerFires(s))

Spec == Init /\ [][Next]_vars /\ Fairness

----------------------------------------------------------------------------
(* Properties                                                              *)

TypeOK ==
    /\ obj \in [Schemas -> Object]
    /\ local \in [Schemas -> Object]
    /\ regExists \in BOOLEAN /\ authOk \in BOOLEAN /\ reachable \in BOOLEAN
    /\ versions \in [Subjects -> Seq(Contents)]
    /\ config \in [Subjects -> Levels \cup {NoLevel}]
    /\ queued \subseteq Schemas /\ timers \subseteq Schemas
    /\ pc \in [Schemas -> Labels]
    /\ resp \in [Schemas -> [id: Contents \cup {NoID}, ver: VersionNumber]]
    /\ orphaned \subseteq Subjects
    /\ crashes \in 0..MaxCrashes
    /\ Cardinality(Busy) <= MaxWorkers

\* A subject is claimed while a Schema naming it is stored with the finalizer.
Claimed(subj) == \E k \in Schemas : obj[k].subj = subj /\ obj[k].fin

\* The finalizer protocol (attach before RegisterSchema, DeleteSubject before
\* RemoveFinalizer): a subject holds versions in the registry only while a
\* Schema with the finalizer names it, or after deleteFromRegistry skipped
\* the cleanup because the client could not be built.  A registration that
\* lands after the object is gone, a finalizer dropped after a failed
\* DeleteSubject, or a subject changed under a registered Schema (which
\* only the webhook's ValidateUpdate refuses) leaves a subject nobody will
\* ever delete.
NoOrphanedSubject ==
    \A subj \in Subjects :
        versions[subj] # <<>> => Claimed(subj) \/ subj \in orphaned

\* The Ready=True status written by the reconcile describes the spec it
\* reports as observed: when status.observedGeneration is the current
\* generation, status.schemaId is the id of the current schema text.
StatusMatchesGeneration ==
    \A s \in Schemas :
        obj[s].exists /\ obj[s].st.ready = "True" /\ obj[s].st.og = obj[s].gen
            => obj[s].st.id = obj[s].content

\* RegisterSchema's version lookup ("the version number for this schema
\* ID"): a version recorded next to schemaId for a Schema that is not being
\* deleted is the version of that schema under the subject.
VersionMatchesID ==
    \A s \in Schemas :
        LET subj == obj[s].subj IN
        obj[s].exists /\ ~obj[s].del /\ obj[s].st.ready = "True" /\ obj[s].st.ver > 0
            => /\ obj[s].st.ver <= Len(versions[subj])
               /\ versions[subj][obj[s].st.ver] = obj[s].st.id

\* A Schema that is not being deleted and reports Ready=True has its
\* schemaId registered under its subject.  DeleteSubject of one Schema
\* removes every version of the subject, whoever registered it.
ReadyImpliesRegistered ==
    \A s \in Schemas :
        obj[s].exists /\ ~obj[s].del /\ obj[s].st.ready = "True"
            => obj[s].st.id \in Range(versions[obj[s].subj])

\* The server, the SchemaRegistry and its secret are healthy from some
\* point on and the Schema stays stored and not deleted.
Settled(s) ==
    /\ regExists /\ authOk /\ reachable
    /\ obj[s].exists /\ ~obj[s].del

Synced(s) ==
    /\ obj[s].st.ready = "True"
    /\ obj[s].st.og = obj[s].gen
    /\ obj[s].st.id = obj[s].content
    /\ obj[s].content \in Range(versions[obj[s].subj])

\* Eventual consistency: once things settle, every Schema ends up registered
\* with its current text and a Ready status for its current generation,
\* through the one-minute retries of failed registrations.
Converges ==
    \A s \in Schemas : <>[]Settled(s) => <>[]Synced(s)

\* Deletion is not stuck while the server is up: a Schema under deletion is
\* eventually purged when the server stays reachable.
DeletionCompletes ==
    \A s \in Schemas :
        <>[]reachable => [](obj[s].del => <>~obj[s].exists)

\* Spec 9 (open question): deletion is best effort and never blocks on an
\* unreachable registry, so a deleted Schema is always purged.  Spec 4.4
\* and deleteFromRegistry skip the cleanup only when buildClient fails.
DeletionNeverBlocks ==
    \A s \in Schemas : [](obj[s].del => <>~obj[s].exists)

\* The refinement mapping onto SchemaSubject: the stored Schema without its
\* version and observedGeneration, which the abstract promise leaves open.
SubjectView ==
    [k \in Schemas |->
        [exists |-> obj[k].exists, gen |-> obj[k].gen, content |-> obj[k].content,
         fin |-> obj[k].fin, del |-> obj[k].del,
         id |-> obj[k].st.id, ready |-> obj[k].st.ready]]

Subject == INSTANCE SchemaSubject WITH obj <- SubjectView

\* The reconciler keeps the subject protocol, step by step: a version is
\* added and a compatibility level set only by a Schema holding the
\* finalizer, Ready=True is written only with an id its subject holds at
\* that moment, DeleteSubject runs only for a Schema being deleted, and the
\* finalizer is removed only after the subject was emptied, the cleanup
\* skipped, or while another Schema claims the subject.
ImplementsSchemaSubject == Subject!Spec

=============================================================================
