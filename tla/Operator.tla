------------------------------ MODULE Operator ------------------------------
(***************************************************************************)
(* The two controllers of the operator running side by side against one    *)
(* SchemaRegistry (cmd/main.go registers both with one manager).           *)
(*                                                                         *)
(* The Schema controller's view of the registry (regExists, authOk,        *)
(* reachable in SchemaLifecycle) is the SchemaRegistry object, its          *)
(* credentials and its server as RegistryConnectivity keeps them.  Every   *)
(* write of the SchemaRegistry that changes the object, the connectivity   *)
(* reconciler's status writes included, is a watch event of the Schema     *)
(* controller, which findSchemasForRegistry turns into Schema keys.        *)
(*                                                                         *)
(* The registry has one URL: the Schema controller reads the URL when it   *)
(* builds its client and the model reads the server of the current URL.    *)
(* Restarts of the operator are checked in the two component modules and  *)
(* left out here (crashes <- 0), where they would double the state space.  *)
(***************************************************************************)
EXTENDS Naturals

CONSTANTS
    Schemas, Subjects, Contents, Levels, SubjectOf, CompatOf, NoLevel, NoID, NoSubject,
    Listed,        \* the Schemas findSchemasForRegistry can list
    MaxGen,        \* bound on a Schema's generation
    Registry,      \* the SchemaRegistry every Schema names
    URLs, NoURL,
    RegMaxGen      \* bound on the SchemaRegistry's generation

VARIABLES
    obj, versions, config, orphaned, squeued, stimers, spc, slocal, resp,
    reg, authOk, up, rqueued, rtimers, rpc, rlocal, health, probed

svars == <<obj, versions, config, orphaned, squeued, stimers, spc, slocal, resp>>
rvars == <<reg, authOk, up, rqueued, rtimers, rpc, rlocal, health, probed>>
vars == <<svars, rvars>>

\* the server of the SchemaRegistry's URL answers
Reachable == reg[Registry].exists /\ up[reg[Registry].url]

S == INSTANCE SchemaLifecycle
        WITH queued <- squeued, timers <- stimers, pc <- spc, local <- slocal,
             regExists <- reg[Registry].exists, authOk <- authOk[Registry],
             reachable <- Reachable, MaxWorkers <- 1,
             crashes <- 0, MaxCrashes <- 0

R == INSTANCE RegistryConnectivity
        WITH Registries <- {Registry}, MaxGen <- RegMaxGen,
             queued <- rqueued, timers <- rtimers, pc <- rpc, local <- rlocal,
             MaxWorkers <- 1, crashes <- 0, MaxCrashes <- 0

\* the Schema controller's watch on SchemaRegistry objects: a step that
\* changes the stored SchemaRegistry enqueues the Schemas naming it
RegistryWatch ==
    IF reg' # reg THEN S!EnqueueDependents ELSE UNCHANGED squeued

SchemaUnchanged == UNCHANGED <<obj, versions, config, orphaned, stimers, spc, slocal, resp>>

\* rvars first: the instance's UNCHANGED regExists needs reg' bound
SchemaStep(s) == UNCHANGED rvars /\ (S!Controller(s) \/ S!TimerFires(s))

RegistryStep == (R!Controller(Registry) \/ R!TimerFires(Registry))
                /\ RegistryWatch /\ SchemaUnchanged

\* Users create and edit Schemas.  Deletion is checked in SchemaLifecycle;
\* here it only leads to behaviours in which the Schema never settles.
SchemaUsers ==
    /\ UNCHANGED rvars
    /\ \E s \in Schemas, c \in Contents :
          S!CreateSchema(s, c) \/ \E j \in Subjects : S!UpdateSchema(s, c, j)

\* The SchemaRegistry is created, its Secret changes and its server goes
\* up and down.  Its deletion, which both controllers handle on their own,
\* is checked in SchemaLifecycle and RegistryConnectivity.
RegistryUsers ==
    /\ \/ \E u \in URLs : R!CreateRegistry(Registry, u) \/ R!UpdateRegistryURL(Registry, u)
       \/ R!SecretChanges(Registry)
       \/ \E u \in URLs : R!ServerFlaps(u)
    /\ RegistryWatch /\ SchemaUnchanged

\* no Schema, no SchemaRegistry; the Schema side as in SchemaLifecycle!Init
Init ==
    /\ R!Init
    /\ obj = [s \in Schemas |-> S!NoObj]
    /\ versions = [j \in Subjects |-> <<>>]
    /\ config = [j \in Subjects |-> NoLevel]
    /\ squeued = {} /\ stimers = {}
    /\ spc = [s \in Schemas |-> "idle"]
    /\ slocal = [s \in Schemas |-> S!NoObj]
    /\ resp = [s \in Schemas |-> S!NoResponse]
    /\ orphaned = {}

Next ==
    \/ \E s \in Schemas : SchemaStep(s)
    \/ RegistryStep
    \/ SchemaUsers
    \/ RegistryUsers

\* Each controller's worker and timers as in its own module.  Of the
\* SchemaRegistry status writes, infinitely many change lastChecked: the
\* five-minute requeue puts successive writes in different seconds.
Fairness ==
    /\ \A s \in Schemas :
          /\ SF_vars(UNCHANGED rvars /\ S!Reconcile(s))
          /\ WF_vars(UNCHANGED rvars /\ spc[s] # "idle" /\ S!Controller(s))
          /\ WF_vars(UNCHANGED rvars /\ S!TimerFires(s))
    /\ SF_vars(R!Reconcile(Registry) /\ RegistryWatch /\ SchemaUnchanged)
    /\ WF_vars(R!Controller(Registry) /\ rpc[Registry] # "idle"
                 /\ RegistryWatch /\ SchemaUnchanged)
    /\ WF_vars(R!TimerFires(Registry) /\ RegistryWatch /\ SchemaUnchanged)
    /\ SF_vars(R!UpdateStatus(Registry) /\ reg' # reg /\ RegistryWatch /\ SchemaUnchanged)

Spec == Init /\ [][Next]_vars /\ Fairness

----------------------------------------------------------------------------

\* The registry server, the SchemaRegistry and its credentials stay healthy
\* and the Schema stays stored and not deleted.
Settled(s) == S!Settled(s)

\* Every change a Schema makes in the registry is eventually made again if
\* lost: SetCompatibility's error is only logged and a Schema's own status
\* write may not re-trigger it, so the declared level reaches the subject
\* only through a later reconcile, which the SchemaRegistry's periodic
\* status write (findSchemasForRegistry) supplies.
CompatibilityApplied ==
    \A s \in Schemas :
        CompatOf[s] # NoLevel =>
            (<>[]Settled(s) => <>[](config[SubjectOf[s]] = CompatOf[s]))

\* The version lookup after RegisterSchema's POST is best effort: when it
\* fails the Schema still becomes Ready, with status.version 0, and its
\* controller does not requeue it.  A settled Schema nevertheless ends up
\* with the version recorded, through the reconcile that the SchemaRegistry's
\* periodic status write triggers.
VersionRecorded ==
    \A s \in Schemas : <>[]Settled(s) => <>[](obj[s].st.ver > 0)

\* Spec 4.4: a change to the SchemaRegistry enqueues every Schema whose
\* registryRef names it (findSchemasForRegistry), and every Schema here
\* names Registry: a step that changes the stored SchemaRegistry leaves
\* every stored Schema dirty in the Schema controller's queue.
RegistryChangeEnqueuesSchemas ==
    [][reg' # reg => {s \in Schemas : obj'[s].exists} \subseteq squeued']_vars

=============================================================================
