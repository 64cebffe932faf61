# TLA+ models of the Strimzi Schema Registry operator

These modules model the two controllers of the operator:

- the Schema controller (`src/unnamed/part_000`, `internal/controller/schema_controller.go`);
- the SchemaRegistry controller (`src/unnamed/part_001`).

They also model the helpers and the registry client those controllers use (`internal/controller/helpers.go`, `internal/client/client.go`). TLC checks each model against the properties that make the operator correct. The machine-readable index of the project is `PROJECT.json`: components, runs, mutants, the map from definitions to source lines, findings and hazards.

## 1. The system

| Part | Source | State it changes | Operations |
|---|---|---|---|
| Schema lifecycle reconciler | part_000 | Schema object (finalizer, status), subjects in the registry, compatibility config | Get, RemoveFinalizer+Update, AddFinalizer+Update, re-fetch, buildClient, RegisterSchema (POST, then GET latest), SetCompatibility, re-fetch, Status().Update; setConditionFailed (re-fetch, Status().Update); deleteFromRegistry (buildClient, DeleteSubject) |
| Connectivity reconciler | part_001 | SchemaRegistry status | Get, loadAuthConfig, NewClient, HealthCheck, re-fetch, Status().Update; setConditionFailed |
| Credential resolver | helpers.go | none (pure function of spec.auth and the Secrets) | loadAuthConfig |
| Registry protocol client | client.go | remote subjects, versions, config | NewClient (TLS config), addAuth, RegisterSchema, getLatestVersionForSubject, DeleteSubject, SetCompatibility, HealthCheck |
| Dependency watches | part_000 `findSchemasForRegistry`, part_001 `findSchemaRegistriesForSecret` | work queue | map a SchemaRegistry change to its Schemas, and a Secret change to its SchemaRegistries |
| API types | part_004, part_005 | — | Schema and SchemaRegistry spec/status |
| Admission webhooks | `internal/webhook/v1alpha1` (the Schema validator, stored after the tests in `schemaregistry_webhook_test.go`; the SchemaRegistry validator, in `src/IMPLEMENTATION.md`) | none (admits or refuses a write) | ValidateCreate, ValidateUpdate (subject and schemaType immutable), validateSchemaSpec |

How the parts interact:

- controller-runtime hands each controller keys from a work queue. A key that is in flight is not handed out again. Without `MaxConcurrentReconciles` there is a single worker per controller.
- Every write of an object is seen by that controller's watch and enqueues the key again. This includes the controller's own status writes, because there are no predicates.
- A Schema reconcile reads the SchemaRegistry and its Secrets through buildClient. It then calls the registry over HTTP.
- A SchemaRegistry change, including every status write of the connectivity reconciler that changes the object, enqueues the Schemas *in the registry's namespace* whose `registryRef.name` names it. A Schema that names the registry from another namespace through `registryRef.namespace` is not enqueued.
- Once a Schema is Ready, its controller does not requeue it. What reconciles it again is the connectivity reconciler's status write every five minutes, which reaches it through that watch.
- A Secret change enqueues only the SchemaRegistries that reference it, not the Schemas.

The behaviours that make this hard:

- **Interleaving.** Between any two calls of a reconcile, users change or delete the object, the registry server goes up or down, and the SchemaRegistry or its Secret changes.
- **Optimistic concurrency.** Every Update fails with a conflict if the object changed since it was read.
- **Shared remote state.** Subjects in the registry outlive the Schema objects.
- **Delayed work.** RequeueAfter and rate-limited retries are timers.
- **Partial failures.** Version lookup and SetCompatibility failures are swallowed, and deletion skips cleanup.

## 2. Modules

### SchemaLifecycle.tla (with MCSchemaLifecycle.tla)

- **State.**
  - `obj[s]`: the stored Schema, with existence, generation, text, subject, finalizer, deletion timestamp and status {schemaId, version, observedGeneration, Ready}.
  - `local[s]`: the reconciler's copy.
  - `resp[s]`: the SchemaResponse.
  - `versions[subject]`: the texts registered, version i at index i.
  - `config[subject]`.
  - `regExists`, `authOk` and `reachable`: the SchemaRegistry, its Secret and the server.
  - The work queue: `queued`, `timers`, and `pc[s]`, the next call of the reconcile in flight.
  - `orphaned`: a ghost holding the subjects left behind by a skipped cleanup.
  - `crashes`: the restarts of the operator so far, bounded by `MaxCrashes`.
- **Actions.** There is one action per API or HTTP call, in code order:
  - `Reconcile` (the first Get and the branch taken);
  - `DeleteFromRegistry`, `RemoveFinalizer`, `AddFinalizer` and `RefetchAfterFinalizer`;
  - `BuildClient`, `RegisterSchema` (the POST), `GetLatestVersion` (its follow-up GET) and `SetCompatibility`;
  - `RefetchForStatus` and `UpdateStatus`;
  - `SetConditionFailedGet` and `SetConditionFailedUpdate`.

  The data is abstracted:
  - A text is a model value, and the registry gives the same id to the same text, so an id is its text.
  - A conflict is "the stored object differs from the copy read".
  - Every call uses the subject of the copy the reconcile read, as the code uses `schema.Spec.Subject`.
  - `Finish(s, requeue)` is what Reconcile's return value does to the queue: `RequeueAfter` or an error sets a timer, and `Result{}` does not.
  - A status write that leaves the status unchanged may or may not produce a watch event. registeredAt is `now` at second resolution, so an identical status is possible within one second.
- **Constants.** `Listed` is the set of Schemas that `findSchemasForRegistry` can list, that is, those in the registry's namespace. The component runs put every Schema there.
- **Helpers.** `DeleteSubject` and `SetCompatibilityLevel` are the client calls' effect on the registry.
- **Environment.** It is unfair:
  - `CreateSchema` (with the subject `SubjectOf[s]`) and `DeleteSchema`;
  - `UpdateSchema(s, c, j)`: a user proposes text c and subject j. The admission webhook's `ValidateUpdate` admits the update only if the subject is unchanged. An admitted update bumps the generation. The CRD has no immutability rule of its own, so this check is all that keeps the subject fixed.
  - `RegistryResourceChanges` (enqueues the Schemas, as findSchemasForRegistry does);
  - `SecretChanges` (enqueues nothing);
  - `RegistryServerFlaps`;
  - `Restart`, at most `MaxCrashes` times. The operator process dies at any point of a reconcile. The queue, the timers and the reconcile in flight are lost, and the informer's initial List enqueues every stored Schema.

### RegistryConnectivity.tla

- **State.**
  - `reg[r]`: existence, generation, spec.url, and a status {connectionStatus, observedGeneration, Ready, and the URL whose check produced it}.
  - `authOk[r]`.
  - `up[url]`.
  - The work queue.
  - `health[r]` and `probed[r]`: the health result and the URL it came from.
- **Actions.**
  - `Reconcile`: Get and loadAuthConfig.
  - `HealthCheck`.
  - `RefetchForStatus` and `UpdateStatus`.
  - `SetConditionFailedGet` and `SetConditionFailedUpdate`.

  NewClient never fails (`NewClientSucceeds`), so the ClientCreateFailed branch is never taken. `Healthy(url)` is HealthCheck's answer.
- **Timestamps.** `lastChecked` has second resolution. The status holds a bit `checked` in `Stamps`, which a write may flip or keep. `Written(r)` enqueues r exactly when the write changed the object, so an identical status written in the same second produces no event. This matters to the Schema controller, which depends on those events.
- **Environment.**
  - `CreateRegistry` and `UpdateRegistryURL`.
  - `DeleteRegistry`: there is no finalizer.
  - `SecretChanges`: enqueues r, as findSchemaRegistriesForSecret does.
  - `ServerFlaps`.
  - `Restart`, at most `MaxCrashes` times, as in SchemaLifecycle. The lost five-minute timer comes back through the informer's initial List.

### SchemaSubject.tla: the abstract specification

This module states what the Schema controller promises about subjects, with no work queue, calls or failures:
- A Schema claims its subject by its finalizer.
- Only a claimant publishes a text (`Publish`), sets the subject's level (`Configure`) or reports Ready with an id the subject holds (`Report`).
- A deleted Schema lets go (`Release`) only once one of these holds:
  - the subject is empty (`Retract`);
  - it was deliberately abandoned (`Abandon`, the skipped cleanup);
  - another Schema claims it.

`SchemaLifecycle!SubjectView` maps the detailed state onto it. The mapping takes the stored object's spec, finalizer and deletion mark, and its status schemaId and Ready. `ImplementsSchemaSubject` is `Subject!Spec` checked as a PROPERTY. Every step of the reconciler is therefore a step of the abstract protocol or a stutter.

### Operator.tla (with MCOperator.tla): the composition

This module composes both reconcilers over one SchemaRegistry `Registry`:
- `S == INSTANCE SchemaLifecycle` has its environment variables replaced by the connectivity model's state. `regExists` is `reg[Registry].exists`, `authOk` is the Secret, and `reachable` is `Reachable`: the registry exists and its current URL is up.
- `R == INSTANCE RegistryConnectivity` is instantiated for that one registry. The two work queues are separate variables, as they are in the manager.
- `RegistryWatch` belongs to every step of the connectivity reconciler. A step that changes `reg` also enqueues the listed Schemas, as the `Watches(&SchemaRegistry{}, findSchemasForRegistry)` of `SetupWithManager` does.

The users create and update Schemas, and they create the SchemaRegistry, change its URL, rotate its Secret and flap the server. Deleting a Schema or the SchemaRegistry is left out of the composition. Deletion only adds behaviours that never settle, and the component runs check it.

### CredentialResolver.tla

- `LoadAuthConfig(auth, store)` translates loadAuthConfig branch by branch.
  - A Secret is Absent or the set of keys it holds.
  - `tls` stands for the tls.crt/tls.key pair.
- `SchemaRegistryReferencesSecret` translates the watch filter.
- The client side of the credentials:
  - `NewClientTLS(cfg)` is the `tls.Config` that `NewClient` builds. It holds a client certificate for MTLS, and the CA pool when `CACert` is not nil.
  - `AddAuth(cfg)` is the header that `addAuth` sets on every request, chosen by `cfg.type`.
  - `Presented(a, st)` chains `LoadAuthConfig` through both. Header values are abstracted to which Secret keys fed them.
- The state is constant, and Init enumerates every auth spec and every store of two Secrets, so invariants quantify over all inputs.

## 3. Runs

All runs finish within a minute or so. The Operator runs reach about 260,000 (resync) and 206,000 (crossns) states.

SchemaLifecycle alone cannot show `CompatibilityApplied`. Its environment action `RegistryResourceChanges` may or may not happen. In the composition, the periodic status writes are a fair step of the connectivity reconciler. The mutant that drops the enqueue of `findSchemasForRegistry` (`EnqueueNoDependents`) violates the property.

| Run (cfg) | Expect | Checks | Shows |
|---|---|---|---|
| SchemaLifecycle_shared | pass | TypeOK, NoOrphanedSubject | Same, with two Schemas sharing one subject |
| SchemaLifecycle_converge | pass | NoOrphanedSubject, ReadyImpliesRegistered, Converges, DeletionCompletes, ImplementsSchemaSubject | Finalizer protocol: no subject outlives its claim; Ready=True means registered; once the environment settles, the Schema ends registered and Ready for its current generation; deletion finishes whenever the server eventually stays up; the reconciler refines SchemaSubject (1 Schema, 2 generations, level declared, a second subject the webhook keeps it from moving to, one restart) |
| SchemaLifecycle_stalegen | violation | StatusMatchesGeneration | observedGeneration of a newer spec stamped on an older registration |
| SchemaLifecycle_version | violation | VersionMatchesID | After a revert, status.version is not the version of status.schemaId |
| SchemaLifecycle_sharedready | violation | ReadyImpliesRegistered | A shared subject deleted under a Ready Schema |
| SchemaLifecycle_blocked | violation | DeletionNeverBlocks | Deletion waits as long as the server is unreachable. Spec §9 says it never blocks; §4.4 and the code skip cleanup only when the client cannot be built |
| CredentialResolver_watch | pass | WatchCoversDependencies, StrategyDeterminesCredentials | Every Secret change that alters the credentials enqueues the SchemaRegistry. Whenever the credentials resolve, a request carries exactly the declared strategy's credential (spec §6, §8), and nothing from the configuration of another strategy that the spec also holds |
| RegistryConnectivity_live | pass | TypeOK, ConnectionStatusConverges | The status ends up showing the endpoint's settled health for the current generation, also after a restart that loses the five-minute timer |
| RegistryConnectivity_staleurl | violation | StatusDescribesObservedURL | The health of the old URL is published under the new generation |
| RegistryConnectivity_monitor | violation | ReconcileReschedules | A reconcile that ends in AuthLoadFailed schedules no next check (spec §4.3 says every reconcile does) |
| Operator_resync | pass | CompatibilityApplied, VersionRecorded | Both controllers: a settled Schema in the registry's namespace ends with its declared level set on the subject and a version in its status. A swallowed SetCompatibility failure, or a failed version lookup that left version 0, is repaired by the reconcile that the next changing connectivity status write triggers |
| Operator_crossns | violation | RegistryChangeEnqueuesSchemas | A change to the SchemaRegistry leaves a Schema that names it from another namespace out of the queue (spec §4.4 says every Schema naming the registry is enqueued) |

Every property of a passing run has a mutant in `PROJECT.json`. A mutant is a plausible bug in the code, such as a dropped error check, an off-by-one, a missing requeue, or a missing finalizer. TLC finds the property violated when the mutant replaces the definition it mutates.

### Bounds

- **One Schema or one SchemaRegistry for most runs.** Each reconciler has no state shared between keys except remote subjects. The case where keys interact, two Schemas on one subject, has its own runs (`shared`, `sharedready`).
  - Those runs use one generation, no compatibility level and a Secret that stays valid (`CONSTRAINT SecretKept`). These restrictions keep the two-key state space at about 17 million states. Secret failures are covered by the one-Schema runs.
- **Two texts** are the least needed for a revert and for a stale registration.
- **MaxGen.**
  - 3 allows a revert (c1 → c2 → c1), which `version` needs.
  - 2 allows one update to interleave a reconcile.
- **Two URLs** allow a URL change during a health check.
- **Operator.** The composition uses one Schema, one generation of each object and one URL. A SetCompatibility failure needs only one reconcile of a Ready Schema to be repaired, and one status write in a new second is enough to trigger it.
- **MaxWorkers = 1**, as in the code.
- **MaxCrashes.** It is 1 in `SchemaLifecycle_converge` and `RegistryConnectivity_live`, which check crash recovery. One restart can fall between any two calls, and a second restart would only repeat the same recovery. It is 0 in the other runs, because a restart only adds behaviours and their properties are not about recovery. The composition does not restart: one restart there doubles the state space (620,000 states), and its liveness check then takes over three minutes.

## 4. Fairness

- **`WF` on the in-flight steps of each key.** A worker runs the calls it started to completion, because HTTP calls are bounded by the client timeout.
- **`WF` on `TimerFires`.** The delaying queue releases keys when their time comes.
- **`SF` on `Reconcile`.** The FIFO work queue serves every dirty key, even when other keys keep taking the single worker in turn.
- **`SF` on a changing connectivity status write (Operator only).** The connectivity reconciler requeues itself every five minutes. Successive status writes therefore fall in different seconds, and `lastChecked` changes, so such a write keeps being possible and eventually happens. Writes in the same second, which change nothing, are not assumed.
- **No fairness for the environment.** Users, the server, the SchemaRegistry, its Secret and restarts act when they like. Liveness properties therefore assume the environment settles (`<>[]Settled`), and restarts are finitely many.

## 5. Findings

`PROJECT.json` states each finding with its source line. In short:

1. **Schema status generation.** The status can claim a generation it did not register (`part_000:132`).
2. **Version number after a revert.** The version is the subject's latest, not the version of the id (`client.go:166`).
3. **Shared subject.** Two Schemas may share a subject, and deleting one deletes the other's registration (`part_000:193`).
4. **Deletion blocks.** Deletion blocks while the server is unreachable (`part_000:69`). The spec disagrees with itself here:
   - §9's open question says the finalizer is removed unconditionally.
   - §4.4, and the comment at `part_000:188`, skip cleanup only when the client cannot be built.
   The code follows §4.4.
5. **Missing Secret keys.** They are not a configuration error (`helpers.go:59`). The credentials come out empty and fail later as a 401. This was checked by a violation run in an earlier revision. That run gave way to the cross-namespace run, and the hazard in `PROJECT.json` records it.
6. **SchemaRegistry status URL.** The status can pair the health of an old URL with a new generation (`part_001:91`).
7. **No requeue after an auth error.** A reconcile that ends in AuthLoadFailed schedules no next check (`part_001:64`). Monitoring resumes only on a watched change or on the informer's periodic resync.
8. **Cross-namespace Schemas.** They are not enqueued by registry changes (`part_000:230`). A swallowed SetCompatibility failure (`:116`) then waits for the Schema's own changes or the informer's resync.

9. **Compatibility applied after registration.** `Reconcile` POSTs the text (`part_000:108`) before it applies the declared level (`:115`). An update that both relaxes the level and changes the text to one that the old level rejects gets a 409 every minute, forever. This is listed as a hazard and is not checked (see the plan).
10. **Empty CA pool.** A CA Secret without `ca.crt` gives an empty root pool (`helpers.go:103`). Every handshake then fails, and the SchemaRegistry reports Unreachable instead of a configuration error. This is the same kind of divergence as item 5.

## 6. Plan

1. **Restart in the composition.** Both controllers share one process, so they restart together: `R!Restart /\ S!Restart`. Both actions exist. Checking them together needs a smaller composition, or a run of its own, to stay within the time of a run.
2. **SchemaRegistry deletion in the composition.** With the SchemaRegistry gone, `buildClient` fails and `deleteFromRegistry` skips the cleanup, so a Schema deleted meanwhile leaves its subject behind (the `orphaned` ghost). Check which subjects end orphaned when both objects are deleted in either order.
3. **Two Schemas in the composition.** Both Schemas would be re-enqueued by one status write, with one worker serving them in turn.
4. **Compatibility order.** Give the Object record a `level` that updates may change, and let the registry refuse a text that is incompatible with the subject's earlier versions under its current level. `Converges` would then be violated by the update that relaxes the level and changes the text together. That needs a violation run of its own.

## 7. Not modelled

- **The HTTP transport.** Connections, timeouts and JSON encoding are not modelled. Only the success or failure of each call and its effect on the registry are. The credential parts of the transport, the TLS certificate and roots and the auth header, are modelled in CredentialResolver.
- **Timestamps, reasons and messages.** They are modelled only as what they do to watch events.
- **Timeout arithmetic (`time.Duration(Timeout) * time.Second`).** Its 64-bit overflow is out of TLC's integer range, and latency is abstracted.
- **Webhook data validation.** `validateSchemaSpec` and `ValidateCreate` check non-empty fields, JSON validity and reference versions. Every spec of the model passes them, so they are not modelled. The SchemaRegistry validator (`validateSchemaRegistrySpec` in `src/IMPLEMENTATION.md`) rejects:
  - an empty URL;
  - a negative timeout;
  - a missing per-type auth configuration.
  It is not modelled either. CredentialResolver keeps the nil per-type configurations, which reach loadAuthConfig when the webhook is not installed.
- **The informer's periodic resync.** controller-runtime's cache re-lists every object after `SyncPeriod`, which is 10 hours by default, and enqueues it. The queue models leave this out. It only adds reconciles, so the passing liveness properties still hold with it. The violation runs are stated as step properties about the requeue and the enqueue the spec requires, so that eventual progress through a resync cannot hide them.
- **Schema references and schema types.** No control flow depends on them.
