# Verification of paas-elasticache-broker

TLA+ models of the ElastiCache service broker, the TLC configurations that
check them, and TLAPS proofs of their main properties.

The broker implements the Open Service Broker API for Redis on AWS
ElastiCache. It keeps no state and takes no lock: every HTTP request runs in a
goroutine of its own and makes a short sequence of AWS calls; all that requests
share is what AWS stores under names derived from the instance ID. So the
questions worth asking are about those sequences: what if another request makes
calls in between, an answer is lost, the 30 second context ends, or the process
dies?

## Inventory

| component | state | operations | hard behaviour | what makes it correct |
|---|---|---|---|---|
| `Broker.Provision`, `RedisProvider.Provision` | parameter group, secret, replication group in AWS | create and set the parameter group, create the secret, create the group, clean up | concurrent requests, lost answers, clean-up on an expired context, crash | the stored password opens the group; an accepted creation is not undone by anybody |
| `Broker.Deprovision`, `RedisProvider.Deprovision` | the same | delete the group, schedule the secret for deletion | partial failure, late calls | an accepted deletion stays one |
| `Broker.LastOperation`, `ProgressState` | operation data kept by the platform | describe; delete the parameter group of a deleted instance | stale description, lost answer | 410 only when all is gone; polling ends |
| `Broker.Bind`, `GenerateCredentials` | none | read the endpoint, read the password | two reads, the instance may be recreated between them | endpoint and password belong together |
| `Broker.Update` with `test_failover`, `StartFailoverTest`, failover branch of `ProgressState` | automatic failover and primary in AWS, old primary and time-out in the operation data | switch automatic failover off; per poll, promote a replica or switch it on again | progress by polls alone, overlapping polls, time-out, backups | success is reported only after the primary moved; automatic failover comes back |
| `Broker.Update`, other parameters, `UpdateReplicationGroup`, `UpdateParamGroupParameters` | maintenance window in the group, policy in the parameter group | modify the group, then the parameter group | second call fails, lost answers, the platform gives up and asks again | an accepted setting is in place; the order of the two is kept |
| `Broker.GetInstance`, `GetInstanceParameters`, `GetInstanceTags` | none | four reads | Updates between the reads, errors that are dropped | it reports accepted settings |
| restore: `FindSnapshots` and the checks in `Provision` | snapshots and tags in AWS | list, read tags, choose the latest, compare org, space and plan | snapshots come and go between pages and calls | the latest own snapshot, or a true "none" |
| request parameters (`parameters.go`) | none | parse, refuse unknown keys | null, missing and mistyped values | feeds the two above |
| configuration, TLS, `main.go`, `Services` | file, process, port; the platform's catalogue | load, validate, open the port, serve | edited file, taken port, crash and restart | only a documented configuration is served; what is advertised can be provisioned |
| black box tests and `ci/helpers` | subnet and security group, instances, snapshot, broker process | create, test, remove in AfterEach, deferred functions and AfterSuite | a failure at any step, late instances | a passing suite leaves nothing; nothing blocks the removal of the security group |
| `Unbind`, `GetBinding`, `LastBindingOperation` | none | nothing, or "not implemented" | - | - |
| name and token generation | none | FNV-64 in base32, random characters | - | taken as injective / arbitrary |

The components call each other directly; the platform (Cloud Controller) hands
the operation data of an accepted request back with every poll.

## Modules

| module | models |
|---|---|
| `AwsResources` | the values of the three kinds of AWS resource and when AWS accepts a call on them (external) |
| `InstanceLifecycle` | Provision, Deprovision, LastOperation and Bind with the provider methods they call; properties, inductive invariant, fairness |
| `InstanceContract` | abstract specification: what a platform may rely on from the creation of an instance to its end |
| `Failover` | the failover test, from the Update to the poll that reports success |
| `FailoverContract` | abstract specification: what a platform may rely on when it tests the failover |
| `RequestParameters` | the two parsers of `parameters.go` as operators |
| `UpdateInstance` | Update of the two settings, its polls, GetInstance; extends `RequestParameters` |
| `SettingsContract` | abstract specification: what a platform may rely on when it changes settings |
| `Restore` | the search for the latest snapshot in Provision; extends `RequestParameters` |
| `Startup` | configuration, start, catalogue |
| `BlackboxSuite` | the black box tests as a client of broker and AWS |
| `InstanceLifecycleProofs`, `InstanceLifecycleSafety`, `InstanceLifecycleRefinement`, `FailoverProofs`, `UpdateInstanceProofs`, `RestoreProofs`, `StartupProofs`, `BlackboxSuiteProofs` | theorems |
| `MCInstanceLifecycle`, `MCFailover`, `MCUpdateInstance`, `MCRestore`, `MCStartup` | symmetry and bounded inputs for TLC |

### InstanceLifecycle

A request `r` is a process. `pc[r]` is the AWS call it makes next, `inst[r]` its
instance, `token[r]` the password in its local variable, `action[r]` the Action
of the operation data it polls with, `reply[r]` its answer, and `r \in cut`
when its context has ended. `pg`, `secret` and `rg` are what AWS stores. One
action is one AWS call with everything the handler does up to the next one:

| actions | code |
|---|---|
| `Provision`, `CreateCacheParameterGroup`, `ModifyCacheParameterGroup`, `CreateAuthTokenSecret`, `CreateReplicationGroup`, `UndoParameterGroup`, `UndoAuthTokenSecret` | `broker.go` 95-204, `redis.go` 79-129, 157-218, 534-557 |
| `Deprovision`, `DeleteReplicationGroup`, `DeleteAuthTokenSecret` | `broker.go` 315-344, `redis.go` 221-242 |
| `LastOperation`, `ProgressState`, `DeleteCacheParameterGroup` | `broker.go` 376-452, `redis.go` 131-144, 304-326 |
| `Bind`, `DescribeForCredentials`, `GetAuthToken` | `broker.go` 347-362, `redis.go` 430-480 |
| `ContextEnds`, `Crash` | `context.WithTimeout` in the handlers; the process dies |
| `CreationEnds`, `Snapshot`, `DeletionEnds`, `PurgeSecret` | AWS by itself |

A call is applied and acknowledged, applied and reported as an error, or not
applied and reported as an error. When its context has ended it is not applied;
a call that was on the wire at that moment counts as made before it.

`opdata` and `promised` are the platform's view: the operation it polls, and the
instances whose creation it was told of and whose deletion it has not asked for.
The platform is otherwise unrestrained: it may send any request at any time,
twice or while others run. `PurgeSecret` is the one action with a timing
assumption: the recovery window (7 or 30 days) does not end during a request or
while a deletion is being polled.

`PlatformContract` is the refinement of `InstanceContract`, which knows neither
parameter groups nor secrets: a server with a password (`rg[i].token`), the
instances the platform counts on (`promised`), those whose accepted deletion it
polls (`leaving`), the deletions that are asked for (`sought`), and what a Bind
has found and given. A server that is counted on does not stop, one does not
start where a deletion is being polled, "gone" is said when it has stopped, and
an instance ceases to be counted on only through a Deprovision.

### Failover

The same for one replication group that exists throughout. `mod` is the
modification AWS is carrying out, `ha` whether automatic failover is on, `op`
the primary node in the operation data the platform polls with; `moved` records
whether the primary has changed since the Update looked at it and `warned`
whether the platform has been told of a failure since the last success. Context
expiry needs no action of its own: any call may fail unapplied.

Assumptions, each in a guard with a comment:

* operations on one instance do not overlap (Cloud Controller refuses a second
  one), polls may. The broker itself does not check: two failover tests at once
  could report a success for the second without a failover;
* a modification, which takes minutes, outlasts the requests that were in flight
  when it began, which take 30 seconds (`older`, `ModificationEnds`);
* the platform stops polling a timed-out operation when none of its polls is in
  flight;
* switching automatic failover off does take effect once AWS has accepted it.
  (If it came to nothing, the next poll would report success.) A promotion or a
  switching on may come to nothing.

`TestContract` is the refinement of `FailoverContract`: its `test` is `op`, and
an instance is `guarded` when automatic failover is on and not being switched
off. Requests, polls, lost answers and modifications are gone from the contract;
what is left is that a test takes the primary away from its node once, gets the
guard back only afterwards and succeeds only with both done. The one way to an
instance that stays unguarded is a failure the platform was told of (`warned`):
a test past its 45 minutes (`broker.go` 400), or an Update that failed although
AWS switched automatic failover off (`redis.go` 682). Nothing in the broker
repairs this by itself; `FailoverEnds` says that the next test does, if it ends
in time.

### RequestParameters and UpdateInstance

A JSON object is a function from its keys to values of a kind: text, null,
Boolean, other. Parsing yields one record or none. `Decide` is the chain of
refusals of `Update`; a request it sends to a failover goes on in `Failover`.

`window` and `policy` are what AWS has, `want[r]` what the Update `r` asked
for, `report[r]` what the GetInstance `r` has read. The platform's view is
`op` (an accepted update that is polled), `known` (the settings it was promised,
in doubt from the moment it asks for others) and `base[r]` (the part of `known`
that has held since `r` began).

| actions | code |
|---|---|
| `Update`, `ModifyReplicationGroup`, `ModifyCacheParameterGroup` | `broker.go` 210-312, `redis.go` 99-129, 146-154 |
| `LastOperation`, `ProgressState` | `broker.go` 376-408, `redis.go` 304-326 |
| `GetInstance`, `DescribeReplicationGroup`, `DescribeCacheCluster`, `DescribeCacheParameters`, `GetInstanceTags` | `broker.go` 68-83, `redis.go` 385-427, 593-664 |

Assumptions: the platform starts an Update when the last one has ended or when
it has hung up on it, which ends that request's context; a call made after the
context has ended is not applied. So the platform giving up, the end of the
context and the point after which no write of that request reaches AWS are one
instant. A request that is on the wire at that moment can land later, possibly
after a write of the next Update; no code of the broker could prevent it, and
the model leaves it out. `KnownIsTrue`, `ReadsAccepted`, `Inv` and
`UpdateContract` rest on this, and so do the theorems about them. AWS applies a
new window when it accepts it.

`UpdateContract` is the refinement of `SettingsContract`: the update that is
under way is the one whose context lives (`LiveUpdates`), `promised` is `known`.
An update the platform hung up on is abandoned in the contract at that moment
and must not write any more, which is what its late calls could violate.

### Restore

One Provision with `restore_from_latest_snapshot_of`, beside snapshots that are
taken (`BackupStarts`), completed and deleted. The pages of `DescribeSnapshots`
are arbitrary, except that together they hold every snapshot that existed from
the first page to the last; `unfinished` are those listed before they had a
creation time. `ByCreateTime(found)` is the set of snapshots that can come first
in the sorted list. `before` records what existed when the request arrived.
The other calls of the Provision are those of `InstanceLifecycle`.

### Startup

`pc` is where `main` is; `file` can change at any time, `config` is what was
read. `Validate`, `LoadConfig`, `hasPlan` and the others keep their names. Of a
certificate and key only matters whether they are given and make a pair. The
platform keeps `catalog` until it asks again and provisions from it, so `catalog`
may come from an earlier process that had read another file.

### BlackboxSuite

`Then` is the order of the steps and `OnFailure` where the suite goes on when an
expectation is not met: deferred functions run in reverse order, AfterSuite is
not resumed. The broker is abstracted to what the other modules show of it. AWS
refuses to delete a subnet group with clusters in it, a security group with
interfaces and a parameter group in use. When BeforeSuite fails before it has
written the configuration, AfterSuite works with an empty region: its calls
succeed or fail depending on the environment, and the model has both.

## Runs

| run | instance | result |
|---|---|---|
| `lifecycle` | 1 instance, 3 requests, 2 tokens, symmetric | 273,193 states; `TypeOK`, `TokenAgreement`, `PromiseKept`, `DeprovisionSettled`, `SoleOwner`, `Inv`, `GoneMeansGone` and `PlatformContract` (refinement of `InstanceContract`) hold |
| `lifecycle_fair` | 1 instance, 2 requests, 1 token | 35,412 states; `DeprovisionCompletes` |
| `lifecycle_leak` | 1 instance, 2 requests | `FailedProvisionCleansUp` is violated (finding 1) |
| `lifecycle_bind` | 1 instance, 2 requests, 2 tokens | `BindAnswered` is violated (finding 3) |
| `failover` | 3 nodes, 3 requests, symmetric | 143,203 states; `TypeOK`, `HighAvailabilityRestored`, `Inv`, `SuccessMeansFailedOver`, `PromotesOnce` and `TestContract` (refinement of `FailoverContract`) hold |
| `failover_fair` | 2 nodes, 2 requests | 36,138 states; `FailoverEnds`: a test ends with automatic failover on, unless it runs out of time, also where it was off to begin with |
| `failover_panic` | 2 nodes, 2 requests | `UpdateAnswered` is violated (finding 2) |
| `update` | 2 requests, 3 texts (one empty) | 350,484 states; `TypeOK`, `KnownIsTrue`, `Inv`, `WindowBeforePolicy`, `ReadsAccepted`, `UpdateContract` (refinement of `SettingsContract`) and `UpdateCompletes` hold |
| `update_read` | as `update`, symmetric | `WindowReadBack` is violated (finding 4) |
| `restore` | 3 snapshots, 2 times, 5 lists of tags | 3,811,584 states; `TypeOK`, `Inv`, `RestoresOwn`, `RestoresLatest`, `NoneFoundIsTrue` hold |
| `startup` | 2 plans, files with every kind of fault | 24,096 states; `TypeOK`, `ServesDocumented`, `AdvertisedIsProvisionable`, `Inv`, `NoFatalOnceBound`, `Recovers` hold |
| `suite` | the whole suite, no parameter | 6,004 states; `TypeOK`, `PassedLeavesNothing`, `NoInterfaceReturns`, `Inv` hold |

Bounds. Instances do not share resources, so one is enough. Three requests let
a late call of one meet a fresh request and a poll or Bind of a third; a slot is
used again without limit. Two tokens tell "its own password" from "another one".
Three nodes give a promotion a choice. For the settings, two requests are an
Update whose caller has given up beside the next one, or a GetInstance beside an
Update; every raw object over the known keys and an unknown one is tried. Three
snapshots give a newest, an older and a foreign one, two times a tie; the five
lists of tags match, or differ in instance, organisation, space or plan. No
counter is bounded: the state spaces are finite as they are. The proofs cover every size.

Fairness. A started handler goes on, since its goroutine is scheduled and its
calls are bounded by a context (`WF`). AWS ends deletions, modifications and
backups (`WF`). Strong fairness is assumed where an outcome may fail any finite
number of times: the platform keeps polling an operation that has not ended, and
not only during the daily backup; AWS does not fail every call of a poll, nor
let every promotion come to nothing. Nothing is assumed about crashes, expiring
contexts or other requests. `UpdateCompletes` also assumes that backups, which
come daily, stop meeting the polls of one update, which come every few seconds.
`Recovers` assumes a supervisor that starts an exited broker (the code leaves
restarts to it), whatever its exit status: `main` drops the error of `Serve` and
ends with status 0, and a supervisor that takes this for a wanted end would leave
the broker down. It further assumes that AWS names the account and the port can
be opened infinitely often when asked, and that the broker is killed only
finitely often. Nothing is assumed about `Serve`: the broker comes back each time
it returns, and serves for good if that stops.

## Findings

1. A `Provision` that fails after creating the parameter group and before
   creating the replication group (`redis.go` 161-163, 169-171) leaves the
   parameter group behind, and every retry then fails with
   `CacheParameterGroupAlreadyExists`. The tests describe a failing provision as
   one that "deletes the cache parameter group" (`redis_test.go` 336, 364) but
   only let the last call fail.
2. `StartFailoverTest` overwrites the error of its description (`redis.go`
   668-670) and follows the nil group: the handler panics, and the request is
   dropped instead of answered with status 500 (`api_test.go` 264, 289).
3. `GenerateCredentials` follows `PrimaryEndpoint` without a check (`redis.go`
   453). A Bind to an instance that is being created panics. The tests ask for
   an error "when no endpoints groups are returned" (`redis_test.go` 877, 886)
   but return a group without node groups.
4. `GetInstanceParameters` drops the error of the call that reads the
   maintenance window (`redis.go` 618) and answers with an empty one, where the
   black box test expects the window that was set (`elasticachebroker_test.go`
   199) and `redis_test.go` 1566 "returns the error if another error occurs".

Two more observations, without a run of their own:

* `GetInstanceParameters` follows the role of every node (`redis.go` 637), which
  AWS does not report in cluster mode: GetInstance panics for such plans. It is
  the answer "dropped" of `DescribeCacheCluster`.
* The deferred removal of the snapshot is commented "this is here to ensure
  the restored instance is removed first" (`elasticachebroker_test.go` 366), but
  deferred functions run last first: in `BlackboxSuite` the snapshot goes first.

## Proofs

All theorems hold for any sets of instances, requests, tokens, nodes, texts,
snapshots, plans and files, from the assumptions `ConstantsDistinct` (the "no
token" and "no instance" values are neither), `NodesAssumption` (every node has
another one beside it: the Update is refused for plans without a replica),
`TextsAssumption` (the empty string is a text, nil is none), `TimesAssumption`,
`TagsAssumption` (the four tags, and requests that name an organisation, a space
and a plan), `NoSnapshotAssumption` and `FilesAssumption`.

`InstanceLifecycle`: `TypeCorrect`, `Safety` (`Spec => []Inv`), and from it
`TokensAgree`, `PromisesKept`, `DeprovisionsSettled`, `OwnerIsSole`,
`GoneIsGone` and `LifecycleKeepsContract`. The properties are not inductive: that a
password agrees with its group depends on who may still be about to create
either. `Inv` says what the position of each request tells about the resources:

* while no secret exists, the parameter group works as a lock: one Provision at
  most is between creating it and creating the secret (`ParameterGroupIsLock`);
* from then on the secret is the lock: its creator is the only one that can
  create the group or clean up (`SoleOwner`, `OwnerReady`);
* a secret that is being deleted keeps its name taken, so nobody can create a
  group while the late calls of a Deprovision or of the poll of a deletion are
  still to come (`DeletersHarmless`, `PollersHarmless`);
* a Bind that has seen a group finds its password or none (`BindSeesItsToken`,
  `LostSecretStaysLost`).

The proof has one lemma per change of a resource and one per handler step; the
steps that change no resource are handled together (`Quiet`). The refinement
takes one part of the invariant per step that shows: a group is created where no
deletion is polled (`OwnerReady`), a deletion is accepted for an instance nobody
was promised meanwhile (`DeletersHarmless`), "gone" is said without a group
(`PollersHarmless`), a group that ends was not promised (`PromiseKept`), and a
Bind reads the password of the server it found (`BindSeesItsToken`).

`Failover`: `TypeCorrect`, `Safety`, `AutomaticFailoverRestored`,
`SuccessIsTrue`, `PromotionIsOnce`, `TestsKeepContract`. The invariant says that what a poll saw is
still so when AWS would act on it (`PollsUpToDate`), that polls of an operation
that has ended find nothing to do (`LatePollsHarmless`), and that until the
primary moves automatic failover stays off (`StillToMove`). The refinement needs
two more parts: the replica a poll has picked is still one when AWS would promote it
(`PicksReplica`), and a promotion under way leaves the node under test, a
switching on follows a promotion, unless the platform has given the test up
(`ModificationInOrder`). Each action is then one step of the contract
or leaves its variables alone; only the end of a modification moves `primary` or
`guarded`.

`UpdateInstance`: `TypeCorrect`, `Safety`, `AcceptedIsTrue`, `WindowIsFirst`,
`ReadsAreAccepted`, `UpdatesKeepContract`. That an accepted setting stays depends on who may still
write: `WritersKnown` says there is at most one Update whose context lives, and
that what it will write is in doubt; `WindowStillSet` that the window an Update
has written is still there when it goes on to the policy; `ReadersUpToDate` that
what a GetInstance relies on is what it reads or has read. `CutInFlight` (only
requests in flight have a context that can have ended) makes a new Update the
one under way. For the contract, the one live Update makes `asked` a set of one
element, and every call of a request whose context has ended a stutter.

`Restore`: `TypeCorrect`, `Safety`, `RestoresOnlyOwn`, `RestoresNoOlder`,
`NoneFoundIsSo`. `ListComplete` carries the guarantee of the pages over to the
tags, `InfosAreOwn` says which snapshots have been found so far, `LatestChecked`
that the choice has passed the checks and is the newest of them.

`Startup`: `TypeCorrect`, `Safety`, `ServingIsDocumented`,
`AdvertisedPlansExist`, `BoundBrokersServe`. `Inv` adds that a configuration in
memory is documented from `LoadConfig` on, which is what makes the second load
of the certificate succeed.

`BlackboxSuite`: `TypeCorrect`, `Safety`, `PassingSuiteLeavesNothing`,
`InterfacesStayAway`. The module has no parameter and its run is exhaustive; the
proof adds the reason. Neither property is inductive, since nothing in the last
steps looks at instances or parameter groups. `Inv` says what a step of the suite
has behind it, on the passing path and after a failure: from the deletion of
the subnet group on there is no instance (`NoInstanceLeft`), because AWS refuses
it before; a test that has not failed has seen the end of every instance whose
poll it has passed (`EndsSeen`); what AfterSuite has passed is removed
(`RemovalsDone`), because it knows the names (`NamesKnown`).

Only model-checked: the liveness properties (TLAPS does not reason about
fairness here) and the violations.

## Not modelled

* Formatting of messages and credentials, logging, the text of the state
  description in a poll (`redis.go` 246-300: its reads decide nothing).
* `GenerateReplicationGroupName` (FNV-64): taken to be injective.
* `GenerateAuthToken`: any token may come out, the same one twice included.
* In `InstanceLifecycle`, requests refused before the first AWS call; they
  change nothing. (`UpdateInstance` has the refusals of Update, `Startup` that
  of an unknown plan.)
* Whether a Deprovision whose second call failed can be repeated: the group is
  then deleting or gone, the first call is refused, and the deletion is never
  accepted. No document promises that it is.
* `Unbind`, `GetBinding`, `LastBindingOperation`: they do nothing.
* Pages of `DescribeCacheParameters` after the first, which the code does not
  read: the parameters of a Redis family fit on it. Nor a maxmemory-policy
  without a value, whose nil pointer `redis.go` 657 would follow: AWS reports a
  value for every family the broker creates.
* HTTP, authentication and routing (the brokerapi library), mocks, vendored
  code.
* The secrets of instances in `BlackboxSuite`: the broker schedules them for
  deletion, and the suite does not know of them.

## Plan

Done: every handler of the broker, the parameters, the configuration and start,
the black box tests, theorems on the safety of every module, and the contracts
of instance, failover test and update with their refinement proofs. What could
follow: the composition of `Failover`, `UpdateInstance` and `InstanceLifecycle`
on one group, that is, polls of one kind of operation beside another kind. The
platform refuses overlapping operations, so this is about polls that outlive
theirs.
