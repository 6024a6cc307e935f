# Verification of GMJ-NetVision

TLA+ models, TLC runs and TLAPS proofs for the parts of NetVision's API that
decide something while other things happen: the DDoS mitigation (commands,
AUTO engine, router session), the alarms, the occurrences made of error
counters, and the physical inventory.

Paths below are relative to `src/apps/api/src/`.

## 1. Inventory

| Component | State | Operations | Talks to | Hard part | What makes it right | Model |
|---|---|---|---|---|---|---|
| Mitigation planner (`infrastructure/bgp/mitigation/mitigation-planner.ts`, node predicates of `huawei-bgp-policy-parser.ts`) | none | `selectNodePair`, classification | discovery, executor | edges: no normal node, one free node | a plan is two free nodes, BOGONS first, below every normal node | `MitigationPlanner` |
| Command service (`mitigation-command-service.ts`) | map `processed` | `execute`: ACTIVATE, REMOVE, SIMULATE_*, STATUS | repository, executor, webhook | a dozen awaits; each read has a fallback | gates hold, nothing uncleared is written, "verified" is what the device has shown | `MitigationCommand`, `MitigationContract`, `MitigationRefinement` |
| Huawei executor, write guard, SSH client | none | preflight, activate, remove, read-back, resolveActivePair | router | session ends early, also while it reads; command rejected, commit anyway | fail-closed | `MitigationCommand` |
| MOCK executor | policies in memory | activate, remove, read | command service | taken when the host cannot be read | never touches the router | `MitigationCommand` |
| Discovery and `BgpMitigationService` | `discoveryCache` | discover, rehydrate, exclusions, patch | router, repository | concurrent discoveries; rows read before they are replaced | snapshot and plan of the same policy; out-of-scope targets leave | `MitigationCommand` |
| AUTO engine, runtime, traffic source (`worker/mitigation/`) | counters, in-flight set, timer | tick, evaluate | command service, repository | stale target, one request id for two attacks, a sample read in halves | one activation per attack; counters that are earned | `MitigationAuto` |
| Persistent Huawei session and worker (`worker/mitigation/`) | SSH connection, queue, timers | connect, executeReadOnly, reconnect, close | router | timer against connect, late data | READY has a stream; every command ends unless the router owes it an answer | `HuaweiSession` |
| Alarm engine, suppressions, notifications (`application/alarm-*.ts`) | alarm and suppression rows, marks, cooldowns | evaluate metrics and optics, open, escalate, resolve, suppress, notify | SNMP service, n8n | reads used across awaits, check-then-create, retries that never come | no reopening against a suppression; a recovery ends everything | `AlarmEngine` |
| Operational occurrences, counter deltas, error counters of a poll | episode rows, last sample | processSamples, acknowledge, housekeeping, `calculateCounterDelta` | SNMP service | totals from a read outside the transaction; wrap or reset | no event lost or counted twice, as long as what is stored is the counter | `OperationalOccurrence` |
| Physical inventory (`infrastructure/physical`, `domain/physical-domain.ts`, migrations) | racks, assets, boards, ports, cables | place, move, resize, plug, pair, map, sync, reconcile, install, remove, trace | database with triggers | a look and a write apart; two kinds of locks | cables have two ends, no overlap, nothing in use is removed | `PhysicalInventory`, `PhysicalTrace` |
| Topology preview and apply, LLDP correlation | preview rows | preview, apply | map repository | apply after the map changed | - | - |
| Auth, media, MPLS/VPLS, PPP, BGP collection, hosts and maps | rows | CRUD, collectors | database, devices | little | - | - |
| Web frontend, snapshot renderer, shared packages, MCP tool, deployment, MIBs | none | - | API | none | - | - |

`PROJECT.json` lists each of them with its status, and under `hazards` what in
this code is hard to test, at its line, with the properties that watch it.

How they meet. The SNMP poller stores samples and ends each poll of a device in
an evaluation of the alarms and in the ingestion of occurrences. The AUTO engine
reads the same samples and calls the command service. The command service and
discovery open SSH sessions of their own; the persistent session belongs to
the worker alone and only reads. The physical inventory shares devices and
interfaces with the collectors, and nothing else.

### How the mitigation core works

A *target* (profile) is an interface, an address family and an inbound
route-policy. Mitigating it means adding two nodes before the normal ones: a
`deny` of BOGONS, then a `permit` of PREFIX8to24 with the mitigation route
target. Discovery reads the router's configuration, plans such a pair for every
target, stores it in the runtime row and remembers the node numbers it saw
(`discoveryCache`). An ACTIVATE reads profile, runtime and host, passes the two
exclusion gates, then a read-only preflight that compares the device with the
snapshot, writes over SSH, reads back and records. A REMOVE asks the device
which pair is active and deletes that one. Everything is asynchronous and
nothing serialises commands or discoveries of the same policy.

## 2. The modules

| Module | Models | Proved about in |
|---|---|---|
| `MitigationPlanner` | the pure part: kinds of nodes, what a read of a policy can show (`Answers`, `Dumps`), `SelectNodePair`, `PairPresent`/`PairAbsent`, `ResolveActivePair` | `MitigationCommandProofs`, `MitigationWriteProofs` |
| `MitigationCommand` | commands, executors, discovery, exclusions, CLI edits, restarts | `MitigationCommandProofs`, `MitigationWriteProofs` |
| `MitigationContract` | what a command promises, without reads, gates and discoveries | - |
| `MitigationRefinement` | the mapping of `MitigationCommand` to the contract | `MitigationCommandProofs` |
| `MitigationAuto` | AUTO engine, its runtime, the traffic source | `MitigationAutoProofs` |
| `HuaweiSession` | persistent SSH session and the worker that owns it | `HuaweiSessionProofs` |
| `AlarmEngine` | metric and optical alarms, suppressions, notifications | `AlarmEngineProofs` |
| `OperationalOccurrence` | error counters, deltas, episodes | `OperationalOccurrenceProofs` |
| `PhysicalInventory` | rack, equipment, boards, ports, cables | `PhysicalInventoryProofs` |
| `PhysicalTrace` | `tracePhysicalPath` on that inventory | `PhysicalInventoryProofs` |
| `NaturalSets` | no code: least elements, induction and recursion, stated with sets and functions for the proofs | itself |
| `MC...` | small instances for TLC | - |

Everywhere, one action is the stretch of code from one await (or lock) to the
next, because that is what JavaScript and the database run undisturbed. A
variable's comment in the module names the field or table it stands for.
Definitions commented "Mutant" are not part of the model: each is the
definition before or after it with a plausible mistake in it, and shows that a
property notices that mistake.

### MitigationCommand

| Variable | Code |
|---|---|
| `device` | the router's route-policies: what each node number holds |
| `mock` | `MockMitigationExecutor.policies` |
| `runtime` | rows of `BgpMitigationRuntime`: state and planned pair |
| `excluded`, `peerExcluded` | `profile.mitigationExcluded`; some peer of the target has an exclusion row |
| `snapshot` | `BgpMitigationService.discoveryCache`, its `existingNodes` |
| `processed` | `MitigationCommandService.processed` |
| `calls`, `scans` | the locals of the `execute()` calls and discoveries in flight; `pc` is the await each is at |
| `edits`, `toggles`, `restarts` | counters of the bounds |
| `faults` | how many reads and writes failed or were cut |
| `torn`, `seen` | history the properties need; no action reads them |

`seen[c]` notes, for a command: which barriers (own exclusion, marked peer,
DISABLED runtime) have stood all the time since it began, whether somebody else
changed its policy, whether one of its own reads or writes failed or was cut, and
which nodes it cannot know (`unseen`): those its preflight or its read-back was not
shown, and those others changed since the preflight.

A command: `Begin`, `LoadProfile`, `LoadContext`, `Resolve` (REMOVE), `Gate`
(ACTIVATE), `Preflight`, `WriteLive` or `WriteMock`, `ReadBack`, `Record`,
`Reply`. A discovery: `ScanRead`, then per target `ScanTarget` and `ScanUpsert`,
then `ScanReconcile`, `ScanDisable` per untouched profile, `ScanCache` per row.
Around them: `ToggleExclusion`, `TogglePeerExclusion`, `OperatorEdit`, `Restart`.

What is abstracted, and why it is safe:

- *Text.* A node is one of five kinds, all the code distinguishes: the parser and
  the command strings are modelled by what they decide. A node left by a torn
  write without its `if-match` is a plain `deny` or `permit`, as the code would
  classify it.
- *A read over SSH* shows one of `Answers`: the policy, or, because a channel that
  closes early (`ssh-client-impl.ts:275`) and a router that pauses while it prints
  end a read without an error, the policy cut at any node, which is then missing with
  all after it or left without its last lines (`CutAt`, `Plain`). A discovery reads all
  policies in one dump (`Dumps`), the preflight and the read-back the one they are
  about. The preflight reads twice, by configuration and by display: one answer
  decides, and the other need only not be empty. Left out: a cut inside the digits of a
  node's number, which shows a node of a smaller number.
- *The SSH write session* is one action with every outcome the client can report:
  accepted, closed early without an error, or failed with any part of the
  commands kept. VRP commits a candidate configuration atomically, so two
  sessions do not interleave inside a commit.
- *A read of several rows* whose results do not depend on each other is one
  action (runtime and host; peers and their exclusions). In the preflight the
  snapshot is looked up before the SSH read; a `ScanCache` between the two may
  be delayed until after the preflight without anybody noticing, so one action is
  enough.
- *Node numbers* are a small set; `MaxCandidate` stands for the 9 of the code.
- *Peer correlation and bandwidth* are an input of a discovery: each profile is in
  scope, over its prefix limit, or out.
- STATUS and SIMULATE_* change no state. Notifications and events are best-effort
  and read by nobody. The AUTO engine does not run here (it has its module), so
  no runtime is TRIGGER_PENDING.
- Live writing is enabled for the device (`HUAWEI`, `live_write`, allowlist); a
  device for which it is not is the branch of `WriteLive` that writes nothing.

### MitigationContract and MitigationRefinement

The contract has five variables: the router, the set of targets recorded as
mitigated, the request ids answered from memory, for each call a phase, and the
number of `faults`. `Clear` is the one step that decides on a pair, and a live call is
cleared only by what the router shows at that moment; `Commit` changes that pair, whole
or in part, once; `Judge` says "verified" of a live call exactly when what the router
shows says so; `Book` and `Answer` follow. Nobody else but `Edit` touches the router.

Each departure costs a fault (`Tries`): an answer that is not the policy, a commit of
less than the pair, a refusal for a read-back that failed. Without faults the contract
is exact: what clears, what is committed and what is verified is the router as it is.
With them, an answer that is cut never shows a node that is not there, so that an
ACTIVATE is not verified falsely even then, and a REMOVE can be.

`Shown` maps a frame of a command to such a call: `profile` to `preflight` is
"deciding", `write` is "cleared", and so on; discoveries, exclusions and caches are
invisible, or a `Reconcile`.

### MitigationAuto

`List`, `NextTarget`, `ReadPeers`, `ReadValue`, `ReadStamp`, `Count`, `Save`,
`Write`, `Answer` are the awaits of one tick and of its evaluations, in order.
`counters`, `inFlight`, `processed` are the maps in memory; `listed` is what the
tick read of the targets at its start, `tick` its locals, `row` the runtime row.
`Poll` and `Age` are the SNMP poller and time, `SetMode`, `MarkPeer` and
`OperatorCommand` everybody who edits targets or runs commands beside the engine,
`Restart` the process. `fed`, `adopted` (the counters in memory began with a row an
earlier process left) and `spent` (an ACTIVATE of this trigger was verified: with a
start the command service knows it by, "known", or with none, "unknown") are history.

A sample is its rank in time and a level: over the trigger, below recovery, or
between. The gates of the listing are one value (`CLOSED`). The recovery counter
is left out, for the engine only reports what it says. The command service is
what it can answer. Value and timestamp of a sample are two reads, as in
`mitigation-traffic-source.ts`.

### HuaweiSession

State, client, stream, `intentionalClose`, the reconnect timer, the attempt in
flight (`dial`), the active command, the queue. A callback with the promise
continuations it releases is one action (`ConnReady`, `ConnLost`, `ShellOpened`,
`ShellRefused`, `Prints`, `StreamClosed`, `CommandTimeout`, `PromptTimeout`,
`ReconnectTimer`); the queue's next step is a microtask of its own (`StartTask`,
`ResumeTask`), and no event fires while one is pending. `Execute`, `WorkerStart`
and `WorkerStop` are the calls.

The session never removes the handlers of a shell it forgets, so what such a
shell prints or reports still reaches it. Shells therefore keep their identity
until they are closed; a connection that is forgotten and has no shell left
stands for a new one. A router has few VTY lines: a shell is opened only while
there is a free connection (the guard of `ShellOpened`), otherwise it is refused.
Back-off delays, credentials and texts are abstracted.

### AlarmEngine

Tables `alarms` and `suppressions` (a row's id is its place), the rules'
`reading` (what the window of samples says: recovered, a severity, neither) and
`enabled`, the evaluation with its locals (`eval`), the requests of users,
`cooling` (`nextAttemptAt`). The evaluation: `Start`, then the reads of samples,
open alarms and suppressions, then per rule resolve, clear, find, create, check,
escalate, publish, mark. A user suppresses in four awaits (conflict check,
create, find, close), disables a rule in three. `pollHost` is single-flight per
device (`infrastructure/snmp/snmp-service.ts:262-276`), so evaluations of one
device never overlap. Metric rules have one severity, optical rules a ladder;
for the rest `processDeviceMetrics` and `processOpticalReadings` decide alike.

### OperationalOccurrence

`counter` is the device's; `snapshot` the last stored sample; `episodes` the rows;
`poll` the poll in progress (`Start`, `Walk`, `Save`, `Find`, `Apply`, `Quiet`,
`CloseQuiet`), `other` the housekeeping a poll of another device started, `ack`
an acknowledgement between its two updates. `Happens`, `Reboot`, `Age` and
`Restart` are the world. `truth` is history: what happened, and whether the
arithmetic can be trusted ("exact"; "atMost" after a reboot; "none" when a reset
cannot be told from a wrap, or after a failed walk of the discards, which is
stored as 0).

`CounterDelta` keeps its widths: 32 and 64 bits are scaled to 3 and 6, with the
quarters that separate a wrap from a reset. RX and TX discards are one counter;
the two kinds of errors have episodes of their own, and the model follows one,
either. The FCS counter's fallback column has the width of the one it replaces.
Polls of a device do not overlap and their clock does not go back, so no
sample is replayed or late. Rates and peaks are left out.

### PhysicalInventory

One rack (`units`, `place`), `port`, `cables` and `boards` are the tables. A
request is two steps. The look (`Ask...`) is `PhysicalService` reading the
inventory and validating; a request it refuses changes nothing and is no step.
The write is `PrismaPhysicalRepository`, later, when anything may have changed.

Transactions are READ COMMITTED. One that writes ports, cables or boards locks
the rows it tests and keeps them until it commits, so it is one step. A placement
or a resize is two: its trigger tests rows it does not lock (`TestPlacement`,
`TestResize`), and the commit comes later (`"held"`). Placements take the
rack's advisory lock (`LockFree`); resizes do not. A sync is one
statement per entry of its plan (`SyncStep`). `Fail` is a refused constraint, a
deadlock the database broke, or the end of the process: nothing stays.

What never changes in a row is a function of its identity (`Origin`, `Side`,
`Class`, `Connector`, ...): the classification of names and their correlation
with ports are constants. An identity is used for a new row only when
nobody in flight means the old one (`Unmeant`). `Starts` is what earlier requests
may have left: what is mounted fits the largest rack, and the far side of a
passage exists and is another port (the CHECK `PhysicalPort_not_self_paired` of the migration). `since` and `raced` are history: the ports
plugged or mapped after a reconcile, a board's removal, an asset's or a sync looked (by the
entries of that sync itself, too); a resize and a placement tested at the same time.

The plan of a sync is computed interface by interface in the order of their
`IfIndex`: the first that asks claims a connector, and a lane takes its cage all
the same (`Earlier`, `Claimed`, `PlanInterfaceSync`). A plan is therefore a set of
entries, which a sync writes in that order.

`PhysicalTrace` reads the cabling and changes nothing. The `while (true)` of
`tracePhysicalPath` is a sequence of rounds: `Begin` is what it starts with, `Step`
one round (along the cable, then through the passage), and `Trace` the round after as
many as there are ports. That these are enough is a property, `TraceEnds`, and
no consequence of the definition.

Not modelled of it: the order of ports (a collision of `sortOrder` is a `Fail`),
which slot a board's port belongs to, sites and templates, the stored LLDP
snapshot, and the move of a Device from one asset to another.

## 3. The runs

| Run | Instance | Checks | Expect |
|---|---|---|---|
| `commands` | 1 target, 2 commands, 1 discovery, 2 request ids, nodes 1..6 (2 a deny, 6 normal), pair 1,3 active at the start; together at most 2 of: 1 discovery, 1 CLI edit, 2 exclusion changes, 1 restart, 2 faults | `TypeOK`, `OnlyClearedNodesWritten`, `ExcludedNotActivated`, `VerifiedIsOnTheDevice`, `PlanFits`, `ActivationNeedsSnapshot`, `PairsStayWhole`, `RemoveFindsThePair`, `KeepsContract` | pass |
| `out_of_scope` | 1 command, 2 discoveries, nodes 1..5, no pair at the start | `OutOfScopeNotActivated` | violation |
| `removal_unverified` | 1 command, 2 faults, pair 1,3 active at the start | `VerifiedRemovalIsOnTheDevice` | violation |
| `auto` | 1 target, trigger of 2 samples, 3 samples, 2 edits, 1 fault, 1 restart | `TypeOK`, `EarnedTrigger`, `OneWritePerTrigger`, `TriggerActs` | pass |
| `auto_downgrade` | the same | `MitigatedNotDowngraded` | violation |
| `session` | 3 connections, 2 commands | `TypeOK`, `ReadyHasStream`, `WrittenIsActive`, `ClosedPlansNothing`, `CommandsEnd`, `FailureIsRetried` | pass |
| `session_hang` | the same | `ReconnectionEnds` | violation |
| `alarms` | 1 rule of 2 severities, 2 users, 3 edits, 1 fault | `TypeOK`, `ClosedStaysClosed`, `RecoveryCloses`, `RecoveryLifts` | pass |
| `occurrences` | counters of 3 and 6 bits from 6, 3 events, 1 edit, 1 fault, both kinds of errors | `TypeOK`, `TotalsAreEvents`, `AtMostOneLateDelta`, `OlderOpenIsQuiet`, `OverIsClosed` | pass |
| `late_delta` | that of `occurrences` | `EndedTakesNoDelta` | violation |
| `physical` | rack of 2 units, switch with a board, patch panel, 3 requests at once, 2 cables, 3 starts | `TypeOK`, `CablesJoinTwoPorts`, `PassagesAreMutual`, `PlacementsDisjoint`, `SticksOutOnlyByRace`, `TraceEnds`, `LoopsAreReal`, `TraceComesBack`, `RemovalsSpareTheSeen`, `SyncSparesMappings` | pass |
| `rack_shrink` | that of `physical` | `RackHoldsItsEquipment` | violation |

The passing runs reach a quarter of a million to 2 million distinct states each, in one to
four minutes with two workers.

### Bounds, and why they are enough

`commands`. Two commands are enough for any race on a policy: every
property is about one command, or one policy, against "the others". Node 2, a
hand-made deny between the free nodes, makes a pair that is not adjacent in number; the
ceiling of 5 is below the normal node, so both limits of the planner bind. There is
room for a second pair beside the active one: an ACTIVATE after a discovery
really creates it, and a REMOVE then has to refuse to guess about two. One
fault at any await reaches every error path, and two in a row are what a
falsely verified REMOVE takes: a session that closes before its commands are out, and
a read-back that closes before the pair is printed. Symmetry is over the
interchangeable calls, ids, scans and profiles; no property singles one out. The counters
`MaxEdits`, `MaxToggles`, `MaxFaults` and `MaxRestarts` bound what happens around the
commands, one kind each, and `MaxHappenings` all of it, discoveries included: any two of
these things, in any order, at any await. More than two, several discoveries and several
targets are left to the theorems, which bound nothing; a property of one command is
broken, if at all, by the one thing that happens between two of its awaits, or by
that and what undoes it. A call or a scan is used once. `CHECK_DEADLOCK FALSE`: when every
call and scan is over and the bounds are spent, the instance has nothing left to do.

`auto`. A trigger of two samples is the least that tells one sample counted
twice from two; three samples let an attack end and a second begin, or a trigger
survive a restart. One target: targets share nothing but the order in which a
tick takes them (the module and its theorems have any number).

`session`. Three connections are a current one, a forgotten one whose shell still
speaks, and one being dialled. Two commands are one on the wire and one that waits.
The only bound is that a command is issued once; connections come back for ever.

`alarms`. Two users are the two suppressions created at once; three edits are a
reading that rises and recovers, and one thing more (a restart, a disabled rule, a
release); a fault is a failed delivery or a failed write.

`occurrences`. A counter that starts at 6 of 0..7 wraps, and resets look like
wraps, after two events; `Happens` keeps fewer events than a quarter of the
counter between two samples, which is what `counter-delta.ts` assumes. Polls
are not bounded.

`physical`. The switch has a cage of its template, two ports that syncs discover
and a board with one port; the panel has two passages and a port that an operator
creates. The interfaces are a physical one and a lane of the same cage, another
physical one, and a logical one. One start has everything mounted, the passages
paired, and a port that an old sync made for the logical interface; one has, beyond
that, the board in its slot and cabled to the panel; one has the panel still to be
placed. Three requests, all three possibly in flight, are every race of two
with a third that changes what they looked at; what more requests would build up
first, the starts have. A cable between the two sides of a passage, or two cables
through two passages, are the shortest loops. `CHECK_DEADLOCK FALSE`: the requests run out (`MaxRequests`).

### Fairness, and why the code justifies it

The runs about commands, discoveries and the physical inventory check safety
only and assume none: a command that hangs in an SSH read is a behaviour.

- `session`: the event loop runs microtasks and timers, and ssh2 answers a connect
  (`readyTimeout`). Weak fairness of each. Neither callers nor the router nor the
  network owe anything: not the answer to a request for a shell either
  (`ShellOpened`, `ShellRefused` are not fair), for which neither `openShell` nor ssh2 has a
  timer.
- `auto`: weak fairness of the tick: the interval timer fires and its awaits end.
- `alarms`: weak fairness of `Start` and of the steps of the evaluation, of the
  steps of a request once begun, and of time (`Expire`, `CooldownEnds`). Users
  owe nothing.
- `occurrences`: weak fairness of the poll and of time; strong fairness of
  `Quiet`, for housekeeping is throttled to five minutes, polls never cease, and so
  one of them comes after the throttle. Housekeeping of other devices is not fair.

### What the properties say

Commands and discoveries:

- `OnlyClearedNodesWritten`: between the preflight and the write anything may
  happen; a node the preflight was shown and nobody else touched is nevertheless as
  the preflight wants it.
- `ExcludedNotActivated`: an exclusion set before the command began and not
  lifted since stops it, with both executors; so does a marked peer, unless a read of
  the command failed.
- `VerifiedIsOnTheDevice`: the only evidence of a commit is the read-back, because an
  SSH channel that closes early reports success. The read-back has the same channel:
  what it verifies of an ACTIVATE is on the device, and of a REMOVE each node is gone that
  the answer, cut or not, was long enough to show. That both are gone is claimed, and
  `removal_unverified` shows it false (`VerifiedRemovalIsOnTheDevice`).
- `PlanFits`, `ActivationNeedsSnapshot`: what the planner promises survives
  storage, rediscovery and restart; a live ACTIVATE needs a discovery by this process.
- `PairsStayWhole`: with no hand edit and no torn write, no interleaving leaves
  one half of a pair, although two commands may race.
- `RemoveFindsThePair`: the plan is rewritten while the pair it described is active;
  a REMOVE works on the device's pair all the same.
- `KeepsContract`: the detailed command implements the abstract one. Of
  everything around it, only a command changes the router, once, where it was
  clear, and only a command that wrote records a target as mitigated.

AUTO engine:

- `EarnedTrigger`: no sample is counted more than twice, over ticks that see
  it again, failing saves and restarts. Twice is what happens: the value of one sample
  may be read with the timestamp of the next.
- `OneWritePerTrigger`: after a verified ACTIVATE nothing more is written for the
  target until its traffic was between the thresholds, whatever the row says. One
  trigger is exempt, for there the code does write again: one that this process adopted
  from the row of an earlier one, which has no start, hence a new id at each tick, until
  a newer sample gives it one (`Answer` tells the two apart by `adopted` and the start).
- `TriggerActs`: no refused, lost or unrecorded command leaves a target in
  flight for ever.

Session:

- `ReadyHasStream`, `WrittenIsActive`, `ClosedPlansNothing`: what the fields say
  fits together, whichever stale timer or callback of a forgotten shell came last.
  READY has a stream and no attempt under way, no more: the stream may be one whose
  connection is gone, until its close arrives.
- `CommandsEnd`: every command is answered or rejected, unless the session stays for ever
  in an attempt that `session_hang` shows to be abandoned (`Abandoned` names exactly those
  states) or that waits for a shell the router neither opens nor refuses (`AwaitsShell`).
  `FailureIsRetried`: FAILED is not for ever.

Alarms:

- `ClosedStaysClosed`: the evaluation reads open alarms first and
  suppressions after, and that order is why it never reopens what a suppression closed
  in between.
- `RecoveryCloses`, `RecoveryLifts`: whatever was left by failures and by two
  suppressions at once, a recovery that lasts ends it.

Occurrences:

- `TotalsAreEvents`: over wraps, missing samples, acknowledgements, restarts,
  totals are exactly what happened; after a reboot of the device, at most that. In three
  cases the code stores what the counter does not show, and totals go wrong, upwards too;
  from there on nothing is said (`trust` is "none"): a failed walk of the discards is
  stored as 0; FCS errors are read from the narrower counter in place of the wider; a
  reset from the last quarter of the counter passes for a wrap.
- `AtMostOneLateDelta`, `OlderOpenIsQuiet`: an episode that was acknowledged (closed or
  not yet) or closed under the hands of a poll takes the one delta already read, no
  second one; two open episodes are never both current. The code claims that it takes
  none, and `late_delta` shows the one (`EndedTakesNoDelta`).
- `OverIsClosed`: an acknowledgement cut in two, or an episode left open beside a
  newer one, is closed by housekeeping.

Physical inventory:

- `CablesJoinTwoPorts`, `PassagesAreMutual`, `PlacementsDisjoint`: hold though
  every request acts on an old inventory. `createPort` is the exception the second
  names.
- `SticksOutOnlyByRace`: equipment sticks out of its rack only if a resize and a
  placement tested each other's old value; nothing else can do it. That the race can is
  what `rack_shrink` shows (`RackHoldsItsEquipment`).
- `RemovalsSpareTheSeen`, `SyncSparesMappings`: what a removal cut, or a sync
  took, had been plugged or mapped after the request looked: by somebody else or, for a
  sync, by itself, as each lane of a free cage takes it from the lane before. So "o segundo
  sync não cria nem rouba vínculo" (`docs/PHYSICAL_POP_RACK_IMPLEMENTATION.md:135`) holds of
  the links a sync has seen; that the first lane keeps the cage, in the same line, does not.
- `TraceEnds`, `LoopsAreReal`, `TraceComesBack`: `tracePhysicalPath` on whatever cabling
  requests can produce: it comes to an end although only its `visited` set bounds it,
  what it calls a loop is one, and the path is the same from both ends. The last two
  are about passages that both sides know; the first also about those of `createPort`.

### Findings

1. `out_of_scope`: `reconcileOutOfScope` marks a profile DISABLED and clears
   `plannedNode` only. `plannedMitigationNode` and `plannedBogonNode` keep the
   plan, `plannedPairOf` finds it, and no gate of an ACTIVATE looks at the state:
   the profile does not "parar de contar para mitigacao".
2. `removal_unverified`: an SSH channel that closes early resolves as success with what
   was printed by then. A REMOVE whose write session closed before the commands went out, and
   whose read-back closed before the pair was printed, is "verified", with the pair on the
   router; `verifyRemoval` says that both nodes must have gone.
3. `auto_downgrade`: `persistCounters` decides by the state that the tick listed;
   a command that recorded MITIGATED since is overwritten.
4. `session_hang`: a reconnection by timer during a pending attempt tears its
   connection down and then joins it; nobody settles that promise.
5. `late_delta`: the latest episode is read outside the transaction that adds to it by its
   id. One that is acknowledged in between gets the delta, though "um episodio
   reconhecido ou encerrado nunca recebe delta novo".
6. `rack_shrink`: the resize trigger takes no advisory lock, so a resize and a placement
   may both pass on the other's old value, although
   `docs/PHYSICAL_POP_RACK_IMPLEMENTATION.md:25` promises "proteção contra encolher
   rack abaixo do ocupado".

Seen while modelling, and no run claims the contrary:

- The preventive gate reads the peers and their exclusions with `[]` as the fallback
  (`mitigation-command-service.ts:311`). One failing read and an ACTIVATE for a marked
  peer goes to the device, against the comment at lines 306-309.
- The alarm engine notifies of transitions only (`alarm-engine.ts:1156`), so a failed OPENED
  is never tried again, though `alarm-notification-service.ts:16-17` says it will be.
- The start of a trigger outlives it: below the recovery threshold only the count is
  reset (`mitigation-auto-engine.ts:430`). A second attack may ask with the id of the
  first, and is answered from memory.
- After a restart a trigger has no start, and the id of an ACTIVATE is the time of the
  evaluation (`mitigation-auto-engine.ts:503`). If recording a verified one fails, the
  next tick writes again.
- `tracePhysicalPath` says `loopDetected` also of a path that ends at a
  passage whose far side has no cable (the second disjunct of `LoopsAreReal`).
- In `planInterfaceSync` all lanes of a free cage map it, and the last one keeps it:
  `physical-domain.ts:685-687` and `docs/PHYSICAL_POP_RACK_IMPLEMENTATION.md:135` give it
  to the first and have the others skipped. A base interface without its cage creates a port whose name may
  exist, and the sync then fails each time.
- `createPort` with a paired port writes one side of the pairing.
- Removals race with a cable plugged after they looked; the cable goes too.
- A rule disabled while an evaluation runs may be left with an alarm that
  no later evaluation of that rule resolves (listed as a hazard).
- The late output of a forgotten shell can answer the session's active command
  (`Prints`).

## 4. The proofs

Every invariant and every action property that a passing run checks is a theorem
(the type invariants under the names `...TypesHold`, `AutoTypes`, `TypeCorrect`), and
so is the refinement. All theorems are about `Spec` for every value of the constants: any
sets, finite or not, of profiles, calls, samples, connections, rules, users, equipment,
callers; any finite set of ports; counters of any width, the wide ones at least one bit
wider. They rest on the named assumptions of the modules, which TLC evaluates
in the runs of their part:

- `PlannerAssumption`, `CommandAssumption`: node numbers are positive, the initial
  policies and the edits are well typed, the bounds are naturals, `NULL` is none
  of the values it stands in for. `AutoAssumption`, `CountersAssumption`: the same.
- `InheritedAssumption`: the pairs an earlier process left active are where the planner
  puts them: the nodes it may use, taken two by two from the first on (`Places`). Only
  `PairsWhole` needs it, and the property is false without: of four usable nodes, an
  active pair on the second and third makes the planner plan the first and the fourth,
  and an ACTIVATE then leaves one pair inside the other.
- `SessionAssumption`, `AlarmAssumption`, `OccurrenceAssumption`: sentinels are no
  members, bounds are naturals, the number of severities and the counter widths are positive, and
  the wide counter has more than twice the values of the narrow one (2^64 and 2^32).
- `InventoryAssumption`: a port belongs to one asset, a matching connector is a
  device port, the interfaces of a device differ in `ifIndex`, there are finitely many
  ports; and `Starts` is in order, for an inventory that begins with one end of a cable,
  or a port paired with itself, keeps it.

| Theorem | Module | Argument |
|---|---|---|
| `TypeCorrect` | `MitigationCommandProofs` | `TypeInv` is inductive; one lemma per group of actions. The only non-trivial part is that what `CHOOSE` picks in `SelectNodePair` and `ResolveActivePair` is a pair |
| `ExclusionGate` | `MitigationCommandProofs` | `ExclusionInv` adds what the locals mean: while "excluded" is still in `seen[c].shut` the row is excluded, hence from `LoadProfile` to the gate `excl` is TRUE, and past the gate such a call does not exist |
| `SnapshotRequired` | `MitigationWriteProofs` | the preflight has seen a snapshot; only a restart takes it away, and it takes the call too |
| `ClearedNodes` | `MitigationWriteProofs` | the preflight establishes it; every other step on the policy adds the nodes it changes to `touched` (`Spared`) |
| `ReadBackProves` | `MitigationWriteProofs` | `VerifiedInv`: a verified live ACTIVATE has its pair present, a verified live REMOVE each node absent or in `unseen`, unless `calm` is gone; for an answer, cut or not, shows no node that is not there |
| `PlansFit` | `MitigationWriteProofs` | `PlanInv`: runtime rows, the frames of ACTIVATE calls, and by `SelectNodePairFits` every new plan |
| `RemoveWorks` | `MitigationWriteProofs` | `Found`: an undisturbed REMOVE is live and works on the device's only pair, that pair is absent at the read-back and the outcome VERIFIED at the record; it is refused only where there is none |
| `PairsWhole` | `MitigationWriteProofs` | `PlaceInv`: every pair on a policy, in a stored plan and in the hands of a call is one of `Places`, and those have no node in common (`PlacesApart`); so two commands work on the same pair or on disjoint ones |
| `ContractKept` | `MitigationCommandProofs` | step simulation: `Init` maps to the contract's, each step to a step or a stutter, each fault to one of the contract's (`Tries`). `TypeInv` types what is shown; the steps named `Deciding` cover the awaits before the write, `GoesOn` and the lemma `WriteOutcomes` those from it, `ContractScan` and `ContractAround` everybody else |
| `AutoTypes` | `MitigationAutoProofs` | inductive with what the awaits know: an evaluation has its target and its counters |
| `OneWrite` | `MitigationAutoProofs` | `AnsweredKnown`: while `spent` is "known" the counters keep their start and the command service knows that id, so the answer comes from memory; counters without a start are `adopted` |
| `CountsAreEarned` | `MitigationAutoProofs` | `Forward`: ranks of samples only grow from row to counters to the latest; `Earned`: the samples counted lie in `0..last`, the counter is at most twice their number and less when the last is among them |
| `SessionTypesHold`, `ReadyNamesAStream`, `OnWireIsActive`, `ClosePlansNothing` | `HuaweiSessionProofs` | one invariant, `TypeOK /\ SessionOK`; see below |
| `AlarmTypesHold`, `SuppressedStaysClosed` | `AlarmEngineProofs` | one invariant, `AlarmInv` |
| `OccurrenceTypesHold`, `LateDeltaIsOne`, `OlderIsQuiet` | `OperationalOccurrenceProofs` | one invariant, `OccInv` |
| `TotalsCount` | `OperationalOccurrenceProofs` | `CountInv`: the stored sample is what the counter showed a known number of events ago, and the totals are what was booked of them; see below |
| `InventoryTypesHold`, `CablesHold`, `PassagesHold`, `UnitsAreShared`, `OnlyARaceSticksOut` | `PhysicalInventoryProofs` | one invariant, `PhysInv` |
| `RemovalsSpare`, `SyncSpares` | `PhysicalInventoryProofs` | action properties, from the part `LooksOK` of `PhysInv` |
| `TracesEnd` | `PhysicalInventoryProofs` | `seen` has a port more after every round that is not the last, and there are finitely many |
| `LoopsReal`, `TracesComeBack` | `PhysicalInventoryProofs` | a loop invariant of the rounds (`Behind`, `Within`) gives the shape of a finished trace (`Path`) |

The mitigation proofs share lemmas that say once what each action leaves alone:
`Resume` and `Return` change one frame (`ResumedFrame`, `ReturnedFrame`); a step of
somebody else leaves a running call's frame as it is and its policy too, or notes
the change in `seen` (`Spared`). This is why the invariants look at one call only
although calls interfere.

### The inductive invariants of the other parts

None of the properties below is inductive. What each lacked was found with TLC,
which also checked the whole invariant as an INVARIANT of the run of its part (but for the
loop invariant of the traces, which is about the rounds and no state).

*Session.* `ReadyHasStream` says that READY comes with a stream and no attempt, but the
event that makes a session READY is the answer of a shell that was asked for earlier,
and old shells answer too. `DialIsKnown` ties a shell still to be opened to the
attempt that asked for it; `InitialHasStream` and `RunsOnStream` say that the first
command, and whatever runs, has a stream; `WrittenIsActive` then survives a
loss because what ends a command (the step `Finishes`) empties the session of what ran on it.

*Alarms.* `ClosedStaysClosed` speaks of the moment a row is created. `ReadsOK` carries
what was read to it: a rule whose open alarms were read as none has none until its
turn, because only its own turn opens one; and when no suppression was read
either, the suppressions that came into force since found nothing to close
(`Spared`). The order of the two reads is what makes the second part hold.
`TurnOK` and `RequestsOK` say that an evaluation and a request work on rows that
exist and are of their rule. That an evaluation or a request finds the oldest of
a set of rows needs a least element, which the library's well-founded sets give.

*Occurrences.* `OlderOpenIsQuiet` needs that a delta is booked on the last episode, or
on a new one after that is over, although acknowledgements and housekeeping of
other polls close episodes between the read and the write: `TargetOK`. `LateOK`:
an episode in force (`InForce`: open and not acknowledged) has taken no late delta, one that
is no more is never in force again, and a poll that already holds a delta for it is alone. `WalkOK`: what a poll carries at each await.

*Physical inventory.* `RowsOK` (an interface has one port, a port has its
equipment), `CablesJoinTwoPorts` and `PassagesAreMutual` keep each other: a port
is deleted with its cable, and the other end is freed with it. `PlacementsDisjoint`
needs `PlacementsOK`: of the placements that have passed their trigger only one is
uncommitted (the advisory lock), and nothing that commits meanwhile can overlap it.
`RaceOK` is the same for the height of the rack, where it holds only while no resize
and placement overlapped (`raced`). `JobsOK` says what a request may ask; `LooksOK` what it
still knows at the write: `SeenBy` of ports to remove, `PlanOK` and `MapsFree`
of the plan of a sync: a port that stands and that it maps had no interface when the
sync looked, or this one, and is in `since` if that has changed.

*Pairs.* `PairsStayWhole` speaks of whole policies, and one would expect an invariant about
every two concurrent commands. `PlaceInv` speaks of each alone: whoever plans
takes the first two free nodes in a policy whose pairs are whole and in place, and these
are again a place (`PlansInPlace`); what is committed on it keeps the policy in order
(`CommittedInPlace`). A write of one place adds or
removes all of it and touches no other, whatever the commands know of each other.

*Totals.* `Tracks` relates a sample to the counter `n` events ago, modulo its width. As
long as fewer than a quarter of the width happen between two samples, the delta is
then `n`, wrapped or not (the step `Exact`); after a reboot it is at most what the new counter
shows. A sample discarded with a failed poll or a restart leaves its events due, and the
next delta has them; what a poll holds at its write is due to nobody else.
The sum over the episodes is a recursive function: `SumsOf` names the sequence of its
partial sums, which an update of one row shifts from that row on.

*Traces.* `Traced` takes the loop invariant through the rounds. `Behind`: all the walk has
seen but its end has been left by cable and by passage, and both lead to what it has
seen. Hence a port seen twice can only be the start or the end, and a finished walk
is a path with two ends or a ring (`Path`). `Within` says that a walk
stays in any set that cable and passage do not leave; applied to the ports of a trace
and to the walk that comes from its end it gives the way back.

### Only model-checked

- `TriggerActs`, `CommandsEnd`, `FailureIsRetried`, `RecoveryCloses`, `RecoveryLifts`,
  `OverIsClosed`: liveness under fairness, which the prover does not do.
- The runs that expect a violation, which are counterexamples.

Induction is no obstacle where it is over numbers and sets: the induction theorems of
the library take an operator as a parameter, which the provers here cannot instantiate, so
`NaturalSets` restates them with a set in its place, from the well-foundedness of
finite subsets.

## 5. Not modelled, and what is left

- `AlarmService` (INTERFACE_DOWN): the same check-then-create as the metric
  alarms, on transitions; a candidate for a module beside `AlarmEngine`.
- Topology preview and apply: `apply` re-validates a preview against a map that
  may have changed; a candidate for a module.
- The text of commands and configurations, prompts, thresholds, rates, peaks: data,
  abstracted to what is decided from it.
- The collectors (BGP, MPLS and VPLS, PPP, optics, media, LLDP): parsing of what a
  device sends into rows, with no protocol of their own.
- Authentication, maps, hosts, the static physical catalogue, the in-memory
  repositories of the demo mode: short handlers over one row, or static data.
- Mitigation events, the webhook, the alert center: written and shown, never read to
  decide.
- Frontend, renderer, shared packages, MCP tool, deployment, MIBs: presentation,
  clients, data.

## 6. Running

    tlc -workers 2 -config MCMitigationCommand.cfg MCMitigationCommand
    tlc -workers 2 -config MCMitigationAuto.cfg MCMitigationAuto
    tlc -workers 2 -config MCHuaweiSession.cfg MCHuaweiSession
    tlc -workers 2 -config MCAlarmEngine.cfg MCAlarmEngine
    tlc -workers 2 -config MCOccurrences.cfg MCOperationalOccurrence
    tlc -workers 2 -config MCPhysicalInventory.cfg MCPhysicalInventory
    tlapm MitigationCommandProofs.tla

The violation runs use `MCOutOfScope.cfg`, `MCRemovalUnverified.cfg`, `MCAutoDowngrade.cfg`,
`MCSessionHang.cfg`, `MCLateDelta.cfg` and `MCRackShrink.cfg` with the MC module of the same
part; the proof modules are the seven `*Proofs.tla` and `NaturalSets.tla`.
