# A TLA+ model of the external-config operator

The operator composes configuration files from HTTP endpoints ("configuration
stores") and keeps them in ConfigMaps and Secrets, as `ConfigMapClaim` and
`SecretClaim` resources ask. It runs as a Deployment; a coordination Lease is to
make sure that only one pod works at a time. This directory holds TLA+ modules
of the parts of the operator whose correctness does not show in a unit test, the
TLC configurations that check them, and TLAPS proofs about the leader election,
the claims, the operator made of both, the scheduling, the composition of files
and the splitting of keys.

Paths below are relative to `src/src/` unless they start otherwise.

## 1. Inventory

| Part | Code | State | Operations | Correct when |
|---|---|---|---|---|
| leader election | `controller/leader_election`, `contract/clients.rs` | the Lease; the copy a pod read; the cancellation token | claim loop (get pod, create, read, judge, delete), refresh loop (read, replace), cancel | two elected pods never run controllers together unless something known went wrong; a holder is never overwritten; somebody takes over |
| start-up, shutdown | `main.rs`, `controller/utils/signals.rs`, `controller/v1alpha1/controller.rs` | where `main` stands | start, gate, query of the CRDs, run, drain | a signal before the gate prevents the start, a signal ends the process |
| claim reconciler | `controller/controller.rs`, `contract/ireconcilable.rs` | reflector store and queue of kube-runtime, finalizer on the claim | finalizer, reconcile, cleanup, error policy | no write for a claim that is gone; every claim is eventually served |
| configuration discoverer | `controller/v1alpha1/configuration_discoverer.rs`, `crd/claim.rs` | the target and its field managers | read, compose, compare, apply or create | the target follows claim and stores, foreign data survives, one claim owns a target |
| composition of a file | the same, `controller/utils/file_format.rs` | answers so far, merged object | merge, fallback, convert | merge and fallback honour the order of the references |
| key-value parsers | `controller/utils/parsers/*.rs` | the object under construction | split a key, insert a pair, flatten | the outcome does not depend on a hash order; no input ends the process |
| stores | `controller/config_store`, `crd/configuration_store.rs`, `v1alpha1/crd_client.rs` | the store resources | read the resource, one GET with merged parameters | an error answer is no configuration; a failed call is one reference without an answer |
| refresh interval | `controller/utils/crd.rs` | none | parse, to seconds | every claim is reconciled again and again, and none is hammered |
| metrics | `observability/metrics.rs` | counters and a histogram | count, measure, count a failure | every run is measured and every failure counted once |
| wiring, exporters, CRD generation, chart, tests | the rest | immutable | | not modelled |

How they interact. `main` claims leadership, spawns the refresh loop and passes
the gate to two controllers (one per claim kind). Nothing connects the refresh
loop to the controllers: it ends on the first failed call and the controllers go
on. Within a process the reconciliations of different claims interleave at every
await; between processes everything does. The API server serialises the calls;
the garbage collector follows owner references (target to claim, lease to pod).
Stores answer independently of all that.

What is hard here: stale reads followed by a write or a delete, calls whose
outcome is unknown, crashes between two calls, signals at any moment, field
ownership of server-side apply, and parsers that work in the order of a HashMap.
`PROJECT.json` lists each hazard at its line with the properties aimed at it.

## 2. Plan

| Order | Module | State |
|---|---|---|
| 1 | `LeaderElection`, its abstract lock `LeaderLock`, proofs `LeaderElection_proofs` | done |
| 2 | `Claims`: reconciler, target, finalizer, garbage collection; `Claims_proofs` | done, its ownership and finalizer proved |
| 3 | `Trees`, `MergeJson`: objects and their merging; `Compose`: the strategies; `Compose_proofs` for both | done, its safety proved |
| 4 | `KeyValues`: pairs inserted and flattened; `KeySplit`: keys split and joined; `KeyValues_proofs`, `KeySplit_proofs` | done, all of it proved |
| 5 | `Operator`: several pods that reconcile as leader election lets them, on the lock `LeaderLock` and the reconcilers of `Claims`; `Operator_proofs` | done, its safety proved |
| 6 | `Schedule`: refresh intervals, requeues, watch, restarts, metrics; `Schedule_proofs` | done, its safety proved |
| 7 | `DataLemmas`: induction, sums, flattening and prefixes, for the proofs of 3, 4 and 6 | done |
| 8 | `TargetMirror`: what the operator promises of the files of a target, implemented by `Operator` | done, the refinement proved |
| 9 | the case transforms of the flattener | open |

## 3. Modules and how they correspond to the code

**`LeaderElection`.** `pc[p]` is where `main` of pod `p` stands, one value per
await of `try_create_lease_for_current_pod` (`getPod`, `create`, `getLease`,
`delete`), `decide` for the judgement between two awaits, `sleep` for the
blocking sleep, then `gate`, `starting` (the CRD query), `running`, `draining`.
`refresh[p]` is the spawned loop: `tick`, `replace`, `ended`. `seen[p]` is the
copy of the lease that a pod holds between two calls. A resourceVersion is
modelled by what it is good for: `current` is the set of pods whose copy still
has the stored version, and a replace succeeds exactly for those. The claim loop
and the refresh loop never hold a copy at the same time, so one `seen` per pod
is enough. Time is counted in periods of ten seconds; a lease carries its age
since `renewTime`, `NeverRenewed` when that is `None`. Calls fail before or
after they took effect. `cause` is a history variable: it records the first of
five events after which two leaders are possible.

**`LeaderLock`** is what the election promises: an owner, the set of pods at
work, and nobody at work but the owner until the lock is `broken`.
`LeaderElection!Lock` is the refinement mapping.

**`Claims`.** `claim` are the claim objects with their finalizer, `cache` the
reflector store, `due` the scheduler of kube-runtime and `work` the one
reconciliation per process and claim that may be under way. The target is a set
of fields (data keys and owner references) with a value and its managers:
`post` is the manager of the POST that creates it, `apply` the manager
`configmap-claim-controller`, `user` anybody else. `Applied` is forced
server-side apply, `Valid` the rule that an object has one controller reference.
Controllers of ConfigMaps and Secrets have the same code; the module models one
of them. kube-runtime, the API server, the garbage collector and the users are
external and modelled from how the code relies on them.

**`Operator`** puts the two together. `owner`, `working` and `broken` are the
abstract lock, which `LeaderElection` is proved to implement; a pod in `working`
runs the reconcilers of `Claims`, instantiated, so that what the election is for
shows in the target. `Begin` is the gate of `main` and the first list of the
watch, `End` the end of the process with all it had under way. `Break` stands for
the causes of split brain: from then on a pod may begin while another is at work.

**`Schedule`.** The controller of one kind of claims with time in seconds.
`phase` is the query before the controllers, the first list, the watch, and the
list after a lost watch; `timer` the scheduler of kube-runtime, which keeps the
earlier of two times; `run` the copy that a reconciliation works on. `claim` is
what the API server stores: the schema of the interval is any string, so it may
be `Garbled`, or more than a `chrono::Duration` holds, which panics. A list with
a garbled claim fails as a whole, while a watch event with one is skipped.
`events` are those the open watch has yet to deliver. Each carries its claim, that
of a deletion the claim as it was: the deletion of a garbled claim is skipped too,
and its cached copy is reconciled on until the next list.
`measurers`, `failures` are the metrics; `failed` and `burst` are history. A
reconciliation succeeds or fails as a whole here; what it does is in `Claims`.

**`Compose`.** One run of `compose_file`, for one reference after the other:
`ReadStore` reads the store resource, `Send` builds the request (parameters of
the reference over those of the store, a malformed header panics), `Receive`
takes the answer; then the answers are merged or the first is taken, and the
result is converted. Resources and servers say anything at any time, which
includes that they change between two requests. A text is modelled by what each
of the six parsers makes of it, `ParserOrder` is the chain; three of the parsers
may panic. The one conversion that can fail on an object is to TOML, which has no
null. Two conversions, to `.env` and `.properties`, make a file of key-value pairs
(`Conversions`): `Entries` says which keys a leaf has there, several for a list, and
the same ones for several leaves where names meet once they are joined or written in
capitals. `insert` then keeps one of the leaves. Which one follows from the order of
the names in the code; the model lets it be any of them (`Flattened`), so that
nothing it shows depends on that order. `NoReply` stands for every failed call.

**`Trees`** says what a JSON object is here: the function from its paths to what
is found there, a leaf or an object with paths below. Arrays are leaves, as
`merge_json` replaces them. `Merged` is the outcome of `merge_json` in one step.
**`MergeJson`** is `merge_json` call by call: `todo` holds the keys of the source
that the loop and its nested calls have yet to visit, `Recurse` is the arm with
two objects, `Insert` the other one. That it ends with `Merged` is what allows
`Compose` to merge in one step.

**`KeyValues`.** A pair is a sequence of parts and a value; two pairs may have the
same parts, since the case transforms make keys equal. An object is again the
function from its paths to what is there, but arrays are entered: a step of a path
is a name or a position. `Place` says where `insert_into_map` puts the value of a
key: the array of a number sits under the name of the parent *inside* the parent's
own object, so that `a.0.b` is put at `a`, `a`, 0, `b`. `Obstacles` are the steps on
the way where something else is found than what has to be entered; `PanicAt`,
`Drop` and `Put` are the three ways an insertion ends, by a panic in or above an
array, by dropping the pair in `handle_string_part`, or by `Written`: the value
replaces whatever is there (`Kept`), what is entered is created (`Entered`), and a
list that is too short is filled up (`Padding`, `Fill`) as by the two calls of
`resize`. `Next` is the loop over the HashMap, in any order. `Flatten` is
`flatten_json`. All values of pairs are strings: it writes numbers, booleans, null and
inner arrays as text (`AsText`, which is `map_value_to_string`), and the parser makes
strings of everything it inserts. `ParsesBack` therefore does not say that an object
comes back as it was; its structure and its strings do, while every other leaf is a
string afterwards.

**`KeySplit`.** The loop of `split_with_escape`, one character per step, and the
way the flattener writes names (`Written`) and joins them: `Join` puts the written
names and their dividers one after the other.

**`TargetMirror`** is what a user of the operator sees: where each claim stands in
its life, the latest content of each store, whether the target exists and what it
has for each file. Claims come and go, stores get newer contents, users edit files
and remove the target. Beside that only a step `Mirror(c)` changes it, in which the
claim `c` exists, the target exists afterwards, and every file stays, is dropped
unless a user has edited it, or gets a content its store serves or has served - no
older than what it had, while one claim alone names the target. When the lock
breaks, the claim need no longer exist and contents may be older; nothing else
changes. `Operator!Mirror` is the refinement mapping.

`MC*` modules hold model values, symmetry sets and small inputs.

## 4. Runs

| Run | Shows | Bounds |
|---|---|---|
| `election_safety` | `Inv` (with the types), `SplitBrainHasCause`, `HolderNeverOverwritten`, `RenewsOwnLease`, `ImplementsLock` | 3 pods, one fault, a lease expires after one period |
| `election_takeover` | `Takeover` under fairness | 2 pods, two faults |
| `election_granted`, `election_signalend` | two violations, section 5 | 2 pods, one fault |
| `claims_shared` | `TypeOK`, `OwnedByOne`, `Inv`, `WritesForExistingClaims`, `ForeignKeysKept` | 2 claims, 2 files, 1 process, one change, one fault |
| `operator_pods` | `Inv` (with the types), `WritesForExistingClaims`, `FilesGoForward`, `ImplementsMirror`; `Converges`, `Collected` under fairness | 2 pods, 1 claim, 1 file, one change, two faults (ended pods, failed calls, the broken lock) |
| `claims_mirrors` | a violation, section 5 | 1 claim, 2 files |
| `compose_files` | `TypeOK`, `Inv`, `MergeTakesLatest`, `MergeIsComplete`, `FallbackTakesFirst`, `PanicHasCause`, `ErrorTextsKeptOut` | up to 3 references, 4 store resources, 8 objects of two levels with a list and two names that are one in capitals, 6 texts that parsers disagree on or panic at, 6 extensions, of which 2 are key-value formats |
| `merge_objects` | `MergeInv`, `MergesAll` | every two objects of at most 4 paths of up to 3 keys |
| `keyvalues_pairs` | `Inv` (with the types), `PanicNeedsConflict`, `OrderIrrelevant`, `ShorterKeyWins`, `ParsesBack` | up to 3 of about 40 pairs: keys of up to 5 parts, numbers up to 2, one of them written in two ways, some keys with two values; trees of three levels with arrays, a string and a leaf that is none |
| `keysplit_keys` | `Inv`, `PartsMakeKey`, `NamesReadBack` | keys up to 6 characters; up to 3 names of up to 3 characters |
| `schedule_intervals` | `Inv` (with the types), `OneRunPerSecond`, `MetricsAddUp`; `Served` under fairness | 2 claims of one name, intervals of 0.5, 1.999 and 60.001 s of which the last is too long, none and a garbled one, two changes, two faults |

Why the bounds are enough to be interesting. A split brain takes two pods; the
delete that hits a newer lease takes a third one that created it. One fault
gives the outage of a refresh loop, a node, or a process; two give a fault while
a takeover runs. `MaxFaults` counts failed calls, signals, kills, lost nodes and
periods in which a live loop did not get to renew (`Overdue`); without that last
rule a pod could be made slow for free and every run would be an expiry.
Expiring after one period instead of twelve keeps the order of events, as all
that matters is whether a renewal came in time. `MaxChanges` counts edits by
users and stores. In the claims module, two claims on one target, or two
processes on one claim, are the smallest contention; three changes add nothing
that repeats not. The parsers look at one key and what earlier keys left, so a
third key already meets every state that two can leave. Two objects of three
levels meet in every way that merging distinguishes, one level below the other. In `Operator`, two faults
give an ended pod whose successor meets a failed call, or a broken lock and two
pods at work. The delays of `Schedule` are a few seconds instead of minutes: what
matters is which of two times is earlier. Two changes give a claim that becomes
unreadable and readable again.

Deadlock is not checked for `Claims`, `Operator`, `Compose`, `MergeJson`,
`KeyValues` and `KeySplit`: claims that are gone, a composed file, a merged object,
a parsed configuration or a split key leave nothing to do.

Fairness. In `LeaderElection!FairSpec` the executor polls the tasks (weak
fairness of `Main` and `Refresher`), time passes, the control plane reaps what is
gone. `CancelClaim` has strong fairness: the claim is not enabled to be cancelled
during the blocking sleep, but each round of the loop awaits calls with the
token ready, and `tokio::select!` picks branches at random. Nothing forces a
SIGKILL, a fault or a signal. In `Claims!FairSpec` watch events arrive, tasks and
timers run, garbage is collected; no user and no store is obliged to do anything. `Operator!FairSpec` asks the same
of the pods at work only, and that a pod without controllers gets the lock and
begins, which is what `Takeover` says of the election; `Begin` has strong
fairness, since the owner may lose the lock again before it has begun. In
`Schedule!FairSpec` the kubelet restarts the process, calls return, events
arrive, time passes. A success is not promised anywhere: a reconciliation may
fail as long as there are faults.

Symmetry is used for safety runs only.

Each property of a passing run has a mutant in `PROJECT.json`: a small bug in a
definition of the code under which TLC finds that property violated. The bugs
are operators of their own, named and commented as such where they stand.

## 5. What the model says against the source

* **A leader without a lease** (`GrantedHoldsLease`). A pod that restarts and
  finds its own expired lease deletes it, compares the holder on its old copy and
  is granted leadership; its refresh loop ends at the first read.
* **A signal that does not end the process** (`SignalEndsProcess`). SIGTERM
  during the query of the CRDs is consumed by the notify task; the Controllers
  register their handlers later and never see it. The property asks about signals
  that come once the controllers start, and in the trace the signal comes then. One
  that comes before the gate may be lost too, by the select below, which no run states.
* **Files stay in the target** (`Mirrors`). A target is created by POST and
  updated by apply under another manager. A file dropped from the claim keeps its
  POST manager and stays; since the data then always differs from what is
  desired, every reconciliation applies again.
* **Parsers panic.** A text that only the properties parser accepts and whose key
  starts with a number, such as the line `404 not found`, or whose lists mix values
  and objects, panics (`key_value_to_json.rs:16`), although "Each parser tries to
  parse the content until one succeeds" (`text_to_json.rs:80`). No run of its own
  refutes that sentence: `PanicNeedsConflict` and `PanicHasCause` say exactly when it
  fails. Reconciliations run inside the task of `main`, so the panic ends the
  operator, and the claim is still there after the restart.

* **When the order of a HashMap matters.** The parser's result depends on it in two
  cases beside keys that conflict. Equal places may get different values, and a place
  may be written in several ways, as `a.0` and `a.00` are one element; `Conflict` and
  `OneValue` therefore speak of places, not of keys. And a list that holds both values
  and objects, such as of the keys `a.1` and `a.2.b`, has null or an empty object at
  the positions that no key names, as `resize` fills it up with either; `EvenLists`
  excludes that, and it is why `OrderIrrelevant` needs it.

Observed while reading, without a run: the interval in `main` ticks at once, so
the wait of 100 ms does not happen and a cancelled token may lose the select
(`main.rs:77`; the model has it, as the cause `cancelledStart`); fallback writes JSON whatever extension
the file has (`configuration_discoverer.rs:118`); `creationPolicy` is declared
and never read; `Secret` data is base64-encoded by the operator and once more by
the serialisation (`crd/claim.rs:270`); `ENABLE_LEADER_ELECTION` is never
consulted, the two `KUBERNETES_*` variables decide; the delete of an expired lease
has no precondition and may remove the fresh one of another pod (`clients.rs:157`;
a cause of split brain in the model); a vault store answers the fixed text `Vault
config`, which only the properties parser takes (`vault_store.rs:31`); a YAML key
that is null or a list cannot become a JSON key, and `unwrap` turns that failure
into a panic (`text_to_json.rs:73`; `PanicHasCause` has it as one of three parsers
that panic); the
success of a reconciliation is recorded as an event before the target is written
(`crd/claim.rs:135`); the body of a redirect that is not followed, or of any
status that is neither an error nor a success, is taken as configuration
(`http_store.rs:79`). One claim with a garbled interval makes the query before
the controllers exit the process with a hint at a missing CRD
(`controller.rs:85`), one with an interval beyond what chrono holds panics wherever it
is read. No property forbids either, as the code does it. `Served` says what is left:
while a watch lasts the readable claims are served beside a garbled one, and when no
claim is malformed all of them are; its third disjunct is a claim that is malformed
for good while the watch stays closed.

## 6. Proofs

`LeaderElection_proofs` proves, for every set of pods, every expiry time and
every number of faults:

| Theorem | Statement |
|---|---|
| `TypeCorrect` | `Spec => []TypeOK` |
| `Invariant` | `Spec => []Inv` |
| `SplitBrain` | `Spec => []SplitBrainHasCause` |
| `HolderKept` | `Spec => HolderNeverOverwritten` |
| `RenewalsOwn` | `Spec => RenewsOwnLease` |
| `LockImplemented` | `Spec => ImplementsLock` |

The assumptions are the four named ones of the module: the enabled pods are pods,
the two bounds are naturals, and the value for "no lease" is not a lease.

`SplitBrainHasCause` is not inductive: that two pods do not run together says
nothing of the lease they would both need. `Inv` adds what does. *LeaseGuarded*:
until the first cause, a pod with a refresh loop, live or ended, is the holder of
the stored, unexpired lease. *LeadersRefresh*: an elected pod with controllers
has such a loop. Together they make the leader unique, as a lease has one holder.
To keep them, a write must not hurt: *CopiesFollowLease* says that a copy with
the stored version names the stored holder, so a replace does not change it;
*OldCopiesLost* says that a claim working on an outdated copy does not hold the
lease now, so a grant on such a copy is a cause. *Phases* restricts `pc`. Each step lemma has
one step per action. The refinement follows from the invariant before and after
a step.

`Schedule_proofs` proves, for every set of claims, all intervals and delays and
every number of changes and faults:

| Theorem | Statement |
|---|---|
| `Invariant` | `Spec => []Inv` |
| `TypeCorrect` | `Spec => []TypeOK` |
| `RunsKeepDistance` | `Spec => []OneRunPerSecond` |
| `MetricsAgree` | `Spec => []MetricsAddUp` |

It assumes that there are finitely many claims, that intervals are naturals,
that the two fixed delays are not zero, and that the value for "no claim" is no
interval. `OneRunPerSecond` counts runs and says nothing of what may begin one.
`Inv` adds it to the types (`Spaced`): after a run, unless the interval is below a second, no
timer is at zero, and a run under way works on the copy in the cache, so that the
delay it will return is not zero. For that delay to be a number, copies must be
readable (`Readable`), since only readable claims get past the list and the watch.
The measurers equal the runs under way, which bounds them. The types
and the rest of `Inv` need each other and are proved together; `HeldStep`, `CountedStep`,
`MeasurersStep` and `SpacedStep` each keep a part of them. `MetricsAddUp` equates
two sums, over the failure series of a name and over the claims of that name; one
failed run adds one to one term on each side, which is `SumGrows` of `DataLemmas`.

`Claims_proofs` proves, for every set of files and claims and every number of
changes and faults:

| Theorem | Statement |
|---|---|
| `BasisKept` | `Spec => []Basis`: types, rested tasks and one owner together |
| `TypeCorrect` | `Spec => []TypeOK` |
| `OneOwner` | `Spec => []OwnedByOne`, for any number of processes |
| `ForeignKeys` | `Spec => ForeignKeysKept`, for any number of processes |
| `Invariant` | `Spec => []Inv`, for one process |
| `NoLateWrites` | `Spec => WritesForExistingClaims`, for one process |

It assumes that there are finitely many claims, that claims and files are
different things, and that the value for "no target" is no target. The theorems
for one process say so by the hypothesis `\A p, q \in Procs : p = q`; with two,
`NoLateWrites` is false, since a second process removes the finalizer under the
first. `OwnedByOne` is kept by every write because the manifest of a claim names
that claim alone and the object it would be merged with is valid only with one
owner; `ManifestType`, `AppliedType` and `WrittenType` say so of the operators.
`WritesForExistingClaims` needs to know why the claim is still there when the
write comes, several steps after the copy of it was read. `Inv` adds it
(`Guarded`): while a task fetches or composes, or a copy in the cache would make
it start, the finalizer is on the claim; a task that cleans up works for a claim
that is leaving, and no live copy of it is in the cache. The finalizer is then
only taken off by the one task that could have written.

`Operator_proofs` proves, for every set of pods, files and claims, and any number of
take-overs, ended pods, changes and faults:

| Theorem | Statement |
|---|---|
| `TypeCorrect` | `Spec => []TypeOK` |
| `Invariant` | `Spec => []Inv` |
| `NoLateWrites` | `Spec => WritesForExistingClaims` |
| `NothingGoesBack` | `Spec => FilesGoForward`, for one claim |
| `MirrorImplemented` | `Spec => ImplementsMirror` |

It cites lemmas of `Claims_proofs` and assumes, besides what they assume, that the
bounds are naturals and that the value for "nobody" is no pod. `Inv` says: a pod
that is not at work has no task under way (*Resting*); what a task has fetched and
what the target holds is no newer than what the stores say (*Fetched*, *Served*);
only claims that exist have the finalizer (*Finalizers*), and content that a user
edited is managed by the user alone (*UserEdits*);
and until the lock breaks, whoever works owns the lock and guards its claims as a
single process does (*Locked*), and the target of the only claim holds nothing
newer than what a task has fetched (*Fresh*). The last part is what a second pod
would break and what the lock keeps: only the task that fetched can have written
since. The hypothesis of `NothingGoesBack` is needed: with two claims on one target
TLC shows the first fetch the old content, the second take the target over with the
new one, and the first take it back with the old.

The refinement has one case per action. A write is a step `Mirror` of its claim
(`WriteMirrors`): the claim exists by *Locked*, composed files are contents of their
stores by *Fetched* and no older by *Fresh*, a file that is left out keeps its
content or is dropped, and by *UserEdits* what is dropped was not edited, since
server-side apply leaves the fields of other managers alone. A claim vanishes when
its finalizer is removed or when it is deleted without one; that it existed until
then is *Finalizers*. Everything the pods do among themselves does not show.

`Compose_proofs` proves, for all resources, replies, texts and parameters, any
number of references and objects of any depth:

| Theorem | Statement |
|---|---|
| `TypeCorrect` | `Spec => []TypeOK` (what is merged is well-formed at every moment) |
| `Invariant` | `Spec => []Inv` |
| `TakesLatest` | `Spec => []MergeTakesLatest` |
| `Complete` | `Spec => []MergeIsComplete` |
| `TakesFirst` | `Spec => []FallbackTakesFirst` |
| `Panicking` | `Spec => []PanicHasCause` |
| `NoErrorTexts` | `Spec => ErrorTextsKeptOut` |

It assumes of the parsers that what they return is a well-formed object and that
only three of them may panic (`TextsAssumption`; the others return an error or an
object in `text_to_json.rs`), and that the values for "nothing" are none of the
others. The properties speak of a finished file; `Inv` says the same of one under
way: the leaves of `merged` are those of the answers so far that survive
(`MergedSoFar`), and a fallback that goes on has had no configuration
(`NoneSoFar`). `LeavesMerged` and `SurvivingAnother` show that one more answer does
the same to both; `ConvertedLatest` that, whatever format the object is then written
in, the file has of its leaves what `MergeTakesLatest` asks for. Of `Entries` nothing
is assumed: leaves may have any keys and share them in any way.

`Compose_proofs` also proves, for all objects of any depth, what `Compose` takes for
granted of `merge_json`:

| Theorem | Statement |
|---|---|
| `MergeTypes` | `MergeSpec => []MergeTypeOK` |
| `MergeInvariant` | `MergeSpec => []MergeInv` |
| `MergesObjects` | `MergeSpec => []MergesAll` |

That the target is merged at the end is not inductive. `MergeInv` says, beside the
types, what it is before: at or below a key that is yet to be visited it is the
original target, everywhere else it is `Merged`. For a step to keep that, the keys to
visit must not lie below each other, and what is above them must be an object on both
sides (`Visits`). The lemmas `Order`, `KeysBelow` and `KeysOnTheWay` reduce the rest
to an order of paths in which what is above a path is a chain. `ObjectsAssumption`
says that objects are well-formed: whatever has paths below it is an object.

`KeyValues_proofs` proves, for any number of pairs, keys of any length, numbers of any
size and trees of any depth:

| Theorem | Statement |
|---|---|
| `Invariant` | `Spec => []Inv` (with the types) |
| `PanicsOnConflicts` | `Spec => []PanicNeedsConflict` |
| `OrderDoesNotMatter` | `Spec => []OrderIrrelevant` |
| `ShorterKeysWin` | `Spec => []ShorterKeyWins` |
| `FilesParseBack` | `Spec => []ParsesBack` |

It assumes that names are no numbers, that `Index` gives those that parse as one
their number, that an array and every leaf that is no string have a string for their
text, and that trees are well-formed. The properties compare the end of all orders, so the invariant must say
of each moment what does not depend on the order. `Inv`: without conflicts there has
been no panic; the paths of the object are those that a place inserted so far enters
or fills up, unless another such place cuts them off (`Reached`, `Uncut`); at a place
is its value (*ValuesIn*), above one an array or an object as its next step asks
(*PassedIn*), and anywhere else what some place has filled it up with (*PaddingIn*).
An insertion keeps that because whatever is in its way is a value of a shorter key
(`ObstacleIsKey`), which then drops the pair without harm (`DropSound`), and because a
value that replaces something leaves nothing of it (`PutSound`). At the end *PaddingIn*
still names some place; with even lists all of them fill up with the same. Of names
only there are no numbers, hence no conflict, and both flattening properties follow
from what is at the end (`OutcomeReached`). The lemmas about places rest on two facts
of `Place`: it starts with a name, and never has position after position.

`KeySplit_proofs` proves, for keys and names of any length:

| Theorem | Statement |
|---|---|
| `TypeCorrect` | `Spec => []TypeOK` |
| `PartsBack` | `Spec => []PartsMakeKey` |
| `Invariant` | `Spec => []Inv` |
| `NamesBack` | `Spec => []NamesReadBack` |

`Inv` has, beside the types, one part per property. `ReadIsTaken`: what has been read of the key is the
parts so far, written again and joined. `NamesTaken`: while a key that the
flattener made is read, the parts so far are the names so far, and the part under
way is the beginning of the next name. Names that begin with the separator are not
in `Names`: the flattener writes them so that the parser cannot tell them from a
divider.

`DataLemmas` holds what these proofs need of data. The provers cannot instantiate
the induction theorems of the library; its lemmas do induction over sets instead
(`Least`: every set of naturals has a least element; `Induct`: a set that has zero
and every successor has all naturals; `Smallest`: the same for finite sets). From
them follow that the recursive functions behind `FlattenSeq` and the sum over a
set exist and are unique, what an element more does to either, and how prefixes
are ordered. No module declares a recursive operator: what the code computes by
recursion is stated of its result, or walked through step by step.

Only model-checked: liveness (`Takeover`, `Converges`, `Collected`, `Served`), which
the prover does not do under fairness, and the three violations, `Mirrors` among
them. Every other property of a run is a theorem.

## 7. Not modelled

* The finalizer and the steps of a reconciliation in `Schedule`; timing in
  `Claims` and `Operator`, where a requeue is just due.
* The second controller of a process: both kinds of claims have the same code and
  share nothing but the process, whose end is in the models.
* The length of a list that a key may ask for, and the number of failure series:
  both are unbounded in the code.
* `apply_crd` and `apply_from_yaml`, the lists of `CrdClient`: for the tests only.
* A request of a crashed process that reaches the API server after the restart.
* Clock skew between pods: every pod sees the same age of a lease.
* Reuse of a pod name: a Deployment generates names.
* Which of the six parsers accepts a text, and the syntax of the formats.
* A reference list that is empty: `Compose` has it (nothing is inserted), while
  `Claims` takes every file of a claim to be composed.
* The counter of runs (`metrics.rs:95`), which is incremented once per run and read by
  nobody; `MetricsAddUp` is about the durations under way and the failures.
* The order in which leaves that share a key are written to a file of pairs, and the
  case transforms of its names: `Compose` takes any leaf, and any keys.
* Recorded events, tracing, the metrics server and exporters, the chart.
