# A TLA+ model of limanix

limanix keeps NixOS virtual machines on a Mac: it prepares their inputs on disk,
has Lima run them, provisions the guests over SSH and remembers what it did.
There is no daemon. Every command is a process of its own, several may run at
once, any may be killed, and each VM has one more long-lived process, the host
agent. What these processes know of each other is what is on disk, in Lima, and
in a few file locks. This directory models that protocol, and the pure rules
that decide what is written and asked for, checks them with TLC on small instances and proves,
with TLAPS, the safety of every part of the protocol for all of them.

Contents: [system](#1-the-system), [modules](#2-modules),
[runs](#3-runs), [proofs](#4-proofs), [limits](#5-what-is-not-covered),
[plan](#6-plan). All source paths are below `src/internal/`.

Run a configuration with `tlc -config MCLifecycle.cfg MCLifecycle`, check the
proofs with `tlapm LifecycleProofs.tla` and the other `*Proofs` modules. `PROJECT.json` maps every definition to
the lines it models and lists the runs, the mutants that show each property can
fail, the hazards, and the theorems.

## 1. The system

### Components that keep state

| component | state it keeps | operations | what makes it correct |
|---|---|---|---|
| VM manager (`vm`) | none of its own between commands; in memory, the identity, generation and options of the running command | Create, Update, Delete, Start, Stop, Shell, FetchAll | no VM, home or generation is lost or orphaned, whichever call fails or is cut short; "ready" is never a lie |
| state store (`state`) | per name `identity.json`, `instance.json`, `generations/<id>/`; per identity `homes/<name>-<id>.json` | Save, Load, LoadIdentity, Remove, PreserveHome, ForgetHome, FetchAll | the identity outlives everything it owns |
| state locks (`state/lock.go`) | `locks/instances/<name>.lock`, `locks/registry.lock` | exclusive or shared, without waiting or up to 30 s | commands exclude each other; nobody waits for ever |
| managed homes (`managedhome`) | `<home.root>/<name>-<id>` | Create, Remove | user data goes only when asked for |
| module registry (`modules`) | `modules/<name>`, hidden staging directories | Add, Remove, Available, Check, Sources with its lease | a name selects a complete import; a generation copies one version |
| generation inputs (`nixos`) | a generation directory, written once | Prepare | the inputs a VM mounts stay complete |
| Lima adapter (`lima`) | Lima's instance directory with `lima.yaml`; the network lock | Preflight, Create, Start, Stop, Edit, Delete, FetchAll, Run, Shell | only limanix instances are touched; network transitions do not overlap |
| guest provisioning (`guest`) | environment files, the rebuild unit and the system in the guest | Apply, Address, Shell | never reboots on a failed build; a cancelled build is stopped or reported |
| host agent (`hostagent`) | `ha.pid` with its lock, `ha.sock` | run until asked to stop, clean up | one agent per instance; cleanup spares a successor's files |
| guest-agent cache (`bundle`) | `<root>/<sha256>/<archive>.gz` | Path | what is handed to Lima is the embedded payload |
| network helper (`vmnet`) | the helper and sudoers in system directories, a setup lock | Ensure, Install | installs only after a confirmation, atomically |
| atomic files (`filesystem`) | none | Resolve, WriteFileAtomic, OpenRegular | a file has its old contents or its new ones |

`domain` holds the values (identities, statuses, sizes, name rules), `config`
parses, validates and renders the user's file, `lima/template.go` makes a machine
of it, `nixos/catalog` selects modules, `cli` and `app` decode arguments and wire
services together. They keep no state: what makes them correct is that what is
written in one form and read in another stays the same. The generators under `bundle/generator`, `bundle/vmnetgen`,
`nixos/modulegen` and `docs/generator` run when limanix is built.

### How they interact

A command handler calls `vm.Manager`, which runs preflight and then holds the VM
lock for the rest of the command. Under the lock it calls, in a fixed order, the
state store, the home manager, the generation builder (which takes a registry
lease while it copies modules), Lima and the guest. Lima starts the host agent:
a second process of the same executable, which stays. A listing takes no lock
until it meets an unfinished record. Only the disk, Lima's store and the locks
are shared; an flock disappears with its process.

### What is hard

- **Crashes and partial failures.** No step spanning two stores is atomic, and
  an error does not tell how far a call got. A create touches the state
  directory, the home, the identity, the record, Lima and the guest in turn.
- **Retries by the user.** Recovery is "run update or delete again", on whatever
  an earlier command left, possibly with other options.
- **Name reuse.** A name outlives its VMs. What belongs to an old identity must
  not be taken for the new one's.
- **Unlocked readers** see the files in between two writes, or of two VMs.
- **Remote work that outlives its session.** A rebuild runs on when SSH breaks,
  and may start after its caller has given up.
- **Locks on files rather than names.** The host agent unlinks the file it
  locked, so a lock can be on a file that has no name any more.
- **Bounded waits and cancellation** everywhere around calls that take minutes.
- **Privileged children** that outlive the command that started them.
- **Counting by status.** Lima's network helper is started and stopped by who is
  running, and a guest that boots is not running yet.
- **Decoding over defaults**, where what was not supplied must not come from what
  is replaced.

`PROJECT.json` lists these hazards one by one at the lines where they bite.

## 2. Modules

| module | models | composed with |
|---|---|---|
| `Trees` | how much of a directory tree is left: absent, partial, whole | |
| `Ownership` | the abstract promise about owner, machines, homes and archives | |
| `Lifecycle` | the commands of `vm` with `state`, `managedhome` and Lima's side | implements `Ownership`; `Trees` |
| `LifecycleInv` | its inductive invariant | |
| `Listing` | `state.FetchAll` beside all of `Lifecycle` | extends `Lifecycle` and implements it |
| `LifecycleProofs` | theorems about `Lifecycle`, `Ownership` and `Listing` | |
| `GuestApply` | `guest.Apply` with session, unit, guest and cancelling caller | refines the call `ApplyGuest` of `Lifecycle` informally |
| `HostAgent` | several host agents of one instance | |
| `ModuleRegistry` | imports, removals and preparations of one module | the shared registry lock of `state` |
| `AtomicFile` | `WriteFileAtomic` and `OpenRegular` with process death and power loss | |
| `Register` | the abstract promise of an atomic write | |
| `BundleCache` | the guest-agent cache, and first-config | extends `AtomicFile`; implements `Register` |
| `NetworkSetup` | `vmnet`: commands and the privileged installers they start | |
| `SharedNetwork` | Lima's create, start, stop and delete of several VMs under the network lock | details calls of `Lifecycle` |
| `PathRules`, `ConfigRules`, `MachineRules`, `NameRules`, `ValueRules`, `SizeRules` | pure rules as operators | `ConfigRules` extends `MachineRules` and `ValueRules`, which extends `SizeRules` |
| `RuleInputs` | the inputs of the rules, of any size, and the properties of the rules | extends `NameRules`, `PathRules`, `ConfigRules` |
| `MCRules` | bounded inputs of all rules | extends `RuleInputs` |
| `HostAgentProofs`, `ModuleRegistryProofs`, `BundleCacheProofs`, `GuestApplyProofs`, `NetworkSetupProofs`, `SharedNetworkProofs`, `RuleProofs` | theorems about the module they are named after, `RuleProofs` about all rules | |
| other `MC*` | symmetry sets for TLC | |

### Lifecycle

`pc[p]` is the call that process `p` makes next, `job[p]` what the command has in
memory. Every call that has an effect is one action, in the order of the source.
An action has up to three outcomes: the call succeeds; it fails, having done any
part of its work, and the command takes the error path of the code; or the
process dies, which releases its lock and forgets its job (`Broken` is the last
two). A caller's cancellation shows up as the failure of the next call. Where
the code looks at the context between two effects (`Manager.prepareCreation`,
`prepareUpdate`) there is a disjunct of its own.

- `directory`, `identity`, `record`, `gens` are `instances/<name>/` with
  `identity.json`, `instance.json` and the generation directories. `Save` writes
  directory, identity and record in that order; `SaveFailed` leaves any prefix,
  including all of it, since an atomic write may fail after its rename.
  `RemoveFailed` is an `os.RemoveAll` that stopped anywhere.
- `homes`, `archive` are the managed homes and `homes/<name>-<id>.json`.
- `machine`, `config`, `applied` are Lima's instance, the generation its
  `lima.yaml` mounts, and the one the guest system was built from.

One name is modelled: names share nothing but the registry lock (its own module)
and Lima's network lock (`SharedNetwork`). `randomID` is an identifier nothing on disk,
in Lima or in a running process mentions; finite sets of identifiers are
therefore a bound on how many are in use at a time, not on the number of
commands.

`ReadFaults` says whether reading an intact `instance.json` can fail.
`Manager.Delete` carries on without a record it cannot load, so with such faults
a failed delete can leave a ready record over a half deleted VM;
`ReadyIsComplete` holds without them (run `listing`), everything else
holds with them as well (run `lifecycle`).

### Ownership

Four variables and eight steps state what a user may rely on: an identity is
recorded before a machine is built for it and as long as the machine exists;
home contents go only when no machine can mount them; an archive is withdrawn
only after its home is gone; a name is given up only when its home is gone or
archived. `Lifecycle` implements it under `owner <- identity`,
`machines <- {i : machine[i] # "none"}`, `kept <- archive`, and `homes` as it is.

### Listing

`Lists` are processes that run `loadEntry` for the name. The state of
`Lifecycle` moves underneath: `Command` is a step of `Lifecycle` that does not
take the lock while a listing shares it; a command that is refused for it changes
nothing, so there is no step for it. `TryLock` has the three outcomes of `vmLock` without a timeout.

### GuestApply

Caller, SSH session, request, unit and guest are separate parties. A request
that was sent can become a unit later; a broken session leaves the unit running;
the deadline of the stop retries is a party too. `select` is a disjunction.
The two calls on Lima in `Apply` (stop, start) are `PowerOff` and `PowerOn`.

### HostAgent

An agent is a process that never restarts: a restart is another member of
`Agents`. A PID file is identified by the agent that created it, `path` is the
file the name `ha.pid` leads to, `holder` the owner of each file's flock. Opening,
locking, reading, writing, comparing and unlinking are separate steps as they are
separate system calls. Lima's `HostAgent.Run` is external: it ends by itself or
after it receives a signal. `Asked` bounds who is asked to stop; what an agent
does by itself, death included, is open to all.

### ModuleRegistry

Trees are functions from files to versions, so that a mixture of two imports or
half of one can be told from a whole. Lock waits are bounded by `GiveUp`, which
stands for the end of the 30 s and for cancellation. Directories left behind by
dead processes are hidden and read by nobody, so the model forgets them.

### AtomicFile, Register and BundleCache

A name leads to a file, `entry`, and a file has contents, mode and whether they
were flushed. `kept` is what the name may lead to after a power loss: every file
it led to since its directory was last flushed. A write is the calls of
`WriteFileAtomic` (`DestinationMode`, `Create`, `Fill`, `Sync`, `Rename`,
`SyncDirectory`), each of which can fail, and the process can die between any
two. `PowerLoss` ends every process, chooses among `kept` and cuts short what was
not flushed. `Inodes` are reused when nothing refers to them.

`BundleCache` uses it in two ways. With `purpose = "cache"` two processes run
`Cache.Path` over whatever is at the destination: nothing, a damaged or readable
file, a symlink, a foreign digest directory, or a directory that is new and can
be lost itself. With `purpose = "text"` they run first-config, the one writer
that keeps the mode of the file it replaces.

`Register` has two variables, the value readers find and the set of those that
may be found after a power loss. Contents and mode are one value, so a file that
appears under its name before it is whole, flushed and has its mode is no step
of `Register`. A rename that was not flushed leaves both values possible, also
when `WriteFileAtomic` reports failure: that is what callers may rely on, and why
`SuccessIsDurable` speaks of success.

### NetworkSetup

A command (`pc`) runs `Setup.Ensure`; its installer (`installer`) is a process
that `sudo` starts with a copy of the configuration that was inspected
(`snapshot`) on its standard input. `EndSetup` is a command that ends or is
killed and leaves its installer running. `EditNetworks` changes `networks.yaml`
between any two steps; an inspection reads it anew. Rules are named by the
configuration that they are generated from. `agreed` is a history variable, what
the user was shown. Permissions, the signatures of paths, `visudo` and the probe
of the helper are failures (`SetupFails`, `InstallerFails`).

### SharedNetwork

Each command holds the lock of its VM and then, for start, stop and delete, the
network lock. Lima's reconciler is two steps, since the statuses it counts can
change before it acts: `Count` and `Reconcile`. A machine is absent, stopped,
booting or running, and only a running one counts, besides the one that a start
names. `Settle` is the end of `launch`, where `context.AfterFunc` may or may not
have been stopped in time. `served` is a history variable: the VMs whose last
start reported success.

A VM that comes up after its start was cancelled or killed promises nothing and
may be without its helper: that is what the command reported. `HelperServes` is
about the others.

### PathRules, ConfigRules, MachineRules, NameRules, ValueRules, SizeRules

These are operators named after the functions they translate, each with a
reference written from what the result is for and never from the code:

- `PathRules`: a path is scanned up to the first link (`Scan`, by steps `Enter`),
  which is then followed (`Follow`), at most `MaxLinks` times (`Walk`).
  `resolvePath` puts the target and the rest of the path behind the directory and
  starts anew; the reference, `Kernel`, goes on from where the link is, with steps
  of its own (`KernelEnter`). `LoadedRoot` is the home root of a configuration that
  is itself named through links.
- `ConfigRules`: the schema is data, as in the code, which walks Go types, and it
  is all of `models.go`. `Parse` is shape check, decoding over the defaults, entry
  defaults, validation and normalisation. The code's walks recurse over the schema.
  Here each is put together from the leaves up (`CheckLeaf`, `CheckItem`,
  `CheckEntry`, `CheckField`, `CheckShape`), one operator per depth, all of them one
  step (`CheckPart`) that takes the walk of the parts as a parameter. The depth is
  that of the schema: its deepest leaves are `network.ports.tcp[0]`, four steps below
  the configuration, and `mounts[0].mode`, three. A document that is deeper has an
  unknown field or a value of another kind there, and is refused on the way. The walks
  over tables only (`RenderInner`, `RenderTable`, `RenderModel`, and likewise
  `ApplyTags`) have three levels, for `[network.ports]` is the one table in a table.
  The TOML library is external: it may reuse the storage of an entry it replaces
  (`reuse`), and both behaviours are checked. `Meaning` says what a document stands
  for. `RenderDocument` writes a configuration as lines, headers with the whole name
  that `JoinField` makes, and `ReadLines` reads them as TOML does: a name leads from
  table to table and through a list to its last entry (`PlacesTo`), and a key belongs
  to the last header. In which order fields of a table are written is left open.
- `MachineRules`: guest paths, what validation accepts of them, and the machine
  `lima/template.go` makes of it. Its stable sort is described by what it returns:
  a mount's position is the number of mounts `Before` it. `MachineServes` says
  what the guest sees.
- `NameRules`: a name is the sequence of its parts between dashes, which is what
  the rules cut at. VM names in Lima instance names, versions in module selectors,
  and the join of a listing.
- `SizeRules`: sizes in integers that wrap at `Half`, 2^63 in the code.
- `ValueRules`: environment values as sequences of the characters that systemd or
  a shell treats specially. The two readers are external and modelled as an
  automaton (`Read`) that takes one character after the other.

What the code computes step by step is a recursive function, so that it can be
proved about; no module declares a recursive operator.

## 3. Runs

Every run finishes within two minutes. Deadlock checking is off where
stopping is legitimate: a name left without an identity accepts no command
(first finding), provisioning ends, host agents end.

| run | instance | states | shows |
|---|---|---|---|
| `lifecycle` | 2 processes, 2 identities, 3 generations, read faults | 48 002 | `MachineInputsKept`, `SavedGenerationKept`, `BackendOwned`, `HomeAccounted`, `HomeRemovalRequested`, `ImplementsOwnership` |
| `refused_name` | | violation | finding 1 |
| `guest_apply` | one provisioning | 401 | `CancellationStopsUnit`, `RebootsOnlyBuilt`, `StoppedOnlyWhenCancelled`, `CancelledReturns` |
| `host_agent` | 3 agents, one asked to stop | 166 000 | `LeaseNamesHolder`, `RunningKeepsPath`, `ShutdownHonoured` |
| `lease_excludes` | 3 agents | violation | finding 2 |
| `listing` | 1 command process, 1 listing, 2 identities, 2 generations, no read faults | 380 000 | `InterruptedJustified`, `ReadyIsComplete` |
| `listing_contention` | 1 command process, 2 listings | 112 000 | `InFlightHasWriter`, `ListReturns` |
| `registry` | 3 processes, 2 files, 2 versions | 97 000 | `PublishedWhole`, `SnapshotWhole`, `LeaseKeepsModule`, `OperationsReturn` |
| `cache` | 2 processes, 4 files, 2 texts | 352 000 | `HandedWhole`, `SuccessIsDurable`, `ImplementsRegister` |
| `network_setup` | 2 commands with an installer each, 2 configurations | 390 000 | `RulesReplacedSafely`, `CancelledReturns`, the setup lock |
| `shared_network` | 2 commands, 2 VMs on the shared network | 143 000 | `HelperServes`, `CancelledReturns`, the network lock |
| `rules` | one input of one rule per state | 302 000 | `PathsCanonical`, `DocumentsKept`, `MountsVisible`, `NamesUnambiguous`, `ValuesSurvive` |

The `TypeOK` of a run with locks also says when each lock is held. The
configurations with `SYMMETRY` check safety only (a refinement of a
specification without fairness is safety); liveness is checked without it.

### Why these bounds

- Two processes are enough for competition for an exclusive lock, and a third
  could only be refused like the second. The listing runs have one command
  process: commands exclude each other (checked by `lifecycle`, proved for every
  number), so at most one is past its `Begin`, and a process that has died or
  returned starts again as another.
- Two identities let a name be given up and claimed again, with the first home
  archived. Three generations are the most that can be in use at once: the one
  `lima.yaml` mounts, the one the record selects after a failed update, and the
  one being prepared. `ReadyIsComplete` is checked with two of each and proved
  for any number.
- Three host agents: one that leaves, one that opened the file before, one that
  comes after. `Signals = 2` is the capacity in `run.go`. One agent is asked to
  stop: the others are its competitors.
- Two files tell a mixture from a copy, two versions a replacement from the
  original, three processes allow a copy between a removal and an import.
- Four files let each of two writers have a temporary file while the name leads
  to a third and a reader, or a lost rename, keeps a fourth. Two texts are the
  embedded archive and another one.
- Two configurations are the one that was shown and the one it was edited to. A
  third command or installer could only be one more that finds the lock taken.
- Two VMs: one that runs or boots and one that is acted on. `Shared` contains
  both, since a VM outside it is invisible to the helper.
- `rules`: all file systems with `a` and `b` in the root and in `a`, where each is
  missing, a directory, a file or one of four links; all paths of three
  components. 24 816 documents, of which 740 are accepted, with every field of the
  schema and `network.ports` of ten forms; 2 013 configurations
  with up to two mounts, 168 of them valid; 4 681 names of up to four parts, 60 of
  instances; 473 catalogs of up to two modules, 16 of which open; all stores
  of three instances. Of the paths a kernel resolves 10 012, 8 817 of them through
  links or "..". An integer has 8 bits and a GiB is 8: products wrap to negative
  and to positive numbers, as they do with 64 bits and 2^30. Path, mount and module
  rules compare two things at a time, or one with its prefix; the third component
  or part lets the difference lie in the middle.

### Fairness

- `Lifecycle`: none. Only safety is stated, since nothing forces a user to
  repeat a command.
- `GuestApply`: the caller makes its calls (SSH commands are killed with their
  context, so each returns); a session that was told to close ends; time passes,
  so the deadline expires. `GiveUp` is strongly fair: in each round of the retry
  loop `select` chooses at random among the ready cases. Nothing is assumed of
  the guest, the unit, or a session that nobody closes.
- `HostAgent`: each agent that started makes its calls. Nothing is assumed of
  signals, or of Lima's `Run` ending by itself.
- `Listing`: a listing makes its calls. Commands may hold the lock for ever.
- `ModuleRegistry`: a process makes its calls, one of which is to give up
  waiting. Whether it ever gets the lock is not assumed.
- `NetworkSetup`: a cancelled command makes its calls, and an installer ends.
  Nobody has to answer the prompt, and commands that were not cancelled may stop
  anywhere.
- `SharedNetwork`: a cancelled command makes its calls: waits look at the context
  and Lima's calls take it. Others may keep the network lock for ever, and a VM
  need not come up.
- `BundleCache`: none. `MCRules`: its states are inputs.

### Findings

1. **A refused name that cannot be deleted** (`refused_name`). `create` makes
   `instances/<name>/generations` before `identity.json`. If it dies in between,
   `create` says that the VM already has state and that `update` or `delete`
   should be used; both begin by reading the missing `identity.json`.
2. **Two host agents** (`lease_excludes`). The lease is taken on an open file
   whose name may be gone. An agent that opened `ha.pid` before its owner
   unlinked it runs beside one that created a new file. What does hold is
   `LeaseNamesHolder` and `RunningKeepsPath`.

## 4. Proofs

Every invariant and action property of a run is a theorem. A theorem holds for every set of processes, agents,
VMs, identities, generations, files, versions, texts and configurations. It rests
on the assumptions its module names, which say that `None` and other marks are no
members of those sets, that the VMs on the shared network are VMs, that the
signal channel has room for one signal, that the embedded archive is one of
the texts, and that an integer holds the size of the default disk, a constant the
Go compiler would refuse otherwise (`DefaultAssumption`). Two theorems about ready records add `~ReadFaults`, for the reason given
under [Lifecycle](#lifecycle). TLC has checked each inductive invariant on the
instance of the run before it was proved.

| module | theorem | statement |
|---|---|---|
| `LifecycleProofs` | `TypeCorrect` | `Spec => []TypeOK` |
| | `ReadyComplete` | `Spec => []ReadyIsComplete`, if there are no read faults |
| | `InputsKept` | `Spec => []MachineInputsKept` |
| | `GenerationKept` | `Spec => []SavedGenerationKept` |
| | `BackendAlwaysOwned` | `Spec => []BackendOwned` |
| | `HomesAccounted` | `Spec => []HomeAccounted` |
| | `RemovalsRequested` | `Spec => HomeRemovalRequested` |
| | `Refinement` | `Spec => ImplementsOwnership` |
| | `PreservedHomesUntouched` | `Spec => [][PreservedKept]_vars` |
| | `NameGivenUpLast` | `Spec => [][NameGivenUp]_vars` |
| | `MachinesBuiltOwned` | `Spec => [][MachineBuiltOwned]_vars` |
| | `ListingHidden` | `ListSpec => Spec` |
| | `RefinementBesideListings` | `ListSpec => ImplementsOwnership` |
| | `ReadyBesideListings` | `ListSpec => []ReadyIsComplete`, if there are no read faults |
| | `ListTypeCorrect` | `ListSpec => []ListTypeOK` |
| | `InterruptedTrue` | `ListSpec => []InterruptedJustified` |
| | `InFlightTrue` | `ListSpec => InFlightHasWriter` |
| `HostAgentProofs` | `TypeCorrect`, `LeasesHeld` | `Spec => []TypeOK`, `Spec => []LeaseNamesHolder` |
| | `PathKept` | `Spec => RunningKeepsPath` |
| `ModuleRegistryProofs` | `TypeCorrect`, `Published`, `Snapshot` | `Spec => []TypeOK`, `Spec => []PublishedWhole`, `Spec => []SnapshotWhole` |
| | `LeaseHeld` | `Spec => LeaseKeepsModule` |
| `BundleCacheProofs` | `HandedOutWhole`, `SuccessDurable` | `Spec => []HandedWhole`, `Spec => []SuccessIsDurable` |
| | `RegisterImplemented` | `Spec => ImplementsRegister` |
| `GuestApplyProofs` | `TypeCorrect`, `CancellationStops`, `RebootsBuilt` | `Spec => []TypeOK`, `Spec => []CancellationStopsUnit`, `Spec => []RebootsOnlyBuilt` |
| | `StoppedForCancelled` | `Spec => StoppedOnlyWhenCancelled` |
| | `AnswersStand` | `Spec => [][AnswerStands]_vars` |
| `NetworkSetupProofs` | `TypeCorrect` | `Spec => []TypeOK` |
| | `RulesReplaced` | `Spec => RulesReplacedSafely` |
| `SharedNetworkProofs` | `TypeCorrect`, `HelperKept` | `Spec => []TypeOK`, `Spec => []HelperServes` |
| `RuleProofs` | `InstanceNamesOneVM` | `NamesOneVM` of all names and identities |
| | `SelectorsOneModule` | `SelectsOneModule` of all catalogs and selectors |
| | `ListingsOwn` | `ListsOwnInstances` of all stores |
| | `NamesAlwaysTold` | `NamesUnambiguous` for every input in `NameInputs` |
| | `MountsServed` | `MachineServes` of all configurations and hosts |
| | `MountsAlwaysVisible` | `MountsVisible` for every input in `MachinesToRender` |
| | `HostPathsCanonical` | `ResolvesCanonically` of all file systems and paths, over any names |
| | `HomeRootsOne` | `LoadsOneRoot` of all file systems, file names and values |
| | `PathsAlwaysCanonical` | `PathsCanonical` for every input in `PathsToResolve` and `FilesToLoad` |
| | `EnvironmentsKept` | `EnvironmentSurvives` of all finite environments, over any characters |
| | `ValuesAlwaysSurvive` | `ValuesSurvive` for every input in `AmountsToWrite` and `EnvironmentsToWrite` |
| | `DocumentsMean` | `DocumentMeans` of every document, whatever is reused |
| | `DocumentsAlwaysKept` | `DocumentsKept` for every input in `DocumentsToParse` |
| | `SizesSurvive` | `SizeSurvives` of every amount, for every `Half` and `GiB` |

Three specifications implement one another: commands beside listings
(`ListSpec`) implement commands alone (`Spec`), which implement `Ownership`. What is
proved of the commands therefore holds however many listings read along.

### Lifecycle and Ownership

None of the invariants is inductive. That `RollbackCreation` may remove a home
needs that no machine was ever built for it, which is true because of where the
process has been. `IInv` in `LifecycleInv` writes that down:

- `Exclusive`: a process that is not idle holds the lock, so every other one is
  idle and knows nothing that this step could falsify;
- `AbsentIsEmpty`: without a state directory there is no identity, record or
  generation;
- `Creating`, `Applying`, `Updating`, `Deleting`: what the running command has
  established when it is about to make a given call, for example that at
  `saveReady` the guest was built from the job's generation and the record
  selects it;
- `Running` adds that every home other than the running job's is archived.
  This is what makes `Begin...` with a fresh identity preserve `HomeAccounted`;
- `DataInv`: the properties themselves.

The proof has one lemma per action (`IInv` and the action give `IInv'`). Each is
split into control, the running process' knowledge and the data conjuncts the
action can disturb. Lemmas on `Save`, `SaveFailed`, `Remove`, `ShrinkGens` and
the tree states are shared. A crash is a step to idle, which leaves only
`DataInv` to show, so that conjunct has to hold in the middle of every command.

The refinement uses `IInv` for the abstract guards: each action is shown to map
to one named step of `Ownership` or to a stutter, for example `RemoveState` to
`Release`, whose guard `i \in kept \/ homes[i] = "absent"` is what `Deleting`
says at `removeState`.

Three consequences of the refinement are about two states and are stated of the
commands themselves. `PreservedHomesUntouched`: once the name has left an
identity whose home is archived, no command touches that home or withdraws its
archive, also not the delete of a later VM of the name. `NameGivenUpLast`: an
identity is followed by none, never directly by another, and only when it has no
machine and its home is archived or gone. `MachinesBuiltOwned`: a machine appears
only for the identity saved for the name, over a whole home. Each step of
`Ownership` keeps them (`OwnershipPrevents`), so every step of a command does.

### Listing

`ListInv` adds to `IInv` that a shared lock excludes a command (`SharedExcludes`)
and what a listing knows while it reads again (`Rereading`): it has the lock, and
the identity it has read is still the VM's, so the record read next is of the same
VM. A command writes identity and record only under the lock
(`UnlockedFilesStay`), so that stays true to the report. An entry read without
the lock promises nothing, and `ListInv` says nothing of it.

### HostAgent

Opening, locking, comparing and unlinking look at the name, the file and the lock
one after the other. `FilesHeld` says who has a file open and locked at each
call, `LeasesWritten` that the file names the agent from then on, and `UnlinksOwn`
that an agent about to unlink `ha.pid` still finds its own file there. The last
holds because another agent could only have put a file under the name after it
was unlinked, and only the holder of a file's lock unlinks it. Two agents may
both run, each with a file of its own (finding 2): the invariant allows it.

### ModuleRegistry

`LocksHeld` ties the lock to the calls under it, `ImportsWhole` says that a staged
import is whole before the lock is asked for, and `CopiesAgree` that each file a
preparation has copied is the module's as it is now. The module changes only
under the exclusive lock, so what agrees file by file at the end is the module.

### BundleCache and Register

Temporary files are their writer's own (`TempsPrivate`): no name leads to one or
may after a power loss, and nobody reads it. `TempsFilled` follows what has been
done to it, so that it is whole and flushed when it is renamed; hence every file
the name may lead to is flushed (`KeptSynced`) and a power loss cuts none short.
`OldGone` says that the name does not come back to what it led to before a
rename, although inodes are reused: a file in `old` counts as in use. Of the
refinement, only the rename, the flush of the directory, the power loss and the steps
that make or lose a directory map to steps of `Register`.

### GuestApply

Caller, session and unit take their steps in any order. They are tied by
`UnitRequested` (a unit is born of one request), `SuccessIsBuilt` (a session
that reports success saw the unit complete) and `CallerKnows`, in particular that a
stop was confirmed only of a unit that has ended, and such a unit stays so.

`AnswersStand` is about what happens after `Apply` has returned, when a request may
still be on its way and the session open: after a success or a cancellation they
change the unit no more. After an error they may, and limanix records the error.

### NetworkSetup and SharedNetwork

`AgreementPassed` carries what the user was shown to the installer's standard
input; `WritePrepared` says that an installer about to write has helper and
backup in place, which the setup lock keeps.

`CountsCover` says that what a reconciliation has counted stays enough until it is
carried out: no VM comes up and is promised the helper in between, since that
needs the network lock. `LaunchesCovered` keeps the helper from there to the end of
the launch, and `ServedAreUp` says that a VM that is still booting was promised
nothing, so the reconciler may overlook it.

### Names, mounts, sizes, environments and paths

These need no invariant. Names are compared at both ends: what `LimaName` puts
together has the identifier as its last part and the VM's name in between, so two
identities with one instance name are equal, whatever dashes and parts that look like
identifiers a name has. For selectors the disjointness that `readModules`
checks makes the map independent of the order of the directories. Mounts need
that the sort loses none (`Positions`: as many positions as mounts, and no two mounts
in one, hence one mount in each) and puts none behind a longer one (`Sorted`); a
path at or above another of no greater length is the same path (`WithinLonger`), and
validation keeps paths apart (`RequestedApart`). Sizes need that
division bounds multiplication (`DivisionBounds`), so that the check before the
product is exact.

Environments and paths are read in steps, and the proofs are inductions over the
steps. The library states induction for predicates, which the provers do not
instantiate. That a nonempty set of numbers has a least element is about sets, and
gives `Induction` and `SequenceInduction` about sets. `RunExists` and `RunsAgree` say
that a step function has exactly one run over a text, from which each recursive
function is unfolded once (`ReadTextRuns`, `ScanRuns`, `WalkRuns`).

An escaped value is read back character by character (`ReadCharacter`,
`ValueRead`), a line assigns one variable (`LineRead`), and the lines assign all of
them (`LinesRead`), in any order since names differ. The hypotheses of the path
theorems are that the home and the working directory are paths. A path is
`Canonical` if none of its prefixes ends in a link, `.`, `..` or behind a file. Every
step of `resolvePath` keeps the place it has reached canonical
(`ScanCanonical`), and a canonical path is scanned as it is (`ScanSame`). So when a
kernel stops at a link, `resolvePath` that starts anew is in the same place with the same
components left; `WalkAgrees` follows that through every link.

### Configuration documents

`DocumentMeans` compares a document with three results of four walks, so the proof
first says what each walk does on the configuration's schema, without the schema:
`CheckAccepts` (the shape check accepts the documents in `Accepted`), `DecodedPlain`
(such a document is decoded to `ConfigOf`, field by field), `MeaningPlain` (which is
its meaning once guest paths are clean) and `ValidFields`. A value or a table without
tables is walked alike at every level that is deep enough (`CheckLevels`,
`DecodeLevels`, `MeaningLevels`, `ValidLevels`), so each kind of field is treated
once: tables of values, the network with the ports in it, the environment, the
mounts. `DecodedPlain` is where the reuse of storage disappears: a mount is decoded
over anything at all (`DecodeMounts`), its source and target are required, and
`MountTagged` says that the mode it leaves out is the declared one whatever was
there. `NormValid` says that cleaning the guest paths of a valid configuration leaves
it valid and is done for good.

For the way back, `ReadsTo` says that lines lead the reader from one state to another
(`ReadsConcat`, `ReadsBlocks`: line after line, block after block). A key goes to the
table of the last header, which is one of four places (`Spots`: the document, a
table, the last entry of a list, a table in a table). `HeadersRead` and
`EntryHeadersRead` say to which place a header leads: this needs its name to begin with
that of the table around it. A part of the schema, at whatever place, is read as its
keys and then its tables (`PartRead`), and a block of lines changes one field and no
other, provided its key is not taken: `InnerFieldReads` for `[network.ports]`,
`FieldLines` for the fields of the document. `DocumentRead` puts the blocks together,
and `EntriesBack` reads the configuration off the result. That a size is written as
the number it was parsed from comes from the overflow check (`AmountParsed`), also for
the defaults.

The hypothesis `Written` says how documents are represented: lists are sequences,
environments finite, the text of a size is the number of its GiB and that of a guest
path its components. It asks nothing of values of a wrong kind, and every document of
the run satisfies it. The schema is the whole of `models.go`, so what is proved is
about these fields and not about every schema one could walk.

### Only checked by TLC

- **Liveness**: `CancelledReturns` of `GuestApply`, `NetworkSetup` and
  `SharedNetwork`, `ShutdownHonoured`, `ListReturns`, `OperationsReturn`. Liveness
  under fairness and `ENABLED` are beyond the prover. They are all that is left:
  each invariant and action property has its theorem.
- **Findings**: the two violations are executions, which TLC exhibits.

## 5. What is not covered

- **External parties.** Lima's libraries, systemd, ssh and the guest are modelled
  by the outcomes the callers distinguish. In particular a failed Lima deletion
  leaves the instance as it was or stopped. What Lima's store makes of a half
  deleted instance directory is not in this repository. `limactl` run by hand
  is outside every limanix lock and outside the model.
- **Contents.** JSON, the syntax of TOML, archives and Mach-O files, formatting
  and permissions other than the mode of a written file. Their failures are
  failures of the call. So are the preflight checks and the comparison of an old
  `lima.yaml` with a new one.
- **Text.** What a user name, a module identifier or an architecture may be is one
  refused value, "bad". User names, images and scripts are passed on unchanged by
  code that has no choice. Limits on lengths are left out.
- **Host file systems** distinguish case: `a` and `A` are two names.
- **Custom network setups** that authorise sudo without Lima's rules file, or with
  another one (`vmnet/sudoers.go`, `checkSudoers`), are ready or fail and have nothing
  to install; `NetworkSetup` has the setups that limanix installs.
- **Late VMs.** In `Lifecycle` a start that is killed never leaves a VM that comes up
  later. `SharedNetwork` has them, where it matters who counts as running.
- **Read-only operations.** Shell, address probes, module listings.
- **Power loss** concerns `AtomicFile`. Elsewhere a crash is the death of a
  process, and an atomic write is one step for its readers, which `Register`
  justifies.
- **Argument handling, output, wiring.** One process, no state.
- **Build-time generators and the generated reference.** They run when limanix is
  built.

## 6. Plan

Done, in this order, from the centre outwards: `Trees`, `Lifecycle`,
`Ownership` and their proofs; `GuestApply` and `HostAgent`, the two parts
that run concurrently with something they do not control; `Listing` and
`ModuleRegistry`, the two users of shared locks; `AtomicFile`, `Register` and
`BundleCache`; `NetworkSetup` and `SharedNetwork`, the two halves of shared
networking; the pure rules; the proofs of the safety of each of them.

To come: the calls of `Lifecycle` that stand for a protocol of their own, as
refinements: `ApplyGuest` by `GuestApply`, and the start of a machine by
`SharedNetwork`, whose network lock is not part of `Lifecycle`. What `ApplyGuest`
takes for granted of a provisioning that succeeded is `AnswersStand`; after one that
failed it leaves open, at the failure, which generation the guest has.
