# A formal model of the ZEC CSI driver

TLA+ specifications of the Zenlayer cloud CSI driver, checked with TLC on small
instances and, for the results listed below, proved with TLAPS for every
instance. `PROJECT.json` is the index: components, runs, the source lines behind
each definition, hazards, findings and theorems.

## 1. The system

The driver is one Go program with two roles. The *controller* role runs in a
Deployment (`chart/values.yaml:1`: three replicas) beside the external-provisioner,
-attacher, -resizer and -snapshotter; each sidecar elects its own leader, so the
four may be active on different replicas. The *node* role runs on every node. Both
answer gRPC calls; the controller talks to the ZEC cloud through an SDK.

| component | state it keeps | operations | talks to |
|---|---|---|---|
| lock table (`pkg/common/lock.go`) | a set of ids, in memory, one per process | `TryAcquire`, `Release` | called by every RPC that changes something |
| controller service (`rpcserver/controllerserver.go`) | none but the lock table | Create/Delete volume, Publish/Unpublish, Expand, Create/Delete snapshot | cloud manager, sidecars |
| cloud manager (`pkg/cloud`) | none | one function per cloud operation, each followed by a wait | ZEC API |
| wait loops (`pkg/cloud/utils.go`) | a deadline and a ticker | poll until a status, an error or 180 s | ZEC API |
| capacity arithmetic (`calculator.go`, `storageclass.go`) | none | bytes to GiB and back, capacity ranges | controller service |
| ZEC cloud (external) | disks, snapshots, instances | asynchronous: accept, then complete | — |
| kubelet (external) | what it knows of staging and target paths | stage before publish, unpublish before unstage, retry for ever | node service |
| sidecars (external) | VolumeAttachment, PV, VolumeSnapshotContent | call, retry for ever, give up after `--timeout` | controller service |
| node service (`nodeserver.go`, `mount.go`) | the mount table and file systems of a node | stage, publish, unpublish, unstage, expand | kernel, `mkfs`, `resize2fs` |
| storage class, access modes, topology (`driver/`, `controllerserver.go`) | none | tests of a request, choice of a zone | CreateVolume |
| volume ids (`common.go`) | none | generate, parse | — |
| gRPC server, identity, start-up | listener, flags, environment | start, serve, probe | kubelet |

What is hard about it:

* **The lock is local.** Exclusion per volume holds inside one process only, and
  three processes run.
* **A call that was given up goes on.** No handler looks at its context. The
  sidecar's timeout, a change of leader or a lost connection leaves a goroutine
  that keeps its lock and its copy of what it read.
* **Nothing is persisted.** A restart forgets the locks, the id of the disk just
  created and how far a two-phase deletion was; a retry finds out from the cloud.
* **Every cloud operation is asynchronous**, its answer can be lost, and its effect
  can come after the handler has returned.
* **Recognition by name.** A retried CreateVolume or CreateSnapshot knows what it
  made earlier by its name only.
* **int64 at the edge.** Rounding to GiB multiplies back without a test.
* **A device is found by serial number and used by name.** The kernel gives the name
  to the next disk once the first has left the node, and `fsck`, `mount`, `mkfs` and
  `resize2fs` run one after the other on the name.
* **A failed mount decides whether a disk is formatted.** A mount that failed for a
  moment, a foreign partition table and a half-made file system must be told apart.
* **The mount table is all a node retry can go by.** A call that kubelet abandoned may
  still mount; a reboot loses the mounts and keeps the directories.
* **Two rules for one topology.** The zone of a new disk is picked by one rule, and
  the disk is recognised on the retry by another.

What makes each part correct: an answer of OK stays true (attached, detached,
gone, of that capacity, ready) until the orchestrator asks for something else;
retries make no second disk and no second snapshot; nothing is detached from a node
nobody asked about; no disk with data is formatted; a pod sees its volume and nothing
else; every request that can be met is met in the end; every lock is given back.

## 2. The modules

An action of a handler is the code from one cloud round trip to the next: between
two of them everything else may move; on the node, from one command to the next.
`pc[c]` names the round trip or command that goroutine `c` is about to make. The
prologue of an RPC (checks, id parsing, `TryAcquire`) is one action, since it makes no
call. Checks of a request change nothing and are left out, except those of
CreateVolume, which decide where and whether a disk is made (`Served`,
`RefuseVolume`). Each return contains the deferred `Release`.

| module | models | state |
|---|---|---|
| `ResourceLocks` | `lock.go` | `locks[r]`: one set of ids per replica |
| `ZecCloud` | the disks and instances of the cloud (external) | `disk`, `vmstate`, `faults` |
| `ControllerServer` | Publish, Unpublish, Expand, DeleteVolume, with the cloud functions they call, the sidecars and restarts; extends the two above | `pc`, `req`, `ret`, the locals `seen`, `last`, `times`, `open`, `leader`, and the sidecars' records `va`, `pv`, `cap` |
| `VolumeService` | what attach, detach, expand and delete promise, without handlers (abstract) | `on`, `size`, `gone`, `alive`, and `va`, `pv`, `cap` |
| `ControllerRefinement` | `ControllerServer` as an implementation of `VolumeService`: `on` is the instance of the disk record, transient statuses included | |
| `Placement` | storage class, access modes, PickTopology, IsValidTopology, GetVolumeTopology | none (operators) |
| `Provision` | CreateVolume, empty or from a snapshot, for the claims in `Request`; extends `ResourceLocks` and `Placement` | as in `ControllerServer` with `new`, and `vol`: which disk a claim is bound to |
| `Snapshots` | CreateSnapshot, DeleteSnapshot; extends `ResourceLocks` | as above with `snap`, `disks`, and `co`, `sid`: what the snapshotter knows |
| `NodeServer` | NodeStage, -Publish, -Unpublish, -Unstage and -ExpandVolume with FormatAndMount and FormatNewDisk, kubelet, the kernel, crashes and reboots; extends `ResourceLocks` | disks (`kind`, `fs`, `data`, `size`), what the node sees (`blk`, `dev`, `mnt`, `dirs`), handlers (`pc`, `req`, `ret`, `open`, `devicePath`), kubelet and attacher (`attached`, `want`, `stage`, `pub`, `expand`) |
| `Capacity` | the arithmetic and the two RPCs that use it, on one volume | `size`, `ans` |
| `MC…` | constants for TLC | |
| `…Proofs` | theorems: `ControllerServerProofs` (types, locks, detach), `ControllerSafetyProofs` (what the sidecars were told), `ControllerRefinementProofs` (the refinement), and one module each for `Capacity`, `Provision`, `Snapshots`, `NodeServer` | |

Modelling decisions a reader should know:

* **Errors.** An SDK error is either without effect (`ApiError`) or hides an
  accepted request (the `Fault` branch of AttachVolume, DetachVolume, ResizeVolume,
  DeleteRelease, ProvCreate, SnapCreate, SnapDelete). Both count as faults.
* **Waits.** The loop is not unrolled. A wait ends well when the status is there at
  that moment, and may end with an error at any moment when it is not: that is the
  deadline. A poll that fails, and a deadline that passes although the status was
  reached after the last poll, is an `ApiError`.
* **Sidecars.** One outstanding call per volume (attacher, resizer, provisioner) or
  per content; `GiveUp` is the `--timeout`, after which the handler goes on;
  `LeaderMoves` starts a new sidecar that knows of no open call. Answers to calls
  that nobody waits for are dropped. A content is not deleted while a create is
  uncertain, because the external-snapshotter keeps its "being created" mark.
* **Cloud.** An attach is accepted for an AVAILABLE disk, a detach for one IN_USE, a
  resize in both, a release for AVAILABLE and RECYCLED. `ShownIn` says in which
  transient statuses DescribeDisks shows the instance id; `Rollback` whether an
  accepted operation may be undone; `MayFail` whether a creation may end as FAILED.
  These are parameters because the repository does not settle them; section 3 says
  what each run assumes. Deleting a volume deletes its snapshots (`README.md:119`).
* **Orchestrator.** A volume is wanted on one node at a time (the driver advertises
  single-node access modes only) and deleted when it is wanted nowhere.
* **Sizes.** ControllerServer and Provision use whole GiB; Capacity has the bytes.
  There `Half` stands for 2^63 and `Gib` for 2^30, and multiplication wraps.
* **Storage class and topology.** Parameters and topologies are functions with
  missing keys allowed; a zone-only topology is one with a smaller domain. A claim
  keeps its requirement: the provisioner reschedules only after ResourceExhausted,
  which the driver never answers. A topology that names no zone gets past the
  prologue, and the cloud manager refuses it (`Creatable`); no claim of the runs has
  one, so this case is covered by the theorems only.
* **Names.** Both searches by name put the name into a regular expression unescaped
  (`cloud_manager.go:760` and `:1438`). The models compare names: those the
  provisioner and the snapshotter generate are a prefix and a uid, without a character
  that is special there. A namesake being deleted is not in `Provision`; the code would
  hand it out like a FAILED one (`provision_failed_disk`). A snapshot is taken to have
  the zone and the resource group of its disk, by which it is searched.
* **Operators.** `DiskRecycled`: somebody may throw away a disk at any moment, also while
  a call searches for its name or waits for it, unless it is bound to a claim, is in
  an answer on its way, or was seen AVAILABLE by a handler that only has its record
  left to read.
* **Serial numbers.** A disk that is CREATING may lack its serial number at any time; that
  the cloud has none for another disk counts as a fault. Both are answered Aborted.
* **Disks on the node.** A disk holds nothing, a file system with a size, a partition
  table, or what a fresh encrypted disk shows (`mount.go`: "atari"); `data` says
  whether anyone wants it back. `Others` are disks that come and go without the driver
  and take device names. `blk` is the size the node sees; with `LateSize` it lags
  behind the cloud. `ro` in `kind` says that the option reaches FormatAndMount, where it
  decides whether `fsck` runs and a disk may be formatted; the storage class's options do
  so only behind the feature gate (`nodeserver.go:322-326`), without which every volume
  is one with `ro` FALSE.
* **Mounts.** A path holds a stack of mounts. `IsMountPoint` reads the table,
  `IsLikelyNotMountPoint` compares devices and misses a bind mount from the same file
  system. A failed bind mount may leave the mount: with options, `mount` binds first and
  remounts then. The `ro` of a publish (`nodeserver.go:159-161`) is not in the model:
  nothing there reads it. `CleanupMountPoint` unmounts once and removes the path. `mkfs`
  refuses a device that is mounted; interrupted, it leaves no file system.
* **Kubelet.** Stage, publish, unpublish, unstage, in this order, one outstanding call
  per path; an uncertain call is repeated or undone; the volume is detached only after
  it was unstaged, which is an assumption about the controller (section 4). A restart of
  the plugin kills its handlers and keeps the mounts; a reboot loses the mounts and
  keeps the directories.
* **Broken forms.** Definitions introduced by the words "Broken form" belong to no
  specification. Each is a plausible slip in the code; putting it in the place of
  the definition named in `PROJECT.json` ("mutants") makes TLC report the property
  concerned, which shows that the property depends on that piece of the code.

## 3. What TLC checks

| run | assumes | shows |
|---|---|---|
| `one_replica` | one process, no rollback | `LockDiscipline`, `AttachedMeansAttached`, `DetachedMeansDetached`, `DeletedMeansGone`, `CapacityIsReal`, `DetachOnlyRequestedNode`, `TypeOK`, and `ImplementsVolumeService`: the controller refines `VolumeService` (58,596 states) |
| `two_replicas` | two processes, leaders move | `DeletedMeansGone` and `CapacityIsReal` need no shared lock (744,000 states) |
| `completion` | fairness, one failure anywhere, the cloud may undo an operation | `DetachCompletes`, `AttachCompletes`, `DeleteCompletes`, and that `DetachedMeansDetached` and `DeletedMeansGone` survive a rollback (48,672 states) |
| `two_replicas_detach` | two processes | *violated*: `DetachOnlyRequestedNode` |
| `capacity` | every request of the word | `CapacityAnswered`, `RefusalIsJustified`, `CreateIsIdempotent`, `NeverShrinks`, `TypeOK` |
| `capacity_edge` | every request of the word | *violated*: `RequiredIsMet` |
| `snapshots` | fairness, one process, two contents of one name, two failures, creations may fail | `OneSnapshotPerContent`, `ReadyIsAvailable`, `NothingLeftBehind`, `ContentSettles`, `TypeOK` (345,000 states) |
| `snapshots_name_race` | one process, no failure at all | *violated*: `NamesAreUnique` |
| `provision` | fairness, one process, two failures, creations may fail; two claims that share a snapshot, one of them with a topology, one that wants a taken name, one that must be refused | `LocksMatchHandlers`, `OneDiskPerName`, `BoundAsAsked`, `RefusedIsDifferent`, `ClaimGetsBound`, `TypeOK` (368,243 states) |
| `provision_failed_disk` | creations may fail | *violated*: `BoundIsUsable` |
| `provision_zone_only` | a storage class that lists zones without the Vm type | *violated*: `RefusedIsDifferent` |
| `node` | fairness, one failure (command, abandoned call, crash or reboot), a volume of any of seven kinds, a foreign disk | `DeviceIsStillOurs`, `DataSurvives`, `PublishedShowsVolume`, `NothingLeftMounted`, `ExpandedIsSeen`, `StagedFillsDisk`, `PodGetsVolume`, `VolumeLeavesNode`, `TypeOK` (149,014 states) |

The five violations are findings; `PROJECT.json` quotes the comment each one
contradicts and tells the trace.

**Bounds.** Two calls in flight, one volume, two nodes: the properties are about one
volume, handlers of different volumes share nothing, and two calls are enough for a
late handler and its retry. Faults (errors, lost answers, timeouts, restarts,
leader changes, instances that stop) are bounded by `MaxFaults`: two, enough
for a failure during the recovery from another, and one in `completion` and `node`,
where each failure meets every step. Two sizes are enough for
one resize. The ids the cloud hands out (`Disks`, `Snaps`) are bounded by four disks
for three claims that are served, and by two snapshots (three in
`snapshots_name_race`); once they are used up the cloud accepts no further creation,
which ends a behaviour and can hide a third duplicate but not a second. Capacity has a
GiB of 3 bytes and a half word of 8 GiB, so that every remainder and every position
relative to the smallest disk, the largest disk and the edge of the word is tried.
The node has two device names, so that a foreign disk can take the name the volume
had, and one pod that comes and goes; `MCNodeServer` lists the seven kinds of volume
(blank, encrypted and fresh, partitioned, restored to a larger disk, read-only blank,
read-only with a file system, block).
Symmetry over goroutine slots, nodes and replicas is used in `one_replica`,
`two_replicas` and `two_replicas_detach` only, which have no liveness property.
`CHECK_DEADLOCK FALSE` is set where the system may rest: nothing more is wanted, or
the budget of faults and ids is used up.

**Fairness.** Weak fairness for a handler (a goroutine runs), for an answer (gRPC
delivers it or the connection fails, which is a fault), for the completion of an
accepted operation (the waits assume it), and on the node for the attacher and for a
disk to show up once attached. Strong fairness for the retry of a wanted
operation: sidecars and kubelet retry with a bounded backoff for ever, but a single
attempt may find all slots or the lock taken, so the retry is only infinitely often
possible. It is stated per volume, content or served claim, never for the success of
an attempt. Nothing is assumed about users, operators, pods or instances that are
stopped.

**What was tried and fails, without a document that claims otherwise.**

* With two processes `AttachedMeansAttached`, `DetachedMeansDetached`,
  `OneDiskPerName`, `OneSnapshotPerContent` and `NothingLeftBehind` fail for the same
  reason as in `two_replicas_detach`: a late handler of the former leader acts on
  what it read before.
* With `Rollback`, `CapacityIsReal` and `AttachedMeansAttached` fail: the handler
  does not read the size again after the wait, and Publish answers OK for a disk
  that is ATTACHING to the right instance.
* With `ShownIn` smaller, `DetachedMeansDetached` fails: Unpublish takes an empty
  instance id for "detached" while an attach is under way. The driver depends on
  the cloud showing the instance id in the transient statuses.
* A FAILED snapshot is found by name on every retry and reported as not ready for
  ever (`controllerserver.go:762`); `ContentSettles` names the case (`Obstructed`).
* One name requested in two zones, with two sizes, makes two disks: FindVolumeByName
  considers the requested zone, group and type only. `OneDiskPerName` is therefore
  stated per zone, group and type.
* After a failed resize `StagedFillsDisk` fails: the retry of NodeStageVolume finds
  the mount and answers OK (`nodeserver.go:313-315`), and the file system stays small
  until the next expansion. The property is stated for behaviours without a failure.
* With `LateSize`, an expansion can be reported done with a file system that was not
  grown: the node sees the new size between `resize2fs` and `blockdev`
  (`nodeserver.go:513-530`). `ExpandedIsSeen` says what the comparison does guarantee.

## 4. What is proved

Every invariant, every action property and the refinement that the passing runs check
is also a theorem, checked by TLAPS for every value of the constants the named
assumptions allow: any number of volumes, nodes, claims, calls in flight and failures,
any word size, any storage class. TLC checked each inductive invariant on the runs'
instances before it was proved.

| theorem | property | assumes |
|---|---|---|
| `TypeCorrect`, `LockSafety` | `TypeOK`, `LockDiscipline` | any number of replicas |
| `DeleteSafety` | `DeletedMeansGone` | any number of replicas, rollbacks allowed |
| `ExpandSafety` | `CapacityIsReal` | any number of replicas, no rollback |
| `DetachSafety` | `DetachOnlyRequestedNode` | one replica |
| `DetachedSafety` | `DetachedMeansDetached` | one replica, instance shown in transit |
| `AttachedSafety` | `AttachedMeansAttached` | one replica, no rollback |
| `Refinement` | `ImplementsVolumeService` | one replica, instance shown, no rollback |
| `CapacityTypeCorrect`, `CapacitySafety`, `RefusalSafety`, `IdempotenceSafety`, `ShrinkSafety` | `TypeOK`, `CapacityAnswered`, `RefusalIsJustified`, `CreateIsIdempotent`, `NeverShrinks` | — |
| `ProvisionTypeCorrect`, `BoundSafety`, `HandlerLockSafety` | `TypeOK`, `BoundAsAsked`, `LocksMatchHandlers` | any number of replicas |
| `RefusedSafety` | `RefusedIsDifferent` | any number of replicas, full topologies |
| `OneDiskSafety` | `OneDiskPerName` | one replica |
| `SnapshotsTypeCorrect`, `ReadySafety` | `TypeOK`, `ReadyIsAvailable` | any number of replicas |
| `SnapshotSafety`, `LeftoverSafety` | `OneSnapshotPerContent`, `NothingLeftBehind` | one replica |
| `NodeTypeCorrect`, `DeviceSafety`, `DataSafety`, `PublishSafety`, `UnmountSafety`, `ExpansionSafety`, `FillSafety` | `TypeOK`, `DeviceIsStillOurs`, `DataSurvives`, `PublishedShowsVolume`, `NothingLeftMounted`, `ExpandedIsSeen`, `StagedFillsDisk` | detached only after unstaging |

**The assumptions.** TLC has a counterexample for those on replicas, the cloud and
topologies.

* *One replica* (`OneReplica`): `two_replicas_detach` is the counterexample for the
  detach, and the other properties that need it fail with two processes (section 3). The
  theorems without it say which promises a Deployment of three keeps all the same.
* *Instance shown in transit* (`AllShown`) and *no rollback* (`~Rollback`) are about
  the cloud; section 3 says what fails without them. `DetachedSafety` allows
  rollbacks and `completion` checks that case; `AttachedSafety` holds in whichever
  statuses the instance is shown.
* *Detached only after unstaging* (the guard of `Detach` in `NodeServer`): CSI asks it of
  the orchestrator. The node theorems do not show that the controller keeps to it, and
  with several replicas it may not: in `two_replicas_detach` a late handler detaches a
  disk from a node that uses it.
* *Full topologies* (`FullTopologies`): every requisite topology has the two keys the
  nodes report. `provision_zone_only` is the counterexample.
* The named assumptions on constants, which TLC evaluates in every run. `NodeAssumption`
  says among other things that no pod directory has the name of the staging directory
  and that a file system is not larger than its disk at the start;
  `ProvisionAssumption` that a requirement obeys CSI, by which the preferred
  topologies are among the requisite ones if there are any (`WellFormed`).

**How the proofs go.** A step of a specification is first summarised by what it does
to one call, one disk, one table and one record of a sidecar; there is one lemma per
action. The invariants are then proved from the summaries alone. Why each
inductive invariant says more than the property:

* *Locks.* `LockDiscipline` is inductive with `TypeOK`: a lock and its handler appear
  and disappear together. In `Provision` a handler holds one or two ids, so the
  invariant is about sets: no id is held by two handlers (`HeldOnce`), and the table is
  what they hold (`TableInv`). That a return removes no other handler's id is
  `HeldOnce`; that an acquired one is held by nobody is `TableInv`.
* *Detach.* A handler compares the instance when it finds the disk and detaches later:
  `DetachInv` says what it read is still true. It rests on `NodeInv` and `BoundInv`
  (a disk in transit is on some instance), and only a second handler of the volume
  could break it.
* *Delete.* `DeleteInv`: an OK on its way was preceded by the disk's end, and
  nothing brings a disk back from that. The lock does not enter.
* *Expand.* `ResizeInv`: what a handler waits for is done or under way, and a resize
  under way only grows the disk (`GrowInv`); hence the size need not be read again.
* *Detached, attached.* The record of the attacher, an awaited answer and the handlers
  at work have to agree: a sidecar awaits one answer per volume (`OneOpenInv`), what a
  live call was sent for is not settled yet (`VaInv`), an awaited OK is final because
  nobody else is at work on the attachment (`DoneInv`). An OK of Unpublish is true if
  the instance is always shown (`OffInv`). For Publish, a disk that is seen to leave an
  instance leaves it for an attachment being undone (`LeaveInv`, `LeftInv`), so a
  Publish which found its disk on the node may still say so (`SeenInv`,
  `PublishedInv`, `OnInv`).
* *Refinement.* `MapInv` collects these, with `ReleaseInv` (a disk goes only for a
  volume to be deleted) and `AskedInv` (an awaited expansion asks for more than is
  recorded). The initial states map to initial states, and every step of the disk and
  of the sidecars' records maps to the step of `VolumeService` it stands for, or to
  none.
* *Capacity.* The size of an existing disk lies between the smallest and the largest,
  so that its bytes do not wrap. Lemmas about `Wrap`, `ByteCeilToGib` and
  `GetRequiredVolumeSizeByte` split the requests at the last GiB of the word: below it
  the rounded size is a disk that fits; in it the rounded size is negative, so no
  disk is made or changed and an expansion is answered OK with the size the disk has,
  which is what `capacity_edge` reports.
* *Claims.* Every disk has the record of a served claim (`DiskInv`), and what a handler
  waits for, answers with or has bound is as the claim asks, whichever claim it was made
  for (`SuitInv`); past the wait it is not in the recycle bin either. The zone picked is
  that of a requisite topology (`PickedIsRequisite`), so a namesake can only be of the
  wrong size, and that disk never goes away (`TakenInv`). For one disk per name,
  `AbsentInv` says that from the search to the creation there is none: the lock of the
  name is held throughout.
* *Snapshots.* `BaseInv`: what an answer, a content and a deletion name is a snapshot of
  that content, and a ready one is complete. `SoleInv`: once an id is known or about to
  be, no create is under way and there is no other snapshot. Create locks the volume and
  delete the snapshot, so this, and not the lock, keeps a creation from following
  a deletion (`GoneInv`).
* *Node.* One invariant, `NodeInv`, for all. Its core is that the lock keeps every other
  handler from the disk and its paths (`LockInv`), and that kubelet is unsure of a path
  as long as some handler, be it abandoned, works on it (`KnowInv`): so no disk is
  detached under a handler that uses its name (`DeviceInv`), a disk about to be
  formatted has no file system and hence no data (`MountInv`, `DiskInv`), and every path
  shows its volume once or nothing (`PathInv`, `AnswerInv`). `GrowthInv` and `FillInv`
  are about sizes.

Only model-checked: the liveness properties (`DetachCompletes`, `AttachCompletes`,
`DeleteCompletes`, `ContentSettles`, `ClaimGetsBound`, `PodGetsVolume`,
`VolumeLeavesNode`), since fairness is out of reach of the proof system, and the five
violations, which are traces.

## 5. Not modelled

* *The clock of the wait loops* (180 s, 3 s ticks, the latency of a poll). A wait ends
  at any moment, and a caller may give up at any step, so every order the clock could
  produce is among the behaviours checked; what is not shown is any bound in seconds.
* *The text of volume ids* (`GenCsiVolId`, `ParseCsiVolId`): string formatting no
  property depends on. That an id needs a serial number a new disk may lack is in
  `Provision`.
* *Read-only RPCs*: NodeGetInfo, NodeGetCapabilities, NodeGetVolumeStats, the RPC
  ValidateVolumeCapabilities, the identity service, ControllerGetCapabilities.
* *The gRPC server, start-up and environment, logging*: a socket, flags and log lines.
  That every call has a goroutine of its own is how handlers run in every module.
* *The snapshot class*, the arguments of `mkfs` and mount options other than the `ro`
  that reaches FormatAndMount: no decision of the driver depends on them. The stubs at
  the end of the cloud manager do nothing.
* Request checks that change nothing (other than CreateVolume's) and the fields of
  answers no property is about.

## 6. Plan

1. *Done*: `ResourceLocks`, `ZecCloud`, `ControllerServer`, `Capacity`, `Snapshots`,
   `Provision`, their runs, and the first theorems.
2. *Done*: `NodeServer`; `Placement` and the prologue of CreateVolume;
   `VolumeService` and the refinement; liveness of snapshots and claims under
   failures.
3. *Done*: theorems for every invariant, action property and the refinement of the
   passing runs.
4. Composition of `Provision` and `Snapshots` over one lock table: restoring from a
   snapshot while it is deleted.
5. `WaitFor`: the deadline, the ticker and the latency of a poll against the
   sidecars' timeouts.
