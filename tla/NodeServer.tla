----------------------------- MODULE NodeServer -----------------------------
(***************************************************************************)
(* pkg/disk/rpcserver/nodeserver.go and pkg/common/mount.go on one node:   *)
(* NodeStageVolume, NodePublishVolume, NodeUnpublishVolume,                *)
(* NodeUnstageVolume and NodeExpandVolume, with FormatAndMount and         *)
(* FormatNewDisk.                                                          *)
(*                                                                         *)
(* A handler takes the lock of the volume id and runs commands (lsblk,     *)
(* fsck, mount, blkid, mkfs, resize2fs, blockdev) one after the other; one *)
(* action is the code from one command to the next.  A device is looked up *)
(* once, by serial number, and from then on known by its name, which the   *)
(* kernel gives to another disk when the first one has left the node.      *)
(*                                                                         *)
(* Around the handlers: the kernel, with its device names and its mount    *)
(* table; kubelet, which stages before it publishes, undoes both before    *)
(* the volume is detached, repeats what failed and gives up on slow calls; *)
(* the plugin, which may crash, and the node, which may reboot.            *)
(*                                                                         *)
(* Assumption: the controller takes a disk off the node only after kubelet *)
(* has unstaged it (Detach), as CSI asks.                                  *)
(***************************************************************************)
EXTENDS ResourceLocks, Integers, Sequences

CONSTANTS
  Plugin,     \* the driver process of the node
  Calls,      \* bound: RPCs in flight at a time
  Volumes,    \* volumes that may come to the node
  Others,     \* disks that come and go without the driver, with data on them
  Pods,       \* pods that may use a volume
  Letters,    \* device names
  None,       \* no disk, no device name; as a mount source: the node's own disk
  MaxSize,    \* bound: largest disk size
  MaxFaults,  \* bound: how many failures may happen
  LateSize,   \* may the node see a grown disk later than kubelet is told of it?
  Start       \* what the volumes are like at first

FsTypes == {"ext4", "xfs"}
Formats == FsTypes \union {"blank", "parts", "atari"}

\* A volume: how it is asked for, what its disk holds, how large both are.  ro:
\* the option is among those that reach FormatAndMount, which takes the feature
\* gate for mount options; without the gate every volume has ro = FALSE.
Volume == [block : BOOLEAN, fstype : FsTypes, ro : BOOLEAN,
           format : Formats, fssize : 0..MaxSize, size : 1..MaxSize]

ASSUME NodeAssumption ==
  /\ Replicas = {Plugin}
  /\ None \notin Volumes \union Others \union Letters
  /\ Volumes \intersect Others = {}
  /\ "globalmount" \notin Pods
  /\ MaxSize \in Nat \ {0} /\ MaxFaults \in Nat
  /\ LateSize \in BOOLEAN
  /\ Start \subseteq [Volumes -> Volume]
  /\ \A s \in Start, v \in Volumes : s[v].fssize <= s[v].size

VARIABLES
  kind,      \* kind[v]: block, fstype and ro of the volume's capability
  fs,        \* fs[d]: format and size of what the disk d holds
  data,      \* data[d]: does the disk hold data somebody wants back?
  size,      \* size[d]: the size of the disk in the cloud
  blk,       \* blk[d]: the size the node sees
  dev,       \* dev[l]: the disk that has the device name l
  mnt,       \* mnt[q]: the mounts on path q, the topmost first
  dirs,      \* the paths that exist
  faults,    \* failures so far
  pc, req, ret, open,   \* as in ControllerServer
  devicePath,           \* devicePath[c]: the device name the handler found
  attached,  \* volumes the attacher has brought to the node
  want,      \* <<v, p>>: pod p wants volume v
  stage,     \* stage[v]: what kubelet knows of the staging path
  pub,       \* pub[q]: what kubelet knows of target path q
  expand     \* expand[v]: is an expansion of the file system outstanding?

diskVars == <<fs, data>>
nodeVars == <<size, blk, dev, attached>>
pathVars == <<mnt, dirs>>
callVars == <<pc, req, ret, open, devicePath, locks>>
coVars   == <<want, stage, pub, expand>>
vars == <<kind, diskVars, nodeVars, pathVars, faults, callVars, coVars>>

-----------------------------------------------------------------------------
Disks == Volumes \union Others

StagePath(v) == <<v, "globalmount">>
TargetPaths  == Volumes \X Pods
Paths        == TargetPaths \union {StagePath(v) : v \in Volumes}

Labels == {"check", "lookup", "fsck", "mount", "blkid", "pttype", "mkfs",
           "remount", "need", "resize", "prepare", "bind", "cleanup",
           "grow", "getsize"}
Codes == {"OK", "Aborted", "Internal", "NotFound"}

Request == [op : {"Stage", "Publish", "Unpublish", "Unstage", "Expand"},
            vol : Volumes, path : Paths, bytes : 0..MaxSize]
NoReq == [op |-> "none"]

Running(c) == pc[c] \in Labels

TypeOK ==
  /\ kind \in [Volumes -> [block : BOOLEAN, fstype : FsTypes, ro : BOOLEAN]]
  /\ fs \in [Disks -> [format : Formats, size : 0..MaxSize]]
  /\ data \in [Disks -> BOOLEAN]
  /\ size \in [Disks -> 1..MaxSize] /\ blk \in [Disks -> 1..MaxSize]
  /\ dev \in [Letters -> Disks \union {None}]
  /\ mnt \in [Paths -> Seq(Disks \union {None})]
  /\ dirs \subseteq Paths
  /\ faults \in 0..MaxFaults
  /\ locks \in [Replicas -> SUBSET Volumes]
  /\ pc \in [Calls -> Labels \union {"idle", "answer"}]
  /\ req \in [Calls -> Request \union {NoReq}]
  /\ \A c \in Calls : pc[c] # "idle" <=> req[c] \in Request
  /\ ret \in [Calls -> Codes \union {"none"}]
  /\ devicePath \in [Calls -> Letters \union {None}]
  /\ open \in [Calls -> BOOLEAN]
  /\ attached \subseteq Volumes
  /\ want \subseteq TargetPaths
  /\ stage \in [Volumes -> {"none", "unsure", "staged"}]
  /\ pub \in [TargetPaths -> {"none", "unsure", "published"}]
  /\ expand \in [Volumes -> {"none", "pending", "done"}]

\* A disk that is not blank holds data; a fresh one may show as "atari".
Init ==
  /\ \E s \in Start :
       /\ kind = [v \in Volumes |-> [block |-> s[v].block, fstype |-> s[v].fstype,
                                     ro |-> s[v].ro]]
       /\ fs = [d \in Disks |-> IF d \in Others THEN [format |-> "ext4", size |-> 1]
                                ELSE [format |-> s[d].format, size |-> s[d].fssize]]
       /\ size = [d \in Disks |-> IF d \in Others THEN 1 ELSE s[d].size]
  /\ data = [d \in Disks |-> fs[d].format \notin {"blank", "atari"}]
  /\ blk = size
  /\ dev = [l \in Letters |-> None]
  /\ mnt = [q \in Paths |-> <<>>]
  /\ dirs = {}
  /\ faults = 0
  /\ NewResourceLocks
  /\ pc = [c \in Calls |-> "idle"]
  /\ req = [c \in Calls |-> NoReq]
  /\ ret = [c \in Calls |-> "none"]
  /\ devicePath = [c \in Calls |-> None]
  /\ open = [c \in Calls |-> FALSE]
  /\ attached = {}
  /\ want = {}
  /\ stage = [v \in Volumes |-> "none"]
  /\ pub = [q \in TargetPaths |-> "none"]
  /\ expand = [v \in Volumes |-> "none"]

-----------------------------------------------------------------------------
(* How a handler moves.                                                    *)

Fault   == faults < MaxFaults /\ faults' = faults + 1
NoFault == UNCHANGED faults

At(c, op, label) == pc[c] = label /\ req[c].op = op

Frame == UNCHANGED <<kind, nodeVars, req, open, coVars>>

Goto(c, label) ==
  pc' = [pc EXCEPT ![c] = label] /\ UNCHANGED <<ret, locks>>

\* Every return: the deferred Release runs, then the answer is on its way.
Return(c, code) ==
  /\ pc' = [pc EXCEPT ![c] = "answer"]
  /\ ret' = [ret EXCEPT ![c] = code]
  /\ devicePath' = [devicePath EXCEPT ![c] = None]
  /\ Release(Plugin, req[c].vol)

\* A step that changes neither disk nor mount table.
Quiet == UNCHANGED <<diskVars, pathVars>>
Continue(c, label) == Goto(c, label) /\ Quiet /\ UNCHANGED devicePath
Answered(c, code)  == Return(c, code) /\ Quiet

\* A command fails and has had no effect.
Fails(c, code) == Fault /\ Answered(c, code)

\* The disk behind the device name the handler found.
Source(c) == IF devicePath[c] = None THEN None ELSE dev[devicePath[c]]

MountOn(q, source) ==
  mnt' = [mnt EXCEPT ![q] = <<source>> \o @] /\ UNCHANGED <<dirs, diskVars>>

\* IsMountPoint consults the mount table; IsLikelyNotMountPoint compares the
\* device of a directory with that of its parent.
IsMountPoint(q) == mnt[q] # <<>>
IsLikelyMountPoint(q) == mnt[q] # <<>> /\ Head(mnt[q]) # None

-----------------------------------------------------------------------------
(* The prologue of the RPCs: the request is well formed and TryAcquire     *)
(* decides.  Kubelet has one call per path outstanding.                    *)

NoOpenCall(q) == \A c \in Calls : ~(open[c] /\ req[c].path = q)

\* Broken form: the path is locked, not the volume.
ReceiveLocksPath(c, op, v, q, bytes, label) ==
  /\ pc[c] = "idle"
  /\ NoOpenCall(q)
  /\ req' = [req EXCEPT ![c] = [op |-> op, vol |-> v, path |-> q, bytes |-> bytes]]
  /\ open' = [open EXCEPT ![c] = TRUE]
  /\ TryAcquire(Plugin, q)
  /\ pc' = [pc EXCEPT ![c] = label]
  /\ UNCHANGED <<ret, kind, diskVars, nodeVars, pathVars, faults, devicePath>>

Receive(c, op, v, q, bytes, label) ==
  /\ pc[c] = "idle"
  /\ NoOpenCall(q)
  /\ req' = [req EXCEPT ![c] = [op |-> op, vol |-> v, path |-> q, bytes |-> bytes]]
  /\ open' = [open EXCEPT ![c] = TRUE]
  /\ \/ /\ TryAcquire(Plugin, v)
        /\ pc' = [pc EXCEPT ![c] = label]
        /\ UNCHANGED ret
     \/ /\ IsLocked(Plugin, v)
        /\ pc' = [pc EXCEPT ![c] = "answer"]
        /\ ret' = [ret EXCEPT ![c] = "Aborted"]
        /\ UNCHANGED locks
  /\ UNCHANGED <<kind, diskVars, nodeVars, pathVars, faults, devicePath>>

\* The RPC is answered without the lock and without doing anything.
Skip(c, op, v, q, code) ==
  /\ pc[c] = "idle"
  /\ NoOpenCall(q)
  /\ req' = [req EXCEPT ![c] = [op |-> op, vol |-> v, path |-> q, bytes |-> 0]]
  /\ open' = [open EXCEPT ![c] = TRUE]
  /\ pc' = [pc EXCEPT ![c] = "answer"]
  /\ ret' = [ret EXCEPT ![c] = code]
  /\ UNCHANGED <<kind, diskVars, nodeVars, pathVars, devicePath, locks>>

\* getDevPathBySerial: the device whose serial number is that of the volume.
GetDevPathBySerial(c, label) ==
  LET found == {l \in Letters : dev[l] = req[c].vol} IN
  /\ \/ Fails(c, "NotFound")
     \/ found = {} /\ NoFault /\ Answered(c, "NotFound")
     \/ \E l \in found :
          /\ NoFault
          /\ devicePath' = [devicePath EXCEPT ![c] = l]
          /\ Goto(c, label) /\ Quiet
  /\ Frame

-----------------------------------------------------------------------------
(* NodeStageVolume                                                         *)

Wanted(v) == \E p \in Pods : <<v, p>> \in want

NodeStageVolume(c, v) ==
  /\ v \in attached /\ Wanted(v) /\ stage[v] # "staged"
  /\ \/ kind[v].block /\ Skip(c, "Stage", v, StagePath(v), "OK") /\ NoFault
     \/ ~kind[v].block /\ Receive(c, "Stage", v, StagePath(v), 0, "check")
  /\ stage' = [stage EXCEPT ![v] = "unsure"]
  /\ UNCHANGED <<want, pub, expand>>

\* A staging path that is mounted is taken to be staged.
StageCheck(c) ==
  LET q == req[c].path IN
  /\ At(c, "Stage", "check")
  /\ \/ Fails(c, "Internal")
     \/ IsLikelyMountPoint(q) /\ NoFault /\ Answered(c, "OK")
     \/ /\ ~IsLikelyMountPoint(q) /\ NoFault
        /\ dirs' = dirs \union {q}
        /\ Goto(c, "lookup")
        /\ UNCHANGED <<mnt, diskVars, devicePath>>
  /\ Frame

StageLookup(c) ==
  /\ At(c, "Stage", "lookup")
  /\ GetDevPathBySerial(c, IF kind[req[c].vol].ro THEN "mount" ELSE "fsck")

(* FormatAndMount: mount, and format only what cannot be mounted and shows *)
(* no format.                                                              *)

\* Exit status 4 ends the call, every other one does not.
Fsck(c) ==
  /\ pc[c] = "fsck"
  /\ Fails(c, "Internal") \/ (NoFault /\ Continue(c, "mount"))
  /\ Frame

CanMount(c) ==
  Source(c) # None /\ fs[Source(c)].format = kind[req[c].vol].fstype

MountDisk(c) ==
  /\ pc[c] = "mount"
  /\ \/ /\ CanMount(c) /\ NoFault
        /\ MountOn(req[c].path, Source(c))
        /\ Goto(c, "need") /\ UNCHANGED devicePath
     \/ (Fault \/ (~CanMount(c) /\ NoFault)) /\ Continue(c, "blkid")
  /\ Frame

\* What blkid says of a device; of one that has left, nothing is found either.
GetDiskFormat(d) ==
  IF d = None THEN "" ELSE
  IF fs[d].format = "blank" THEN "" ELSE
  IF fs[d].format \in FsTypes THEN fs[d].format
  ELSE "unknown data, probably partitions"

\* The head of FormatNewDisk.
FormatNewDisk(c) ==
  \/ kind[req[c].vol].ro /\ NoFault /\ Answered(c, "Internal")
  \/ ~kind[req[c].vol].ro /\ NoFault /\ Continue(c, "mkfs")

\* Broken form: whatever cannot be mounted is formatted.
FormatUnmountable(c) ==
  /\ pc[c] = "blkid"
  /\ FormatNewDisk(c)
  /\ Frame

CheckDiskFormat(c) ==
  LET format == GetDiskFormat(Source(c)) IN
  /\ pc[c] = "blkid"
  /\ \/ Fails(c, "Internal")
     \/ format = "" /\ FormatNewDisk(c)
     \/ format \in FsTypes /\ NoFault /\ Answered(c, "Internal")
     \/ format = "unknown data, probably partitions" /\ NoFault /\ Continue(c, "pttype")
  /\ Frame

\* Broken form: any partition table is taken for that of an empty disk.
FormatPartitioned(c) ==
  /\ pc[c] = "pttype"
  /\ FormatNewDisk(c)
  /\ Frame

\* GetDiskFStypePTtype: a fresh encrypted disk shows an "atari" table.
CheckPartitionTable(c) ==
  LET d == Source(c) IN
  /\ pc[c] = "pttype"
  /\ \/ Fails(c, "Internal")
     \/ d # None /\ fs[d].format = "atari" /\ FormatNewDisk(c)
     \/ (d = None \/ fs[d].format # "atari") /\ NoFault /\ Answered(c, "Internal")
  /\ Frame

\* mkfs overwrites what the device holds, unless that is mounted (one -F or -f
\* does not force it); interrupted, it leaves no file system.
Mkfs(c) ==
  LET d == Source(c)
      Holds(format, n) ==
        /\ fs' = [fs EXCEPT ![d] = [format |-> format, size |-> n]]
        /\ data' = [data EXCEPT ![d] = FALSE]
        /\ UNCHANGED pathVars
      busy == \E q \in Paths : \E i \in DOMAIN mnt[q] : mnt[q][i] = d
  IN
  /\ pc[c] = "mkfs"
  /\ \/ (d = None \/ busy) /\ NoFault /\ Answered(c, "Internal")
     \/ d # None /\ ~busy /\ Fault /\ Holds("blank", 0) /\ Return(c, "Internal")
     \/ /\ d # None /\ ~busy /\ NoFault /\ Holds(kind[req[c].vol].fstype, blk[d])
        /\ Goto(c, "remount") /\ UNCHANGED devicePath
  /\ Frame

MountFormatted(c) ==
  /\ pc[c] = "remount"
  /\ \/ /\ CanMount(c) /\ NoFault
        /\ MountOn(req[c].path, Source(c))
        /\ Goto(c, "need") /\ UNCHANGED devicePath
     \/ (Fault \/ (~CanMount(c) /\ NoFault)) /\ Answered(c, "Internal")
  /\ Frame

\* Broken form: a disk is only looked at when it was just formatted.
NeedResizeNever(c) ==
  /\ pc[c] = "need" /\ NoFault /\ Answered(c, "OK")
  /\ Frame

\* NeedResize: an error is logged and answered OK.
NeedResize(c) ==
  LET d == Source(c) IN
  /\ pc[c] = "need"
  /\ \/ (Fault \/ (d = None /\ NoFault)) /\ Answered(c, "OK")
     \/ d # None /\ fs[d].size >= blk[d] /\ NoFault /\ Answered(c, "OK")
     \/ d # None /\ fs[d].size < blk[d] /\ NoFault /\ Continue(c, "resize")
  /\ Frame

\* ResizeFs.Resize grows a file system to the size the node sees of its disk;
\* it cannot when the file system is mounted read-only.
CanGrow(c) ==
  /\ Source(c) # None /\ fs[Source(c)].format \in FsTypes
  /\ ~kind[req[c].vol].ro

GrowFs(c) ==
  /\ CanGrow(c)
  /\ fs' = [fs EXCEPT ![Source(c)].size = blk[Source(c)]]
  /\ UNCHANGED <<data, pathVars>>

StageResize(c) ==
  /\ pc[c] = "resize"
  /\ \/ (Fault \/ (~CanGrow(c) /\ NoFault)) /\ Answered(c, "Internal")
     \/ NoFault /\ GrowFs(c) /\ Return(c, "OK")
  /\ Frame

-----------------------------------------------------------------------------
(* NodePublishVolume: bind the staging path, or the device of a block      *)
(* volume, to the path of the pod.                                         *)

NodePublishVolume(c, v) ==
  \E q \in want :
    /\ q[1] = v /\ stage[v] = "staged" /\ pub[q] # "published"
    /\ Receive(c, "Publish", v, q, 0, IF kind[v].block THEN "lookup" ELSE "prepare")
    /\ pub' = [pub EXCEPT ![q] = "unsure"]
    /\ UNCHANGED <<want, stage, expand>>

PublishLookup(c) == At(c, "Publish", "lookup") /\ GetDevPathBySerial(c, "prepare")

\* Broken form: the check for directories is used for a device file, too; it
\* sees no mount there.
PublishPrepareLikely(c) ==
  LET q == req[c].path
      mounted == ~kind[req[c].vol].block /\ IsLikelyMountPoint(q)
  IN
  /\ pc[c] = "prepare" /\ NoFault
  /\ \/ mounted /\ dirs' = dirs \union {q} /\ Return(c, "OK") /\ UNCHANGED <<mnt, diskVars>>
     \/ /\ ~mounted /\ dirs' = dirs \union {q}
        /\ Goto(c, "bind") /\ UNCHANGED <<mnt, diskVars, devicePath>>
  /\ Frame

\* A file or a directory: both are a path that exists.
CreateTargetMountPathIfNotExists(q) == dirs' = dirs \union {q}

\* The target path is made, and if something is mounted on it, it is published;
\* an error may come before or after the path is made.
PublishPrepare(c) ==
  LET q == req[c].path
      mounted == IF kind[req[c].vol].block THEN IsMountPoint(q) ELSE IsLikelyMountPoint(q)
  IN
  /\ pc[c] = "prepare"
  /\ \/ /\ Fault
        /\ UNCHANGED dirs \/ CreateTargetMountPathIfNotExists(q)
        /\ Return(c, "Internal")
        /\ UNCHANGED <<mnt, diskVars>>
     \/ /\ NoFault
        /\ CreateTargetMountPathIfNotExists(q)
        /\ \/ mounted /\ Return(c, "OK")
           \/ ~mounted /\ Goto(c, "bind") /\ UNCHANGED devicePath
        /\ UNCHANGED <<mnt, diskVars>>
  /\ Frame

\* A staging path with nothing on it is a directory of the node's own disk.  With
\* options a bind mount is two commands, and a failure may leave the first done.
PublishBind(c) ==
  LET v == req[c].vol  staged == StagePath(v)
      missing == IF kind[v].block THEN Source(c) = None ELSE staged \notin dirs
      source == IF kind[v].block THEN Source(c)
                ELSE IF mnt[staged] = <<>> THEN None ELSE Head(mnt[staged])
  IN
  /\ pc[c] = "bind"
  /\ \/ (Fault \/ (missing /\ NoFault)) /\ Answered(c, "Internal")
     \/ /\ ~missing /\ MountOn(req[c].path, source)
        /\ \/ NoFault /\ Return(c, "OK")
           \/ Fault /\ Return(c, "Internal")
  /\ Frame

-----------------------------------------------------------------------------
(* NodeUnpublishVolume and NodeUnstageVolume                               *)

NodeUnpublishVolume(c, v) ==
  \E q \in TargetPaths \ want :
    /\ q[1] = v /\ pub[q] # "none"
    /\ Receive(c, "Unpublish", v, q, 0, "cleanup")
    /\ pub' = [pub EXCEPT ![q] = "unsure"]
    /\ UNCHANGED <<want, stage, expand>>

Unpublished(v) == ~Wanted(v) /\ \A p \in Pods : pub[<<v, p>>] = "none"

NodeUnstageVolume(c, v) ==
  /\ Unpublished(v) /\ stage[v] # "none"
  /\ Receive(c, "Unstage", v, StagePath(v), 0, "cleanup")
  /\ stage' = [stage EXCEPT ![v] = "unsure"]
  /\ UNCHANGED <<want, pub, expand>>

\* Broken form: the path is removed and what is mounted on it is left.
CleanupWithoutUnmount(c) ==
  /\ pc[c] = "cleanup" /\ NoFault
  /\ dirs' = dirs \ {req[c].path}
  /\ Return(c, "OK")
  /\ UNCHANGED <<mnt, diskVars>>
  /\ Frame

\* CleanupMountPoint: unmount once and remove the path, if nothing is left on
\* it; a path that does not exist is clean.
CleanupMountPoint(c) ==
  LET q == req[c].path
      rest == IF IsMountPoint(q) THEN Tail(mnt[q]) ELSE <<>>
  IN
  /\ pc[c] = "cleanup"
  /\ \/ Fails(c, "Internal")
     \/ /\ IsMountPoint(q) /\ (Fault \/ (rest # <<>> /\ NoFault))
        /\ mnt' = [mnt EXCEPT ![q] = rest]
        /\ Return(c, "Internal")
        /\ UNCHANGED dirs
     \/ /\ rest = <<>> /\ NoFault
        /\ mnt' = [mnt EXCEPT ![q] = rest]
        /\ dirs' = dirs \ {q}
        /\ Return(c, "OK")
  /\ UNCHANGED diskVars
  /\ Frame

-----------------------------------------------------------------------------
(* NodeExpandVolume.  Kubelet calls it for a path that is published, where *)
(* a block volume is recognised by its capability or, without one, by what *)
(* the path is; that may fail.                                             *)

NodeExpandVolume(c, v) ==
  \E q \in want :
    /\ q[1] = v /\ expand[v] = "pending" /\ pub[q] = "published"
    /\ \/ Skip(c, "Expand", v, q, "NotFound") /\ Fault
       \/ kind[v].block /\ Skip(c, "Expand", v, q, "OK") /\ NoFault
       \/ ~kind[v].block /\ Receive(c, "Expand", v, q, size[v], "lookup")
    /\ UNCHANGED coVars

ExpandLookup(c) == At(c, "Expand", "lookup") /\ GetDevPathBySerial(c, "grow")

ExpandGrow(c) ==
  /\ pc[c] = "grow"
  /\ \/ (Fault \/ (~CanGrow(c) /\ NoFault)) /\ Answered(c, "Internal")
     \/ NoFault /\ GrowFs(c) /\ Goto(c, "getsize") /\ UNCHANGED devicePath
  /\ Frame

\* Broken form: the size after the resize is not compared.
ExpandUnchecked(c) ==
  /\ pc[c] = "getsize" /\ NoFault /\ Answered(c, "OK")
  /\ Frame

\* What blockdev says of a device: the size the node sees now.
GetBlockSizeBytes(d) == blk[d]

\* The size of the device after the resize is compared with the request.
ExpandGetSize(c) ==
  LET d == Source(c) IN
  /\ pc[c] = "getsize"
  /\ \/ (Fault \/ (d = None /\ NoFault)) /\ Answered(c, "Internal")
     \/ d # None /\ GetBlockSizeBytes(d) < req[c].bytes /\ NoFault /\ Answered(c, "Internal")
     \/ d # None /\ GetBlockSizeBytes(d) >= req[c].bytes /\ NoFault /\ Answered(c, "OK")
  /\ Frame

-----------------------------------------------------------------------------
(* The attacher, the kernel, kubelet and the pods.                         *)

\* ControllerPublishVolume and ControllerUnpublishVolume, seen from the node:
\* the volume comes when a pod wants it and leaves when kubelet no longer
\* uses it; its disk takes a free device name some time after it was attached.
Attach(v) ==
  /\ Wanted(v) /\ v \notin attached
  /\ attached' = attached \union {v}
  /\ UNCHANGED <<kind, diskVars, size, blk, dev, pathVars, faults, callVars, coVars>>

DeviceAppears(v) ==
  /\ v \in attached /\ \A l \in Letters : dev[l] # v
  /\ \E l \in Letters : dev[l] = None /\ dev' = [dev EXCEPT ![l] = v]
  /\ blk' = [blk EXCEPT ![v] = size[v]]
  /\ UNCHANGED <<kind, diskVars, size, attached, pathVars, faults, callVars, coVars>>

\* Assumed: only after NodeUnstageVolume was answered.  Several replicas of the
\* controller may break this (run two_replicas_detach).
Detach(v) ==
  /\ v \in attached /\ Unpublished(v) /\ stage[v] = "none"
  /\ \A c \in Calls : ~(open[c] /\ req[c].vol = v)
  /\ attached' = attached \ {v}
  /\ dev' = [l \in Letters |-> IF dev[l] = v THEN None ELSE dev[l]]
  /\ UNCHANGED <<kind, diskVars, size, blk, pathVars, faults, callVars, coVars>>

\* The same for a disk the driver has nothing to do with.
OtherAppears(d) ==
  /\ \A l \in Letters : dev[l] # d
  /\ \E l \in Letters : dev[l] = None /\ dev' = [dev EXCEPT ![l] = d]
  /\ UNCHANGED <<kind, diskVars, size, blk, attached, pathVars, faults, callVars, coVars>>

OtherLeaves(d) ==
  /\ \E l \in Letters : dev[l] = d /\ dev' = [dev EXCEPT ![l] = None]
  /\ UNCHANGED <<kind, diskVars, size, blk, attached, pathVars, faults, callVars, coVars>>

\* ControllerExpandVolume grows the disk and kubelet is to grow the file
\* system; the node learns of the new size at once or later.
DiskGrows(v) ==
  /\ v \in attached /\ size[v] < MaxSize /\ expand[v] = "none"
  /\ size' = [size EXCEPT ![v] = @ + 1]
  /\ expand' = [expand EXCEPT ![v] = "pending"]
  /\ \/ LateSize /\ UNCHANGED blk
     \/ blk' = [blk EXCEPT ![v] = size'[v]]
  /\ UNCHANGED <<kind, diskVars, dev, attached, pathVars, faults, callVars, want, stage, pub>>

SizeSeen(v) ==
  /\ v \in attached /\ blk[v] # size[v]
  /\ blk' = [blk EXCEPT ![v] = size[v]]
  /\ UNCHANGED <<kind, diskVars, size, dev, attached, pathVars, faults, callVars, coVars>>

\* A pod comes, goes, and writes to what it finds on its path.
PodStarts(q) ==
  /\ q \notin want
  /\ want' = want \union {q}
  /\ UNCHANGED <<kind, diskVars, nodeVars, pathVars, faults, callVars, stage, pub, expand>>

PodStops(q) ==
  /\ q \in want
  /\ want' = want \ {q}
  /\ UNCHANGED <<kind, diskVars, nodeVars, pathVars, faults, callVars, stage, pub, expand>>

PodWrites(q) ==
  /\ q \in want /\ pub[q] = "published" /\ mnt[q] # <<>>
  /\ LET d == Head(mnt[q]) IN
       /\ d # None /\ ~kind[q[1]].ro /\ ~data[d]
       /\ data' = [data EXCEPT ![d] = TRUE]
  /\ UNCHANGED <<kind, fs, nodeVars, pathVars, faults, callVars, coVars>>

\* The answer arrives; errors and answers nobody waits for change nothing.
KubeletLearns(q) ==
  /\ stage' = [stage EXCEPT ![q.vol] =
                 IF q.op = "Stage" THEN "staged" ELSE
                 IF q.op = "Unstage" THEN "none" ELSE @]
  /\ pub' = IF q.op = "Publish" THEN [pub EXCEPT ![q.path] = "published"]
            ELSE IF q.op = "Unpublish" THEN [pub EXCEPT ![q.path] = "none"] ELSE pub
  /\ expand' = IF q.op = "Expand" THEN [expand EXCEPT ![q.vol] = "done"] ELSE expand
  /\ UNCHANGED want

Answer(c) ==
  /\ pc[c] = "answer"
  /\ \/ open[c] /\ ret[c] = "OK" /\ KubeletLearns(req[c])
     \/ (~open[c] \/ ret[c] # "OK") /\ UNCHANGED coVars
  /\ pc' = [pc EXCEPT ![c] = "idle"]
  /\ req' = [req EXCEPT ![c] = NoReq]
  /\ ret' = [ret EXCEPT ![c] = "none"]
  /\ open' = [open EXCEPT ![c] = FALSE]
  /\ UNCHANGED <<kind, diskVars, nodeVars, pathVars, faults, devicePath, locks>>

\* Kubelet stops waiting, the handler goes on.
GiveUp(c) ==
  /\ open[c]
  /\ open' = [open EXCEPT ![c] = FALSE]
  /\ Fault
  /\ UNCHANGED <<kind, diskVars, nodeVars, pathVars, pc, req, ret, devicePath, locks, coVars>>

HandlersDie ==
  /\ pc' = [c \in Calls |-> "idle"]
  /\ req' = [c \in Calls |-> NoReq]
  /\ ret' = [c \in Calls |-> "none"]
  /\ devicePath' = [c \in Calls |-> None]
  /\ open' = [c \in Calls |-> FALSE]
  /\ LoseLocks(Plugin)
  /\ Fault

\* The plugin restarts, with the mount table and what kubelet knows intact.
Crash == HandlersDie /\ UNCHANGED <<kind, diskVars, nodeVars, pathVars, coVars>>

\* The node restarts: nothing is mounted, the directories are still there and
\* kubelet has to find out again.
Reboot ==
  /\ HandlersDie
  /\ mnt' = [q \in Paths |-> <<>>]
  /\ stage' = [v \in Volumes |-> IF stage[v] = "staged" THEN "unsure" ELSE stage[v]]
  /\ pub' = [q \in TargetPaths |-> IF pub[q] = "published" THEN "unsure" ELSE pub[q]]
  /\ UNCHANGED <<kind, diskVars, nodeVars, dirs, want, expand>>

-----------------------------------------------------------------------------
StageStep(c) ==
  \/ StageCheck(c) \/ StageLookup(c) \/ Fsck(c) \/ MountDisk(c)
  \/ CheckDiskFormat(c) \/ CheckPartitionTable(c) \/ Mkfs(c) \/ MountFormatted(c)
  \/ NeedResize(c) \/ StageResize(c)

Handler(c) ==
  \/ StageStep(c)
  \/ PublishLookup(c) \/ PublishPrepare(c) \/ PublishBind(c)
  \/ CleanupMountPoint(c)
  \/ ExpandLookup(c) \/ ExpandGrow(c) \/ ExpandGetSize(c)

SetUp(c, v)    == NodeStageVolume(c, v) \/ NodePublishVolume(c, v)
TearDown(c, v) == NodeUnpublishVolume(c, v) \/ NodeUnstageVolume(c, v)
Kubelet(c, v)  == SetUp(c, v) \/ TearDown(c, v) \/ NodeExpandVolume(c, v)

Next ==
  \/ \E c \in Calls : \/ \E v \in Volumes : Kubelet(c, v)
                      \/ Handler(c) \/ Answer(c) \/ GiveUp(c)
  \/ \E v \in Volumes : \/ Attach(v) \/ DeviceAppears(v) \/ Detach(v)
                        \/ DiskGrows(v) \/ SizeSeen(v)
  \/ \E d \in Others : OtherAppears(d) \/ OtherLeaves(d)
  \/ \E q \in TargetPaths : PodStarts(q) \/ PodStops(q) \/ PodWrites(q)
  \/ Crash \/ Reboot

Spec == Init /\ [][Next]_vars

(* Goroutines run, answers arrive, kubelet and the attacher go on with     *)
(* every volume until it is where it should be, and a disk that was        *)
(* attached shows up.                                                      *)
Fairness ==
  /\ \A c \in Calls : WF_vars(Handler(c)) /\ WF_vars(Answer(c))
  /\ \A v \in Volumes : /\ WF_vars(Attach(v)) /\ WF_vars(DeviceAppears(v))
                        /\ SF_vars(\E c \in Calls : SetUp(c, v))
                        /\ SF_vars(\E c \in Calls : TearDown(c, v))

FairSpec == Spec /\ Fairness

-----------------------------------------------------------------------------
(* Properties                                                              *)

\* DeviceIsStillOurs: whenever a handler uses the device name it looked up
\* under its lock, the name still belongs to the volume it serves, although a
\* device name is free for the next disk once the volume has left the node.
DeviceIsStillOurs ==
  \A c \in Calls : devicePath[c] # None => Source(c) = req[c].vol

\* DataSurvives: no handler ever formats a disk that holds data: not one whose
\* mount failed for a moment, not one with a partition table, and not one that
\* took over a device name from an empty disk.
DataSurvives == [][\A d \in Disks : data[d] => data'[d]]_vars

\* PublishedShowsVolume: the path of a pod whose NodePublishVolume was answered
\* OK shows that volume and nothing else, mounted once: not an unmounted
\* staging directory, not another disk and no second mount from a repeated call.
PublishedShowsVolume ==
  \A q \in TargetPaths : pub[q] = "published" => mnt[q] = <<q[1]>>

\* NothingLeftMounted: a volume kubelet has undone (so that it may be detached
\* and used elsewhere) is mounted nowhere on the node, whatever calls were
\* abandoned or failed half way.
NothingLeftMounted ==
  \A v \in Volumes :
    Unpublished(v) /\ stage[v] = "none" =>
      \A q \in Paths : (q[1] = v => mnt[q] = <<>>) /\ v \notin {mnt[q][i] : i \in DOMAIN mnt[q]}

\* ExpandedIsSeen: an expansion is reported done only when the node sees the
\* disk in its new size.
ExpandedIsSeen ==
  \A v \in Volumes : expand[v] = "done" /\ ~kind[v].block => blk[v] = size[v]

\* StagedFillsDisk: when nothing has failed, a staged file system is as large
\* as its disk (one restored to a larger disk included), unless an expansion is
\* still to come.
StagedFillsDisk ==
  \A v \in Volumes :
    faults = 0 /\ stage[v] = "staged" /\ ~kind[v].block /\ ~kind[v].ro
      /\ expand[v] = "none" => fs[v].size = blk[v]

\* PodGetsVolume: a pod gets the volume it wants, after any finite number of
\* failures, restarts and reboots, if the volume can be mounted as asked.
Mountable(v) ==
  \/ kind[v].block \/ fs[v].format = kind[v].fstype
  \/ ~kind[v].ro /\ fs[v].format \in {"blank", "atari"}

PodGetsVolume ==
  \A q \in TargetPaths :
    q \in want ~> q \notin want \/ pub[q] = "published" \/ ~Mountable(q[1])

\* VolumeLeavesNode: a volume nobody wants is undone, and may be detached.
VolumeLeavesNode ==
  \A v \in Volumes : ~Wanted(v) ~> Wanted(v) \/ (Unpublished(v) /\ stage[v] = "none")
=============================================================================
