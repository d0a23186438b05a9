-------------------------- MODULE NodeServerProofs --------------------------
(***************************************************************************)
(* Theorems about NodeServer, for any number of volumes, pods, device      *)
(* names, calls and failures.                                              *)
(*                                                                         *)
(* All of them rest on one inductive invariant, NodeInv.  Its core is that *)
(* the lock of a volume keeps every other handler from its disk and its    *)
(* paths, and that kubelet is unsure of a path as long as some handler, be *)
(* it abandoned, works on it: so nothing is detached, taken for published  *)
(* or taken for clean under a handler that is still running.               *)
(***************************************************************************)
EXTENDS NodeServer, TLAPS

StageLabels   == {"check", "lookup", "fsck", "mount", "blkid", "pttype", "mkfs",
                  "remount", "need", "resize"}
PublishLabels == {"lookup", "prepare", "bind"}
ExpandLabels  == {"lookup", "grow", "getsize"}
StageOps      == {"Stage", "Unstage"}
PublishOps    == {"Publish", "Unpublish"}

\* A handler is where its RPC has it, on the path its RPC is about.
CallOK(c) ==
  /\ pc[c] # "idle" =>
       \/ req[c].op \in StageOps /\ req[c].path = StagePath(req[c].vol)
       \/ /\ req[c].op \in PublishOps \union {"Expand"}
          /\ req[c].path \in TargetPaths /\ req[c].path[1] = req[c].vol
  /\ Running(c) =>
       \/ req[c].op = "Stage" /\ pc[c] \in StageLabels /\ ~kind[req[c].vol].block
       \/ req[c].op = "Publish" /\ pc[c] \in PublishLabels
       \/ req[c].op \in {"Unstage", "Unpublish"} /\ pc[c] = "cleanup"
       \/ req[c].op = "Expand" /\ pc[c] \in ExpandLabels /\ ~kind[req[c].vol].block
  /\ open[c] => pc[c] # "idle"

CallInv == \A c \in Calls : CallOK(c)

\* A running handler holds the lock of its volume, and it alone works on it.
LockInv ==
  \A c \in Calls : Running(c) =>
    /\ req[c].vol \in locks[Plugin]
    /\ \A d \in Calls : Running(d) /\ req[d].vol = req[c].vol => d = c

\* The labels at which a handler uses the device it looked up.
UsesDevice(c) ==
  \/ pc[c] \in {"fsck", "mount", "blkid", "pttype", "mkfs", "remount", "need",
                "resize", "grow", "getsize"}
  \/ pc[c] \in {"prepare", "bind"} /\ kind[req[c].vol].block

DeviceOK(c) ==
  /\ UsesDevice(c) => devicePath[c] # None
  /\ devicePath[c] # None =>
       /\ Running(c) /\ req[c].op \in {"Stage", "Publish", "Expand"}
       /\ dev[devicePath[c]] = req[c].vol

DeviceInv == \A c \in Calls : DeviceOK(c)

\* Kubelet has one call per path outstanding and until it is answered is not
\* sure of what it knows of the path.
OpenInv ==
  /\ \A c, d \in Calls : open[c] /\ open[d] /\ req[c].path = req[d].path => c = d
  /\ \A c \in Calls : open[c] =>
       /\ req[c].op \in StageOps => stage[req[c].vol] = "unsure"
       /\ req[c].op \in PublishOps => pub[req[c].path] = "unsure"

\* What kubelet knows of the path a handler is working on, waited for or not.
KnowInv ==
  \A c \in Calls : Running(c) =>
    /\ req[c].op \in StageOps => kind[req[c].vol].block \/ stage[req[c].vol] = "unsure"
    /\ req[c].op \in PublishOps => pub[req[c].path] = "unsure"
    /\ req[c].op = "Publish" => kind[req[c].vol].block \/ stage[req[c].vol] = "staged"
    /\ req[c].op = "Expand" => /\ pub[req[c].path] # "none"
                               /\ expand[req[c].vol] # "none"
                               /\ req[c].bytes = size[req[c].vol]

\* What is mounted where a handler is.
MountOK(c) ==
  Running(c) =>
    /\ req[c].op = "Stage" =>
         /\ pc[c] \in {"lookup", "fsck", "mount", "blkid", "pttype", "mkfs", "remount"} =>
              mnt[req[c].path] = <<>>
         /\ pc[c] \in {"need", "resize"} => mnt[req[c].path] = <<req[c].vol>>
         /\ pc[c] = "mkfs" => fs[req[c].vol].format \in {"blank", "atari"}
    /\ pc[c] = "bind" => mnt[req[c].path] = <<>>

MountInv == \A c \in Calls : MountOK(c)

\* What is true when an answer of OK is on its way.
Delivers(c) ==
  /\ req[c].op = "Stage" => kind[req[c].vol].block \/ mnt[req[c].path] = <<req[c].vol>>
  /\ req[c].op = "Publish" => mnt[req[c].path] = <<req[c].vol>>
  /\ req[c].op \in {"Unstage", "Unpublish"} => mnt[req[c].path] = <<>>
  /\ req[c].op = "Expand" => /\ expand[req[c].vol] # "none"
                             /\ ~kind[req[c].vol].block =>
                                  blk[req[c].vol] = size[req[c].vol]

AnswerInv ==
  \A c \in Calls : open[c] /\ pc[c] = "answer" /\ ret[c] = "OK" =>
    /\ Delivers(c)
    /\ \/ req[c].op = "Stage" /\ kind[req[c].vol].block
       \/ \A d \in Calls : Running(d) => req[d].path # req[c].path

\* A path shows its volume, once, or nothing, as kubelet knows.
PathInv ==
  /\ \A q \in Paths : mnt[q] \in {<<>>, <<q[1]>>}
  /\ \A v \in Volumes :
       /\ stage[v] = "none" \/ kind[v].block => mnt[StagePath(v)] = <<>>
       /\ stage[v] = "staged" /\ ~kind[v].block => mnt[StagePath(v)] = <<v>>
  /\ \A q \in TargetPaths :
       /\ pub[q] = "none" => mnt[q] = <<>>
       /\ pub[q] = "published" => mnt[q] = <<q[1]>>

\* A disk without a file system holds no data, and is not mounted; a block
\* volume may hold anything.
DiskInv ==
  /\ \A v \in Volumes : fs[v].format \in {"blank", "atari"} => kind[v].block \/ ~data[v]
  /\ \A q \in Paths : mnt[q] = <<q[1]>> => kind[q[1]].block \/ fs[q[1]].format \in FsTypes

GrowthInv ==
  \A v \in Volumes :
    /\ blk[v] <= size[v] /\ fs[v].size <= blk[v]
    /\ expand[v] = "none" => blk[v] = size[v]
    /\ expand[v] = "done" /\ ~kind[v].block => blk[v] = size[v]

FillInv ==
  \A v \in Volumes :
    /\ faults = 0 /\ ~kind[v].block /\ ~kind[v].ro /\ expand[v] = "none"
    /\ mnt[StagePath(v)] = <<v>>
    => \/ fs[v].size = blk[v]
       \/ \E c \in Calls : req[c].op = "Stage" /\ req[c].vol = v /\ pc[c] \in {"need", "resize"}

NodeInv ==
  /\ TypeOK /\ CallInv /\ LockInv /\ DeviceInv /\ OpenInv /\ KnowInv
  /\ MountInv /\ AnswerInv /\ PathInv /\ DiskInv /\ GrowthInv /\ FillInv

-----------------------------------------------------------------------------
(* What a step of a handler comes to, command by command.                  *)

Ends(c, code) ==
  /\ pc' = [pc EXCEPT ![c] = "answer"]
  /\ ret' = [ret EXCEPT ![c] = code]
  /\ devicePath' = [devicePath EXCEPT ![c] = None]
  /\ locks' = [locks EXCEPT ![Plugin] = @ \ {req[c].vol}]

Goes(c, from, to) ==
  /\ pc[c] = from
  /\ pc' = [pc EXCEPT ![c] = to] /\ ret' = ret /\ locks' = locks

Still == fs' = fs /\ data' = data /\ mnt' = mnt
Keeps == devicePath' = devicePath

Gives(c) ==
  Still /\ \E code \in Codes \ {"OK"} : Ends(c, code)

Confirms(c) ==
  /\ Still /\ Ends(c, "OK")
  /\ \/ req[c].op = "Stage" /\ pc[c] = "check" /\ mnt[req[c].path] # <<>>
     \/ pc[c] = "need" /\ (\/ faults' = faults + 1 \/ Source(c) = None
                           \/ fs[Source(c)].size >= blk[Source(c)])
     \/ pc[c] = "prepare" /\ mnt[req[c].path] # <<>>
     \/ pc[c] = "getsize" /\ Source(c) # None /\ blk[Source(c)] >= req[c].bytes

Proceeds(c) ==
  /\ Still /\ Keeps
  /\ \/ /\ req[c].op = "Stage" /\ Goes(c, "check", "lookup")
        /\ ~IsLikelyMountPoint(req[c].path)
     \/ Goes(c, "fsck", "mount") \/ Goes(c, "mount", "blkid") \/ Goes(c, "blkid", "pttype")
     \/ Goes(c, "blkid", "mkfs") /\ GetDiskFormat(Source(c)) = ""
     \/ Goes(c, "pttype", "mkfs") /\ Source(c) # None /\ fs[Source(c)].format = "atari"
     \/ Goes(c, "need", "resize")
     \/ Goes(c, "prepare", "bind") /\ ~IsLikelyMountPoint(req[c].path)

Finds(c) ==
  /\ Still
  /\ \E l \in Letters : dev[l] = req[c].vol /\ devicePath' = [devicePath EXCEPT ![c] = l]
  /\ \/ req[c].op = "Stage" /\ \E to \in {"mount", "fsck"} : Goes(c, "lookup", to)
     \/ req[c].op = "Publish" /\ Goes(c, "lookup", "prepare")
     \/ req[c].op = "Expand" /\ Goes(c, "lookup", "grow")

Mounts(c) ==
  /\ CanMount(c) /\ Keeps /\ fs' = fs /\ data' = data
  /\ mnt' = [mnt EXCEPT ![req[c].path] = <<Source(c)>> \o @]
  /\ Goes(c, "mount", "need") \/ Goes(c, "remount", "need")

Overwrites(c, format, n) ==
  /\ pc[c] = "mkfs" /\ Source(c) # None /\ mnt' = mnt
  /\ \A q \in Paths : \A i \in DOMAIN mnt[q] : mnt[q][i] # Source(c)
  /\ fs' = [fs EXCEPT ![Source(c)] = [format |-> format, size |-> n]]
  /\ data' = [data EXCEPT ![Source(c)] = FALSE]

Grows(c) ==
  /\ CanGrow(c) /\ data' = data /\ mnt' = mnt
  /\ fs' = [fs EXCEPT ![Source(c)].size = blk[Source(c)]]
  /\ \/ pc[c] = "resize" /\ Ends(c, "OK")
     \/ Goes(c, "grow", "getsize") /\ Keeps

Binds(c) ==
  /\ pc[c] = "bind" /\ fs' = fs /\ data' = data
  /\ \E code \in {"OK", "Internal"} : Ends(c, code)
  /\ LET v == req[c].vol  staged == StagePath(v) IN
       mnt' = [mnt EXCEPT ![req[c].path] =
                 <<IF kind[v].block THEN Source(c)
                   ELSE IF mnt[staged] = <<>> THEN None ELSE Head(mnt[staged])>> \o @]

Unmounts(c) ==
  LET q == req[c].path
      rest == IF IsMountPoint(q) THEN Tail(mnt[q]) ELSE <<>>
  IN
  /\ pc[c] = "cleanup" /\ fs' = fs /\ data' = data
  /\ mnt' = [mnt EXCEPT ![q] = rest]
  /\ Ends(c, "Internal") \/ (rest = <<>> /\ Ends(c, "OK"))

Outcome(c) ==
  \/ Gives(c) \/ Confirms(c) \/ Proceeds(c) \/ Finds(c) \/ Mounts(c)
  \/ Overwrites(c, "blank", 0) /\ Ends(c, "Internal") /\ faults' = faults + 1
  \/ /\ Overwrites(c, kind[req[c].vol].fstype, blk[Source(c)])
     /\ Goes(c, "mkfs", "remount") /\ Keeps
  \/ Grows(c) \/ Binds(c) \/ Unmounts(c)

\* What no handler touches.
Alone ==
  /\ kind' = kind /\ size' = size /\ blk' = blk /\ dev' = dev /\ attached' = attached
  /\ req' = req /\ open' = open
  /\ want' = want /\ stage' = stage /\ pub' = pub /\ expand' = expand

Faulty == faults' = faults \/ (faults < MaxFaults /\ faults' = faults + 1)

LEMMA QuietSteps ==
  ASSUME NEW c \in Calls
  PROVE  /\ \A code \in Codes \ {"OK"} : Answered(c, code) => Gives(c) /\ dirs' = dirs
         /\ \A code \in Codes \ {"OK"} : Fails(c, code) => Gives(c) /\ Faulty /\ dirs' = dirs
         /\ Answered(c, "OK") => Still /\ Ends(c, "OK") /\ dirs' = dirs
         /\ \A l : Continue(c, l) => Still /\ Keeps /\ dirs' = dirs /\ Goes(c, pc[c], l)
         /\ (Fault \/ NoFault => Faulty)
  BY DEF Answered, Fails, Continue, Goto, Return, Release, Quiet, diskVars, pathVars,
         Gives, Still, Ends, Keeps, Goes, Fault, NoFault, Faulty

LEMMA LookupOutcome ==
  ASSUME NEW c \in Calls, NEW l, GetDevPathBySerial(c, l), pc[c] = "lookup",
         \/ req[c].op = "Stage" /\ l \in {"mount", "fsck"}
         \/ req[c].op = "Publish" /\ l = "prepare"
         \/ req[c].op = "Expand" /\ l = "grow"
  PROVE  (Gives(c) \/ Finds(c)) /\ Faulty /\ dirs' = dirs /\ Alone
  <1>1. Alone
    BY DEF GetDevPathBySerial, Frame, nodeVars, coVars, Alone
  <1>2. CASE Fails(c, "NotFound")
    BY <1>1, <1>2, QuietSteps DEF Codes
  <1>3. CASE NoFault /\ Answered(c, "NotFound")
    BY <1>1, <1>3, QuietSteps DEF Codes
  <1>4. CASE \E m \in Letters : /\ dev[m] = req[c].vol /\ NoFault
                                /\ devicePath' = [devicePath EXCEPT ![c] = m]
                                /\ Goto(c, l) /\ Quiet
    BY <1>1, <1>4 DEF Goto, Quiet, diskVars, pathVars, NoFault, Faulty, Finds, Still, Goes
  <1> QED BY <1>1, <1>2, <1>3, <1>4 DEF GetDevPathBySerial

LEMMA StageOutcome ==
  ASSUME TypeOK, NEW c \in Calls, StageStep(c), req[c].path \in Paths
  PROVE  Outcome(c) /\ Faulty /\ dirs' \subseteq Paths /\ Alone
  <1> USE DEF Codes
  <1>0. dirs \subseteq Paths
    BY DEF TypeOK
  <1>1. CASE StageCheck(c)
    <2>1. Alone
      BY <1>1 DEF StageCheck, Frame, nodeVars, coVars, Alone
    <2>2. CASE Fails(c, "Internal")
      BY <1>0, <2>1, <2>2, QuietSteps DEF Outcome
    <2>3. CASE IsLikelyMountPoint(req[c].path) /\ NoFault /\ Answered(c, "OK")
      BY <1>0, <1>1, <2>1, <2>3, QuietSteps
         DEF Outcome, Confirms, StageCheck, At, IsLikelyMountPoint
    <2>4. CASE /\ ~IsLikelyMountPoint(req[c].path) /\ NoFault
               /\ dirs' = dirs \union {req[c].path}
               /\ Goto(c, "lookup")
               /\ UNCHANGED <<mnt, diskVars, devicePath>>
      <3>1. Proceeds(c)
        BY <1>1, <2>4 DEF StageCheck, At, Goto, Proceeds, Still, Keeps, Goes, diskVars
      <3> QED BY <1>0, <2>1, <2>4, <3>1 DEF Outcome, NoFault, Faulty
    <2> QED BY <1>1, <2>2, <2>3, <2>4 DEF StageCheck
  <1>2. CASE StageLookup(c)
    <2>1. /\ pc[c] = "lookup" /\ req[c].op = "Stage"
          /\ GetDevPathBySerial(c, IF kind[req[c].vol].ro THEN "mount" ELSE "fsck")
      BY <1>2 DEF StageLookup, At
    <2> QED BY <1>0, <2>1, LookupOutcome DEF Outcome
  <1>3. CASE Fsck(c)
    <2>1. Alone
      BY <1>3 DEF Fsck, Frame, nodeVars, coVars, Alone
    <2> QED BY <1>0, <1>3, <2>1, QuietSteps DEF Fsck, Outcome, Proceeds
  <1>4. CASE MountDisk(c)
    <2>1. Alone
      BY <1>4 DEF MountDisk, Frame, nodeVars, coVars, Alone
    <2>2. CASE (Fault \/ NoFault) /\ Continue(c, "blkid")
      BY <1>0, <1>4, <2>1, <2>2, QuietSteps DEF MountDisk, Outcome, Proceeds
    <2>3. CASE /\ CanMount(c) /\ NoFault
               /\ MountOn(req[c].path, Source(c))
               /\ Goto(c, "need") /\ UNCHANGED devicePath
      <3>1. Mounts(c) /\ dirs' = dirs
        BY <1>4, <2>3 DEF MountDisk, MountOn, Goto, Mounts, Keeps, Goes, diskVars
      <3> QED BY <1>0, <2>1, <2>3, <3>1 DEF Outcome, NoFault, Faulty
    <2> QED BY <1>4, <2>2, <2>3 DEF MountDisk
  <1>5. CASE CheckDiskFormat(c)
    <2>1. Alone
      BY <1>5 DEF CheckDiskFormat, Frame, nodeVars, coVars, Alone
    <2> QED BY <1>0, <1>5, <2>1, QuietSteps DEF CheckDiskFormat, FormatNewDisk, Outcome, Proceeds
  <1>6. CASE CheckPartitionTable(c)
    <2>1. Alone
      BY <1>6 DEF CheckPartitionTable, Frame, nodeVars, coVars, Alone
    <2> QED BY <1>0, <1>6, <2>1, QuietSteps DEF CheckPartitionTable, FormatNewDisk, Outcome, Proceeds
  <1>7. CASE Mkfs(c)
    <2>1. Alone
      BY <1>7 DEF Mkfs, Frame, nodeVars, coVars, Alone
    <2>2. CASE NoFault /\ Answered(c, "Internal")
      BY <1>0, <2>1, <2>2, QuietSteps DEF Outcome
    <2>3. CASE ~(NoFault /\ Answered(c, "Internal"))
      <3>1. /\ dirs' = dirs
            /\ \/ /\ Overwrites(c, "blank", 0) /\ Ends(c, "Internal") /\ Fault
               \/ /\ Overwrites(c, kind[req[c].vol].fstype, blk[Source(c)])
                  /\ Goes(c, "mkfs", "remount") /\ Keeps /\ NoFault
        BY <1>7, <2>3 DEF Mkfs, Overwrites, Return, Release, Ends, Goto, Goes, Keeps, pathVars
      <3> QED BY <1>0, <2>1, <3>1 DEF Outcome, Fault, NoFault, Faulty
    <2> QED BY <2>2, <2>3
  <1>8. CASE MountFormatted(c)
    <2>1. Alone
      BY <1>8 DEF MountFormatted, Frame, nodeVars, coVars, Alone
    <2>2. CASE (Fault \/ NoFault) /\ Answered(c, "Internal")
      BY <1>0, <2>1, <2>2, QuietSteps DEF Outcome
    <2>3. CASE /\ CanMount(c) /\ NoFault
               /\ MountOn(req[c].path, Source(c))
               /\ Goto(c, "need") /\ UNCHANGED devicePath
      <3>1. Mounts(c) /\ dirs' = dirs
        BY <1>8, <2>3 DEF MountFormatted, MountOn, Goto, Mounts, Keeps, Goes, diskVars
      <3> QED BY <1>0, <2>1, <2>3, <3>1 DEF Outcome, NoFault, Faulty
    <2> QED BY <1>8, <2>2, <2>3 DEF MountFormatted
  <1>9. CASE NeedResize(c)
    <2>1. Alone
      BY <1>9 DEF NeedResize, Frame, nodeVars, coVars, Alone
    <2>2. CASE NoFault /\ Continue(c, "resize")
      BY <1>0, <1>9, <2>1, <2>2, QuietSteps DEF NeedResize, Outcome, Proceeds
    <2>3. CASE /\ Answered(c, "OK")
               /\ \/ Fault
                  \/ Source(c) = None /\ NoFault
                  \/ fs[Source(c)].size >= blk[Source(c)] /\ NoFault
      BY <1>0, <1>9, <2>1, <2>3, QuietSteps DEF NeedResize, Outcome, Confirms, Fault
    <2> QED BY <1>9, <2>2, <2>3 DEF NeedResize
  <1>10. CASE StageResize(c)
    <2>1. Alone
      BY <1>10 DEF StageResize, Frame, nodeVars, coVars, Alone
    <2>2. CASE (Fault \/ NoFault) /\ Answered(c, "Internal")
      BY <1>0, <2>1, <2>2, QuietSteps DEF Outcome
    <2>3. CASE NoFault /\ GrowFs(c) /\ Return(c, "OK")
      <3>1. Grows(c) /\ dirs' = dirs
        BY <1>10, <2>3 DEF StageResize, GrowFs, Return, Release, Grows, Ends, pathVars
      <3> QED BY <1>0, <2>1, <2>3, <3>1 DEF Outcome, NoFault, Faulty
    <2> QED BY <1>10, <2>2, <2>3 DEF StageResize
  <1> QED BY <1>1, <1>2, <1>3, <1>4, <1>5, <1>6, <1>7, <1>8, <1>9, <1>10 DEF StageStep

LEMMA HandlerOutcome ==
  ASSUME TypeOK, NEW c \in Calls, Handler(c), req[c].path \in Paths
  PROVE  Outcome(c) /\ Faulty /\ dirs' \subseteq Paths /\ Alone
  <1> USE DEF Codes
  <1>0. dirs \subseteq Paths
    BY DEF TypeOK
  <1>1. CASE StageStep(c)
    BY <1>1, StageOutcome
  <1>2. CASE PublishLookup(c)
    BY <1>0, <1>2, LookupOutcome DEF PublishLookup, At, Outcome
  <1>3. CASE PublishPrepare(c)
    <2>1. Alone
      BY <1>3 DEF PublishPrepare, Frame, nodeVars, coVars, Alone
    <2>2. dirs' \subseteq Paths
      BY <1>0, <1>3 DEF PublishPrepare, CreateTargetMountPathIfNotExists
    <2>3. CASE Fault /\ Return(c, "Internal") /\ UNCHANGED <<mnt, diskVars>>
      <3>1. Gives(c)
        BY <2>3 DEF Return, Release, diskVars, Gives, Still, Ends
      <3> QED BY <2>1, <2>2, <2>3, <3>1 DEF Outcome, Fault, Faulty
    <2>4. CASE /\ mnt[req[c].path] # <<>> /\ NoFault
               /\ Return(c, "OK") /\ UNCHANGED <<mnt, diskVars>>
      <3>1. Confirms(c)
        BY <1>3, <2>4 DEF PublishPrepare, Return, Release, diskVars, Confirms, Still, Ends
      <3> QED BY <2>1, <2>2, <2>4, <3>1 DEF Outcome, NoFault, Faulty
    <2>5. CASE /\ ~IsLikelyMountPoint(req[c].path) /\ NoFault
               /\ Goto(c, "bind") /\ UNCHANGED devicePath /\ UNCHANGED <<mnt, diskVars>>
      <3>1. Proceeds(c)
        BY <1>3, <2>5 DEF PublishPrepare, Goto, diskVars, Proceeds, Still, Keeps, Goes
      <3> QED BY <2>1, <2>2, <2>5, <3>1 DEF Outcome, NoFault, Faulty
    <2> QED BY <1>3, <2>3, <2>4, <2>5 DEF PublishPrepare, IsMountPoint, IsLikelyMountPoint
  <1>4. CASE PublishBind(c)
    <2>1. Alone
      BY <1>4 DEF PublishBind, Frame, nodeVars, coVars, Alone
    <2>2. CASE (Fault \/ NoFault) /\ Answered(c, "Internal")
      BY <1>0, <2>1, <2>2, QuietSteps DEF Outcome
    <2>3. CASE ~((Fault \/ NoFault) /\ Answered(c, "Internal"))
      <3>1. Binds(c) /\ (Fault \/ NoFault) /\ dirs' = dirs
        BY <1>4, <2>3 DEF PublishBind, MountOn, Return, Release, Binds, Ends, diskVars
      <3> QED BY <1>0, <2>1, <3>1 DEF Outcome, Fault, NoFault, Faulty
    <2> QED BY <2>2, <2>3
  <1>5. CASE CleanupMountPoint(c)
    <2>1. Alone
      BY <1>5 DEF CleanupMountPoint, Frame, nodeVars, coVars, Alone
    <2>2. CASE Fails(c, "Internal")
      BY <1>0, <2>1, <2>2, QuietSteps DEF Outcome
    <2>3. CASE ~Fails(c, "Internal")
      <3>1. Unmounts(c) /\ (Fault \/ NoFault) /\ dirs' \subseteq dirs
        BY <1>5, <2>3 DEF CleanupMountPoint, Return, Release, Unmounts, Ends, diskVars
      <3> QED BY <1>0, <2>1, <3>1 DEF Outcome, Fault, NoFault, Faulty
    <2> QED BY <2>2, <2>3
  <1>6. CASE ExpandLookup(c)
    BY <1>0, <1>6, LookupOutcome DEF ExpandLookup, At, Outcome
  <1>7. CASE ExpandGrow(c)
    <2>1. Alone
      BY <1>7 DEF ExpandGrow, Frame, nodeVars, coVars, Alone
    <2>2. CASE (Fault \/ NoFault) /\ Answered(c, "Internal")
      BY <1>0, <2>1, <2>2, QuietSteps DEF Outcome
    <2>3. CASE NoFault /\ GrowFs(c) /\ Goto(c, "getsize") /\ UNCHANGED devicePath
      <3>1. Grows(c) /\ dirs' = dirs
        BY <1>7, <2>3 DEF ExpandGrow, GrowFs, Goto, Grows, Goes, Keeps, pathVars
      <3> QED BY <1>0, <2>1, <2>3, <3>1 DEF Outcome, NoFault, Faulty
    <2> QED BY <1>7, <2>2, <2>3 DEF ExpandGrow
  <1>8. CASE ExpandGetSize(c)
    <2>1. Alone
      BY <1>8 DEF ExpandGetSize, Frame, nodeVars, coVars, Alone
    <2>2. CASE (Fault \/ NoFault) /\ Answered(c, "Internal")
      BY <1>0, <2>1, <2>2, QuietSteps DEF Outcome
    <2>3. CASE /\ Source(c) # None /\ blk[Source(c)] >= req[c].bytes
               /\ NoFault /\ Answered(c, "OK")
      BY <1>0, <1>8, <2>1, <2>3, QuietSteps DEF ExpandGetSize, Outcome, Confirms
    <2> QED BY <1>8, <2>2, <2>3 DEF ExpandGetSize, GetBlockSizeBytes
  <1> QED BY <1>1, <1>2, <1>3, <1>4, <1>5, <1>6, <1>7, <1>8 DEF Handler

-----------------------------------------------------------------------------
(* What a step of a handler does under the invariant.                      *)

LEMMA OneMount ==
  /\ \A x : <<x>> # <<>> /\ Head(<<x>>) = x /\ Tail(<<x>>) = <<>> /\ <<x>> \o <<>> = <<x>>
  /\ \A x, y : <<x>> = <<y>> => x = y
  <1>1. \A x : <<x>> # <<>> /\ Head(<<x>>) = x
    OBVIOUS
  <1>2. \A x : Tail(<<x>>) = <<>>
    OBVIOUS
  <1>3. \A x : <<x>> \o <<>> = <<x>>
    OBVIOUS
  <1>4. \A x, y : <<x>> = <<y>> => x = y
    OBVIOUS
  <1> QED BY <1>1, <1>2, <1>3, <1>4

LEMMA PathFacts ==
  /\ \A v \in Volumes : StagePath(v) \in Paths /\ StagePath(v)[1] = v
                        /\ StagePath(v) \notin TargetPaths
  /\ \A q \in TargetPaths : q \in Paths /\ q[1] \in Volumes
  /\ \A q \in Paths : q[1] \in Volumes
  /\ \A q \in Paths : q \in TargetPaths \/ q = StagePath(q[1])
  /\ \A v, w \in Volumes : StagePath(v) = StagePath(w) => v = w
  BY NodeAssumption DEF StagePath, TargetPaths, Paths

LEMMA HandlerRuns ==
  ASSUME NEW c \in Calls, Handler(c)
  PROVE  Running(c)
  BY DEF Handler, StageStep, StageCheck, StageLookup, Fsck, MountDisk, CheckDiskFormat,
         CheckPartitionTable, Mkfs, MountFormatted, NeedResize, StageResize,
         PublishLookup, PublishPrepare, PublishBind, CleanupMountPoint,
         ExpandLookup, ExpandGrow, ExpandGetSize, At, Running, Labels

\* What the invariant says of a handler that runs.
Held(c) ==
  /\ req[c].vol \in Volumes /\ req[c].vol \in Disks /\ req[c].vol # None
  /\ req[c].path \in Paths /\ req[c].path[1] = req[c].vol
  /\ fs[req[c].vol].format \in Formats /\ fs[req[c].vol].size \in 0 .. MaxSize
  /\ blk[req[c].vol] \in 1 .. MaxSize /\ fs[req[c].vol].size <= blk[req[c].vol]
  /\ mnt[req[c].path] = <<>> \/ mnt[req[c].path] = <<req[c].vol>>
  /\ kind[req[c].vol].fstype \in FsTypes
  /\ UsesDevice(c) => Source(c) = req[c].vol

LEMMA RunningFacts ==
  ASSUME NodeInv, NEW c \in Calls, Running(c)
  PROVE  Held(c)
  <1>1. pc[c] # "idle" /\ req[c] \in Request
    BY DEF Running, Labels, NodeInv, TypeOK
  <1>2. req[c].vol \in Volumes /\ req[c].path \in Paths
    BY <1>1 DEF Request
  <1>3. req[c].vol \in Disks /\ req[c].vol # None
    BY <1>2, NodeAssumption DEF Disks
  <1>4. req[c].path[1] = req[c].vol
    BY <1>1, <1>2, PathFacts DEF NodeInv, CallInv, CallOK
  <1>5. /\ fs[req[c].vol].format \in Formats /\ fs[req[c].vol].size \in 0 .. MaxSize
        /\ blk[req[c].vol] \in 1 .. MaxSize /\ kind[req[c].vol].fstype \in FsTypes
    BY <1>2, <1>3 DEF NodeInv, TypeOK
  <1>6. fs[req[c].vol].size <= blk[req[c].vol]
    BY <1>2 DEF NodeInv, GrowthInv
  <1>7. mnt[req[c].path] = <<>> \/ mnt[req[c].path] = <<req[c].vol>>
    BY <1>2, <1>4 DEF NodeInv, PathInv
  <1>8. UsesDevice(c) => Source(c) = req[c].vol
    BY DEF NodeInv, DeviceInv, DeviceOK, Source
  <1> QED BY <1>2, <1>3, <1>4, <1>5, <1>6, <1>7, <1>8 DEF Held

\* The handler's own entries, and only those, change; it goes on with its lock
\* or answers without it.
OwnEntries(c) ==
  /\ pc' = [pc EXCEPT ![c] = pc'[c]]
  /\ ret' = [ret EXCEPT ![c] = ret'[c]] /\ ret'[c] \in Codes \union {"none"}
  /\ devicePath' = [devicePath EXCEPT ![c] = devicePath'[c]]
  /\ devicePath'[c] \in Letters \union {None}
  /\ \/ pc'[c] \in Labels /\ locks' = locks
     \/ /\ pc'[c] = "answer"
        /\ locks' = [locks EXCEPT ![Plugin] = @ \ {req[c].vol}]

\* It changes only its disk, and that only so that no data is lost.
OwnDisk(c) ==
  /\ fs' \in [Disks -> [format : Formats, size : 0..MaxSize]]
  /\ data' \in [Disks -> BOOLEAN]
  /\ \A w \in Disks : w # req[c].vol => fs'[w] = fs[w] /\ data'[w] = data[w]
  /\ data[req[c].vol] => data'[req[c].vol]
  /\ fs'[req[c].vol].size <= blk[req[c].vol]
  /\ fs'[req[c].vol].format \in {"blank", "atari"} =>
       kind[req[c].vol].block \/ ~data'[req[c].vol]

\* It changes only what is mounted on its path, and mounts only what has a
\* file system.
OwnPath(c) ==
  /\ mnt' = [mnt EXCEPT ![req[c].path] = mnt'[req[c].path]]
  /\ mnt'[req[c].path] = <<>> \/ mnt'[req[c].path] = <<req[c].vol>>
  /\ req[c].op = "Expand" => mnt'[req[c].path] = mnt[req[c].path]
  /\ req[c].op \in {"Unstage", "Unpublish"} =>
       mnt'[req[c].path] = mnt[req[c].path] \/ mnt'[req[c].path] = <<>>
  /\ \A q \in Paths : q[1] = req[c].vol /\ mnt'[q] = <<q[1]>> =>
       kind[req[c].vol].block \/ fs'[req[c].vol].format \in FsTypes

\* It keeps its side of the invariant.
OwnPart(c) ==
  /\ CallOK(c)' /\ DeviceOK(c)' /\ MountOK(c)'
  /\ pc'[c] = "answer" /\ ret'[c] = "OK" => Delivers(c)'

\* Without a failure a file system stays as it is or fills its disk, and one
\* that is staged is looked at next.
OwnFill(c) ==
  faults' = 0 =>
    /\ fs'[req[c].vol].size \in {fs[req[c].vol].size, blk[req[c].vol]}
    /\ req[c].op = "Stage" /\ mnt'[req[c].path] = <<req[c].vol>> =>
         mnt[req[c].path] = <<req[c].vol>> \/ pc'[c] = "need"

Effect(c) == OwnEntries(c) /\ OwnDisk(c) /\ OwnPath(c) /\ OwnFill(c) /\ OwnPart(c)

\* The same facts about a step that leaves disk and mounts as they are.
LEMMA StillDisk ==
  ASSUME NodeInv, NEW c \in Calls, Running(c), Held(c), Still
  PROVE  OwnDisk(c) /\ OwnPath(c) /\ OwnFill(c)
  <1>1. OwnDisk(c)
    <2>1. fs' \in [Disks -> [format : Formats, size : 0..MaxSize]] /\ data' \in [Disks -> BOOLEAN]
      BY DEF NodeInv, TypeOK, Still
    <2>2. fs[req[c].vol].format \in {"blank", "atari"} => kind[req[c].vol].block \/ ~data[req[c].vol]
      BY DEF NodeInv, DiskInv, Held
    <2> QED BY <2>1, <2>2 DEF OwnDisk, Still, Held
  <1>2. OwnPath(c)
    <2>1. mnt = [mnt EXCEPT ![req[c].path] = mnt[req[c].path]]
      BY DEF NodeInv, TypeOK
    <2>2. \A q \in Paths : mnt[q] = <<q[1]>> => kind[q[1]].block \/ fs[q[1]].format \in FsTypes
      BY DEF NodeInv, DiskInv
    <2> QED BY <2>1, <2>2 DEF OwnPath, Still, Held
  <1>3. OwnFill(c)
    BY DEF OwnFill, Still
  <1> QED BY <1>1, <1>2, <1>3

LEMMA GivesEffect ==
  ASSUME NodeInv, NEW c \in Calls, Running(c), Held(c), Alone, Gives(c)
  PROVE  Effect(c)
  <1>1. PICK code \in Codes \ {"OK"} : Ends(c, code)
    BY DEF Gives
  <1>2. OwnEntries(c)
    BY <1>1 DEF Ends, OwnEntries, NodeInv, TypeOK
  <1>3. pc'[c] = "answer" /\ ret'[c] # "OK" /\ devicePath'[c] = None
    BY <1>1 DEF Ends, NodeInv, TypeOK
  <1>4. CallOK(c)
    BY DEF NodeInv, CallInv
  <1>5. OwnPart(c)
    BY <1>3, <1>4 DEF OwnPart, CallOK, DeviceOK, MountOK, UsesDevice, Running, Labels, Alone
  <1> QED BY <1>2, <1>5, StillDisk DEF Effect, Gives

LEMMA ConfirmsEffect ==
  ASSUME NodeInv, NEW c \in Calls, Running(c), Held(c), Alone, Confirms(c)
  PROVE  Effect(c)
  <1>1. Ends(c, "OK") /\ Still
    BY DEF Confirms
  <1>2. OwnEntries(c)
    BY <1>1 DEF Ends, OwnEntries, NodeInv, TypeOK, Codes
  <1>3. pc'[c] = "answer" /\ devicePath'[c] = None
    BY <1>1 DEF Ends, NodeInv, TypeOK
  <1>4. CallOK(c) /\ MountOK(c)
    BY DEF NodeInv, CallInv, MountInv
  <1>5. Delivers(c)
    <2>1. CASE req[c].op = "Stage" /\ pc[c] = "check" /\ mnt[req[c].path] # <<>>
      BY <2>1 DEF Delivers, Held
    <2>2. CASE pc[c] = "need"
      BY <1>4, <2>2 DEF Delivers, CallOK, MountOK, Running, Labels, PublishLabels, ExpandLabels
    <2>3. CASE pc[c] = "prepare" /\ mnt[req[c].path] # <<>>
      BY <1>4, <2>3 DEF Delivers, CallOK, Running, Labels, StageLabels, ExpandLabels, Held
    <2>4. CASE pc[c] = "getsize" /\ Source(c) # None /\ blk[Source(c)] >= req[c].bytes
      <3>1. req[c].op = "Expand"
        BY <1>4, <2>4 DEF CallOK, Running, Labels, StageLabels, PublishLabels
      <3>2. Source(c) = req[c].vol
        BY <2>4 DEF Held, UsesDevice
      <3>3. req[c].bytes = size[req[c].vol] /\ expand[req[c].vol] # "none"
        BY <3>1 DEF NodeInv, KnowInv
      <3>4. /\ blk[req[c].vol] <= size[req[c].vol]
            /\ blk[req[c].vol] \in 1 .. MaxSize /\ size[req[c].vol] \in 1 .. MaxSize
        BY DEF Held, NodeInv, GrowthInv, TypeOK
      <3>5. blk[req[c].vol] = size[req[c].vol]
        BY <2>4, <3>2, <3>3, <3>4
      <3> QED BY <3>1, <3>3, <3>5 DEF Delivers
    <2> QED BY <2>1, <2>2, <2>3, <2>4 DEF Confirms
  <1>6. Delivers(c)'
    BY <1>1, <1>5 DEF Delivers, Alone, Still
  <1>7. OwnPart(c)
    BY <1>3, <1>4, <1>6 DEF OwnPart, CallOK, DeviceOK, MountOK, UsesDevice, Running, Labels, Alone
  <1> QED BY <1>1, <1>2, <1>7, StillDisk DEF Effect

LEMMA ProceedsEffect ==
  ASSUME NodeInv, NEW c \in Calls, Running(c), Held(c), Alone, Proceeds(c)
  PROVE  Effect(c)
  <1>1. Still /\ devicePath' = devicePath /\ ret' = ret /\ locks' = locks
    BY DEF Proceeds, Keeps, Goes
  <1>2. CallOK(c) /\ MountOK(c) /\ DeviceOK(c)
    BY DEF NodeInv, CallInv, MountInv, DeviceInv
  <1>3. /\ pc \in [Calls -> Labels \union {"idle", "answer"}]
        /\ ret \in [Calls -> Codes \union {"none"}]
        /\ devicePath \in [Calls -> Letters \union {None}]
    BY DEF NodeInv, TypeOK
  <1> DEFINE Steps == {<<"check", "lookup">>, <<"fsck", "mount">>, <<"mount", "blkid">>,
                       <<"blkid", "pttype">>, <<"blkid", "mkfs">>, <<"pttype", "mkfs">>,
                       <<"need", "resize">>, <<"prepare", "bind">>}
  <1>4. PICK l \in Labels : Goes(c, pc[c], l) /\ <<pc[c], l>> \in Steps
    BY DEF Proceeds, Goes, Labels
  <1>5. pc' = [pc EXCEPT ![c] = l] /\ pc'[c] = l
    BY <1>3, <1>4 DEF Goes
  <1>6. OwnEntries(c)
    BY <1>1, <1>3, <1>4, <1>5 DEF OwnEntries
  <1>7. CallOK(c)'
    BY <1>2, <1>4, <1>5 DEF CallOK, Running, Labels, StageLabels, PublishLabels,
                            ExpandLabels, Alone
  <1>8. DeviceOK(c)'
    BY <1>1, <1>2, <1>4, <1>5 DEF DeviceOK, UsesDevice, Running, Alone
  <1>9. mnt[req[c].path] = <<>> \/ pc[c] \notin {"check", "prepare"}
    <2>1. \A x : <<x>> # <<>> /\ Head(<<x>>) = x
      BY OneMount
    <2>2. pc[c] \in {"check", "prepare"} => ~IsLikelyMountPoint(req[c].path)
      BY DEF Proceeds, Goes
    <2> QED BY <2>1, <2>2 DEF IsLikelyMountPoint, Held
  <1>10. l = "mkfs" => fs[req[c].vol].format \in {"blank", "atari"}
    <2>1. l = "mkfs" => /\ pc[c] \in {"blkid", "pttype"}
                        /\ \/ GetDiskFormat(Source(c)) = ""
                           \/ fs[Source(c)].format = "atari"
      BY <1>4, <1>5, <1>3 DEF Proceeds, Goes
    <2>2. l = "mkfs" => Source(c) = req[c].vol
      BY <2>1 DEF Held, UsesDevice
    <2> QED BY <2>1, <2>2 DEF GetDiskFormat, FsTypes, Held
  <1>11. MountOK(c)'
    BY <1>1, <1>2, <1>4, <1>5, <1>9, <1>10
       DEF MountOK, CallOK, Running, Labels, PublishLabels, StageLabels, Still, Alone
  <1>12. pc'[c] # "answer"
    BY <1>4, <1>5
  <1> QED BY <1>1, <1>6, <1>7, <1>8, <1>11, <1>12, StillDisk DEF Effect, OwnPart

LEMMA FindsEffect ==
  ASSUME NodeInv, NEW c \in Calls, Running(c), Held(c), Alone, Finds(c)
  PROVE  Effect(c)
  <1>1. CallOK(c) /\ MountOK(c)
    BY DEF NodeInv, CallInv, MountInv
  <1>2. /\ pc \in [Calls -> Labels \union {"idle", "answer"}]
        /\ ret \in [Calls -> Codes \union {"none"}]
        /\ devicePath \in [Calls -> Letters \union {None}]
    BY DEF NodeInv, TypeOK
  <1>3. PICK l \in Letters : dev[l] = req[c].vol /\ devicePath' = [devicePath EXCEPT ![c] = l]
    BY DEF Finds
  <1>4. devicePath'[c] = l /\ l # None
    BY <1>2, <1>3, NodeAssumption
  <1>5. PICK to \in {"mount", "fsck", "prepare", "grow"} :
          /\ Goes(c, "lookup", to)
          /\ \/ req[c].op = "Stage" /\ to \in {"mount", "fsck"}
             \/ req[c].op = "Publish" /\ to = "prepare"
             \/ req[c].op = "Expand" /\ to = "grow"
    BY DEF Finds
  <1>6. pc[c] = "lookup" /\ pc'[c] = to /\ pc' = [pc EXCEPT ![c] = to]
        /\ ret' = ret /\ locks' = locks
    BY <1>2, <1>5 DEF Goes
  <1>7. OwnEntries(c)
    BY <1>2, <1>3, <1>4, <1>5, <1>6 DEF OwnEntries, Labels
  <1>8. CallOK(c)'
    BY <1>1, <1>5, <1>6 DEF CallOK, Running, Labels, StageLabels, PublishLabels,
                            ExpandLabels, Alone
  <1>9. DeviceOK(c)'
    BY <1>3, <1>4, <1>5, <1>6 DEF DeviceOK, UsesDevice, Running, Labels, Alone
  <1>10. Still /\ MountOK(c)'
    BY <1>1, <1>5, <1>6 DEF Finds, MountOK, Running, Labels, Still, Alone
  <1> QED BY <1>5, <1>6, <1>7, <1>8, <1>9, <1>10, StillDisk DEF Effect, OwnPart

LEMMA MountsEffect ==
  ASSUME NodeInv, NEW c \in Calls, Running(c), Held(c), Alone, Mounts(c)
  PROVE  Effect(c)
  <1> DEFINE v == req[c].vol  q == req[c].path
  <1>1. CallOK(c) /\ MountOK(c) /\ DeviceOK(c)
    BY DEF NodeInv, CallInv, MountInv, DeviceInv
  <1>2. /\ pc \in [Calls -> Labels \union {"idle", "answer"}]
        /\ ret \in [Calls -> Codes \union {"none"}]
        /\ devicePath \in [Calls -> Letters \union {None}]
        /\ DOMAIN mnt = Paths
    BY DEF NodeInv, TypeOK
  <1>3. /\ pc[c] \in {"mount", "remount"} /\ pc'[c] = "need"
        /\ pc' = [pc EXCEPT ![c] = "need"]
        /\ ret' = ret /\ locks' = locks /\ devicePath' = devicePath
    BY <1>2 DEF Mounts, Goes, Keeps
  <1>4. req[c].op = "Stage"
    BY <1>1, <1>3 DEF CallOK, Running, Labels, PublishLabels, ExpandLabels
  <1>5. Source(c) = v /\ mnt[q] = <<>>
    BY <1>1, <1>3, <1>4 DEF Held, UsesDevice, MountOK
  <1>6. mnt' = [mnt EXCEPT ![q] = <<v>>]
    <2>1. <<v>> \o <<>> = <<v>>
      BY OneMount
    <2> QED BY <1>5, <2>1 DEF Mounts
  <1>7. mnt'[q] = <<v>>
    BY <1>2, <1>6 DEF Held
  <1>8. fs' = fs /\ data' = data /\ fs[v].format \in FsTypes
    BY <1>5 DEF Mounts, CanMount, Held
  <1>9. OwnEntries(c)
    BY <1>2, <1>3 DEF OwnEntries, Labels
  <1>10. OwnDisk(c)
    BY <1>8 DEF OwnDisk, NodeInv, TypeOK, Held, FsTypes
  <1>11. OwnPath(c)
    BY <1>4, <1>6, <1>7, <1>8 DEF OwnPath
  <1>12. OwnFill(c)
    BY <1>3, <1>8 DEF OwnFill
  <1>13. CallOK(c)'
    BY <1>1, <1>3, <1>4 DEF CallOK, Running, Labels, StageLabels, Alone
  <1>14. DeviceOK(c)'
    BY <1>1, <1>3 DEF DeviceOK, UsesDevice, Running, Labels, Alone
  <1>15. MountOK(c)'
    BY <1>3, <1>7 DEF MountOK, Running, Alone
  <1> QED BY <1>3, <1>9, <1>10, <1>11, <1>12, <1>13, <1>14, <1>15 DEF Effect, OwnPart

\* A handler only formats a disk that is neither mounted nor holds data.
LEMMA OverwritesSafe ==
  ASSUME NodeInv, NEW c \in Calls, Running(c), Held(c),
         NEW format \in Formats, NEW n \in 0 .. MaxSize, Overwrites(c, format, n),
         n <= blk[req[c].vol], faults' = 0 => n = blk[req[c].vol]
  PROVE  /\ Source(c) = req[c].vol /\ req[c].op = "Stage" /\ mnt[req[c].path] = <<>>
         /\ OwnDisk(c) /\ OwnPath(c) /\ OwnFill(c)
         /\ mnt' = mnt /\ fs'[req[c].vol].format = format
  <1> DEFINE v == req[c].vol
  <1>1. CallOK(c) /\ MountOK(c)
    BY DEF NodeInv, CallInv, MountInv
  <1>2. /\ fs \in [Disks -> [format : Formats, size : 0..MaxSize]]
        /\ data \in [Disks -> BOOLEAN] /\ DOMAIN mnt = Paths
    BY DEF NodeInv, TypeOK
  <1>3. pc[c] = "mkfs" /\ Source(c) = v
    BY DEF Overwrites, Held, UsesDevice
  <1>4. req[c].op = "Stage" /\ ~kind[v].block
    BY <1>1, <1>3 DEF CallOK, Running, Labels, PublishLabels, ExpandLabels
  <1>5. mnt[req[c].path] = <<>> /\ fs[v].format \in {"blank", "atari"}
    BY <1>1, <1>3, <1>4 DEF MountOK
  <1>6. ~data[v]
    BY <1>4, <1>5 DEF NodeInv, DiskInv, Held
  <1>7. /\ fs' = [fs EXCEPT ![v] = [format |-> format, size |-> n]]
        /\ data' = [data EXCEPT ![v] = FALSE] /\ mnt' = mnt
    BY <1>3 DEF Overwrites
  <1>8. \A q \in Paths : mnt[q] = <<q[1]>> => q[1] # v
    BY <1>4, <1>5 DEF NodeInv, DiskInv, FsTypes
  <1>9. v \in Disks /\ fs'[v] = [format |-> format, size |-> n] /\ ~data'[v]
    BY <1>2, <1>7 DEF Held
  <1>10. OwnDisk(c)
    <2>1. fs' \in [Disks -> [format : Formats, size : 0..MaxSize]]
      BY <1>2, <1>7
    <2>2. data' \in [Disks -> BOOLEAN]
      BY <1>2, <1>7
    <2>3. \A w \in Disks : w # v => fs'[w] = fs[w] /\ data'[w] = data[w]
      BY <1>2, <1>7
    <2> QED BY <1>6, <1>9, <2>1, <2>2, <2>3 DEF OwnDisk
  <1>11. OwnPath(c)
    <2>1. mnt = [mnt EXCEPT ![req[c].path] = mnt[req[c].path]]
      BY DEF NodeInv, TypeOK
    <2> QED BY <1>4, <1>5, <1>7, <1>8, <2>1 DEF OwnPath
  <1>12. OwnFill(c)
    <2>1. mnt'[req[c].path] # <<v>>
      BY <1>5, <1>7, OneMount
    <2>2. faults' = 0 => fs'[v].size = blk[v]
      BY <1>9
    <2> QED BY <2>1, <2>2 DEF OwnFill
  <1> QED BY <1>3, <1>4, <1>5, <1>7, <1>9, <1>10, <1>11, <1>12

LEMMA OverwritesEffect ==
  ASSUME NodeInv, NEW c \in Calls, Running(c), Held(c), Alone,
         \/ Overwrites(c, "blank", 0) /\ Ends(c, "Internal") /\ faults' = faults + 1
         \/ /\ Overwrites(c, kind[req[c].vol].fstype, blk[Source(c)])
            /\ Goes(c, "mkfs", "remount") /\ Keeps
  PROVE  Effect(c)
  <1>1. CallOK(c) /\ MountOK(c) /\ DeviceOK(c)
    BY DEF NodeInv, CallInv, MountInv, DeviceInv
  <1>2. /\ pc \in [Calls -> Labels \union {"idle", "answer"}]
        /\ ret \in [Calls -> Codes \union {"none"}]
        /\ devicePath \in [Calls -> Letters \union {None}]
        /\ faults \in 0 .. MaxFaults /\ MaxFaults \in Nat /\ MaxSize \in Nat
    BY NodeAssumption DEF NodeInv, TypeOK
  <1>3. CASE Overwrites(c, "blank", 0) /\ Ends(c, "Internal") /\ faults' = faults + 1
    <2>1. OwnDisk(c) /\ OwnPath(c) /\ OwnFill(c)
      <3>1. "blank" \in Formats /\ 0 \in 0 .. MaxSize /\ 0 <= blk[req[c].vol] /\ faults' # 0
        BY <1>2, <1>3 DEF Formats, Held
      <3> QED BY <1>3, <3>1, OverwritesSafe
    <2>2. pc'[c] = "answer" /\ ret'[c] = "Internal" /\ devicePath'[c] = None
      BY <1>2, <1>3 DEF Ends
    <2>3. OwnEntries(c)
      BY <1>2, <1>3, <2>2 DEF OwnEntries, Ends, Codes
    <2>4. OwnPart(c)
      BY <1>1, <2>2 DEF OwnPart, CallOK, DeviceOK, MountOK, UsesDevice, Running, Labels, Alone
    <2> QED BY <2>1, <2>3, <2>4 DEF Effect
  <1>4. CASE /\ Overwrites(c, kind[req[c].vol].fstype, blk[Source(c)])
             /\ Goes(c, "mkfs", "remount") /\ Keeps
    <2>0. Source(c) = req[c].vol
      BY <1>4 DEF Held, UsesDevice, Overwrites
    <2>1. /\ req[c].op = "Stage" /\ mnt[req[c].path] = <<>>
          /\ OwnDisk(c) /\ OwnPath(c) /\ OwnFill(c) /\ mnt' = mnt
      <3>1. /\ kind[req[c].vol].fstype \in Formats
            /\ blk[req[c].vol] \in 0 .. MaxSize /\ blk[req[c].vol] <= blk[req[c].vol]
        BY DEF Formats, Held
      <3> QED BY <1>4, <2>0, <3>1, OverwritesSafe
    <2>2. /\ pc[c] = "mkfs" /\ pc'[c] = "remount" /\ pc' = [pc EXCEPT ![c] = "remount"]
          /\ ret' = ret /\ locks' = locks /\ devicePath' = devicePath
      BY <1>2, <1>4 DEF Goes, Keeps
    <2>3. OwnEntries(c)
      BY <1>2, <2>2 DEF OwnEntries, Labels
    <2>4. CallOK(c)'
      BY <1>1, <2>1, <2>2 DEF CallOK, Running, Labels, StageLabels, Alone
    <2>5. DeviceOK(c)'
      BY <1>1, <2>2 DEF DeviceOK, UsesDevice, Running, Labels, Alone
    <2>6. MountOK(c)'
      BY <2>1, <2>2 DEF MountOK, Running, Alone
    <2> QED BY <2>1, <2>2, <2>3, <2>4, <2>5, <2>6 DEF Effect, OwnPart
  <1> QED BY <1>3, <1>4

LEMMA GrowsEffect ==
  ASSUME NodeInv, NEW c \in Calls, Running(c), Held(c), Alone, Grows(c)
  PROVE  Effect(c)
  <1> DEFINE v == req[c].vol
  <1>1. CallOK(c) /\ MountOK(c) /\ DeviceOK(c)
    BY DEF NodeInv, CallInv, MountInv, DeviceInv
  <1>2. /\ pc \in [Calls -> Labels \union {"idle", "answer"}]
        /\ ret \in [Calls -> Codes \union {"none"}]
        /\ devicePath \in [Calls -> Letters \union {None}]
        /\ fs \in [Disks -> [format : Formats, size : 0..MaxSize]]
        /\ data \in [Disks -> BOOLEAN] /\ DOMAIN mnt = Paths
    BY DEF NodeInv, TypeOK
  <1>3. pc[c] \in {"resize", "grow"} /\ Source(c) = v
    BY DEF Grows, Goes, Held, UsesDevice
  <1>4. /\ fs[v].format \in FsTypes /\ data' = data /\ mnt' = mnt
        /\ fs' = [fs EXCEPT ![v].size = blk[v]]
    BY <1>3 DEF Grows, CanGrow
  <1>5. fs'[v].format = fs[v].format /\ fs'[v].size = blk[v]
    BY <1>2, <1>4 DEF Held
  <1>6. OwnDisk(c)
    <2>1. fs' \in [Disks -> [format : Formats, size : 0..MaxSize]]
      <3>1. fs[v] \in [format : Formats, size : 0..MaxSize] /\ blk[v] \in 0 .. MaxSize
        BY <1>2 DEF Held
      <3>2. [fs[v] EXCEPT !.size = blk[v]] \in [format : Formats, size : 0..MaxSize]
        BY <3>1
      <3> QED BY <1>2, <1>4, <3>2 DEF Held
    <2>2. \A w \in Disks : w # v => fs'[w] = fs[w]
      BY <1>2, <1>4
    <2> QED BY <1>2, <1>4, <1>5, <2>1, <2>2 DEF OwnDisk, FsTypes, Held
  <1>7. OwnPath(c)
    <2>1. mnt = [mnt EXCEPT ![req[c].path] = mnt[req[c].path]]
      BY DEF NodeInv, TypeOK
    <2> QED BY <1>4, <1>5, <2>1 DEF OwnPath, Held
  <1>8. OwnFill(c)
    BY <1>4, <1>5 DEF OwnFill
  <1>9. CASE pc[c] = "resize" /\ Ends(c, "OK")
    <2>1. pc'[c] = "answer" /\ ret'[c] = "OK" /\ devicePath'[c] = None
      BY <1>2, <1>9 DEF Ends
    <2>2. OwnEntries(c)
      BY <1>2, <1>9, <2>1 DEF OwnEntries, Ends, Codes
    <2>3. req[c].op = "Stage" /\ mnt[req[c].path] = <<v>>
      BY <1>1, <1>9 DEF CallOK, MountOK, Running, Labels, PublishLabels, ExpandLabels
    <2>4. Delivers(c)'
      BY <1>4, <2>3 DEF Delivers, Alone
    <2>5. OwnPart(c)
      BY <1>1, <2>1, <2>4 DEF OwnPart, CallOK, DeviceOK, MountOK, UsesDevice, Running, Labels, Alone
    <2> QED BY <1>6, <1>7, <1>8, <2>2, <2>5 DEF Effect
  <1>10. CASE Goes(c, "grow", "getsize") /\ Keeps
    <2>1. /\ pc[c] = "grow" /\ pc'[c] = "getsize" /\ pc' = [pc EXCEPT ![c] = "getsize"]
          /\ ret' = ret /\ locks' = locks /\ devicePath' = devicePath
      BY <1>2, <1>10 DEF Goes, Keeps
    <2>2. OwnEntries(c)
      BY <1>2, <2>1 DEF OwnEntries, Labels
    <2>3. CallOK(c)'
      BY <1>1, <2>1 DEF CallOK, Running, Labels, StageLabels, PublishLabels, ExpandLabels, Alone
    <2>4. DeviceOK(c)'
      BY <1>1, <2>1 DEF DeviceOK, UsesDevice, Running, Labels, Alone
    <2>5. MountOK(c)'
      BY <2>1 DEF MountOK, Running, Alone
    <2> QED BY <1>6, <1>7, <1>8, <2>1, <2>2, <2>3, <2>4, <2>5 DEF Effect, OwnPart
  <1> QED BY <1>9, <1>10 DEF Grows

LEMMA BindsEffect ==
  ASSUME NodeInv, NEW c \in Calls, Running(c), Held(c), Alone, Binds(c)
  PROVE  Effect(c)
  <1> DEFINE v == req[c].vol  q == req[c].path  staged == StagePath(v)
  <1>1. CallOK(c) /\ MountOK(c)
    BY DEF NodeInv, CallInv, MountInv
  <1>2. /\ pc \in [Calls -> Labels \union {"idle", "answer"}]
        /\ ret \in [Calls -> Codes \union {"none"}]
        /\ devicePath \in [Calls -> Letters \union {None}]
        /\ DOMAIN mnt = Paths
    BY DEF NodeInv, TypeOK
  <1>3. /\ pc[c] = "bind" /\ fs' = fs /\ data' = data
        /\ \E code \in {"OK", "Internal"} : Ends(c, code)
    BY DEF Binds
  <1>4. req[c].op = "Publish" /\ mnt[q] = <<>>
    BY <1>1, <1>3 DEF CallOK, MountOK, Running, Labels, StageLabels, ExpandLabels
  <1>5. kind[v].block => Source(c) = v
    BY <1>3 DEF Held, UsesDevice
  <1>6. ~kind[v].block => mnt[staged] = <<v>> /\ fs[v].format \in FsTypes
    <2>1. staged \in Paths /\ staged[1] = v
      BY PathFacts DEF Held
    <2>2. ~kind[v].block => stage[v] = "staged"
      BY <1>4 DEF NodeInv, KnowInv
    <2>3. ~kind[v].block => mnt[staged] = <<v>>
      BY <2>2 DEF NodeInv, PathInv, Held
    <2> QED BY <2>1, <2>3 DEF NodeInv, DiskInv
  <1>7. mnt' = [mnt EXCEPT ![q] = <<v>>]
    <2>1. <<v>> \o <<>> = <<v>> /\ <<v>> # <<>> /\ Head(<<v>>) = v
      BY OneMount
    <2>2. (IF kind[v].block THEN Source(c)
           ELSE IF mnt[staged] = <<>> THEN None ELSE Head(mnt[staged])) = v
      BY <1>5, <1>6, <2>1
    <2> QED BY <1>4, <2>1, <2>2 DEF Binds
  <1>8. mnt'[q] = <<v>>
    BY <1>2, <1>7 DEF Held
  <1>9. pc'[c] = "answer" /\ ret'[c] \in {"OK", "Internal"} /\ devicePath'[c] = None
    BY <1>2, <1>3 DEF Ends
  <1>10. OwnEntries(c)
    BY <1>2, <1>3, <1>9 DEF OwnEntries, Ends, Codes
  <1>11. OwnDisk(c)
    <2>1. fs[v].format \in {"blank", "atari"} => kind[v].block \/ ~data[v]
      BY DEF NodeInv, DiskInv, Held
    <2> QED BY <1>3, <2>1 DEF OwnDisk, NodeInv, TypeOK, Held
  <1>12. OwnPath(c)
    BY <1>3, <1>4, <1>6, <1>7, <1>8 DEF OwnPath
  <1>13. OwnFill(c)
    BY <1>3, <1>4 DEF OwnFill
  <1>14. Delivers(c)'
    BY <1>4, <1>8 DEF Delivers, Alone
  <1>15. OwnPart(c)
    BY <1>1, <1>9, <1>14 DEF OwnPart, CallOK, DeviceOK, MountOK, UsesDevice, Running, Labels, Alone
  <1> QED BY <1>10, <1>11, <1>12, <1>13, <1>15 DEF Effect

LEMMA UnmountsEffect ==
  ASSUME NodeInv, NEW c \in Calls, Running(c), Held(c), Alone, Unmounts(c)
  PROVE  Effect(c)
  <1> DEFINE v == req[c].vol  q == req[c].path
  <1>1. CallOK(c) /\ MountOK(c)
    BY DEF NodeInv, CallInv, MountInv
  <1>2. /\ pc \in [Calls -> Labels \union {"idle", "answer"}]
        /\ ret \in [Calls -> Codes \union {"none"}]
        /\ devicePath \in [Calls -> Letters \union {None}]
        /\ DOMAIN mnt = Paths
    BY DEF NodeInv, TypeOK
  <1>3. /\ pc[c] = "cleanup" /\ fs' = fs /\ data' = data
        /\ \E code \in {"OK", "Internal"} : Ends(c, code)
    BY DEF Unmounts
  <1>4. req[c].op \in {"Unstage", "Unpublish"}
    BY <1>1, <1>3 DEF CallOK, Running, Labels, StageLabels, PublishLabels, ExpandLabels
  <1>5. mnt' = [mnt EXCEPT ![q] = <<>>]
    <2>1. <<v>> # <<>> /\ Tail(<<v>>) = <<>>
      BY OneMount
    <2> QED BY <2>1 DEF Unmounts, IsMountPoint, Held
  <1>6. mnt'[q] = <<>> /\ \A p \in Paths : p # q => mnt'[p] = mnt[p]
    BY <1>2, <1>5 DEF Held
  <1>7. pc'[c] = "answer" /\ devicePath'[c] = None
    BY <1>2, <1>3 DEF Ends
  <1>8. OwnEntries(c)
    BY <1>2, <1>3, <1>7 DEF OwnEntries, Ends, Codes
  <1>9. OwnDisk(c)
    <2>1. fs[v].format \in {"blank", "atari"} => kind[v].block \/ ~data[v]
      BY DEF NodeInv, DiskInv, Held
    <2> QED BY <1>3, <2>1 DEF OwnDisk, NodeInv, TypeOK, Held
  <1>10. OwnPath(c)
    <2>1. \A p \in Paths : mnt[p] = <<p[1]>> => kind[p[1]].block \/ fs[p[1]].format \in FsTypes
      BY DEF NodeInv, DiskInv
    <2>2. <<v>> # <<>>
      BY OneMount
    <2>3. \A p \in Paths : p[1] = v /\ mnt'[p] = <<p[1]>> => kind[v].block \/ fs'[v].format \in FsTypes
      BY <1>3, <1>6, <2>1, <2>2
    <2> QED BY <1>4, <1>5, <1>6, <2>3 DEF OwnPath
  <1>11. OwnFill(c)
    BY <1>3, <1>4 DEF OwnFill
  <1>12. Delivers(c)'
    BY <1>4, <1>6 DEF Delivers, Alone
  <1>13. OwnPart(c)
    BY <1>1, <1>7, <1>12 DEF OwnPart, CallOK, DeviceOK, MountOK, UsesDevice, Running, Labels, Alone
  <1> QED BY <1>8, <1>9, <1>10, <1>11, <1>13 DEF Effect

LEMMA HandlerEffect ==
  ASSUME NodeInv, NEW c \in Calls, Handler(c)
  PROVE  Running(c) /\ Held(c) /\ Effect(c) /\ Faulty /\ dirs' \subseteq Paths /\ Alone
  <1>1. Running(c) /\ Held(c)
    BY HandlerRuns, RunningFacts
  <1>2. Outcome(c) /\ Faulty /\ dirs' \subseteq Paths /\ Alone
    BY <1>1, HandlerOutcome DEF Held, NodeInv
  <1>3. Effect(c)
    BY <1>1, <1>2, GivesEffect, ConfirmsEffect, ProceedsEffect, FindsEffect, MountsEffect,
       OverwritesEffect, GrowsEffect, BindsEffect, UnmountsEffect DEF Outcome
  <1> QED BY <1>1, <1>2, <1>3

\* At the end of NodeStageVolume, without a failure, the file system is as
\* large as the disk.
LEMMA StageFills ==
  ASSUME NodeInv, NEW c \in Calls, Handler(c), pc[c] \in {"need", "resize"},
         ~kind[req[c].vol].ro, faults' = 0
  PROVE  pc'[c] \in {"need", "resize"} \/ fs'[req[c].vol].size = blk[req[c].vol]
  <1> DEFINE v == req[c].vol
  <1>1. Running(c) /\ Held(c)
    BY HandlerRuns, RunningFacts
  <1>2. NeedResize(c) \/ StageResize(c)
    BY DEF Handler, StageStep, StageCheck, StageLookup, Fsck, MountDisk, CheckDiskFormat,
           CheckPartitionTable, Mkfs, MountFormatted, PublishLookup, PublishPrepare,
           PublishBind, CleanupMountPoint, ExpandLookup, ExpandGrow, ExpandGetSize, At
  <1>3. Source(c) = v /\ v # None
    BY <1>1 DEF Held, UsesDevice
  <1>4. /\ faults \in 0 .. MaxFaults /\ pc \in [Calls -> Labels \union {"idle", "answer"}]
        /\ fs \in [Disks -> [format : Formats, size : 0..MaxSize]]
    BY DEF NodeInv, TypeOK
  <1>5. ~Fault
    BY <1>4 DEF Fault
  <1>6. CASE NeedResize(c)
    <2>1. \/ fs[v].size >= blk[v] /\ Answered(c, "OK")
          \/ Continue(c, "resize")
      BY <1>3, <1>5, <1>6 DEF NeedResize
    <2>2. CASE Continue(c, "resize")
      BY <1>4, <2>2 DEF Continue, Goto
    <2>3. CASE fs[v].size >= blk[v] /\ Answered(c, "OK")
      BY <1>1, <2>3 DEF Answered, Quiet, diskVars, Held
    <2> QED BY <2>1, <2>2, <2>3
  <1>7. CASE StageResize(c)
    <2>1. fs[v].format \in FsTypes
      <3>1. CallOK(c) /\ MountOK(c) /\ pc[c] = "resize"
        BY <1>7 DEF NodeInv, CallInv, MountInv, StageResize
      <3>2. req[c].op = "Stage" /\ ~kind[v].block /\ mnt[req[c].path] = <<v>>
        BY <1>1, <3>1 DEF CallOK, MountOK, Running, PublishLabels, ExpandLabels
      <3>3. req[c].path \in Paths /\ req[c].path[1] = v
        BY <1>1 DEF Held
      <3> QED BY <3>2, <3>3 DEF NodeInv, DiskInv
    <2>2. CanGrow(c)
      BY <1>3, <2>1 DEF CanGrow
    <2>3. fs' = [fs EXCEPT ![v].size = blk[v]]
      BY <1>3, <1>5, <1>7, <2>2 DEF StageResize, GrowFs
    <2> QED BY <1>1, <1>4, <2>3 DEF Held
  <1> QED BY <1>2, <1>6, <1>7

LEMMA HandlerStep ==
  ASSUME NodeInv, NEW c \in Calls, Handler(c)
  PROVE  NodeInv' /\ \A d \in Disks : data[d] => data'[d]
  <1> DEFINE v == req[c].vol  q == req[c].path
  <1>1. /\ Running(c) /\ Held(c) /\ Effect(c) /\ Faulty /\ dirs' \subseteq Paths /\ Alone
        /\ OwnEntries(c) /\ OwnDisk(c) /\ OwnPath(c) /\ OwnFill(c) /\ OwnPart(c)
    BY HandlerEffect DEF Effect
  <1>2. /\ pc \in [Calls -> Labels \union {"idle", "answer"}]
        /\ ret \in [Calls -> Codes \union {"none"}]
        /\ devicePath \in [Calls -> Letters \union {None}]
        /\ mnt \in [Paths -> Seq(Disks \union {None})]
        /\ locks \in [Replicas -> SUBSET Volumes] /\ Plugin \in Replicas
        /\ v \in Volumes /\ q \in Paths /\ q[1] = v /\ v \in Disks
    BY <1>1, NodeAssumption DEF NodeInv, TypeOK, Held
  <1>3. \A d \in Calls : d # c => /\ pc'[d] = pc[d] /\ ret'[d] = ret[d]
                                  /\ devicePath'[d] = devicePath[d]
    BY <1>1, <1>2 DEF OwnEntries
  <1>4. \A p \in Paths : p # q => mnt'[p] = mnt[p]
    BY <1>1, <1>2 DEF OwnPath
  <1>5. /\ kind' = kind /\ size' = size /\ blk' = blk /\ dev' = dev /\ attached' = attached
        /\ req' = req /\ open' = open
        /\ want' = want /\ stage' = stage /\ pub' = pub /\ expand' = expand
    BY <1>1 DEF Alone
  <1>6. \A d \in Calls : d # c /\ Running(d) =>
          /\ req[d].vol # v /\ req[d].path # q
          /\ req[d].vol \in Disks /\ req[d].path \in Paths
    <2>1. SUFFICES ASSUME NEW d \in Calls, d # c, Running(d)
                   PROVE  req[d].vol # v /\ req[d].path # q
                          /\ req[d].vol \in Disks /\ req[d].path \in Paths
      OBVIOUS
    <2>2. Held(d)
      BY <2>1, RunningFacts
    <2>3. req[d].vol # v
      BY <1>1, <2>1 DEF NodeInv, LockInv
    <2> QED BY <1>2, <2>2, <2>3 DEF Held
  <1>7. \A d \in Calls : d # c => (Running(d)' <=> Running(d))
    BY <1>3 DEF Running
  <1>8. TypeOK'
    <2>1. mnt' \in [Paths -> Seq(Disks \union {None})]
      <3>1. <<>> \in Seq(Disks \union {None}) /\ <<v>> \in Seq(Disks \union {None})
        BY <1>2
      <3>2. mnt'[q] \in Seq(Disks \union {None}) /\ mnt' = [mnt EXCEPT ![q] = mnt'[q]]
        BY <1>1, <3>1 DEF OwnPath
      <3> QED BY <1>2, <3>2
    <2>2. locks' \in [Replicas -> SUBSET Volumes]
      <3>1. locks[Plugin] \ {v} \in SUBSET Volumes
        BY <1>2
      <3>2. locks' = locks \/ locks' = [locks EXCEPT ![Plugin] = locks[Plugin] \ {v}]
        BY <1>1 DEF OwnEntries
      <3> QED BY <1>2, <3>1, <3>2
    <2>3. pc' \in [Calls -> Labels \union {"idle", "answer"}]
      BY <1>1, <1>2 DEF OwnEntries
    <2>4. ret' \in [Calls -> Codes \union {"none"}]
      BY <1>1, <1>2 DEF OwnEntries
    <2>5. devicePath' \in [Calls -> Letters \union {None}]
      BY <1>1, <1>2 DEF OwnEntries
    <2>6. \A d \in Calls : pc'[d] # "idle" <=> req[d] \in Request
      <3>1. \A d \in Calls : pc[d] # "idle" <=> req[d] \in Request
        BY DEF NodeInv, TypeOK
      <3>2. pc[c] # "idle" /\ pc'[c] # "idle"
        BY <1>1 DEF OwnEntries, Running, Labels
      <3> QED BY <1>3, <3>1, <3>2
    <2>7. faults' \in 0 .. MaxFaults
      BY <1>1, NodeAssumption DEF Faulty, NodeInv, TypeOK
    <2>8. fs' \in [Disks -> [format : Formats, size : 0..MaxSize]] /\ data' \in [Disks -> BOOLEAN]
      BY <1>1 DEF OwnDisk
    <2> QED BY <1>1, <1>5, <2>1, <2>2, <2>3, <2>4, <2>5, <2>6, <2>7, <2>8 DEF NodeInv, TypeOK
  <1>9. CallInv'
    <2>1. \A d \in Calls : CallOK(d)
      BY DEF NodeInv, CallInv
    <2>2. \A d \in Calls : d # c => CallOK(d)'
      BY <1>3, <1>5, <1>7, <2>1 DEF CallOK
    <2> QED BY <1>1, <2>2 DEF OwnPart, CallInv
  <1>10. LockInv'
    <2>1. \A d \in Calls : Running(d) =>
            /\ req[d].vol \in locks[Plugin]
            /\ \A e \in Calls : Running(e) /\ req[e].vol = req[d].vol => e = d
      BY DEF NodeInv, LockInv
    <2>2. \A d \in Calls : Running(d)' => Running(d)
      BY <1>1, <1>7
    <2>3. \A w : w # v => (w \in locks'[Plugin] <=> w \in locks[Plugin])
      BY <1>1, <1>2 DEF OwnEntries
    <2>4. Running(c)' => locks' = locks
      BY <1>1 DEF OwnEntries, Running, Labels
    <2>5. \A d \in Calls : Running(d)' => req[d].vol \in locks'[Plugin]
      BY <1>6, <2>1, <2>2, <2>3, <2>4
    <2> QED BY <1>5, <2>1, <2>2, <2>5 DEF LockInv
  <1>11. DeviceInv'
    <2>1. \A d \in Calls : DeviceOK(d)
      BY DEF NodeInv, DeviceInv
    <2>2. \A d \in Calls : d # c => DeviceOK(d)'
      BY <1>3, <1>5, <1>7, <2>1 DEF DeviceOK, UsesDevice
    <2> QED BY <1>1, <2>2 DEF OwnPart, DeviceInv
  <1>12. OpenInv'
    BY <1>5 DEF NodeInv, OpenInv
  <1>13. KnowInv'
    BY <1>1, <1>5, <1>7 DEF NodeInv, KnowInv
  <1>14. MountInv'
    <2>1. \A d \in Calls : MountOK(d)
      BY DEF NodeInv, MountInv
    <2>2. \A d \in Calls : d # c /\ Running(d) =>
            fs'[req[d].vol] = fs[req[d].vol] /\ mnt'[req[d].path] = mnt[req[d].path]
      BY <1>1, <1>4, <1>6 DEF OwnDisk
    <2>3. \A d \in Calls : d # c => MountOK(d)'
      BY <1>3, <1>5, <1>7, <2>1, <2>2 DEF MountOK
    <2> QED BY <1>1, <2>3 DEF OwnPart, MountInv
  <1>15. AnswerInv'
    <2>1. SUFFICES ASSUME NEW d \in Calls, open[d], pc'[d] = "answer", ret'[d] = "OK"
                   PROVE  /\ Delivers(d)'
                          /\ \/ req[d].op = "Stage" /\ kind[req[d].vol].block
                             \/ \A e \in Calls : Running(e)' => req[e].path # req[d].path
      BY <1>5 DEF AnswerInv
    <2>2. CASE d = c
      <3>1. Delivers(c)'
        BY <1>1, <2>1, <2>2 DEF OwnPart
      <3>2. ~Running(c)'
        BY <2>1, <2>2 DEF Running, Labels
      <3> QED BY <1>6, <1>7, <2>2, <3>1, <3>2
    <2>3. CASE d # c
      <3>1. /\ Delivers(d)
            /\ \/ req[d].op = "Stage" /\ kind[req[d].vol].block
               \/ \A e \in Calls : Running(e) => req[e].path # req[d].path
        BY <1>3, <2>1, <2>3 DEF NodeInv, AnswerInv
      <3>2. CASE req[d].op = "Stage" /\ kind[req[d].vol].block
        BY <1>5, <3>2 DEF Delivers
      <3>3. CASE \A e \in Calls : Running(e) => req[e].path # req[d].path
        <4>1. req[d].path # q /\ req[d].path \in Paths
          <5>1. req[d] \in Request
            BY <1>3, <2>1, <2>3 DEF NodeInv, TypeOK
          <5> QED BY <1>1, <3>3, <5>1 DEF Request
        <4>2. Delivers(d)'
          BY <1>4, <1>5, <3>1, <4>1 DEF Delivers
        <4> QED BY <1>1, <1>7, <3>3, <4>2
      <3> QED BY <3>1, <3>2, <3>3
    <2> QED BY <2>2, <2>3
  <1>16. PathInv'
    <2>1. \A p \in Paths : mnt'[p] \in {<<>>, <<p[1]>>}
      BY <1>1, <1>2, <1>4 DEF NodeInv, PathInv, OwnPath
    <2>2. req[c].op \in StageOps \union PublishOps \/ mnt' = mnt
      <3>1. req[c].op = "Expand" => mnt' = mnt
        BY <1>1, <1>2 DEF OwnPath
      <3> QED BY <1>1, <3>1 DEF NodeInv, CallInv, CallOK, StageOps, PublishOps, Running, Labels
    <2>3. ASSUME NEW w \in Volumes
          PROVE  /\ stage[w] = "none" \/ kind[w].block => mnt'[StagePath(w)] = <<>>
                 /\ stage[w] = "staged" /\ ~kind[w].block => mnt'[StagePath(w)] = <<w>>
      <3>1. /\ stage[w] = "none" \/ kind[w].block => mnt[StagePath(w)] = <<>>
            /\ stage[w] = "staged" /\ ~kind[w].block => mnt[StagePath(w)] = <<w>>
        BY DEF NodeInv, PathInv
      <3>2. CASE StagePath(w) # q
        BY <1>4, <3>1, <3>2, PathFacts
      <3>3. CASE StagePath(w) = q /\ ~kind[w].block
        <4>1. v = w
          BY <1>2, <3>3, PathFacts
        <4>2. req[c].op \in StageOps
          BY <1>1, <1>2, <3>3, PathFacts DEF NodeInv, CallInv, CallOK, Running, Labels
        <4>3. stage[w] = "unsure"
          BY <1>1, <3>3, <4>1, <4>2 DEF NodeInv, KnowInv
        <4> QED BY <3>3, <4>3
      <3>4. CASE StagePath(w) = q /\ kind[w].block
        <4>1. v = w
          BY <1>2, <3>4, PathFacts
        <4>2. req[c].op = "Unstage"
          BY <1>1, <1>2, <3>4, <4>1, PathFacts
             DEF NodeInv, CallInv, CallOK, Running, Labels, StageOps
        <4>3. mnt'[q] = <<>>
          BY <1>1, <3>1, <3>4, <4>2 DEF OwnPath
        <4> QED BY <3>4, <4>3, OneMount
      <3> QED BY <3>2, <3>3, <3>4
    <2>4. ASSUME NEW p \in TargetPaths
          PROVE  /\ pub[p] = "none" => mnt'[p] = <<>>
                 /\ pub[p] = "published" => mnt'[p] = <<p[1]>>
      <3>1. /\ pub[p] = "none" => mnt[p] = <<>>
            /\ pub[p] = "published" => mnt[p] = <<p[1]>>
        BY DEF NodeInv, PathInv
      <3>2. CASE p # q
        BY <1>4, <3>1, <3>2, PathFacts
      <3>3. CASE p = q /\ mnt' = mnt
        BY <3>1, <3>3
      <3>4. CASE p = q /\ mnt' # mnt
        <4>1. req[c].op \in PublishOps
          BY <1>1, <1>2, <2>2, <3>4, PathFacts
             DEF NodeInv, CallInv, CallOK, Running, Labels, StageOps, PublishOps
        <4>2. pub[p] = "unsure"
          BY <1>1, <3>4, <4>1 DEF NodeInv, KnowInv
        <4> QED BY <4>2
      <3> QED BY <3>2, <3>3, <3>4
    <2> QED BY <1>5, <2>1, <2>3, <2>4 DEF PathInv
  <1>17. DiskInv'
    <2>1. \A w \in Volumes : fs'[w].format \in {"blank", "atari"} => kind[w].block \/ ~data'[w]
      BY <1>1, NodeAssumption DEF OwnDisk, NodeInv, DiskInv, Disks
    <2>2. ASSUME NEW p \in Paths, mnt'[p] = <<p[1]>>
          PROVE  kind[p[1]].block \/ fs'[p[1]].format \in FsTypes
      <3>1. CASE p[1] = v
        BY <1>1, <2>2, <3>1 DEF OwnPath
      <3>2. CASE p[1] # v
        <4>1. mnt[p] = <<p[1]>>
          BY <1>2, <1>4, <2>2, <3>2
        <4>2. fs'[p[1]] = fs[p[1]]
          BY <1>1, <3>2, PathFacts DEF OwnDisk, Disks
        <4> QED BY <4>1, <4>2 DEF NodeInv, DiskInv
      <3> QED BY <3>1, <3>2
    <2> QED BY <1>5, <2>1, <2>2 DEF DiskInv
  <1>18. GrowthInv'
    <2>1. \A w \in Volumes : fs'[w].size <= blk[w]
      BY <1>1 DEF OwnDisk, NodeInv, GrowthInv, Disks
    <2> QED BY <1>5, <2>1 DEF NodeInv, GrowthInv
  <1>19. FillInv'
    <2>1. SUFFICES ASSUME NEW w \in Volumes, faults' = 0, ~kind[w].block, ~kind[w].ro,
                          expand[w] = "none", mnt'[StagePath(w)] = <<w>>
                   PROVE  \/ fs'[w].size = blk[w]
                          \/ \E d \in Calls : /\ req[d].op = "Stage" /\ req[d].vol = w
                                              /\ pc'[d] \in {"need", "resize"}
      BY <1>5 DEF FillInv
    <2>2. faults = 0
      BY <1>1, <2>1 DEF Faulty, NodeInv, TypeOK
    <2>3. mnt[StagePath(w)] = <<w>> =>
            \/ fs[w].size = blk[w]
            \/ \E d \in Calls : /\ req[d].op = "Stage" /\ req[d].vol = w
                                /\ pc[d] \in {"need", "resize"}
      BY <2>1, <2>2 DEF NodeInv, FillInv
    <2>4. CASE w # v
      <3>1. mnt[StagePath(w)] = <<w>> /\ fs'[w] = fs[w]
        BY <1>1, <1>2, <1>4, <2>1, <2>4, PathFacts DEF OwnDisk, Disks
      <3> QED BY <1>3, <2>3, <2>4, <3>1
    <2>5. CASE w = v /\ mnt[StagePath(w)] = <<w>>
      <3>1. CASE fs[w].size = blk[w]
        BY <1>1, <2>1, <2>5, <3>1 DEF OwnFill
      <3>2. ASSUME NEW d \in Calls, req[d].op = "Stage", req[d].vol = w,
                   pc[d] \in {"need", "resize"}
            PROVE  \/ fs'[w].size = blk[w]
                   \/ pc'[d] \in {"need", "resize"}
        <4>1. Running(d)
          BY <3>2 DEF Running, Labels
        <4>2. d = c
          BY <1>6, <2>5, <3>2, <4>1
        <4> QED BY <2>1, <2>5, <3>2, <4>2, StageFills
      <3> QED BY <2>3, <2>5, <3>1, <3>2
    <2>6. CASE w = v /\ mnt[StagePath(w)] # <<w>>
      <3>1. StagePath(w) = q
        BY <1>4, <2>1, <2>6, PathFacts
      <3>2. req[c].op = "Stage"
        <4>1. req[c].op \in StageOps
          BY <1>1, <1>2, <3>1, PathFacts, <2>6 DEF NodeInv, CallInv, CallOK, Running, Labels
        <4>2. req[c].op # "Unstage"
          BY <1>1, <2>1, <2>6, <3>1, OneMount DEF OwnPath
        <4> QED BY <4>1, <4>2 DEF StageOps
      <3>3. pc'[c] = "need"
        BY <1>1, <2>1, <2>6, <3>1, <3>2 DEF OwnFill
      <3> QED BY <2>6, <3>2, <3>3
    <2> QED BY <2>4, <2>5, <2>6
  <1>20. \A d \in Disks : data[d] => data'[d]
    BY <1>1 DEF OwnDisk
  <1> QED BY <1>8, <1>9, <1>10, <1>11, <1>12, <1>13, <1>14, <1>15, <1>16, <1>17, <1>18,
             <1>19, <1>20 DEF NodeInv

-----------------------------------------------------------------------------
(* Kubelet's calls.                                                        *)

Admitted(c, v, label) ==
  /\ v \notin locks[Plugin] /\ locks' = [locks EXCEPT ![Plugin] = @ \union {v}]
  /\ pc' = [pc EXCEPT ![c] = label] /\ ret' = ret

TurnedAway(c, code) ==
  /\ locks' = locks
  /\ pc' = [pc EXCEPT ![c] = "answer"] /\ ret' = [ret EXCEPT ![c] = code]

\* What kubelet knows when it makes the call, and of what it is no longer sure.
Begins(op, v, q, label) ==
  \/ /\ op = "Stage" /\ label = "check" /\ q = StagePath(v) /\ stage[v] # "staged"
     /\ stage' = [stage EXCEPT ![v] = "unsure"] /\ pub' = pub
  \/ /\ op = "Unstage" /\ label = "cleanup" /\ q = StagePath(v) /\ Unpublished(v)
     /\ stage' = [stage EXCEPT ![v] = "unsure"] /\ pub' = pub
  \/ /\ op = "Publish" /\ label = (IF kind[v].block THEN "lookup" ELSE "prepare")
     /\ q \in TargetPaths /\ q[1] = v /\ stage[v] = "staged"
     /\ pub' = [pub EXCEPT ![q] = "unsure"] /\ stage' = stage
  \/ /\ op = "Unpublish" /\ label = "cleanup" /\ q \in TargetPaths /\ q[1] = v
     /\ pub' = [pub EXCEPT ![q] = "unsure"] /\ stage' = stage
  \/ /\ op = "Expand" /\ label = "lookup" /\ q \in TargetPaths /\ q[1] = v
     /\ expand[v] = "pending" /\ pub[q] = "published"
     /\ stage' = stage /\ pub' = pub

Starts(c, op, v, q, bytes, label) ==
  /\ pc[c] = "idle" /\ NoOpenCall(q)
  /\ req' = [req EXCEPT ![c] = [op |-> op, vol |-> v, path |-> q, bytes |-> bytes]]
  /\ open' = [open EXCEPT ![c] = TRUE]
  /\ Begins(op, v, q, label)
  /\ \/ /\ Admitted(c, v, label)
        /\ op \in {"Stage", "Expand"} => ~kind[v].block
        /\ op = "Expand" => bytes = size[v]
     \/ \E code \in Codes :
          /\ TurnedAway(c, code)
          /\ code = "OK" => kind[v].block /\ op \in {"Stage", "Expand"}
  /\ kind' = kind /\ size' = size /\ blk' = blk /\ dev' = dev /\ attached' = attached
  /\ fs' = fs /\ data' = data /\ mnt' = mnt /\ dirs' = dirs /\ devicePath' = devicePath
  /\ want' = want /\ expand' = expand

LEMMA KubeletStarts ==
  ASSUME TypeOK, NEW c \in Calls, NEW v \in Volumes, Kubelet(c, v)
  PROVE  \E op \in {"Stage", "Publish", "Unpublish", "Unstage", "Expand"}, q \in Paths,
            bytes \in 0 .. MaxSize, label \in Labels :
              Starts(c, op, v, q, bytes, label) /\ Faulty
  <1> USE DEF Starts, Begins, Admitted, TurnedAway, Receive, Skip, TryAcquire, IsLocked,
              diskVars, nodeVars, pathVars, coVars, Codes, Faulty, NoFault, Fault, Labels
  <1>1. 0 \in 0 .. MaxSize /\ size[v] \in 0 .. MaxSize
    BY NodeAssumption DEF TypeOK, Disks
  <1>2. want \subseteq TargetPaths
    BY DEF TypeOK
  <1>3. CASE NodeStageVolume(c, v)
    <2>1. Starts(c, "Stage", v, StagePath(v), 0, "check") /\ Faulty
      BY <1>3 DEF NodeStageVolume
    <2> QED BY <1>1, <2>1, PathFacts
  <1>4. CASE NodePublishVolume(c, v)
    <2>1. PICK q \in want : /\ q[1] = v /\ stage[v] = "staged" /\ pub[q] # "published"
                            /\ Receive(c, "Publish", v, q, 0, IF kind[v].block THEN "lookup" ELSE "prepare")
                            /\ pub' = [pub EXCEPT ![q] = "unsure"]
                            /\ UNCHANGED <<want, stage, expand>>
      BY <1>4 DEF NodePublishVolume
    <2>2. q \in TargetPaths /\ q \in Paths
      BY <1>2, PathFacts
    <2>3. Starts(c, "Publish", v, q, 0, IF kind[v].block THEN "lookup" ELSE "prepare") /\ Faulty
      BY <2>1, <2>2
    <2> QED BY <1>1, <2>2, <2>3
  <1>5. CASE NodeUnpublishVolume(c, v)
    <2>1. PICK q \in TargetPaths \ want :
                            /\ q[1] = v /\ pub[q] # "none"
                            /\ Receive(c, "Unpublish", v, q, 0, "cleanup")
                            /\ pub' = [pub EXCEPT ![q] = "unsure"]
                            /\ UNCHANGED <<want, stage, expand>>
      BY <1>5 DEF NodeUnpublishVolume
    <2>2. q \in TargetPaths /\ q \in Paths
      BY PathFacts
    <2>3. Starts(c, "Unpublish", v, q, 0, "cleanup") /\ Faulty
      BY <2>1, <2>2
    <2> QED BY <1>1, <2>2, <2>3
  <1>6. CASE NodeUnstageVolume(c, v)
    <2>1. Starts(c, "Unstage", v, StagePath(v), 0, "cleanup") /\ Faulty
      BY <1>6 DEF NodeUnstageVolume
    <2> QED BY <1>1, <2>1, PathFacts
  <1>7. CASE NodeExpandVolume(c, v)
    <2>1. PICK q \in want :
            /\ q[1] = v /\ expand[v] = "pending" /\ pub[q] = "published"
            /\ \/ Skip(c, "Expand", v, q, "NotFound") /\ Fault
               \/ kind[v].block /\ Skip(c, "Expand", v, q, "OK") /\ NoFault
               \/ ~kind[v].block /\ Receive(c, "Expand", v, q, size[v], "lookup")
            /\ UNCHANGED coVars
      BY <1>7 DEF NodeExpandVolume
    <2>2. q \in TargetPaths /\ q \in Paths
      BY <1>2, PathFacts
    <2>3. (\/ Starts(c, "Expand", v, q, 0, "lookup")
           \/ Starts(c, "Expand", v, q, size[v], "lookup")) /\ Faulty
      BY <2>1, <2>2
    <2> QED BY <1>1, <2>2, <2>3
  <1> QED BY <1>3, <1>4, <1>5, <1>6, <1>7 DEF Kubelet, SetUp, TearDown

LEMMA KubeletStep ==
  ASSUME NodeInv, NEW c \in Calls, NEW v \in Volumes, Kubelet(c, v)
  PROVE  NodeInv' /\ data' = data
  <1>1. PICK op \in {"Stage", "Publish", "Unpublish", "Unstage", "Expand"}, q \in Paths,
             bytes \in 0 .. MaxSize, label \in Labels :
               Starts(c, op, v, q, bytes, label) /\ Faulty
    BY KubeletStarts DEF NodeInv
  <1> DEFINE new == [op |-> op, vol |-> v, path |-> q, bytes |-> bytes]
  <1>2. /\ pc \in [Calls -> Labels \union {"idle", "answer"}]
        /\ req \in [Calls -> Request \union {NoReq}]
        /\ ret \in [Calls -> Codes \union {"none"}]
        /\ open \in [Calls -> BOOLEAN]
        /\ devicePath \in [Calls -> Letters \union {None}]
        /\ locks \in [Replicas -> SUBSET Volumes] /\ Plugin \in Replicas
        /\ stage \in [Volumes -> {"none", "unsure", "staged"}]
        /\ pub \in [TargetPaths -> {"none", "unsure", "published"}]
    BY NodeAssumption DEF NodeInv, TypeOK
  <1>3. /\ pc[c] = "idle" /\ NoOpenCall(q) /\ Begins(op, v, q, label)
        /\ req' = [req EXCEPT ![c] = new] /\ open' = [open EXCEPT ![c] = TRUE]
        /\ kind' = kind /\ size' = size /\ blk' = blk /\ dev' = dev /\ attached' = attached
        /\ fs' = fs /\ data' = data /\ mnt' = mnt /\ dirs' = dirs /\ devicePath' = devicePath
        /\ want' = want /\ expand' = expand
    BY <1>1 DEF Starts
  <1>4. \/ /\ Admitted(c, v, label)
           /\ op \in {"Stage", "Expand"} => ~kind[v].block
           /\ op = "Expand" => bytes = size[v]
        \/ \E code \in Codes : /\ TurnedAway(c, code)
                               /\ code = "OK" => kind[v].block /\ op \in {"Stage", "Expand"}
    BY <1>1 DEF Starts
  <1>5. /\ pc' = [pc EXCEPT ![c] = pc'[c]] /\ pc'[c] \in {label, "answer"}
        /\ ret' = [ret EXCEPT ![c] = ret'[c]] /\ ret'[c] \in Codes \union {"none"}
    BY <1>2, <1>4 DEF Admitted, TurnedAway
  <1>6. /\ req'[c] = new /\ new \in Request /\ open'[c]
        /\ new.op = op /\ new.vol = v /\ new.path = q /\ new.bytes = bytes
    BY <1>2, <1>3 DEF Request
  <1>7. \A d \in Calls : d # c => /\ pc'[d] = pc[d] /\ req'[d] = req[d] /\ ret'[d] = ret[d]
                                  /\ open'[d] = open[d]
    BY <1>2, <1>3, <1>5
  <1>8. /\ \A w \in Volumes : stage'[w] = stage[w] \/ stage'[w] = "unsure"
        /\ \A p \in TargetPaths : pub'[p] = pub[p] \/ pub'[p] = "unsure"
        /\ op \in StageOps => stage'[v] = "unsure"
        /\ op \in PublishOps => pub'[q] = "unsure"
        /\ op \notin PublishOps => pub' = pub
        /\ op \notin StageOps => stage' = stage
        /\ \A w \in Volumes : w # v => stage'[w] = stage[w]
    BY <1>2, <1>3 DEF Begins, StageOps, PublishOps
  <1>9. ~Running(c) /\ devicePath[c] = None
    <2>1. ~Running(c)
      BY <1>3 DEF Running, Labels
    <2> QED BY <2>1 DEF NodeInv, DeviceInv, DeviceOK
  <1>10. \A d \in Calls : d # c => (Running(d)' <=> Running(d))
    BY <1>7 DEF Running
  <1>11. Running(c)' <=> pc'[c] = label
    BY <1>5, <1>3 DEF Running, Labels
  <1>12. Running(c)' => /\ Admitted(c, v, label)
                        /\ op \in {"Stage", "Expand"} => ~kind[v].block
                        /\ op = "Expand" => bytes = size[v]
    BY <1>2, <1>4 DEF TurnedAway, Running, Labels
  <1>13. \A d \in Calls : Running(d) =>
           /\ req[d].vol \in Volumes /\ req[d].path \in Paths /\ req[d].path[1] = req[d].vol
           /\ d # c
    BY <1>9, RunningFacts DEF Held
  <1>14. \A d \in Calls : open[d] => d # c /\ req[d].path # q /\ req[d] \in Request
                                     /\ CallOK(d) /\ pc[d] # "idle"
    BY <1>3 DEF NoOpenCall, NodeInv, CallInv, CallOK, TypeOK
  <1>15. TypeOK'
    <2>1. pc' \in [Calls -> Labels \union {"idle", "answer"}]
      BY <1>2, <1>5
    <2>2. req' \in [Calls -> Request \union {NoReq}]
      BY <1>2, <1>3, <1>6
    <2>3. ret' \in [Calls -> Codes \union {"none"}]
      BY <1>2, <1>5
    <2>4. open' \in [Calls -> BOOLEAN]
      BY <1>2, <1>3
    <2>5. locks' \in [Replicas -> SUBSET Volumes]
      <3>1. locks[Plugin] \union {v} \in SUBSET Volumes
        BY <1>2
      <3>2. locks' = locks \/ locks' = [locks EXCEPT ![Plugin] = locks[Plugin] \union {v}]
        BY <1>4 DEF Admitted, TurnedAway
      <3> QED BY <1>2, <3>1, <3>2
    <2>6. stage' \in [Volumes -> {"none", "unsure", "staged"}]
      BY <1>2, <1>3 DEF Begins
    <2>7. pub' \in [TargetPaths -> {"none", "unsure", "published"}]
      BY <1>2, <1>3 DEF Begins
    <2>8. \A d \in Calls : pc'[d] # "idle" <=> req'[d] \in Request
      <3>1. \A d \in Calls : pc[d] # "idle" <=> req[d] \in Request
        BY DEF NodeInv, TypeOK
      <3>2. pc'[c] # "idle"
        BY <1>5 DEF Labels
      <3> QED BY <1>6, <1>7, <3>1, <3>2
    <2>9. faults' \in 0 .. MaxFaults
      BY <1>1, NodeAssumption DEF Faulty, NodeInv, TypeOK
    <2> QED BY <1>3, <2>1, <2>2, <2>3, <2>4, <2>5, <2>6, <2>7, <2>8, <2>9 DEF NodeInv, TypeOK
  <1>16. CallInv'
    <2>1. \A d \in Calls : CallOK(d)
      BY DEF NodeInv, CallInv
    <2>2. \A d \in Calls : d # c => CallOK(d)'
      BY <1>3, <1>7, <1>10, <2>1 DEF CallOK
    <2>3. \/ op \in StageOps /\ q = StagePath(v)
          \/ op \in PublishOps \union {"Expand"} /\ q \in TargetPaths /\ q[1] = v
      BY <1>3 DEF Begins, StageOps, PublishOps
    <2>4. \/ op = "Stage" /\ label \in StageLabels
          \/ op = "Publish" /\ label \in PublishLabels
          \/ op \in {"Unstage", "Unpublish"} /\ label = "cleanup"
          \/ op = "Expand" /\ label \in ExpandLabels
      BY <1>3 DEF Begins, StageLabels, PublishLabels, ExpandLabels
    <2>5. CallOK(c)'
      BY <1>3, <1>5, <1>6, <1>11, <1>12, <2>3, <2>4 DEF CallOK, Labels
    <2> QED BY <2>2, <2>5 DEF CallInv
  <1>17. LockInv'
    <2>1. \A d \in Calls : Running(d) =>
            /\ req[d].vol \in locks[Plugin]
            /\ \A e \in Calls : Running(e) /\ req[e].vol = req[d].vol => e = d
      BY DEF NodeInv, LockInv
    <2>2. /\ locks[Plugin] \subseteq locks'[Plugin]
          /\ Running(c)' => v \in locks'[Plugin] /\ v \notin locks[Plugin]
      BY <1>2, <1>4, <1>12 DEF Admitted, TurnedAway
    <2> QED BY <1>6, <1>7, <1>10, <2>1, <2>2 DEF LockInv
  <1>18. DeviceInv'
    <2>1. \A d \in Calls : DeviceOK(d)
      BY DEF NodeInv, DeviceInv
    <2>2. \A d \in Calls : d # c => DeviceOK(d)'
      BY <1>3, <1>7, <1>10, <2>1 DEF DeviceOK, UsesDevice
    <2>3. ~UsesDevice(c)'
      BY <1>3, <1>5, <1>6 DEF UsesDevice, Begins
    <2> QED BY <1>3, <1>9, <2>2, <2>3 DEF DeviceInv, DeviceOK
  <1>19. OpenInv'
    <2>1. \A d, e \in Calls : open'[d] /\ open'[e] /\ req'[d].path = req'[e].path => d = e
      BY <1>6, <1>7, <1>14 DEF NodeInv, OpenInv
    <2>2. ASSUME NEW d \in Calls, open'[d]
          PROVE  /\ req'[d].op \in StageOps => stage'[req'[d].vol] = "unsure"
                 /\ req'[d].op \in PublishOps => pub'[req'[d].path] = "unsure"
      <3>1. CASE d = c
        BY <1>6, <1>8, <3>1
      <3>2. CASE d # c
        <4>1. open[d] /\ req'[d] = req[d]
          BY <1>7, <2>2, <3>2
        <4>2. /\ req[d].op \in StageOps => stage[req[d].vol] = "unsure"
              /\ req[d].op \in PublishOps => pub[req[d].path] = "unsure"
          BY <4>1 DEF NodeInv, OpenInv
        <4>3. /\ req[d].vol \in Volumes
              /\ req[d].op \in PublishOps => req[d].path \in TargetPaths
          BY <1>14, <4>1 DEF CallOK, Request, StageOps, PublishOps
        <4> QED BY <1>8, <4>1, <4>2, <4>3
      <3> QED BY <3>1, <3>2
    <2> QED BY <2>1, <2>2 DEF OpenInv
  <1>20. KnowInv'
    <2>1. ASSUME NEW d \in Calls, Running(d)', d # c
          PROVE  /\ req[d].op \in StageOps => kind[req[d].vol].block \/ stage'[req[d].vol] = "unsure"
                 /\ req[d].op \in PublishOps => pub'[req[d].path] = "unsure"
                 /\ req[d].op = "Publish" => kind[req[d].vol].block \/ stage'[req[d].vol] = "staged"
                 /\ req[d].op = "Expand" => /\ pub'[req[d].path] # "none"
                                            /\ expand[req[d].vol] # "none"
                                            /\ req[d].bytes = size[req[d].vol]
      <3>1. Running(d) /\ req[d].vol \in Volumes
        BY <1>10, <1>13, <2>1
      <3>2. /\ req[d].op \in StageOps => kind[req[d].vol].block \/ stage[req[d].vol] = "unsure"
            /\ req[d].op \in PublishOps => pub[req[d].path] = "unsure"
            /\ req[d].op = "Publish" => kind[req[d].vol].block \/ stage[req[d].vol] = "staged"
            /\ req[d].op = "Expand" => /\ pub[req[d].path] # "none"
                                       /\ expand[req[d].vol] # "none"
                                       /\ req[d].bytes = size[req[d].vol]
        BY <3>1 DEF NodeInv, KnowInv
      <3>3. req[d].op \in PublishOps \union {"Expand"} =>
              req[d].path \in TargetPaths /\ req[d].path[1] = req[d].vol
        BY <3>1 DEF NodeInv, CallInv, CallOK, Running, Labels, StageOps, PublishOps
      <3>4. ASSUME req[d].op = "Publish", ~kind[req[d].vol].block
            PROVE  stage'[req[d].vol] = "staged"
        <4>1. stage[req[d].vol] = "staged" /\ pub[req[d].path] = "unsure"
          BY <3>2, <3>4 DEF PublishOps
        <4>2. req[d].path \in TargetPaths /\ req[d].path[1] = req[d].vol
          BY <3>3, <3>4 DEF PublishOps
        <4>3. CASE op \in StageOps /\ req[d].vol = v
          <5>1. op # "Unstage"
            <6>1. PICK p \in Pods : req[d].path = <<v, p>>
              BY <4>2, <4>3 DEF TargetPaths
            <6>2. ~Unpublished(v)
              BY <4>1, <6>1 DEF Unpublished
            <6> QED BY <1>3, <6>2 DEF Begins
          <5>2. op # "Stage"
            BY <1>3, <4>1, <4>3 DEF Begins
          <5> QED BY <4>3, <5>1, <5>2 DEF StageOps
        <4>4. CASE ~(op \in StageOps /\ req[d].vol = v)
          BY <1>8, <3>1, <4>1, <4>4
        <4> QED BY <4>3, <4>4
      <3> QED BY <1>8, <3>1, <3>2, <3>3, <3>4 DEF PublishOps
    <2>2. ASSUME Running(c)'
          PROVE  /\ op \in StageOps => stage'[v] = "unsure"
                 /\ op \in PublishOps => pub'[q] = "unsure"
                 /\ op = "Publish" => stage'[v] = "staged"
                 /\ op = "Expand" => pub'[q] # "none" /\ expand[v] # "none" /\ bytes = size[v]
      BY <1>3, <1>8, <1>12, <2>2 DEF Begins
    <2> QED BY <1>3, <1>6, <1>7, <2>1, <2>2 DEF KnowInv
  <1>21. MountInv'
    <2>1. \A d \in Calls : MountOK(d)
      BY DEF NodeInv, MountInv
    <2>2. \A d \in Calls : d # c => MountOK(d)'
      BY <1>3, <1>7, <1>10, <2>1 DEF MountOK
    <2>3. MountOK(c)'
      BY <1>3, <1>6, <1>11 DEF MountOK, Begins
    <2> QED BY <2>2, <2>3 DEF MountInv
  <1>22. AnswerInv'
    <2>1. SUFFICES ASSUME NEW d \in Calls, open'[d], pc'[d] = "answer", ret'[d] = "OK"
                   PROVE  /\ Delivers(d)'
                          /\ \/ req'[d].op = "Stage" /\ kind[req'[d].vol].block
                             \/ \A e \in Calls : Running(e)' => req'[e].path # req'[d].path
      BY <1>3 DEF AnswerInv
    <2>2. CASE d = c
      <3>1. kind[v].block /\ op \in {"Stage", "Expand"} /\ ~Running(c)'
        BY <1>2, <1>4, <1>12, <2>1, <2>2 DEF Admitted, TurnedAway, Running, Labels
      <3>2. CASE op = "Stage"
        BY <1>3, <1>6, <2>2, <3>1, <3>2 DEF Delivers
      <3>3. CASE op = "Expand"
        <4>1. expand[v] = "pending" /\ pub[q] = "published" /\ q \in TargetPaths /\ q[1] = v
          BY <1>3, <3>3 DEF Begins
        <4>2. Delivers(c)'
          BY <1>3, <1>6, <3>1, <3>3, <4>1 DEF Delivers
        <4>3. ASSUME NEW e \in Calls, Running(e), req[e].path = q PROVE FALSE
          <5>1. CallOK(e) /\ req[e].vol = v
            BY <1>13, <4>1, <4>3 DEF NodeInv, CallInv
          <5>2. req[e].op \notin StageOps
            BY <1>13, <4>1, <4>3, <5>1, PathFacts DEF CallOK, Running, Labels, StageOps, PublishOps
          <5>3. req[e].op \notin PublishOps
            BY <4>1, <4>3 DEF NodeInv, KnowInv
          <5>4. req[e].op # "Expand"
            BY <3>1, <4>3, <5>1 DEF CallOK
          <5> QED BY <4>3, <5>1, <5>2, <5>3, <5>4 DEF CallOK, Running, Labels
        <4> QED BY <1>6, <1>7, <1>10, <2>2, <3>1, <4>2, <4>3
      <3> QED BY <3>1, <3>2, <3>3
    <2>3. CASE d # c
      <3>1. open[d] /\ pc[d] = "answer" /\ ret[d] = "OK" /\ req'[d] = req[d]
        BY <1>7, <2>1, <2>3
      <3>2. /\ Delivers(d)
            /\ \/ req[d].op = "Stage" /\ kind[req[d].vol].block
               \/ \A e \in Calls : Running(e) => req[e].path # req[d].path
        BY <3>1 DEF NodeInv, AnswerInv
      <3>3. Delivers(d)'
        BY <1>3, <3>1, <3>2 DEF Delivers
      <3>4. req[d].path # q
        BY <1>14, <3>1
      <3> QED BY <1>6, <1>7, <1>10, <3>1, <3>2, <3>3, <3>4
    <2> QED BY <2>2, <2>3
  <1>23. PathInv'
    BY <1>3, <1>8 DEF NodeInv, PathInv
  <1>24. DiskInv' /\ GrowthInv'
    BY <1>3 DEF NodeInv, DiskInv, GrowthInv
  <1>25. FillInv'
    <2>1. faults' = 0 => faults = 0
      BY <1>1 DEF Faulty, NodeInv, TypeOK
    <2>2. \A d \in Calls : pc[d] \in {"need", "resize"} => pc'[d] = pc[d] /\ req'[d] = req[d]
      BY <1>3, <1>7
    <2> QED BY <1>3, <2>1, <2>2 DEF NodeInv, FillInv
  <1> QED BY <1>3, <1>15, <1>16, <1>17, <1>18, <1>19, <1>20, <1>21, <1>22, <1>23, <1>24,
             <1>25 DEF NodeInv

-----------------------------------------------------------------------------
(* Answers, and calls that are given up.                                   *)

\* What an answer of OK teaches kubelet is so, and nobody is about to change it.
LEMMA LearnStep ==
  ASSUME NodeInv, NEW c \in Calls, pc[c] = "answer", open[c], ret[c] = "OK",
         KubeletLearns(req[c])
  PROVE  /\ stage' \in [Volumes -> {"none", "unsure", "staged"}]
         /\ pub' \in [TargetPaths -> {"none", "unsure", "published"}]
         /\ expand' \in [Volumes -> {"none", "pending", "done"}]
         /\ \A d \in Calls : Running(d) =>
              /\ req[d].op \in StageOps => kind[req[d].vol].block \/ stage'[req[d].vol] = "unsure"
              /\ req[d].op \in PublishOps => pub'[req[d].path] = "unsure"
              /\ req[d].op = "Publish" => kind[req[d].vol].block \/ stage'[req[d].vol] = "staged"
              /\ req[d].op = "Expand" => pub'[req[d].path] # "none" /\ expand'[req[d].vol] # "none"
         /\ \A d \in Calls : d # c /\ open[d] =>
              /\ req[d].op \in StageOps => stage'[req[d].vol] = "unsure"
              /\ req[d].op \in PublishOps => pub'[req[d].path] = "unsure"
         /\ \A w \in Volumes :
              /\ stage'[w] = "none" => mnt[StagePath(w)] = <<>>
              /\ stage'[w] = "staged" /\ ~kind[w].block => mnt[StagePath(w)] = <<w>>
              /\ expand'[w] = "none" => expand[w] = "none"
              /\ expand[w] # "none" => expand'[w] # "none"
              /\ expand'[w] = "done" /\ ~kind[w].block => blk[w] = size[w]
         /\ \A p \in TargetPaths :
              /\ pub'[p] = "none" => mnt[p] = <<>>
              /\ pub'[p] = "published" => mnt[p] = <<p[1]>>
  <1> DEFINE v == req[c].vol  q == req[c].path  op == req[c].op
  <1>1. /\ stage \in [Volumes -> {"none", "unsure", "staged"}]
        /\ pub \in [TargetPaths -> {"none", "unsure", "published"}]
        /\ expand \in [Volumes -> {"none", "pending", "done"}]
        /\ req[c] \in Request /\ v \in Volumes /\ q \in Paths
    BY DEF NodeInv, TypeOK, Request
  <1>2. /\ \/ op \in StageOps /\ q = StagePath(v)
           \/ op \in PublishOps \union {"Expand"} /\ q \in TargetPaths /\ q[1] = v
        /\ op \in StageOps => stage[v] = "unsure"
        /\ op \in PublishOps => pub[q] = "unsure"
    BY DEF NodeInv, CallInv, CallOK, OpenInv
  <1>3. /\ Delivers(c)
        /\ \/ op = "Stage" /\ kind[v].block
           \/ \A d \in Calls : Running(d) => req[d].path # q
    BY DEF NodeInv, AnswerInv
  <1>4. \A d \in Calls : pc[d] # "idle" =>
          /\ req[d].vol \in Volumes /\ req[d].path \in Paths
          /\ \/ req[d].op \in StageOps /\ req[d].path = StagePath(req[d].vol)
             \/ /\ req[d].op \in PublishOps \union {"Expand"}
                /\ req[d].path \in TargetPaths /\ req[d].path[1] = req[d].vol
    BY DEF NodeInv, TypeOK, Request, CallInv, CallOK
  <1>5. /\ \A d \in Calls : Running(d) =>
             /\ pc[d] # "idle"
             /\ req[d].op \in StageOps => kind[req[d].vol].block \/ stage[req[d].vol] = "unsure"
             /\ req[d].op \in PublishOps => pub[req[d].path] = "unsure"
             /\ req[d].op = "Publish" => kind[req[d].vol].block \/ stage[req[d].vol] = "staged"
             /\ req[d].op = "Expand" => pub[req[d].path] # "none" /\ expand[req[d].vol] # "none"
        /\ \A d \in Calls : d # c /\ open[d] =>
             /\ pc[d] # "idle" /\ req[d].path # q
             /\ req[d].op \in StageOps => stage[req[d].vol] = "unsure"
             /\ req[d].op \in PublishOps => pub[req[d].path] = "unsure"
    BY DEF NodeInv, KnowInv, OpenInv, CallInv, CallOK, Running, Labels
  <1>6. /\ \A w \in Volumes :
             /\ stage[w] = "none" => mnt[StagePath(w)] = <<>>
             /\ stage[w] = "staged" /\ ~kind[w].block => mnt[StagePath(w)] = <<w>>
             /\ expand[w] = "done" /\ ~kind[w].block => blk[w] = size[w]
        /\ \A p \in TargetPaths :
             /\ pub[p] = "none" => mnt[p] = <<>>
             /\ pub[p] = "published" => mnt[p] = <<p[1]>>
    BY DEF NodeInv, PathInv, GrowthInv
  <1>7. /\ stage' = [stage EXCEPT ![v] = IF op = "Stage" THEN "staged" ELSE
                                         IF op = "Unstage" THEN "none" ELSE @]
        /\ pub' = IF op = "Publish" THEN [pub EXCEPT ![q] = "published"]
                  ELSE IF op = "Unpublish" THEN [pub EXCEPT ![q] = "none"] ELSE pub
        /\ expand' = IF op = "Expand" THEN [expand EXCEPT ![v] = "done"] ELSE expand
    BY DEF KubeletLearns
  <1>8. StageOps = {"Stage", "Unstage"} /\ PublishOps = {"Publish", "Unpublish"}
    BY DEF StageOps, PublishOps
  <1> HIDE DEF v, q, op
  <1>9. CASE op \in StageOps
    <2>1. /\ q = StagePath(v) /\ pub' = pub /\ expand' = expand
          /\ stage'[v] = (IF op = "Stage" THEN "staged" ELSE "none")
          /\ \A w \in Volumes : w # v => stage'[w] = stage[w]
          /\ stage' \in [Volumes -> {"none", "unsure", "staged"}]
      BY <1>1, <1>2, <1>7, <1>8, <1>9, PathFacts
    <2>2. /\ op = "Stage" => kind[v].block \/ mnt[q] = <<v>>
          /\ op = "Unstage" => mnt[q] = <<>>
      BY <1>3 DEF Delivers, op, v, q
    <2>3. \A d \in Calls : Running(d) =>
            /\ req[d].op \in StageOps => kind[req[d].vol].block \/ stage'[req[d].vol] = "unsure"
            /\ req[d].op = "Publish" => kind[req[d].vol].block \/ stage'[req[d].vol] = "staged"
      <3>1. SUFFICES ASSUME NEW d \in Calls, Running(d), ~kind[req[d].vol].block
                     PROVE  /\ req[d].op \in StageOps => stage'[req[d].vol] = "unsure"
                            /\ req[d].op = "Publish" => stage'[req[d].vol] = "staged"
        OBVIOUS
      <3>2. CASE req[d].vol # v
        BY <1>4, <1>5, <2>1, <3>1, <3>2
      <3>3. CASE req[d].vol = v
        <4>1. req[d].op \notin StageOps
          BY <1>3, <1>4, <1>5, <1>8, <2>1, <3>1, <3>3, PathFacts DEF StageOps, PublishOps
        <4>2. req[d].op # "Publish"
          BY <1>2, <1>5, <1>9, <3>1, <3>3
        <4> QED BY <4>1, <4>2
      <3> QED BY <3>2, <3>3
    <2>4. \A d \in Calls : d # c /\ open[d] =>
            (req[d].op \in StageOps => stage'[req[d].vol] = "unsure")
      BY <1>4, <1>5, <1>8, <2>1, PathFacts
    <2>5. \A w \in Volumes :
            /\ stage'[w] = "none" => mnt[StagePath(w)] = <<>>
            /\ stage'[w] = "staged" /\ ~kind[w].block => mnt[StagePath(w)] = <<w>>
      BY <1>6, <1>8, <1>9, <2>1, <2>2
    <2> QED BY <1>1, <1>5, <1>6, <2>1, <2>3, <2>4, <2>5
  <1>10. CASE op \in PublishOps
    <2>1. /\ q \in TargetPaths /\ q[1] = v /\ stage' = stage /\ expand' = expand
          /\ pub'[q] = (IF op = "Publish" THEN "published" ELSE "none")
          /\ \A p \in TargetPaths : p # q => pub'[p] = pub[p]
          /\ pub' \in [TargetPaths -> {"none", "unsure", "published"}]
      BY <1>1, <1>2, <1>7, <1>8, <1>10
    <2>2. /\ op = "Publish" => mnt[q] = <<v>>
          /\ op = "Unpublish" => mnt[q] = <<>>
      BY <1>3 DEF Delivers, op, v, q
    <2>3. \A d \in Calls : Running(d) => req[d].path # q
      BY <1>3, <1>8, <1>10
    <2>4. \A d \in Calls : Running(d) =>
            /\ req[d].op \in PublishOps => pub'[req[d].path] = "unsure"
            /\ req[d].op = "Expand" => pub'[req[d].path] # "none"
      BY <1>4, <1>5, <1>8, <2>1, <2>3
    <2>5. \A d \in Calls : d # c /\ open[d] =>
            (req[d].op \in PublishOps => pub'[req[d].path] = "unsure")
      BY <1>4, <1>5, <1>8, <2>1
    <2>6. \A p \in TargetPaths :
            /\ pub'[p] = "none" => mnt[p] = <<>>
            /\ pub'[p] = "published" => mnt[p] = <<p[1]>>
      BY <1>6, <1>8, <1>10, <2>1, <2>2
    <2> QED BY <1>1, <1>5, <1>6, <2>1, <2>4, <2>5, <2>6
  <1>11. CASE op = "Expand"
    <2>1. /\ stage' = stage /\ pub' = pub
          /\ expand'[v] = "done" /\ \A w \in Volumes : w # v => expand'[w] = expand[w]
          /\ expand' \in [Volumes -> {"none", "pending", "done"}]
      BY <1>1, <1>7, <1>11
    <2>2. expand[v] # "none" /\ (~kind[v].block => blk[v] = size[v])
      BY <1>3, <1>11 DEF Delivers, op, v
    <2>3. \A w \in Volumes :
            /\ expand'[w] = "none" => expand[w] = "none"
            /\ expand[w] # "none" => expand'[w] # "none"
            /\ expand'[w] = "done" /\ ~kind[w].block => blk[w] = size[w]
      BY <1>6, <2>1, <2>2
    <2> QED BY <1>1, <1>4, <1>5, <1>6, <2>1, <2>3
  <1> QED BY <1>2, <1>9, <1>10, <1>11

LEMMA AnswerStep ==
  ASSUME NodeInv, NEW c \in Calls, Answer(c)
  PROVE  NodeInv' /\ data' = data
  <1>1. /\ pc \in [Calls -> Labels \union {"idle", "answer"}]
        /\ req \in [Calls -> Request \union {NoReq}]
        /\ ret \in [Calls -> Codes \union {"none"}]
        /\ open \in [Calls -> BOOLEAN]
    BY DEF NodeInv, TypeOK
  <1>2. /\ pc[c] = "answer"
        /\ pc' = [pc EXCEPT ![c] = "idle"] /\ req' = [req EXCEPT ![c] = NoReq]
        /\ ret' = [ret EXCEPT ![c] = "none"] /\ open' = [open EXCEPT ![c] = FALSE]
        /\ kind' = kind /\ size' = size /\ blk' = blk /\ dev' = dev /\ attached' = attached
        /\ fs' = fs /\ data' = data /\ mnt' = mnt /\ dirs' = dirs /\ devicePath' = devicePath
        /\ want' = want /\ faults' = faults /\ locks' = locks
    BY DEF Answer, KubeletLearns, diskVars, nodeVars, pathVars, coVars
  <1>3. /\ stage' \in [Volumes -> {"none", "unsure", "staged"}]
        /\ pub' \in [TargetPaths -> {"none", "unsure", "published"}]
        /\ expand' \in [Volumes -> {"none", "pending", "done"}]
        /\ \A d \in Calls : Running(d) =>
             /\ req[d].op \in StageOps => kind[req[d].vol].block \/ stage'[req[d].vol] = "unsure"
             /\ req[d].op \in PublishOps => pub'[req[d].path] = "unsure"
             /\ req[d].op = "Publish" => kind[req[d].vol].block \/ stage'[req[d].vol] = "staged"
             /\ req[d].op = "Expand" => pub'[req[d].path] # "none" /\ expand'[req[d].vol] # "none"
        /\ \A d \in Calls : d # c /\ open[d] =>
             /\ req[d].op \in StageOps => stage'[req[d].vol] = "unsure"
             /\ req[d].op \in PublishOps => pub'[req[d].path] = "unsure"
        /\ \A w \in Volumes :
             /\ stage'[w] = "none" => mnt[StagePath(w)] = <<>>
             /\ stage'[w] = "staged" /\ ~kind[w].block => mnt[StagePath(w)] = <<w>>
             /\ expand'[w] = "none" => expand[w] = "none"
             /\ expand[w] # "none" => expand'[w] # "none"
             /\ expand'[w] = "done" /\ ~kind[w].block => blk[w] = size[w]
        /\ \A p \in TargetPaths :
             /\ pub'[p] = "none" => mnt[p] = <<>>
             /\ pub'[p] = "published" => mnt[p] = <<p[1]>>
    <2>1. CASE open[c] /\ ret[c] = "OK" /\ KubeletLearns(req[c])
      BY <1>2, <2>1, LearnStep
    <2>2. CASE UNCHANGED coVars
      <3>1. stage' = stage /\ pub' = pub /\ expand' = expand
        BY <2>2 DEF coVars
      <3> QED BY <3>1 DEF NodeInv, TypeOK, KnowInv, OpenInv, PathInv, GrowthInv
    <2> QED BY <2>1, <2>2 DEF Answer
  <1>4. /\ pc'[c] = "idle" /\ req'[c] = NoReq /\ ~open'[c] /\ ~Running(c) /\ ~Running(c)'
        /\ NoReq \notin Request
    BY <1>1, <1>2 DEF Running, Labels, NoReq, Request
  <1>5. \A d \in Calls : d # c => /\ pc'[d] = pc[d] /\ req'[d] = req[d] /\ ret'[d] = ret[d]
                                  /\ open'[d] = open[d]
    BY <1>1, <1>2
  <1>6. \A d \in Calls : Running(d)' <=> Running(d)
    BY <1>4, <1>5 DEF Running
  <1>7. TypeOK'
    <2>1. pc' \in [Calls -> Labels \union {"idle", "answer"}]
      BY <1>1, <1>2
    <2>2. req' \in [Calls -> Request \union {NoReq}]
      BY <1>1, <1>2
    <2>3. ret' \in [Calls -> Codes \union {"none"}]
      BY <1>1, <1>2
    <2>4. open' \in [Calls -> BOOLEAN]
      BY <1>1, <1>2
    <2>5. \A d \in Calls : pc'[d] # "idle" <=> req'[d] \in Request
      BY <1>4, <1>5 DEF NodeInv, TypeOK
    <2> QED BY <1>2, <1>3, <2>1, <2>2, <2>3, <2>4, <2>5 DEF NodeInv, TypeOK
  <1>8. CallInv'
    <2>1. \A d \in Calls : CallOK(d)
      BY DEF NodeInv, CallInv
    <2>2. \A d \in Calls : d # c => CallOK(d)'
      BY <1>2, <1>5, <1>6, <2>1 DEF CallOK
    <2>3. CallOK(c)'
      BY <1>4 DEF CallOK
    <2> QED BY <2>2, <2>3 DEF CallInv
  <1>9. LockInv'
    BY <1>2, <1>4, <1>5, <1>6 DEF NodeInv, LockInv
  <1>10. DeviceInv'
    <2>1. \A d \in Calls : DeviceOK(d)
      BY DEF NodeInv, DeviceInv
    <2>2. \A d \in Calls : d # c => DeviceOK(d)'
      BY <1>2, <1>5, <1>6, <2>1 DEF DeviceOK, UsesDevice
    <2>3. DeviceOK(c)'
      BY <1>2, <1>4, <2>1 DEF DeviceOK, UsesDevice
    <2> QED BY <2>2, <2>3 DEF DeviceInv
  <1>11. OpenInv'
    BY <1>3, <1>4, <1>5 DEF NodeInv, OpenInv
  <1>12. KnowInv'
    <2>1. \A d \in Calls : Running(d) /\ req[d].op = "Expand" => req[d].bytes = size[req[d].vol]
      BY DEF NodeInv, KnowInv
    <2> QED BY <1>2, <1>3, <1>4, <1>5, <1>6, <2>1 DEF KnowInv
  <1>13. MountInv'
    <2>1. \A d \in Calls : MountOK(d)
      BY DEF NodeInv, MountInv
    <2>2. \A d \in Calls : d # c => MountOK(d)'
      BY <1>2, <1>5, <1>6, <2>1 DEF MountOK
    <2> QED BY <1>4, <2>2 DEF MountInv, MountOK
  <1>14. AnswerInv'
    <2>1. SUFFICES ASSUME NEW d \in Calls, open'[d], pc'[d] = "answer", ret'[d] = "OK"
                   PROVE  /\ Delivers(d)'
                          /\ \/ req'[d].op = "Stage" /\ kind[req'[d].vol].block
                             \/ \A e \in Calls : Running(e)' => req'[e].path # req'[d].path
      BY <1>2 DEF AnswerInv
    <2>2. d # c /\ open[d] /\ pc[d] = "answer" /\ ret[d] = "OK" /\ req'[d] = req[d]
      BY <1>4, <1>5, <2>1
    <2>3. /\ Delivers(d)
          /\ \/ req[d].op = "Stage" /\ kind[req[d].vol].block
             \/ \A e \in Calls : Running(e) => req[e].path # req[d].path
      BY <2>2 DEF NodeInv, AnswerInv
    <2>4. req[d].vol \in Volumes
      BY <2>2 DEF NodeInv, TypeOK, Request
    <2>5. Delivers(d)'
      BY <1>2, <1>3, <2>2, <2>3, <2>4 DEF Delivers
    <2> QED BY <1>4, <1>5, <1>6, <2>2, <2>3, <2>5
  <1>15. PathInv'
    <2>1. \A w \in Volumes : kind[w].block => mnt[StagePath(w)] = <<>>
      BY DEF NodeInv, PathInv
    <2>2. \A p \in Paths : mnt[p] \in {<<>>, <<p[1]>>}
      BY DEF NodeInv, PathInv
    <2> QED BY <1>2, <1>3, <2>1, <2>2 DEF PathInv
  <1>16. DiskInv'
    BY <1>2 DEF NodeInv, DiskInv
  <1>17. GrowthInv'
    BY <1>2, <1>3 DEF NodeInv, GrowthInv
  <1>18. FillInv'
    <2>1. \A d \in Calls : pc[d] \in {"need", "resize"} => pc'[d] = pc[d] /\ req'[d] = req[d]
      BY <1>2, <1>5
    <2> QED BY <1>2, <1>3, <2>1 DEF NodeInv, FillInv
  <1> QED BY <1>2, <1>7, <1>8, <1>9, <1>10, <1>11, <1>12, <1>13, <1>14, <1>15, <1>16, <1>17,
             <1>18 DEF NodeInv

LEMMA GiveUpStep ==
  ASSUME NodeInv, NEW c \in Calls, GiveUp(c)
  PROVE  NodeInv' /\ data' = data
  <1>1. /\ open[c] /\ open' = [open EXCEPT ![c] = FALSE] /\ Fault
        /\ kind' = kind /\ fs' = fs /\ data' = data /\ mnt' = mnt /\ dirs' = dirs
        /\ size' = size /\ blk' = blk /\ dev' = dev /\ attached' = attached
        /\ pc' = pc /\ req' = req /\ ret' = ret /\ devicePath' = devicePath /\ locks' = locks
        /\ want' = want /\ stage' = stage /\ pub' = pub /\ expand' = expand
    BY DEF GiveUp, diskVars, nodeVars, pathVars, coVars
  <1>2. open \in [Calls -> BOOLEAN] /\ faults \in 0 .. MaxFaults /\ MaxFaults \in Nat
    BY NodeAssumption DEF NodeInv, TypeOK
  <1>3. open' \in [Calls -> BOOLEAN] /\ \A d \in Calls : open'[d] => open[d]
    BY <1>1, <1>2
  <1>4. faults' \in 0 .. MaxFaults /\ faults' # 0
    BY <1>1, <1>2 DEF Fault
  <1>5. TypeOK'
    BY <1>1, <1>3, <1>4 DEF NodeInv, TypeOK
  <1>6. CallInv' /\ LockInv' /\ DeviceInv'
    BY <1>1, <1>3 DEF NodeInv, CallInv, CallOK, LockInv, DeviceInv, DeviceOK, UsesDevice, Running
  <1>7. OpenInv' /\ KnowInv' /\ MountInv'
    BY <1>1, <1>3 DEF NodeInv, OpenInv, KnowInv, MountInv, MountOK, Running
  <1>8. AnswerInv'
    BY <1>1, <1>3 DEF NodeInv, AnswerInv, Delivers, Running
  <1>9. PathInv' /\ DiskInv' /\ GrowthInv'
    BY <1>1 DEF NodeInv, PathInv, DiskInv, GrowthInv
  <1>10. FillInv'
    BY <1>4 DEF FillInv
  <1> QED BY <1>1, <1>5, <1>6, <1>7, <1>8, <1>9, <1>10 DEF NodeInv

\* The plugin or the node restarts.
LEMMA RestartStep ==
  ASSUME NodeInv, Crash \/ Reboot
  PROVE  NodeInv' /\ data' = data
  <1>1. /\ HandlersDie
        /\ kind' = kind /\ fs' = fs /\ data' = data /\ dirs' = dirs
        /\ size' = size /\ blk' = blk /\ dev' = dev /\ attached' = attached
        /\ want' = want /\ expand' = expand
        /\ \/ mnt' = mnt /\ stage' = stage /\ pub' = pub
           \/ /\ mnt' = [q \in Paths |-> <<>>]
              /\ stage' = [v \in Volumes |-> IF stage[v] = "staged" THEN "unsure" ELSE stage[v]]
              /\ pub' = [q \in TargetPaths |-> IF pub[q] = "published" THEN "unsure" ELSE pub[q]]
    BY DEF Crash, Reboot, diskVars, nodeVars, pathVars, coVars
  <1>2. /\ locks \in [Replicas -> SUBSET Volumes] /\ Plugin \in Replicas
        /\ faults \in 0 .. MaxFaults /\ MaxFaults \in Nat
        /\ mnt \in [Paths -> Seq(Disks \union {None})]
        /\ stage \in [Volumes -> {"none", "unsure", "staged"}]
        /\ pub \in [TargetPaths -> {"none", "unsure", "published"}]
    BY NodeAssumption DEF NodeInv, TypeOK
  <1>3. /\ \A c \in Calls : /\ pc'[c] = "idle" /\ req'[c] = NoReq /\ ~open'[c]
                            /\ devicePath'[c] = None /\ ~Running(c)'
        /\ NoReq \notin Request
    BY <1>1 DEF HandlersDie, Running, Labels, NoReq, Request
  <1>4. faults' \in 0 .. MaxFaults /\ faults' # 0
    BY <1>1, <1>2 DEF HandlersDie, Fault
  <1>5. TypeOK'
    <2>1. locks' \in [Replicas -> SUBSET Volumes]
      BY <1>1, <1>2 DEF HandlersDie, LoseLocks
    <2>2. /\ pc' \in [Calls -> Labels \union {"idle", "answer"}]
          /\ req' \in [Calls -> Request \union {NoReq}]
          /\ ret' \in [Calls -> Codes \union {"none"}]
          /\ open' \in [Calls -> BOOLEAN]
          /\ devicePath' \in [Calls -> Letters \union {None}]
      BY <1>1 DEF HandlersDie
    <2>3. mnt' \in [Paths -> Seq(Disks \union {None})]
      <3>1. <<>> \in Seq(Disks \union {None})
        OBVIOUS
      <3> QED BY <1>1, <1>2, <3>1
    <2>4. /\ stage' \in [Volumes -> {"none", "unsure", "staged"}]
          /\ pub' \in [TargetPaths -> {"none", "unsure", "published"}]
      BY <1>1, <1>2
    <2> QED BY <1>1, <1>3, <1>4, <2>1, <2>2, <2>3, <2>4 DEF NodeInv, TypeOK
  <1>6. CallInv' /\ LockInv' /\ DeviceInv'
    BY <1>3 DEF CallInv, CallOK, LockInv, DeviceInv, DeviceOK, UsesDevice
  <1>7. OpenInv' /\ KnowInv' /\ MountInv' /\ AnswerInv'
    BY <1>3 DEF OpenInv, KnowInv, MountInv, MountOK, AnswerInv
  <1>8. PathInv'
    <2>1. CASE mnt' = mnt /\ stage' = stage /\ pub' = pub
      BY <1>1, <2>1 DEF NodeInv, PathInv
    <2>2. CASE /\ mnt' = [q \in Paths |-> <<>>]
               /\ stage' = [v \in Volumes |-> IF stage[v] = "staged" THEN "unsure" ELSE stage[v]]
               /\ pub' = [q \in TargetPaths |-> IF pub[q] = "published" THEN "unsure" ELSE pub[q]]
      <3>1. \A q \in Paths : mnt'[q] = <<>>
        BY <2>2
      <3>2. \A v \in Volumes : stage'[v] # "staged"
        BY <2>2
      <3>3. \A q \in TargetPaths : pub'[q] # "published"
        BY <2>2
      <3> QED BY <3>1, <3>2, <3>3, PathFacts DEF PathInv
    <2> QED BY <1>1, <2>1, <2>2
  <1>9. DiskInv' /\ GrowthInv'
    <2>1. \A q \in Paths : mnt'[q] = mnt[q] \/ mnt'[q] = <<>>
      BY <1>1
    <2>2. \A x : <<x>> # <<>>
      BY OneMount
    <2> QED BY <1>1, <2>1, <2>2 DEF NodeInv, DiskInv, GrowthInv
  <1>10. FillInv'
    BY <1>4 DEF FillInv
  <1> QED BY <1>1, <1>5, <1>6, <1>7, <1>8, <1>9, <1>10 DEF NodeInv

-----------------------------------------------------------------------------
(* The attacher, the kernel and the pods.                                  *)

\* The part of the state these steps leave alone.
Elsewhere ==
  /\ kind' = kind /\ fs' = fs /\ mnt' = mnt /\ dirs' = dirs /\ faults' = faults
  /\ pc' = pc /\ req' = req /\ ret' = ret /\ open' = open /\ locks' = locks
  /\ devicePath' = devicePath /\ stage' = stage /\ pub' = pub

\* The invariants that speak of calls and paths only.
LEMMA ElsewhereInv ==
  ASSUME NodeInv, Elsewhere
  PROVE  /\ CallInv' /\ LockInv' /\ OpenInv' /\ MountInv' /\ PathInv'
         /\ (size' = size /\ expand' = expand => KnowInv')
         /\ (size' = size /\ blk' = blk /\ expand' = expand => AnswerInv' /\ GrowthInv' /\ FillInv')
         /\ (data' = data => DiskInv')
         /\ (dev' = dev => DeviceInv')
  <1>1. \A c \in Calls : Running(c)' <=> Running(c)
    BY DEF Elsewhere, Running
  <1>2. CallInv' /\ LockInv'
    BY <1>1 DEF Elsewhere, NodeInv, CallInv, CallOK, LockInv
  <1>3. OpenInv' /\ MountInv' /\ PathInv'
    BY <1>1 DEF Elsewhere, NodeInv, OpenInv, MountInv, MountOK, PathInv
  <1>4. size' = size /\ expand' = expand => KnowInv'
    BY <1>1 DEF Elsewhere, NodeInv, KnowInv
  <1>5. size' = size /\ blk' = blk /\ expand' = expand => AnswerInv'
    BY <1>1 DEF Elsewhere, NodeInv, AnswerInv, Delivers
  <1>6. size' = size /\ blk' = blk /\ expand' = expand => GrowthInv' /\ FillInv'
    BY DEF Elsewhere, NodeInv, GrowthInv, FillInv
  <1>7. data' = data => DiskInv'
    BY DEF Elsewhere, NodeInv, DiskInv
  <1>8. dev' = dev => DeviceInv'
    BY <1>1 DEF Elsewhere, NodeInv, DeviceInv, DeviceOK, UsesDevice
  <1> QED BY <1>2, <1>3, <1>4, <1>5, <1>6, <1>7, <1>8

\* A device name a handler uses stays with its volume when a free name is
\* given away, and when the name of a disk no handler works on is taken back.
LEMMA DeviceStep ==
  ASSUME NodeInv, Elsewhere, dev' \in [Letters -> Disks \union {None}],
         \A c \in Calls : devicePath[c] # None => dev'[devicePath[c]] = dev[devicePath[c]]
  PROVE  DeviceInv'
  BY DEF Elsewhere, NodeInv, DeviceInv, DeviceOK, UsesDevice, Running

\* The size of a disk and what the node sees of it.
LEMMA SizeStep ==
  ASSUME NodeInv, Elsewhere, NEW v \in Volumes,
         blk' = [blk EXCEPT ![v] = size'[v]],
         \/ size' = size /\ expand' = expand
         \/ /\ expand[v] = "none" /\ size[v] < MaxSize
            /\ size' = [size EXCEPT ![v] = @ + 1] /\ expand' = [expand EXCEPT ![v] = "pending"]
  PROVE  /\ size' \in [Disks -> 1..MaxSize] /\ blk' \in [Disks -> 1..MaxSize]
         /\ expand' \in [Volumes -> {"none", "pending", "done"}]
         /\ KnowInv' /\ AnswerInv' /\ GrowthInv' /\ FillInv'
  <1>1. /\ size \in [Disks -> 1..MaxSize] /\ blk \in [Disks -> 1..MaxSize]
        /\ expand \in [Volumes -> {"none", "pending", "done"}]
        /\ fs \in [Disks -> [format : Formats, size : 0..MaxSize]]
        /\ v \in Disks /\ MaxSize \in Nat
    BY NodeAssumption DEF NodeInv, TypeOK, Disks
  <1>2. /\ size'[v] \in 1 .. MaxSize /\ size'[v] >= size[v] /\ blk'[v] = size'[v]
        /\ \A w \in Disks : w # v => size'[w] = size[w] /\ blk'[w] = blk[w]
        /\ \A w \in Volumes : w # v => expand'[w] = expand[w]
        /\ expand[v] # "none" => size' = size /\ expand' = expand
        /\ expand'[v] = "none" => size' = size /\ expand[v] = "none"
        /\ size' \in [Disks -> 1..MaxSize]
        /\ expand' \in [Volumes -> {"none", "pending", "done"}]
    BY <1>1
  <1>3. blk' \in [Disks -> 1..MaxSize]
    BY <1>1, <1>2
  <1>4. \A w \in Volumes : w \in Disks
    BY DEF Disks
  <1>5. \A c \in Calls : pc[c] # "idle" => req[c].vol \in Volumes
    BY DEF NodeInv, TypeOK, Request
  <1>6. \A c \in Calls : (Running(c)' <=> Running(c)) /\ (Running(c) => pc[c] # "idle")
    BY DEF Elsewhere, Running, Labels
  <1>7. KnowInv'
    BY <1>2, <1>4, <1>5, <1>6 DEF Elsewhere, NodeInv, KnowInv
  <1>8. AnswerInv'
    <2>1. \A c \in Calls : pc[c] = "answer" /\ Delivers(c) => Delivers(c)'
      BY <1>2, <1>4, <1>5 DEF Elsewhere, Delivers
    <2> QED BY <1>6, <2>1 DEF Elsewhere, NodeInv, AnswerInv
  <1>9. \A w \in Volumes : /\ blk[w] <= size[w] /\ fs[w].size <= blk[w]
                           /\ expand[w] = "none" => blk[w] = size[w]
                           /\ expand[w] = "done" /\ ~kind[w].block => blk[w] = size[w]
    BY DEF NodeInv, GrowthInv
  <1>10. GrowthInv'
    <2>1. fs[v].size <= size'[v]
      BY <1>1, <1>2, <1>9
    <2>2. size'[v] <= size'[v]
      BY <1>2
    <2> QED BY <1>2, <1>4, <1>9, <2>1, <2>2 DEF GrowthInv, Elsewhere
  <1>11. FillInv'
    <2>1. \A w \in Volumes : expand'[w] = "none" => expand[w] = "none" /\ blk'[w] = blk[w]
      BY <1>2, <1>4, <1>9
    <2> QED BY <2>1 DEF Elsewhere, NodeInv, FillInv
  <1> QED BY <1>2, <1>3, <1>7, <1>8, <1>10, <1>11

\* Kubelet has undone a volume that leaves: nobody works on it any more.
LEMMA DetachIsSafe ==
  ASSUME NodeInv, NEW v \in Volumes, Unpublished(v), stage[v] = "none",
         NEW c \in Calls, devicePath[c] # None
  PROVE  req[c].vol # v
  <1>1. SUFFICES ASSUME req[c].vol = v PROVE FALSE
    OBVIOUS
  <1>2. Running(c) /\ req[c].op \in {"Stage", "Publish", "Expand"}
    BY DEF NodeInv, DeviceInv, DeviceOK
  <1>3. CallOK(c) /\ pc[c] # "idle"
    BY <1>2 DEF NodeInv, CallInv, Running, Labels
  <1>4. CASE req[c].op = "Stage"
    BY <1>1, <1>2, <1>3, <1>4 DEF NodeInv, KnowInv, CallOK, StageOps
  <1>5. CASE req[c].op \in {"Publish", "Expand"}
    <2>1. req[c].path \in TargetPaths /\ req[c].path[1] = v
      BY <1>1, <1>3, <1>5 DEF CallOK, StageOps
    <2>2. pub[req[c].path] # "none"
      BY <1>2, <1>5 DEF NodeInv, KnowInv, PublishOps
    <2>3. PICK p \in Pods : req[c].path = <<v, p>>
      BY <2>1 DEF TargetPaths
    <2> QED BY <2>2, <2>3 DEF Unpublished
  <1> QED BY <1>2, <1>4, <1>5

LEMMA KernelStep ==
  ASSUME NodeInv, NEW v \in Volumes, Attach(v) \/ DeviceAppears(v) \/ Detach(v)
  PROVE  NodeInv' /\ data' = data
  <1>1. Elsewhere /\ data' = data /\ size' = size /\ expand' = expand /\ want' = want
    BY DEF Attach, DeviceAppears, Detach, Elsewhere, diskVars, pathVars, callVars, coVars
  <1>2. /\ dev \in [Letters -> Disks \union {None}] /\ v \in Disks /\ v # None
        /\ attached \subseteq Volumes /\ devicePath \in [Calls -> Letters \union {None}]
        /\ \A c \in Calls : devicePath[c] # None =>
             /\ dev[devicePath[c]] = req[c].vol /\ req[c].vol \in Volumes /\ req[c].vol # None
    <2>1. \A c \in Calls : devicePath[c] # None => Running(c) /\ dev[devicePath[c]] = req[c].vol
      BY DEF NodeInv, DeviceInv, DeviceOK
    <2> QED BY <2>1, RunningFacts, NodeAssumption DEF NodeInv, TypeOK, Disks, Held
  <1>3. attached' \subseteq Volumes
    BY <1>2 DEF Attach, DeviceAppears, Detach
  <1>4. dev' \in [Letters -> Disks \union {None}] /\ DeviceInv'
    <2>1. CASE Attach(v)
      BY <1>1, <1>2, <2>1, ElsewhereInv DEF Attach
    <2>2. CASE DeviceAppears(v)
      <3>1. PICK l \in Letters : dev[l] = None /\ dev' = [dev EXCEPT ![l] = v]
        BY <2>2 DEF DeviceAppears
      <3>2. dev' \in [Letters -> Disks \union {None}]
        BY <1>2, <3>1
      <3>3. \A c \in Calls : devicePath[c] # None => dev'[devicePath[c]] = dev[devicePath[c]]
        BY <1>2, <3>1
      <3> QED BY <1>1, <3>2, <3>3, DeviceStep
    <2>3. CASE Detach(v)
      <3>1. /\ dev' = [l \in Letters |-> IF dev[l] = v THEN None ELSE dev[l]]
            /\ Unpublished(v) /\ stage[v] = "none"
        BY <2>3 DEF Detach
      <3>2. dev' \in [Letters -> Disks \union {None}]
        BY <1>2, <3>1
      <3>3. \A c \in Calls : devicePath[c] # None => dev'[devicePath[c]] = dev[devicePath[c]]
        BY <1>2, <3>1, DetachIsSafe
      <3> QED BY <1>1, <3>2, <3>3, DeviceStep
    <2> QED BY <2>1, <2>2, <2>3
  <1>5. blk' \in [Disks -> 1..MaxSize] /\ KnowInv' /\ AnswerInv' /\ GrowthInv' /\ FillInv'
    <2>1. CASE blk' = blk
      BY <1>1, <2>1, ElsewhereInv DEF NodeInv, TypeOK
    <2>2. CASE blk' = [blk EXCEPT ![v] = size[v]]
      BY <1>1, <2>2, SizeStep
    <2> QED BY <2>1, <2>2 DEF Attach, DeviceAppears, Detach
  <1>6. TypeOK'
    BY <1>1, <1>3, <1>4, <1>5 DEF Elsewhere, NodeInv, TypeOK
  <1> QED BY <1>1, <1>4, <1>5, <1>6, ElsewhereInv DEF NodeInv

LEMMA GrowStep ==
  ASSUME NodeInv, NEW v \in Volumes, DiskGrows(v) \/ SizeSeen(v)
  PROVE  NodeInv' /\ data' = data
  <1>1. Elsewhere /\ data' = data /\ dev' = dev /\ attached' = attached /\ want' = want
    BY DEF DiskGrows, SizeSeen, Elsewhere, diskVars, pathVars, callVars, coVars
  <1>2. /\ size \in [Disks -> 1..MaxSize] /\ blk \in [Disks -> 1..MaxSize]
        /\ expand \in [Volumes -> {"none", "pending", "done"}]
        /\ fs \in [Disks -> [format : Formats, size : 0..MaxSize]]
        /\ v \in Disks /\ MaxSize \in Nat
    BY NodeAssumption DEF NodeInv, TypeOK, Disks
  <1>3. /\ size' \in [Disks -> 1..MaxSize] /\ blk' \in [Disks -> 1..MaxSize]
        /\ expand' \in [Volumes -> {"none", "pending", "done"}]
        /\ KnowInv' /\ AnswerInv' /\ GrowthInv' /\ FillInv'
    <2>1. CASE SizeSeen(v)
      BY <1>1, <2>1, SizeStep DEF SizeSeen, coVars
    <2>2. CASE DiskGrows(v) /\ blk' = [blk EXCEPT ![v] = size'[v]]
      BY <1>1, <2>2, SizeStep DEF DiskGrows
    <2>3. CASE DiskGrows(v) /\ blk' = blk
      <3>1. /\ expand[v] = "none" /\ size[v] < MaxSize
            /\ size' = [size EXCEPT ![v] = @ + 1] /\ expand' = [expand EXCEPT ![v] = "pending"]
        BY <2>3 DEF DiskGrows
      <3>2. /\ size'[v] = size[v] + 1 /\ expand'[v] = "pending"
            /\ \A w \in Disks : w # v => size'[w] = size[w]
            /\ \A w \in Volumes : w # v => expand'[w] = expand[w]
            /\ size' \in [Disks -> 1..MaxSize]
            /\ expand' \in [Volumes -> {"none", "pending", "done"}]
        BY <1>2, <3>1
      <3>3. \A w \in Volumes : w \in Disks
        BY DEF Disks
      <3>4. \A c \in Calls : pc[c] # "idle" => req[c].vol \in Volumes
        BY DEF NodeInv, TypeOK, Request
      <3>5. \A c \in Calls : (Running(c)' <=> Running(c)) /\ (Running(c) => pc[c] # "idle")
        BY <1>1 DEF Elsewhere, Running, Labels
      <3>6. KnowInv'
        BY <1>1, <3>1, <3>2, <3>3, <3>4, <3>5 DEF Elsewhere, NodeInv, KnowInv
      <3>7. AnswerInv'
        <4>1. \A c \in Calls : pc[c] = "answer" /\ Delivers(c) => Delivers(c)'
          BY <1>1, <2>3, <3>1, <3>2, <3>3, <3>4 DEF Elsewhere, Delivers
        <4> QED BY <1>1, <3>5, <4>1 DEF Elsewhere, NodeInv, AnswerInv
      <3>8. GrowthInv'
        <4>1. blk[v] <= size[v] + 1
          BY <1>2 DEF NodeInv, GrowthInv
        <4> QED BY <1>1, <2>3, <3>2, <3>3, <4>1 DEF Elsewhere, NodeInv, GrowthInv
      <3>9. FillInv'
        BY <1>1, <2>3, <3>1, <3>2 DEF Elsewhere, NodeInv, FillInv
      <3> QED BY <1>2, <2>3, <3>2, <3>6, <3>7, <3>8, <3>9
    <2> QED BY <2>1, <2>2, <2>3 DEF DiskGrows
  <1>4. TypeOK'
    BY <1>1, <1>3 DEF Elsewhere, NodeInv, TypeOK
  <1> QED BY <1>1, <1>3, <1>4, ElsewhereInv DEF NodeInv

LEMMA OtherStep ==
  ASSUME NodeInv, NEW o \in Others, OtherAppears(o) \/ OtherLeaves(o)
  PROVE  NodeInv' /\ data' = data
  <1>1. /\ Elsewhere /\ data' = data /\ size' = size /\ blk' = blk /\ expand' = expand
        /\ want' = want /\ attached' = attached
    BY DEF OtherAppears, OtherLeaves, Elsewhere, diskVars, pathVars, callVars, coVars
  <1>2. /\ dev \in [Letters -> Disks \union {None}] /\ o \in Disks /\ o # None
        /\ devicePath \in [Calls -> Letters \union {None}]
        /\ \A c \in Calls : devicePath[c] # None =>
             /\ dev[devicePath[c]] = req[c].vol /\ req[c].vol # o /\ req[c].vol # None
    <2>1. \A c \in Calls : devicePath[c] # None => Running(c) /\ dev[devicePath[c]] = req[c].vol
      BY DEF NodeInv, DeviceInv, DeviceOK
    <2>2. \A w \in Volumes : w # o
      BY NodeAssumption
    <2> QED BY <2>1, <2>2, RunningFacts, NodeAssumption DEF NodeInv, TypeOK, Disks, Held
  <1>3. PICK l \in Letters : \/ dev[l] = None /\ dev' = [dev EXCEPT ![l] = o]
                             \/ dev[l] = o /\ dev' = [dev EXCEPT ![l] = None]
    BY DEF OtherAppears, OtherLeaves
  <1>4. dev' \in [Letters -> Disks \union {None}]
    BY <1>2, <1>3
  <1>5. \A c \in Calls : devicePath[c] # None => dev'[devicePath[c]] = dev[devicePath[c]]
    BY <1>2, <1>3
  <1>6. DeviceInv'
    BY <1>1, <1>4, <1>5, DeviceStep
  <1>7. TypeOK'
    BY <1>1, <1>4 DEF Elsewhere, NodeInv, TypeOK
  <1> QED BY <1>1, <1>6, <1>7, ElsewhereInv DEF NodeInv

LEMMA PodStep ==
  ASSUME NodeInv, NEW q \in TargetPaths, PodStarts(q) \/ PodStops(q) \/ PodWrites(q)
  PROVE  NodeInv' /\ \A d \in Disks : data[d] => data'[d]
  <1>1. /\ Elsewhere /\ size' = size /\ blk' = blk /\ expand' = expand
        /\ attached' = attached /\ dev' = dev
    BY DEF PodStarts, PodStops, PodWrites, Elsewhere, diskVars, nodeVars, pathVars, callVars, coVars
  <1>2. want' \subseteq TargetPaths
    BY DEF PodStarts, PodStops, PodWrites, coVars, NodeInv, TypeOK
  <1>3. data \in [Disks -> BOOLEAN] /\ q \in Paths /\ q[1] \in Volumes /\ q[1] \in Disks
    BY PathFacts DEF NodeInv, TypeOK, Disks
  <1>4. CASE data' = data
    <2>1. TypeOK'
      BY <1>1, <1>2, <1>4 DEF Elsewhere, NodeInv, TypeOK
    <2> QED BY <1>1, <1>4, <2>1, ElsewhereInv DEF NodeInv
  <1>5. CASE PodWrites(q)
    <2>1. mnt[q] = <<q[1]>> /\ data' = [data EXCEPT ![q[1]] = TRUE]
      <3>1. mnt[q] = <<q[1]>>
        BY <1>3, <1>5 DEF PodWrites, NodeInv, PathInv
      <3>2. Head(<<q[1]>>) = q[1]
        BY OneMount
      <3> QED BY <1>5, <3>1, <3>2 DEF PodWrites
    <2>2. data' \in [Disks -> BOOLEAN] /\ \A d \in Disks : data[d] => data'[d]
      BY <1>3, <2>1
    <2>3. DiskInv'
      <3>1. kind[q[1]].block \/ fs[q[1]].format \in FsTypes
        BY <1>3, <2>1 DEF NodeInv, DiskInv
      <3>2. \A w \in Volumes : w # q[1] => data'[w] = data[w]
        BY <1>3, <2>1 DEF Disks
      <3> QED BY <1>1, <3>1, <3>2 DEF Elsewhere, NodeInv, DiskInv, FsTypes
    <2>4. TypeOK'
      BY <1>1, <1>2, <2>2 DEF Elsewhere, NodeInv, TypeOK
    <2> QED BY <1>1, <2>2, <2>3, <2>4, ElsewhereInv DEF NodeInv
  <1> QED BY <1>4, <1>5 DEF PodStarts, PodStops, diskVars

LEMMA NodeInvInit == Init => NodeInv
  <1>1. SUFFICES ASSUME Init PROVE NodeInv
    OBVIOUS
  <1>2. PICK s \in Start :
          /\ kind = [v \in Volumes |-> [block |-> s[v].block, fstype |-> s[v].fstype,
                                        ro |-> s[v].ro]]
          /\ fs = [d \in Disks |-> IF d \in Others THEN [format |-> "ext4", size |-> 1]
                                   ELSE [format |-> s[d].format, size |-> s[d].fssize]]
          /\ size = [d \in Disks |-> IF d \in Others THEN 1 ELSE s[d].size]
    BY <1>1 DEF Init
  <1>3. /\ data = [d \in Disks |-> fs[d].format \notin {"blank", "atari"}]
        /\ blk = size /\ dev = [l \in Letters |-> None] /\ mnt = [q \in Paths |-> <<>>]
        /\ dirs = {} /\ faults = 0 /\ locks = [r \in Replicas |-> {}]
        /\ pc = [c \in Calls |-> "idle"] /\ req = [c \in Calls |-> NoReq]
        /\ ret = [c \in Calls |-> "none"] /\ devicePath = [c \in Calls |-> None]
        /\ open = [c \in Calls |-> FALSE] /\ attached = {} /\ want = {}
        /\ stage = [v \in Volumes |-> "none"] /\ pub = [q \in TargetPaths |-> "none"]
        /\ expand = [v \in Volumes |-> "none"]
    BY <1>1 DEF Init, NewResourceLocks
  <1>4. /\ \A v \in Volumes : s[v] \in Volume /\ s[v].fssize <= s[v].size
        /\ MaxSize \in Nat \ {0} /\ MaxFaults \in Nat /\ Plugin \in Replicas
    BY <1>2, NodeAssumption
  <1>5. \A v \in Volumes : v \in Disks /\ v \notin Others
    BY NodeAssumption DEF Disks
  <1>6. TypeOK
    <2>1. kind \in [Volumes -> [block : BOOLEAN, fstype : FsTypes, ro : BOOLEAN]]
      BY <1>2, <1>4 DEF Volume
    <2>2. fs \in [Disks -> [format : Formats, size : 0..MaxSize]]
      BY <1>2, <1>4 DEF Volume, Disks, Formats, FsTypes
    <2>3. size \in [Disks -> 1..MaxSize]
      BY <1>2, <1>4 DEF Volume, Disks
    <2>4. data \in [Disks -> BOOLEAN]
      BY <1>3
    <2>5. mnt \in [Paths -> Seq(Disks \union {None})]
      <3>1. <<>> \in Seq(Disks \union {None})
        OBVIOUS
      <3> QED BY <1>3, <3>1
    <2>6. req \in [Calls -> Request \union {NoReq}] /\ NoReq \notin Request
      BY <1>3 DEF NoReq, Request
    <2>7. locks \in [Replicas -> SUBSET Volumes]
      BY <1>3
    <2> QED BY <1>3, <1>4, <2>1, <2>2, <2>3, <2>4, <2>5, <2>6, <2>7 DEF TypeOK
  <1>7. \A c \in Calls : pc[c] = "idle" /\ ~open[c] /\ devicePath[c] = None /\ ~Running(c)
    BY <1>3 DEF Running, Labels
  <1>8. CallInv /\ LockInv /\ DeviceInv /\ OpenInv /\ KnowInv /\ MountInv /\ AnswerInv
    BY <1>7 DEF CallInv, CallOK, LockInv, DeviceInv, DeviceOK, UsesDevice, OpenInv, KnowInv,
                MountInv, MountOK, AnswerInv
  <1>9. \A q \in Paths : mnt[q] = <<>> /\ mnt[q] # <<q[1]>>
    BY <1>3, OneMount
  <1>10. PathInv
    BY <1>3, <1>9, PathFacts DEF PathInv
  <1>11. DiskInv
    BY <1>3, <1>5, <1>9 DEF DiskInv
  <1>12. GrowthInv
    <2>1. \A v \in Volumes : fs[v].size <= size[v] /\ size[v] <= size[v]
      BY <1>2, <1>4, <1>5 DEF Volume
    <2> QED BY <1>3, <2>1 DEF GrowthInv
  <1>13. FillInv
    BY <1>9, PathFacts DEF FillInv
  <1> QED BY <1>6, <1>8, <1>10, <1>11, <1>12, <1>13 DEF NodeInv

LEMMA NodeInvNext ==
  NodeInv /\ [Next]_vars => NodeInv' /\ \A d \in Disks : data[d] => data'[d]
  <1>1. SUFFICES ASSUME NodeInv, [Next]_vars
                 PROVE  NodeInv' /\ \A d \in Disks : data[d] => data'[d]
    OBVIOUS
  <1>2. ASSUME NEW c \in Calls, NEW v \in Volumes, Kubelet(c, v)
        PROVE  NodeInv' /\ \A d \in Disks : data[d] => data'[d]
    BY <1>1, <1>2, KubeletStep
  <1>3. ASSUME NEW c \in Calls, Handler(c)
        PROVE  NodeInv' /\ \A d \in Disks : data[d] => data'[d]
    BY <1>1, <1>3, HandlerStep
  <1>4. ASSUME NEW c \in Calls, Answer(c) \/ GiveUp(c)
        PROVE  NodeInv' /\ \A d \in Disks : data[d] => data'[d]
    BY <1>1, <1>4, AnswerStep, GiveUpStep
  <1>5. ASSUME NEW v \in Volumes, Attach(v) \/ DeviceAppears(v) \/ Detach(v)
        PROVE  NodeInv' /\ \A d \in Disks : data[d] => data'[d]
    BY <1>1, <1>5, KernelStep
  <1>6. ASSUME NEW v \in Volumes, DiskGrows(v) \/ SizeSeen(v)
        PROVE  NodeInv' /\ \A d \in Disks : data[d] => data'[d]
    BY <1>1, <1>6, GrowStep
  <1>7. ASSUME NEW o \in Others, OtherAppears(o) \/ OtherLeaves(o)
        PROVE  NodeInv' /\ \A d \in Disks : data[d] => data'[d]
    BY <1>1, <1>7, OtherStep
  <1>8. ASSUME NEW q \in TargetPaths, PodStarts(q) \/ PodStops(q) \/ PodWrites(q)
        PROVE  NodeInv' /\ \A d \in Disks : data[d] => data'[d]
    BY <1>1, <1>8, PodStep
  <1>9. ASSUME Crash \/ Reboot
        PROVE  NodeInv' /\ \A d \in Disks : data[d] => data'[d]
    BY <1>1, <1>9, RestartStep
  <1>10. CASE UNCHANGED vars
    <2>1. Elsewhere
      BY <1>10 DEF vars, Elsewhere, diskVars, nodeVars, pathVars, callVars, coVars
    <2>2. /\ data' = data /\ size' = size /\ blk' = blk /\ dev' = dev /\ expand' = expand
          /\ attached' = attached /\ want' = want
      BY <1>10 DEF vars, diskVars, nodeVars, coVars
    <2>3. TypeOK'
      BY <1>1, <2>1, <2>2 DEF Elsewhere, NodeInv, TypeOK
    <2> QED BY <1>1, <2>1, <2>2, <2>3, ElsewhereInv DEF NodeInv
  <1> QED BY <1>1, <1>2, <1>3, <1>4, <1>5, <1>6, <1>7, <1>8, <1>9, <1>10 DEF Next

\* Every state of the node, its kernel and kubelet is well typed.
THEOREM NodeTypeCorrect == Spec => []TypeOK
  <1>1. NodeInv => TypeOK
    BY DEF NodeInv
  <1> QED BY <1>1, NodeInvInit, NodeInvNext, PTL DEF Spec

\* A handler's device name belongs to its volume as long as it uses it, for
\* any number of disks that come and go.
THEOREM DeviceSafety == Spec => []DeviceIsStillOurs
  <1>1. NodeInv => DeviceIsStillOurs
    BY DEF NodeInv, DeviceInv, DeviceOK, DeviceIsStillOurs, Source
  <1> QED BY <1>1, NodeInvInit, NodeInvNext, PTL DEF Spec

\* NodeStageVolume never formats a disk that holds data.
THEOREM DataSafety == Spec => DataSurvives
  <1>1. NodeInv /\ [Next]_vars => [\A d \in Disks : data[d] => data'[d]]_vars
    BY NodeInvNext
  <1> QED BY <1>1, NodeInvInit, NodeInvNext, PTL DEF Spec, DataSurvives

\* A path that was answered as published shows its volume, mounted once.
THEOREM PublishSafety == Spec => []PublishedShowsVolume
  <1>1. NodeInv => PublishedShowsVolume
    BY DEF NodeInv, PathInv, PublishedShowsVolume
  <1> QED BY <1>1, NodeInvInit, NodeInvNext, PTL DEF Spec

\* A volume kubelet has undone is mounted nowhere on the node.
THEOREM UnmountSafety == Spec => []NothingLeftMounted
  <1>1. NodeInv => NothingLeftMounted
    <2>1. SUFFICES ASSUME NodeInv, NEW v \in Volumes, Unpublished(v), stage[v] = "none",
                          NEW q \in Paths
                   PROVE  (q[1] = v => mnt[q] = <<>>) /\ v \notin {mnt[q][i] : i \in DOMAIN mnt[q]}
      BY DEF NothingLeftMounted
    <2>2. q[1] = v => mnt[q] = <<>>
      <3>1. CASE q = StagePath(q[1])
        BY <2>1, <3>1 DEF NodeInv, PathInv
      <3>2. CASE q \in TargetPaths /\ q[1] = v
        <4>1. PICK p \in Pods : q = <<v, p>>
          BY <3>2 DEF TargetPaths
        <4>2. pub[q] = "none"
          BY <2>1, <4>1 DEF Unpublished
        <4> QED BY <2>1, <3>2, <4>2 DEF NodeInv, PathInv
      <3> QED BY <2>1, <3>1, <3>2, PathFacts
    <2>3. mnt[q] = <<>> \/ (mnt[q] = <<q[1]>> /\ q[1] # v)
      BY <2>1, <2>2 DEF NodeInv, PathInv
    <2> QED BY <2>2, <2>3
  <1> QED BY <1>1, NodeInvInit, NodeInvNext, PTL DEF Spec

\* NodeExpandVolume reports success only when the node sees the new size.
THEOREM ExpansionSafety == Spec => []ExpandedIsSeen
  <1>1. NodeInv => ExpandedIsSeen
    BY DEF NodeInv, GrowthInv, ExpandedIsSeen
  <1> QED BY <1>1, NodeInvInit, NodeInvNext, PTL DEF Spec

\* As long as nothing fails, NodeStageVolume leaves a file system that fills
\* its disk, however small it was before.
THEOREM FillSafety == Spec => []StagedFillsDisk
  <1>1. NodeInv => StagedFillsDisk
    <2>1. SUFFICES ASSUME NodeInv, NEW v \in Volumes, faults = 0, stage[v] = "staged",
                          ~kind[v].block, ~kind[v].ro, expand[v] = "none"
                   PROVE  fs[v].size = blk[v]
      BY DEF StagedFillsDisk
    <2>2. mnt[StagePath(v)] = <<v>>
      BY <2>1 DEF NodeInv, PathInv
    <2>3. ASSUME NEW c \in Calls, req[c].op = "Stage", req[c].vol = v,
                 pc[c] \in {"need", "resize"}
          PROVE  FALSE
      <3>1. Running(c)
        BY <2>3 DEF Running, Labels
      <3> QED BY <2>1, <2>3, <3>1 DEF NodeInv, KnowInv, StageOps
    <2> QED BY <2>1, <2>2, <2>3 DEF NodeInv, FillInv
  <1> QED BY <1>1, NodeInvInit, NodeInvNext, PTL DEF Spec
=============================================================================
