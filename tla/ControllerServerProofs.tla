----------------------- MODULE ControllerServerProofs -----------------------
(***************************************************************************)
(* Theorems about ControllerServer, for any sets of volumes, instances,    *)
(* replicas and calls.                                                     *)
(***************************************************************************)
EXTENDS ControllerServer, TLAPS

-----------------------------------------------------------------------------
(* The cloud calls keep the type of disk.                                  *)

LEMMA AttachDisksType ==
  ASSUME disk \in [Volumes -> Disk], NEW v \in Volumes,
         NEW n \in Nodes \union {NoVm}, AttachDisks(v, n)
  PROVE  disk' \in [Volumes -> Disk]
  BY DEF Disk, DiskStatus, AttachDisks

LEMMA DetachDisksType ==
  ASSUME disk \in [Volumes -> Disk], NEW v \in Volumes, DetachDisks(v)
  PROVE  disk' \in [Volumes -> Disk]
  BY DEF Disk, DiskStatus, DetachDisks

LEMMA ResizeDiskType ==
  ASSUME disk \in [Volumes -> Disk], NEW v \in Volumes,
         NEW gib \in 1..MaxGib, ResizeDisk(v, gib)
  PROVE  disk' \in [Volumes -> Disk]
  BY DEF Disk, DiskStatus, ResizeDisk

LEMMA ReleaseDiskType ==
  ASSUME disk \in [Volumes -> Disk], NEW v \in Volumes, ReleaseDisk(v)
  PROVE  disk' \in [Volumes -> Disk]
  BY DEF Disk, DiskStatus, ReleaseDisk

LEMMA FaultType ==
  ASSUME CloudTypeOK, Fault \/ NoFault
  PROVE  faults' \in 0..MaxFaults
  BY CloudAssumption DEF CloudTypeOK, Fault, NoFault

LEMMA CompletesType ==
  ASSUME CloudTypeOK, NEW v \in Volumes, Completes(v)
  PROVE  CloudTypeOK'
  <1>1. CASE AttachDone(v)
    BY <1>1 DEF AttachDone, CloudTypeOK, Disk, DiskStatus
  <1>2. CASE DetachDone(v)
    BY <1>2 DEF DetachDone, CloudTypeOK, Disk, DiskStatus
  <1>3. CASE ResizeDone(v)
    <2>1. Rest(v) \in DiskStatus
      BY DEF Rest, DiskStatus
    <2> QED BY <1>3, <2>1 DEF ResizeDone, CloudTypeOK, Disk
  <1>4. CASE ReleaseDone(v)
    BY <1>4 DEF ReleaseDone, CloudTypeOK, Disk, DiskStatus
  <1> QED BY <1>1, <1>2, <1>3, <1>4 DEF Completes

LEMMA DisturbsType ==
  ASSUME CloudTypeOK, Disturbs
  PROVE  CloudTypeOK'
  <1> USE CloudAssumption
  <1>1. ASSUME NEW v \in Volumes, RecycleExpires(v) PROVE CloudTypeOK'
    BY <1>1 DEF RecycleExpires, CloudTypeOK, Disk, DiskStatus
  <1>2. ASSUME NEW v \in Volumes, RecycleRestore(v) PROVE CloudTypeOK'
    BY <1>2 DEF RecycleRestore, Fault, CloudTypeOK, Disk, DiskStatus
  <1>3. ASSUME NEW v \in Volumes, RolledBack(v) PROVE CloudTypeOK'
    <2>1. Rest(v) \in DiskStatus
      BY DEF Rest, DiskStatus
    <2>2. "AVAILABLE" \in DiskStatus
      BY DEF DiskStatus
    <2>3. disk' \in [Volumes -> Disk]
      BY <1>3, <2>1, <2>2 DEF RolledBack, CloudTypeOK, Disk
    <2> QED BY <1>3, <2>3 DEF RolledBack, Fault, CloudTypeOK
  <1>4. ASSUME NEW n \in Nodes, VmStops(n) \/ VmStarts(n) PROVE CloudTypeOK'
    BY <1>4 DEF VmStops, VmStarts, Fault, CloudTypeOK
  <1>5. ASSUME NEW n \in Nodes, VmReleased(n) PROVE CloudTypeOK'
    <2> DEFINE freed(v) == IF disk[v].vm = n
                          THEN [disk[v] EXCEPT !.status = "AVAILABLE", !.vm = NoVm]
                          ELSE disk[v]
    <2>1. ASSUME NEW v \in Volumes PROVE freed(v) \in Disk
      <3>1. disk[v] \in Disk
        BY DEF CloudTypeOK
      <3>2. [disk[v] EXCEPT !.status = "AVAILABLE", !.vm = NoVm] \in Disk
        BY <3>1 DEF Disk, DiskStatus
      <3> QED BY <3>1, <3>2
    <2>2. disk' \in [Volumes -> Disk]
      <3>1. disk' = [v \in Volumes |-> freed(v)]
        BY <1>5 DEF VmReleased
      <3> HIDE DEF freed
      <3> QED BY <3>1, <2>1
    <2>3. vmstate' \in [Nodes -> {"RUNNING", "STOPPED", "ABSENT"}]
      BY <1>5 DEF VmReleased, CloudTypeOK
    <2>4. faults' \in 0..MaxFaults
      BY <1>5, FaultType DEF VmReleased
    <2> QED BY <2>2, <2>3, <2>4 DEF CloudTypeOK
  <1> QED BY <1>1, <1>2, <1>3, <1>4, <1>5 DEF Disturbs

-----------------------------------------------------------------------------
(* Every step of a handler has one of two shapes: it goes on to its next   *)
(* cloud call, or it returns.  What follows about locks and calls needs no *)
(* more than that.                                                         *)

Moves(c, label) == pc' = [pc EXCEPT ![c] = label] /\ UNCHANGED <<ret, locks>>

Returns(c) ==
  \E code \in Codes, gib \in 0..MaxGib :
    /\ pc' = [pc EXCEPT ![c] = "answer"]
    /\ ret' = [ret EXCEPT ![c] = [code |-> code, gib |-> gib]]
    /\ Release(req[c].rep, req[c].vol)

LocalsTyped ==
  /\ seen \in [Calls -> Nodes \union {NoVm}]
  /\ last \in [Calls -> BOOLEAN]
  /\ times \in [Calls -> 1..maxReleaseDiskTimes]

Shape(c) ==
  /\ Running(c)
  /\ Frame
  /\ disk' \in [Volumes -> Disk]
  /\ faults' \in 0..MaxFaults
  /\ LocalsTyped'
  /\ Returns(c) \/ \E label \in Labels : Moves(c, label)

LEMMA ReturnShape ==
  ASSUME TypeOK, NEW c \in Calls, NEW code \in Codes, NEW gib \in 0..MaxGib,
         Return(c, code, gib)
  PROVE  Returns(c) /\ LocalsTyped'
  <1>1. Returns(c)
    BY Zenon DEF Return, Returns
  <1>2. seen' \in [Calls -> Nodes \union {NoVm}]
    BY DEF Return, TypeOK
  <1>3. last' \in [Calls -> BOOLEAN]
    BY Zenon DEF Return, TypeOK
  <1>4. times' \in [Calls -> 1..maxReleaseDiskTimes]
    BY DEF Return, TypeOK, maxReleaseDiskTimes
  <1> QED BY <1>1, <1>2, <1>3, <1>4 DEF LocalsTyped

LEMMA ReturningStep ==
  ASSUME TypeOK, NEW c \in Calls, Running(c), Frame,
         NEW code \in Codes, NEW gib \in 0..MaxGib,
         Fault \/ NoFault, disk' \in [Volumes -> Disk], Return(c, code, gib)
  PROVE  Shape(c)
  BY ReturnShape, FaultType DEF Shape, TypeOK

LEMMA FailingStep ==
  ASSUME TypeOK, NEW c \in Calls, Running(c), Frame,
         NEW code \in Codes, Fault \/ NoFault, Fail(c, code)
  PROVE  Shape(c)
  <1>1. 0 \in 0..MaxGib /\ disk' \in [Volumes -> Disk]
    BY CloudAssumption DEF Fail, TypeOK, CloudTypeOK
  <1> QED BY <1>1, ReturningStep DEF Fail

LEMMA ApiErrorStep ==
  ASSUME TypeOK, NEW c \in Calls, Running(c), Frame, ApiError(c)
  PROVE  Shape(c)
  BY FailingStep DEF ApiError, Codes

LEMMA SucceedingStep ==
  ASSUME TypeOK, NEW c \in Calls, Running(c), Frame, NoFault, Succeed(c)
  PROVE  Shape(c)
  <1>1. 0 \in 0..MaxGib /\ disk' \in [Volumes -> Disk]
    BY CloudAssumption DEF Succeed, TypeOK, CloudTypeOK
  <1> QED BY <1>1, ReturningStep DEF Succeed, Codes

LEMMA MovingStep ==
  ASSUME TypeOK, NEW c \in Calls, Running(c), Frame, NEW label \in Labels,
         NoFault, disk' \in [Volumes -> Disk], LocalsTyped', Goto(c, label)
  PROVE  Shape(c)
  BY FaultType DEF Shape, TypeOK, Goto, Moves

LEMMA ReadingStep ==
  ASSUME TypeOK, NEW c \in Calls, Running(c), Frame, NEW label \in Labels,
         NoFault, UNCHANGED <<disk, localVars>>, Goto(c, label)
  PROVE  Shape(c)
  <1>1. LocalsTyped'
    BY DEF localVars, LocalsTyped, TypeOK
  <1>2. disk' \in [Volumes -> Disk]
    BY DEF TypeOK, CloudTypeOK
  <1> QED BY <1>1, <1>2, MovingStep

LEMMA WaitFailsStep ==
  ASSUME TypeOK, NEW c \in Calls, Running(c), Frame, NEW status,
         WaitFails(c, status)
  PROVE  Shape(c)
  BY ApiErrorStep, FailingStep DEF WaitFails, Codes

LEMMA RequestFields ==
  ASSUME TypeOK, NEW c \in Calls, pc[c] # "idle"
  PROVE  /\ req[c] \in Request
         /\ req[c].op \in Ops
         /\ req[c].vol \in Volumes
         /\ req[c].node \in Nodes \union {NoVm}
         /\ req[c].gib \in 0..MaxGib
         /\ req[c].rep \in Replicas
  <1>1. req[c] \in Request
    BY DEF TypeOK
  <1> QED BY <1>1 DEF Request

-----------------------------------------------------------------------------
LEMMA PublishShape ==
  ASSUME TypeOK, NEW c \in Calls, PublishStep(c)
  PROVE  Shape(c)
  <1>1. CASE PublishFind(c)
    <2>1. Running(c) /\ Frame
      BY <1>1 DEF PublishFind, At, Running, Labels
    <2>2. CASE ApiError(c)
      BY <2>1, <2>2, ApiErrorStep
    <2>3. CASE NoFault /\ Fail(c, "NotFound")
      BY <2>1, <2>3, FailingStep DEF Codes
    <2>4. CASE /\ NoFault
               /\ seen' = [seen EXCEPT ![c] = InstanceId(req[c].vol)]
               /\ Goto(c, "vm")
               /\ UNCHANGED <<disk, last, times>>
      <3>1. InstanceId(req[c].vol) \in Nodes \union {NoVm}
        <4>1. disk[req[c].vol] \in Disk
          BY <2>1, RequestFields DEF Running, Labels, TypeOK, CloudTypeOK
        <4> QED BY <4>1 DEF InstanceId, Disk
      <3>2. seen' \in [Calls -> Nodes \union {NoVm}]
        BY <2>4, <3>1 DEF TypeOK
      <3>3. LocalsTyped' /\ disk' \in [Volumes -> Disk]
        BY <2>4, <3>2 DEF LocalsTyped, TypeOK, CloudTypeOK
      <3> QED BY <2>1, <2>4, <3>3, MovingStep DEF Labels
    <2> QED BY <1>1, <2>2, <2>3, <2>4 DEF PublishFind
  <1>2. CASE PublishVmStatus(c)
    <2>1. Running(c) /\ Frame
      BY <1>2 DEF PublishVmStatus, At, Running, Labels
    <2>2. CASE ApiError(c)
      BY <2>1, <2>2, ApiErrorStep
    <2>3. CASE NoFault /\ (Fail(c, "NotFound") \/ Fail(c, "FailedPrecondition"))
      BY <2>1, <2>3, FailingStep DEF Codes
    <2>4. CASE NoFault /\ Succeed(c)
      BY <2>1, <2>4, SucceedingStep
    <2>5. CASE NoFault /\ Goto(c, "attach") /\ UNCHANGED <<disk, localVars>>
      BY <2>1, <2>5, ReadingStep DEF Labels
    <2> QED BY <1>2, <2>2, <2>3, <2>4, <2>5 DEF PublishVmStatus
  <1>3. CASE AttachVolume(c)
    <2>1. Running(c) /\ Frame
      BY <1>3 DEF AttachVolume, At, Running, Labels
    <2>2. CASE ApiError(c)
      BY <2>1, <2>2, ApiErrorStep
    <2>3. CASE NoFault /\ Fail(c, "Internal")
      BY <2>1, <2>3, FailingStep DEF Codes
    <2>4. AttachDisks(req[c].vol, req[c].node) => disk' \in [Volumes -> Disk]
      BY <2>1, RequestFields, AttachDisksType
         DEF Running, Labels, TypeOK, CloudTypeOK
    <2>5. CASE /\ AttachDisks(req[c].vol, req[c].node)
               /\ NoFault /\ Goto(c, "waitInUse") /\ UNCHANGED localVars
      <3>1. LocalsTyped'
        BY <2>5 DEF localVars, LocalsTyped, TypeOK
      <3> QED BY <2>1, <2>4, <2>5, <3>1, MovingStep DEF Labels
    <2>6. CASE AttachDisks(req[c].vol, req[c].node) /\ Fault /\ Return(c, "Internal", 0)
      BY <2>1, <2>4, <2>6, ReturningStep, CloudAssumption DEF Codes
    <2> QED BY <1>3, <2>2, <2>3, <2>5, <2>6 DEF AttachVolume
  <1>4. CASE AttachWait(c)
    <2>1. Running(c) /\ Frame
      BY <1>4 DEF AttachWait, At, Running, Labels
    <2>2. CASE WaitFails(c, "IN_USE")
      BY <2>1, <2>2, WaitFailsStep
    <2>3. CASE NoFault /\ Goto(c, "verify") /\ UNCHANGED <<disk, localVars>>
      BY <2>1, <2>3, ReadingStep DEF Labels
    <2> QED BY <1>4, <2>2, <2>3 DEF AttachWait
  <1>5. CASE PublishVerify(c)
    <2>1. Running(c) /\ Frame
      BY <1>5 DEF PublishVerify, At, Running, Labels
    <2>2. CASE ApiError(c)
      BY <2>1, <2>2, ApiErrorStep
    <2>3. CASE NoFault /\ (Fail(c, "NotFound") \/ Fail(c, "Internal"))
      BY <2>1, <2>3, FailingStep DEF Codes
    <2>4. CASE NoFault /\ Succeed(c)
      BY <2>1, <2>4, SucceedingStep
    <2> QED BY <1>5, <2>2, <2>3, <2>4 DEF PublishVerify
  <1> QED BY <1>1, <1>2, <1>3, <1>4, <1>5 DEF PublishStep

LEMMA UnpublishShape ==
  ASSUME TypeOK, NEW c \in Calls, UnpublishStep(c)
  PROVE  Shape(c)
  <1>1. CASE UnpublishFind(c)
    <2>1. Running(c) /\ Frame
      BY <1>1 DEF UnpublishFind, At, Running, Labels
    <2>2. CASE ApiError(c)
      BY <2>1, <2>2, ApiErrorStep
    <2>3. CASE NoFault /\ Succeed(c)
      BY <2>1, <2>3, SucceedingStep
    <2>4. CASE NoFault /\ Goto(c, "detach") /\ UNCHANGED <<disk, localVars>>
      BY <2>1, <2>4, ReadingStep DEF Labels
    <2> QED BY <1>1, <2>2, <2>3, <2>4 DEF UnpublishFind
  <1>2. CASE DetachVolume(c)
    <2>1. Running(c) /\ Frame
      BY <1>2 DEF DetachVolume, At, Running, Labels
    <2>2. CASE ApiError(c)
      BY <2>1, <2>2, ApiErrorStep
    <2>3. CASE NoFault /\ Fail(c, "Internal")
      BY <2>1, <2>3, FailingStep DEF Codes
    <2>4. DetachDisks(req[c].vol) => disk' \in [Volumes -> Disk]
      BY <2>1, RequestFields, DetachDisksType
         DEF Running, Labels, TypeOK, CloudTypeOK
    <2>5. CASE /\ DetachDisks(req[c].vol)
               /\ NoFault /\ Goto(c, "waitAvailable") /\ UNCHANGED localVars
      <3>1. LocalsTyped'
        BY <2>5 DEF localVars, LocalsTyped, TypeOK
      <3> QED BY <2>1, <2>4, <2>5, <3>1, MovingStep DEF Labels
    <2>6. CASE DetachDisks(req[c].vol) /\ Fault /\ Return(c, "Internal", 0)
      BY <2>1, <2>4, <2>6, ReturningStep, CloudAssumption DEF Codes
    <2> QED BY <1>2, <2>2, <2>3, <2>5, <2>6 DEF DetachVolume
  <1>3. CASE DetachWait(c)
    <2>1. Running(c) /\ Frame
      BY <1>3 DEF DetachWait, At, Running, Labels
    <2>2. CASE WaitFails(c, "AVAILABLE")
      BY <2>1, <2>2, WaitFailsStep
    <2>3. CASE NoFault /\ Succeed(c)
      BY <2>1, <2>3, SucceedingStep
    <2> QED BY <1>3, <2>2, <2>3 DEF DetachWait
  <1> QED BY <1>1, <1>2, <1>3 DEF UnpublishStep

LEMMA ExpandShape ==
  ASSUME TypeOK, NEW c \in Calls, ExpandStep(c)
  PROVE  Shape(c)
  <1>1. CASE ExpandFind(c)
    <2>1. Running(c) /\ Frame
      BY <1>1 DEF ExpandFind, At, Running, Labels
    <2>2. CASE ApiError(c)
      BY <2>1, <2>2, ApiErrorStep
    <2>3. CASE NoFault /\ Fail(c, "NotFound")
      BY <2>1, <2>3, FailingStep DEF Codes
    <2>4. CASE NoFault /\ Return(c, "OK", disk[req[c].vol].size) /\ UNCHANGED disk
      <3>1. disk[req[c].vol] \in Disk /\ disk' \in [Volumes -> Disk]
        BY <2>1, <2>4, RequestFields DEF Running, Labels, TypeOK, CloudTypeOK
      <3>2. disk[req[c].vol].size \in 0..MaxGib
        BY <3>1, CloudAssumption DEF Disk
      <3> QED BY <2>1, <2>4, <3>1, <3>2, ReturningStep DEF Codes
    <2>5. CASE NoFault /\ Goto(c, "resize") /\ UNCHANGED <<disk, localVars>>
      BY <2>1, <2>5, ReadingStep DEF Labels
    <2> QED BY <1>1, <2>2, <2>3, <2>4, <2>5 DEF ExpandFind
  <1>2. CASE ResizeVolume(c)
    <2>1. Running(c) /\ Frame
      BY <1>2 DEF ResizeVolume, At, Running, Labels
    <2>2. CASE ApiError(c)
      BY <2>1, <2>2, ApiErrorStep
    <2>3. CASE NoFault /\ Fail(c, "Internal")
      BY <2>1, <2>3, FailingStep DEF Codes
    <2>a. CanResize(req[c].vol, req[c].gib) => req[c].gib \in 1..MaxGib
      <3>1. /\ req[c].gib \in 0..MaxGib
            /\ disk[req[c].vol] \in Disk
        BY <2>1, RequestFields DEF Running, Labels, TypeOK, CloudTypeOK
      <3>2. disk[req[c].vol].size \in 1..MaxGib
        BY <3>1 DEF Disk
      <3> QED BY <3>1, <3>2, CloudAssumption DEF CanResize
    <2>4. CanResize(req[c].vol, req[c].gib) /\ ResizeDisk(req[c].vol, req[c].gib) => disk' \in [Volumes -> Disk]
      BY <2>1, RequestFields, <2>a, ResizeDiskType
         DEF Running, Labels, TypeOK, CloudTypeOK
    <2>5. CASE /\ CanResize(req[c].vol, req[c].gib) /\ ResizeDisk(req[c].vol, req[c].gib)
               /\ NoFault /\ Goto(c, "waitStable") /\ UNCHANGED localVars
      <3>1. LocalsTyped'
        BY <2>5 DEF localVars, LocalsTyped, TypeOK
      <3> QED BY <2>1, <2>4, <2>5, <3>1, MovingStep DEF Labels
    <2>6. CASE CanResize(req[c].vol, req[c].gib) /\ ResizeDisk(req[c].vol, req[c].gib) /\ Fault /\ Return(c, "Internal", 0)
      BY <2>1, <2>4, <2>6, ReturningStep, CloudAssumption DEF Codes
    <2> QED BY <1>2, <2>2, <2>3, <2>5, <2>6 DEF ResizeVolume
  <1>3. CASE ResizeWait(c)
    <2>1. Running(c) /\ Frame
      BY <1>3 DEF ResizeWait, At, Running, Labels
    <2>2. CASE WaitFails(c, "STABLE")
      BY <2>1, <2>2, WaitFailsStep
    <2>3. CASE NoFault /\ Return(c, "OK", req[c].gib) /\ UNCHANGED disk
      <3>1. req[c].gib \in 0..MaxGib /\ disk' \in [Volumes -> Disk]
        BY <2>1, <2>3, RequestFields DEF Running, Labels, TypeOK, CloudTypeOK
      <3> QED BY <2>1, <2>3, <3>1, ReturningStep DEF Codes
    <2> QED BY <1>3, <2>2, <2>3 DEF ResizeWait
  <1> QED BY <1>1, <1>2, <1>3 DEF ExpandStep

LEMMA DeleteShape ==
  ASSUME TypeOK, NEW c \in Calls, DeleteStep(c)
  PROVE  Shape(c)
  <1>1. CASE DeleteFind(c)
    <2>1. Running(c) /\ Frame
      BY <1>1 DEF DeleteFind, At, Running, Labels
    <2>2. CASE ApiError(c)
      BY <2>1, <2>2, ApiErrorStep
    <2>3. CASE NoFault /\ Succeed(c)
      BY <2>1, <2>3, SucceedingStep
    <2>4. CASE /\ NoFault
               /\ last' = [last EXCEPT ![c] = (disk[req[c].vol].status = "RECYCLED")]
               /\ Goto(c, "release")
               /\ UNCHANGED <<disk, seen, times>>
      <3>1. last' \in [Calls -> BOOLEAN]
        BY <2>4, Zenon DEF TypeOK
      <3>2. LocalsTyped' /\ disk' \in [Volumes -> Disk]
        BY <2>4, <3>1 DEF LocalsTyped, TypeOK, CloudTypeOK
      <3> QED BY <2>1, <2>4, <3>2, MovingStep DEF Labels
    <2> QED BY <1>1, <2>2, <2>3, <2>4 DEF DeleteFind
  <1>2. CASE DeleteRelease(c)
    <2>1. Running(c) /\ Frame
      BY <1>2 DEF DeleteRelease, At, Running, Labels
    <2>2. CASE ApiError(c)
      BY <2>1, <2>2, ApiErrorStep
    <2>3. CASE NoFault /\ (Fail(c, "Internal") \/ Succeed(c))
      BY <2>1, <2>3, FailingStep, SucceedingStep DEF Codes
    <2>4. ReleaseDisk(req[c].vol) => disk' \in [Volumes -> Disk]
      BY <2>1, RequestFields, ReleaseDiskType
         DEF Running, Labels, TypeOK, CloudTypeOK
    <2>5. CASE /\ ReleaseDisk(req[c].vol)
               /\ NoFault
               /\ Goto(c, IF last[c] THEN "waitDeleted" ELSE "waitReleased")
               /\ UNCHANGED localVars
      <3>1. LocalsTyped'
        BY <2>5 DEF localVars, LocalsTyped, TypeOK
      <3>2. (IF last[c] THEN "waitDeleted" ELSE "waitReleased") \in Labels
        BY DEF Labels
      <3> QED BY <2>1, <2>4, <2>5, <3>1, <3>2, MovingStep
    <2>6. CASE ReleaseDisk(req[c].vol) /\ Fault /\ Return(c, "Internal", 0)
      BY <2>1, <2>4, <2>6, ReturningStep, CloudAssumption DEF Codes
    <2> QED BY <1>2, <2>2, <2>3, <2>5, <2>6 DEF DeleteRelease
  <1>3. CASE DeleteWaitReleased(c)
    <2>1. Running(c) /\ Frame
      BY <1>3 DEF DeleteWaitReleased, At, Running, Labels
    <2>2. CASE ApiError(c)
      BY <2>1, <2>2, ApiErrorStep
    <2>3. CASE NoFault /\ (Fail(c, "Internal") \/ Succeed(c))
      BY <2>1, <2>3, FailingStep, SucceedingStep DEF Codes
    <2>4. CASE /\ NoFault
               /\ times[c] < maxReleaseDiskTimes
               /\ times' = [times EXCEPT ![c] = @ + 1]
               /\ Goto(c, "find")
               /\ UNCHANGED <<disk, seen, last>>
      <3>1. times' \in [Calls -> 1..maxReleaseDiskTimes]
        BY <2>4 DEF TypeOK, maxReleaseDiskTimes
      <3>2. LocalsTyped' /\ disk' \in [Volumes -> Disk]
        BY <2>4, <3>1 DEF LocalsTyped, TypeOK, CloudTypeOK
      <3> QED BY <2>1, <2>4, <3>2, MovingStep DEF Labels
    <2> QED BY <1>3, <2>2, <2>3, <2>4 DEF DeleteWaitReleased
  <1>4. CASE DeleteWaitDeleted(c)
    <2>1. Running(c) /\ Frame
      BY <1>4 DEF DeleteWaitDeleted, At, Running, Labels
    <2>2. CASE WaitFails(c, "DELETED")
      BY <2>1, <2>2, WaitFailsStep
    <2>3. CASE NoFault /\ Succeed(c)
      BY <2>1, <2>3, SucceedingStep
    <2> QED BY <1>4, <2>2, <2>3 DEF DeleteWaitDeleted
  <1> QED BY <1>1, <1>2, <1>3, <1>4 DEF DeleteStep

LEMMA HandlerShape ==
  ASSUME TypeOK, NEW c \in Calls, Handler(c)
  PROVE  Shape(c)
  BY PublishShape, UnpublishShape, ExpandShape, DeleteShape DEF Handler

-----------------------------------------------------------------------------
(* Type correctness.                                                       *)

LEMMA NoReqIsNone == NoReq \notin Request
  BY DEF NoReq, Request, Ops

LEMMA ShapeType ==
  ASSUME TypeOK, NEW c \in Calls, Shape(c)
  PROVE  TypeOK'
  <1>1. req[c].rep \in Replicas /\ req[c].vol \in Volumes /\ pc[c] # "idle"
    BY RequestFields DEF Shape, Running, Labels
  <1>2. /\ locks' \in [Replicas -> SUBSET Volumes]
        /\ pc' \in [Calls -> Labels \union {"idle", "answer"}]
        /\ ret' \in [Calls -> [code : Codes, gib : 0..MaxGib] \union {NoRet}]
        /\ \A d \in Calls : pc'[d] # "idle" <=> pc[d] # "idle"
    <2>1. CASE Returns(c)
      BY <1>1, <2>1 DEF Returns, Release, TypeOK
    <2>2. CASE \E label \in Labels : Moves(c, label)
      BY <1>1, <2>2 DEF Moves, Labels, TypeOK
    <2> QED BY <2>1, <2>2 DEF Shape
  <1>3. CloudTypeOK'
    BY DEF Shape, Frame, TypeOK, CloudTypeOK
  <1> QED BY <1>2, <1>3 DEF Shape, Frame, coVars, LocalsTyped, TypeOK

LEMMA ReceiveType ==
  ASSUME TypeOK, NEW c \in Calls, NEW op \in Ops, NEW v \in Volumes,
         NEW n \in Nodes \union {NoVm}, NEW gib \in 0..MaxGib,
         Receive(c, op, v, n, gib)
  PROVE  TypeOK'
  <1> DEFINE r == leader[SidecarOf(op)]
  <1>1. r \in Replicas
    BY DEF TypeOK, Sidecars, SidecarOf
  <1> DEFINE q == [op |-> op, vol |-> v, node |-> n, gib |-> gib, rep |-> r]
  <1>2. q \in Request
    BY <1>1 DEF Request
  <1>3. req' = [req EXCEPT ![c] = q]
    BY DEF Receive
  <1> HIDE DEF q, r
  <1>4. req' \in [Calls -> Request \union {NoReq}]
    BY <1>2, <1>3 DEF TypeOK
  <1>5. /\ locks' \in [Replicas -> SUBSET Volumes]
        /\ pc' \in [Calls -> Labels \union {"idle", "answer"}]
        /\ pc'[c] # "idle"
        /\ \A d \in Calls \ {c} : pc'[d] = pc[d]
        /\ ret' \in [Calls -> [code : Codes, gib : 0..MaxGib] \union {NoRet}]
    <2>1. CASE /\ TryAcquire(r, v)
               /\ pc' = [pc EXCEPT ![c] = "find"]
               /\ UNCHANGED ret
      BY <1>1, <2>1 DEF TryAcquire, TypeOK, Labels
    <2>2. CASE /\ pc' = [pc EXCEPT ![c] = "answer"]
               /\ ret' = [ret EXCEPT ![c] = [code |-> "Aborted", gib |-> 0]]
               /\ UNCHANGED locks
      BY <2>2, CloudAssumption DEF TypeOK, Codes
    <2> QED BY <2>1, <2>2 DEF Receive, r
  <1>6. \A d \in Calls : pc'[d] # "idle" <=> req'[d] \in Request
    BY <1>2, <1>3, <1>5 DEF TypeOK
  <1>7. open' \in [Calls -> BOOLEAN]
    BY Zenon DEF Receive, TypeOK
  <1> QED BY <1>4, <1>5, <1>6, <1>7
          DEF Receive, TypeOK, CloudTypeOK, cloudVars, localVars, coVars

LEMMA AnswerType ==
  ASSUME TypeOK, NEW c \in Calls, Answer(c)
  PROVE  TypeOK'
  <1> DEFINE States == {"none", "attaching", "attached", "detaching"}
  <1>1. req[c].vol \in Volumes /\ req[c].op \in Ops
    BY RequestFields DEF Answer
  <1>2. /\ va' \in [Volumes -> [Nodes -> States]]
        /\ pv' \in [Volumes -> {"bound", "deleting", "deleted"}]
        /\ cap' \in [Volumes -> 0..MaxGib]
    <2>1. CASE UNCHANGED coVars
      BY <2>1 DEF coVars, TypeOK
    <2>2. CASE ret[c].code = "OK" /\ CoLearns(req[c], ret[c].gib)
      <3>1. ret[c].gib \in 0..MaxGib
        BY <2>2, CloudAssumption DEF TypeOK, NoRet
      <3>2. CASE req[c].op \in {"Publish", "Unpublish"}
        <4>1. va[req[c].vol] \in [Nodes -> States]
          BY <1>1 DEF TypeOK
        <4>2. PICK s \in [Nodes -> States] : va' = [va EXCEPT ![req[c].vol] = s]
          BY <2>2, <3>2, <4>1 DEF CoLearns
        <4> QED BY <2>2, <3>2, <4>2 DEF CoLearns, TypeOK
      <3>3. CASE req[c].op = "Expand"
        BY <2>2, <3>1, <3>3 DEF CoLearns, TypeOK
      <3>4. CASE req[c].op = "Delete"
        BY <2>2, <3>4 DEF CoLearns, TypeOK
      <3> QED BY <1>1, <3>2, <3>3, <3>4 DEF Ops
    <2> QED BY <2>1, <2>2 DEF Answer
  <1>3. /\ pc' \in [Calls -> Labels \union {"idle", "answer"}]
        /\ req' \in [Calls -> Request \union {NoReq}]
        /\ \A d \in Calls : pc'[d] # "idle" <=> req'[d] \in Request
    BY NoReqIsNone DEF Answer, TypeOK
  <1>4. ret' \in [Calls -> [code : Codes, gib : 0..MaxGib] \union {NoRet}]
    BY DEF Answer, TypeOK
  <1>5. open' \in [Calls -> BOOLEAN]
    BY Zenon DEF Answer, TypeOK
  <1> QED BY <1>2, <1>3, <1>4, <1>5
          DEF Answer, TypeOK, CloudTypeOK, cloudVars, localVars

LEMMA WantType ==
  ASSUME TypeOK, Orchestrator
  PROVE  TypeOK'
  <1> DEFINE States == {"none", "attaching", "attached", "detaching"}
  <1>1. ASSUME NEW v \in Volumes, NEW n \in Nodes,
               WantAttached(v, n) \/ WantDetached(v, n)
        PROVE  TypeOK'
    <2>1. va' \in [Volumes -> [Nodes -> States]]
      <3>1. va[v] \in [Nodes -> States]
        BY DEF TypeOK
      <3>2. PICK s \in [Nodes -> States] : va' = [va EXCEPT ![v] = s]
        BY <1>1, <3>1 DEF WantAttached, WantDetached
      <3> QED BY <3>2 DEF TypeOK
    <2> QED BY <1>1, <2>1 DEF WantAttached, WantDetached, TypeOK, CloudTypeOK,
                              cloudVars, callVars, localVars
  <1>2. ASSUME NEW v \in Volumes, WantDeleted(v)
        PROVE  TypeOK'
    BY <1>2 DEF WantDeleted, TypeOK, CloudTypeOK, cloudVars, callVars, localVars
  <1> QED BY <1>1, <1>2 DEF Orchestrator

LEMMA TroubleType ==
  ASSUME TypeOK, Trouble
  PROVE  TypeOK'
  <1>1. ASSUME NEW c \in Calls, GiveUp(c) PROVE TypeOK'
    <2>1. open' \in [Calls -> BOOLEAN]
      BY <1>1, Zenon DEF GiveUp, TypeOK
    <2>2. faults' \in 0..MaxFaults
      BY <1>1, FaultType DEF GiveUp, TypeOK
    <2> QED BY <1>1, <2>1, <2>2
            DEF GiveUp, TypeOK, CloudTypeOK, callVars, localVars, coVars
  <1>2. ASSUME NEW s \in Sidecars, NEW r \in Replicas, LeaderMoves(s, r)
        PROVE TypeOK'
    <2>1. open' \in [Calls -> BOOLEAN]
      BY <1>2, Zenon DEF LeaderMoves, TypeOK
    <2>2. leader' \in [Sidecars -> Replicas]
      BY <1>2 DEF LeaderMoves, TypeOK
    <2>3. faults' \in 0..MaxFaults
      BY <1>2, FaultType DEF LeaderMoves, TypeOK
    <2> QED BY <1>2, <2>1, <2>2, <2>3
            DEF LeaderMoves, TypeOK, CloudTypeOK, callVars, localVars, coVars
  <1>3. ASSUME NEW r \in Replicas, Crash(r) PROVE TypeOK'
    <2> DEFINE dead == {c \in Calls : pc[c] # "idle" /\ req[c].rep = r}
    <2>1. /\ pc' = [c \in Calls |-> IF c \in dead THEN "idle" ELSE pc[c]]
          /\ req' = [c \in Calls |-> IF c \in dead THEN NoReq ELSE req[c]]
          /\ ret' = [c \in Calls |-> IF c \in dead THEN NoRet ELSE ret[c]]
          /\ seen' = [c \in Calls |-> IF c \in dead THEN NoVm ELSE seen[c]]
          /\ last' = [c \in Calls |-> IF c \in dead THEN FALSE ELSE last[c]]
          /\ times' = [c \in Calls |-> IF c \in dead THEN 1 ELSE times[c]]
          /\ open' = [c \in Calls |-> open[c] /\ c \notin dead]
      BY <1>3 DEF Crash
    <2> HIDE DEF dead
    <2>2. /\ pc' \in [Calls -> Labels \union {"idle", "answer"}]
          /\ req' \in [Calls -> Request \union {NoReq}]
          /\ \A d \in Calls : pc'[d] # "idle" <=> req'[d] \in Request
      BY <2>1, NoReqIsNone DEF TypeOK
    <2>3. /\ ret' \in [Calls -> [code : Codes, gib : 0..MaxGib] \union {NoRet}]
          /\ seen' \in [Calls -> Nodes \union {NoVm}]
      BY <2>1 DEF TypeOK
    <2>4. last' \in [Calls -> BOOLEAN] /\ open' \in [Calls -> BOOLEAN]
      BY <2>1, Zenon DEF TypeOK
    <2>5. times' \in [Calls -> 1..maxReleaseDiskTimes]
      BY <2>1 DEF TypeOK, maxReleaseDiskTimes
    <2>6. locks' \in [Replicas -> SUBSET Volumes]
      BY <1>3 DEF Crash, LoseLocks, TypeOK
    <2>7. faults' \in 0..MaxFaults
      BY <1>3, FaultType DEF Crash, TypeOK
    <2>8. UNCHANGED <<disk, vmstate, leader, coVars>>
      BY <1>3 DEF Crash
    <2> QED BY <2>2, <2>3, <2>4, <2>5, <2>6, <2>7, <2>8
            DEF TypeOK, CloudTypeOK, coVars
  <1> QED BY <1>1, <1>2, <1>3 DEF Trouble

LEMMA RpcReceives ==
  ASSUME NEW c \in Calls, Rpc(c)
  PROVE  \E op \in Ops, v \in Volumes, n \in Nodes \union {NoVm}, gib \in 0..MaxGib :
           Receive(c, op, v, n, gib)
  <1>1. 0 \in 0..MaxGib /\ 1..MaxGib \subseteq 0..MaxGib
    BY CloudAssumption
  <1> QED BY <1>1, Zenon
          DEF Rpc, ControllerPublishVolume, ControllerUnpublishVolume,
              ControllerExpandVolume, DeleteVolume, Ops

\* The type invariant TypeOK of ControllerServer is kept by every step of the
\* four RPCs, the cloud, the sidecars and the crashes.
THEOREM TypeCorrect == Spec => []TypeOK
  <1>1. Init => TypeOK
    BY CloudAssumption, NoReqIsNone
       DEF Init, CloudInit, NewResourceLocks, TypeOK, CloudTypeOK, Disk,
           DiskStatus, maxReleaseDiskTimes, Sidecars
  <1>2. TypeOK /\ [Next]_vars => TypeOK'
    <2> SUFFICES ASSUME TypeOK, [Next]_vars PROVE TypeOK'
      OBVIOUS
    <2>1. ASSUME NEW c \in Calls, Rpc(c) PROVE TypeOK'
      BY <2>1, RpcReceives, ReceiveType
    <2>2. ASSUME NEW c \in Calls, Handler(c) PROVE TypeOK'
      BY <2>2, HandlerShape, ShapeType
    <2>3. ASSUME NEW c \in Calls, Answer(c) PROVE TypeOK'
      BY <2>3, AnswerType
    <2>4. ASSUME NEW v \in Volumes, CloudCompletes(v) PROVE TypeOK'
      <3>1. CloudTypeOK'
        BY <2>4, CompletesType DEF CloudCompletes, TypeOK
      <3> QED BY <2>4, <3>1 DEF CloudCompletes, TypeOK, callVars, localVars, coVars
    <2>5. ASSUME CloudDisturbs PROVE TypeOK'
      <3>1. CloudTypeOK'
        BY <2>5, DisturbsType DEF CloudDisturbs, TypeOK
      <3> QED BY <2>5, <3>1 DEF CloudDisturbs, TypeOK, callVars, localVars, coVars
    <2>6. CASE Orchestrator
      BY <2>6, WantType
    <2>7. CASE Trouble
      BY <2>7, TroubleType
    <2>8. CASE UNCHANGED vars
      BY <2>8 DEF vars, cloudVars, callVars, localVars, coVars, TypeOK, CloudTypeOK
    <2> QED BY <2>1, <2>2, <2>3, <2>4, <2>5, <2>6, <2>7, <2>8 DEF Next
  <1> QED BY <1>1, <1>2, PTL DEF Spec

-----------------------------------------------------------------------------
(* The lock table and the running handlers.                                *)

LEMMA LockShape ==
  ASSUME TypeOK, LockDiscipline, NEW c \in Calls, Shape(c)
  PROVE  LockDiscipline'
  <1>1. /\ req[c].rep \in Replicas /\ req[c].vol \in Volumes
        /\ req' = req /\ Running(c)
    BY RequestFields DEF Shape, Running, Labels, Frame
  <1>2. CASE \E label \in Labels : Moves(c, label)
    <2>1. /\ locks' = locks
          /\ \A d \in Calls : Running(d)' <=> Running(d)
      BY <1>1, <1>2 DEF Moves, Running, TypeOK
    <2> QED BY <1>1, <2>1 DEF LockDiscipline, IsLocked
  <1>3. CASE Returns(c)
    <2>1. /\ \A d \in Calls : Running(d)' <=> Running(d) /\ d # c
          /\ locks' = [locks EXCEPT ![req[c].rep] = @ \ {req[c].vol}]
      BY <1>3 DEF Returns, Release, Running, Labels, TypeOK
    <2>2. \A r \in Replicas, v \in Volumes :
            v \in locks'[r] <=> v \in locks[r] /\ ~(r = req[c].rep /\ v = req[c].vol)
      BY <1>1, <2>1 DEF TypeOK
    <2>3. \A d \in Calls : Running(d) => req[d].rep \in Replicas /\ req[d].vol \in Volumes
      BY RequestFields DEF Running, Labels
    <2> QED BY <1>1, <2>1, <2>2, <2>3 DEF LockDiscipline, IsLocked
  <1> QED BY <1>2, <1>3 DEF Shape

LEMMA LockReceive ==
  ASSUME TypeOK, LockDiscipline, NEW c \in Calls, NEW op \in Ops,
         NEW v \in Volumes, NEW n \in Nodes \union {NoVm}, NEW gib \in 0..MaxGib,
         Receive(c, op, v, n, gib)
  PROVE  LockDiscipline'
  <1> DEFINE r == leader[SidecarOf(op)]
  <1>1. r \in Replicas
    BY DEF TypeOK, Sidecars, SidecarOf
  <1>2. /\ ~Running(c)
        /\ \A d \in Calls \ {c} : req'[d] = req[d]
        /\ req'[c].rep = r /\ req'[c].vol = v
    BY DEF Receive, Running, Labels, TypeOK
  <1> HIDE DEF r
  <1>3. CASE TryAcquire(r, v) /\ pc' = [pc EXCEPT ![c] = "find"]
    <2>1. /\ \A d \in Calls : Running(d)' <=> Running(d) \/ d = c
          /\ v \notin locks[r]
      BY <1>3 DEF TryAcquire, IsLocked, Running, Labels, TypeOK
    <2>2. \A s \in Replicas, w \in Volumes :
            w \in locks'[s] <=> w \in locks[s] \/ (s = r /\ w = v)
      BY <1>1, <1>3 DEF TryAcquire, TypeOK
    <2>3. \A d \in Calls : Running(d) => req[d].rep \in Replicas /\ req[d].vol \in Volumes
      BY RequestFields DEF Running, Labels
    <2> QED BY <1>1, <1>2, <2>1, <2>2, <2>3 DEF LockDiscipline, IsLocked
  <1>4. CASE pc' = [pc EXCEPT ![c] = "answer"] /\ UNCHANGED locks
    <2>1. \A d \in Calls : Running(d)' <=> Running(d)
      BY <1>2, <1>4 DEF Running, Labels, TypeOK
    <2> QED BY <1>2, <1>4, <2>1 DEF LockDiscipline, IsLocked
  <1> QED BY <1>3, <1>4 DEF Receive, r

LEMMA LockCrash ==
  ASSUME TypeOK, LockDiscipline, NEW r \in Replicas, Crash(r)
  PROVE  LockDiscipline'
  <1>1. \A d \in Calls : /\ Running(d)' <=> Running(d) /\ req[d].rep # r
                         /\ Running(d)' => req'[d] = req[d]
    BY DEF Crash, Running, Labels, TypeOK
  <1>2. \A s \in Replicas : locks'[s] = IF s = r THEN {} ELSE locks[s]
    BY DEF Crash, LoseLocks, TypeOK
  <1>3. \A d \in Calls : Running(d) => req[d].rep \in Replicas /\ req[d].vol \in Volumes
    BY RequestFields DEF Running, Labels
  <1> QED BY <1>1, <1>2, <1>3 DEF LockDiscipline, IsLocked

LEMMA LockStep ==
  ASSUME TypeOK, LockDiscipline, [Next]_vars
  PROVE  LockDiscipline'
  <1>1. ASSUME NEW c \in Calls, Rpc(c) PROVE LockDiscipline'
    BY <1>1, RpcReceives, LockReceive
  <1>2. ASSUME NEW c \in Calls, Handler(c) PROVE LockDiscipline'
    BY <1>2, HandlerShape, LockShape
  <1>3. ASSUME NEW c \in Calls, Answer(c) PROVE LockDiscipline'
    <2>1. /\ locks' = locks
          /\ \A d \in Calls : /\ Running(d)' <=> Running(d)
                              /\ Running(d) => req'[d] = req[d]
      BY <1>3 DEF Answer, Running, Labels, TypeOK
    <2> QED BY <2>1 DEF LockDiscipline, IsLocked
  <1>4. ASSUME NEW r \in Replicas, Crash(r) PROVE LockDiscipline'
    BY <1>4, LockCrash
  <1>5. CASE UNCHANGED <<pc, req, locks>>
    BY <1>5 DEF LockDiscipline, IsLocked, Running
  <1>6. \/ UNCHANGED <<pc, req, locks>>
        \/ \E c \in Calls : Rpc(c) \/ Handler(c) \/ Answer(c)
        \/ \E r \in Replicas : Crash(r)
    BY DEF Next, CloudCompletes, CloudDisturbs, Orchestrator, WantAttached,
           WantDetached, WantDeleted, Trouble, GiveUp, LeaderMoves, vars, callVars
  <1> QED BY <1>1, <1>2, <1>3, <1>4, <1>5, <1>6

\* LockDiscipline holds in every reachable state: handlers of one replica are
\* mutually exclusive per volume id, and no lock outlives its handler.
THEOREM LockSafety == Spec => []LockDiscipline
  <1>1. Init => LockDiscipline
    BY DEF Init, NewResourceLocks, LockDiscipline, IsLocked, Running, Labels
  <1>2. TypeOK /\ LockDiscipline /\ [Next]_vars => LockDiscipline'
    BY LockStep
  <1> QED BY <1>1, <1>2, TypeCorrect, PTL DEF Spec

-----------------------------------------------------------------------------
(* With one replica a disk is detached only from the node of the request.  *)
(* What makes that inductive: a handler about to call DetachDisks has a    *)
(* disk that is on the node of its request, or on none.                    *)

OneReplica == \A r, s \in Replicas : r = s

\* A disk that is used, or is about to be or just was, has an instance.
BoundInv ==
  \A v \in Volumes :
    disk[v].status \in {"ATTACHING", "IN_USE", "DETACHING"} => disk[v].vm \in Nodes

NodeInv ==
  \A c \in Calls :
    pc[c] # "idle" /\ req[c].op \in {"Publish", "Unpublish"} => req[c].node \in Nodes

DetachInv ==
  \A c \in Calls :
    pc[c] = "detach" =>
      /\ req[c].op = "Unpublish"
      /\ disk[req[c].vol].vm \in {req[c].node, NoVm}

(* What any step may do to the status and the instance of a disk.          *)

Keeps(v) == disk'[v].status = disk[v].status /\ disk'[v].vm = disk[v].vm

Rests(v) ==
  /\ disk'[v].status \notin {"ATTACHING", "IN_USE", "DETACHING"}
  /\ disk'[v].vm \in {disk[v].vm, NoVm}

StaysBound(v) ==
  /\ disk'[v].status = "IN_USE"
  /\ disk'[v].vm = disk[v].vm
  /\ disk[v].status \in {"ATTACHING", "DETACHING"} \/ disk[v].vm # NoVm

Attaches(c, v) ==
  /\ pc[c] = "attach" /\ pc'[c] # "detach"
  /\ req[c].op = "Publish" /\ req[c].vol = v
  /\ disk'[v].vm = req[c].node

Detaches(c, v) ==
  /\ pc[c] = "detach" /\ pc'[c] # "detach"
  /\ req[c].op = "Unpublish" /\ req[c].vol = v
  /\ disk[v].status = "IN_USE"
  /\ disk'[v].status = "DETACHING"
  /\ disk'[v].vm = disk[v].vm

Change(v) ==
  \/ Keeps(v) \/ Rests(v) \/ StaysBound(v)
  \/ \E c \in Calls : Attaches(c, v) /\ disk'[v].status = "ATTACHING"
  \/ \E c \in Calls : Detaches(c, v)

LEMMA CompletesChange ==
  ASSUME TypeOK, NEW w \in Volumes, Completes(w), NEW v \in Volumes
  PROVE  Keeps(v) \/ Rests(v) \/ StaysBound(v)
  <1> USE DEF Keeps, Rests, StaysBound, TypeOK, CloudTypeOK
  <1>0. disk[v].after \in {"RECYCLED", "GONE"}
    BY DEF Disk
  <1>1. CASE AttachDone(w)
    BY <1>1 DEF AttachDone, Disk
  <1>2. CASE DetachDone(w)
    BY <1>2 DEF DetachDone, Disk
  <1>3. CASE ResizeDone(w)
    BY <1>3 DEF ResizeDone, Rest, Bound, Disk
  <1>4. CASE ReleaseDone(w)
    BY <1>0, <1>4 DEF ReleaseDone, Disk
  <1> QED BY <1>1, <1>2, <1>3, <1>4 DEF Completes

LEMMA DisturbsChange ==
  ASSUME TypeOK, Disturbs, NEW v \in Volumes
  PROVE  Keeps(v) \/ Rests(v) \/ StaysBound(v)
  <1> USE DEF Keeps, Rests, StaysBound, TypeOK, CloudTypeOK
  <1>1. ASSUME NEW w \in Volumes, RecycleExpires(w) \/ RecycleRestore(w)
        PROVE  Keeps(v) \/ Rests(v)
    <2>1. \E s \in {"GONE", "AVAILABLE"} : disk' = [disk EXCEPT ![w].status = s]
      BY <1>1 DEF RecycleExpires, RecycleRestore
    <2> QED BY <2>1 DEF Disk
  <1>2. ASSUME NEW w \in Volumes, RolledBack(w)
        PROVE  Keeps(v) \/ Rests(v) \/ StaysBound(v)
    <2>1. CASE disk' = [disk EXCEPT ![w].status = "AVAILABLE", ![w].vm = NoVm]
      BY <2>1 DEF Disk
    <2>2. CASE /\ disk' = [disk EXCEPT ![w].status = Rest(w)]
               /\ disk[w].status \in {"DETACHING", "CHANGING"}
      BY <2>2 DEF Rest, Bound, Disk
    <2> QED BY <1>2, <2>1, <2>2 DEF RolledBack
  <1>3. ASSUME NEW n \in Nodes, VmStops(n) \/ VmStarts(n)
        PROVE  Keeps(v)
    BY <1>3 DEF VmStops, VmStarts
  <1>4. ASSUME NEW n \in Nodes, VmReleased(n)
        PROVE  Keeps(v) \/ Rests(v)
    <2>1. disk'[v] = IF disk[v].vm = n
                     THEN [disk[v] EXCEPT !.status = "AVAILABLE", !.vm = NoVm]
                     ELSE disk[v]
      BY <1>4, Zenon DEF VmReleased
    <2>2. disk[v] \in Disk
      OBVIOUS
    <2> QED BY <2>1, <2>2 DEF Disk
  <1> QED BY <1>1, <1>2, <1>3, <1>4 DEF Disturbs

LEMMA ReturnPc ==
  ASSUME TypeOK, NEW c \in Calls, NEW code, NEW gib, Return(c, code, gib)
  PROVE  pc'[c] = "answer"
  BY DEF Return, TypeOK

LEMMA GotoPc ==
  ASSUME TypeOK, NEW c \in Calls, NEW label, Goto(c, label)
  PROVE  pc'[c] = label
  BY DEF Goto, TypeOK

LEMMA HandlerChange ==
  ASSUME TypeOK, NEW c \in Calls, Handler(c), NEW v \in Volumes
  PROVE  Change(v)
  <1> DEFINE w == req[c].vol
  <1>1. w \in Volumes /\ disk \in [Volumes -> Disk]
    BY HandlerShape, RequestFields DEF Shape, Running, Labels, TypeOK, CloudTypeOK
  <1>2. CASE UNCHANGED disk
    BY <1>2 DEF Change, Keeps
  <1>3. CASE AttachVolume(c) /\ AttachDisks(w, req[c].node)
    <2>1. pc[c] = "attach" /\ req[c].op = "Publish" /\ pc'[c] # "detach"
      BY <1>3, ReturnPc, GotoPc DEF AttachVolume, At, ApiError, Fail
    <2>2. v # w => Keeps(v)
      BY <1>1, <1>3 DEF AttachDisks, Keeps
    <2>3. disk'[w].status = "ATTACHING" /\ disk'[w].vm = req[c].node
      BY <1>1, <1>3 DEF AttachDisks, Disk
    <2> QED BY <2>1, <2>2, <2>3 DEF Change, Attaches
  <1>4. CASE DetachVolume(c) /\ CanDetach(w) /\ DetachDisks(w)
    <2>1. pc[c] = "detach" /\ req[c].op = "Unpublish" /\ pc'[c] # "detach"
      BY <1>4, ReturnPc, GotoPc DEF DetachVolume, At, ApiError, Fail
    <2>2. v # w => Keeps(v)
      BY <1>1, <1>4 DEF DetachDisks, Keeps
    <2>3. /\ disk[w].status = "IN_USE"
          /\ disk'[w].status = "DETACHING" /\ disk'[w].vm = disk[w].vm
      BY <1>1, <1>4 DEF CanDetach, DetachDisks, Disk
    <2> QED BY <2>1, <2>2, <2>3 DEF Change, Detaches
  <1>5. CASE \/ ResizeVolume(c) /\ ResizeDisk(w, req[c].gib)
             \/ DeleteRelease(c) /\ ReleaseDisk(w)
    BY <1>1, <1>5 DEF ResizeDisk, ReleaseDisk, Change, Keeps, Rests, Disk
  <1>6. \/ UNCHANGED disk
        \/ AttachVolume(c) /\ AttachDisks(w, req[c].node)
        \/ DetachVolume(c) /\ CanDetach(w) /\ DetachDisks(w)
        \/ ResizeVolume(c) /\ ResizeDisk(w, req[c].gib)
        \/ DeleteRelease(c) /\ ReleaseDisk(w)
    <2> HIDE DEF w
    <2> USE DEF WaitFails, ApiError, Fail, Succeed
    <2>1. ASSUME PublishStep(c)
          PROVE  UNCHANGED disk \/ (AttachVolume(c) /\ AttachDisks(req[c].vol, req[c].node))
      <3>1. CASE AttachVolume(c)
        BY <3>1 DEF AttachVolume
      <3>2. CASE PublishFind(c) \/ PublishVmStatus(c) \/ AttachWait(c) \/ PublishVerify(c)
        BY <3>2 DEF PublishFind, PublishVmStatus, AttachWait, PublishVerify
      <3> QED BY <2>1, <3>1, <3>2 DEF PublishStep
    <2>2. ASSUME UnpublishStep(c)
          PROVE  UNCHANGED disk \/ (DetachVolume(c) /\ CanDetach(req[c].vol) /\ DetachDisks(req[c].vol))
      <3>1. CASE DetachVolume(c)
        BY <3>1 DEF DetachVolume
      <3>2. CASE UnpublishFind(c) \/ DetachWait(c)
        BY <3>2 DEF UnpublishFind, DetachWait
      <3> QED BY <2>2, <3>1, <3>2 DEF UnpublishStep
    <2>3. ASSUME ExpandStep(c)
          PROVE  UNCHANGED disk \/ (ResizeVolume(c) /\ ResizeDisk(req[c].vol, req[c].gib))
      <3>1. CASE ResizeVolume(c)
        BY <3>1 DEF ResizeVolume
      <3>2. CASE ExpandFind(c) \/ ResizeWait(c)
        BY <3>2 DEF ExpandFind, ResizeWait
      <3> QED BY <2>3, <3>1, <3>2 DEF ExpandStep
    <2>4. ASSUME DeleteStep(c)
          PROVE  UNCHANGED disk \/ (DeleteRelease(c) /\ ReleaseDisk(req[c].vol))
      <3>1. CASE DeleteRelease(c)
        BY <3>1 DEF DeleteRelease
      <3>2. CASE DeleteFind(c) \/ DeleteWaitReleased(c) \/ DeleteWaitDeleted(c)
        BY <3>2 DEF DeleteFind, DeleteWaitReleased, DeleteWaitDeleted
      <3> QED BY <2>4, <3>1, <3>2 DEF DeleteStep
    <2> QED BY <2>1, <2>2, <2>3, <2>4 DEF Handler, w
  <1> QED BY <1>2, <1>3, <1>4, <1>5, <1>6
\* Only UnpublishFind leads to DetachDisks, having found the node's disk.
LEMMA HandlerToDetach ==
  ASSUME TypeOK, NEW c \in Calls, Handler(c), pc'[c] = "detach"
  PROVE  /\ req[c].op = "Unpublish"
         /\ InstanceId(req[c].vol) = req[c].node
         /\ disk' = disk
  <1> USE ReturnPc, GotoPc DEF WaitFails, ApiError, Fail, Succeed
  <1>1. CASE UnpublishFind(c)
    BY <1>1 DEF UnpublishFind, At
  <1>2. ASSUME PublishStep(c) PROVE FALSE
    <2>1. CASE PublishFind(c) \/ PublishVmStatus(c)
      BY <2>1 DEF PublishFind, PublishVmStatus
    <2>2. CASE AttachVolume(c) \/ AttachWait(c) \/ PublishVerify(c)
      BY <2>2 DEF AttachVolume, AttachWait, PublishVerify
    <2> QED BY <1>2, <2>1, <2>2 DEF PublishStep
  <1>3. ASSUME DetachVolume(c) \/ DetachWait(c) PROVE FALSE
    BY <1>3 DEF DetachVolume, DetachWait
  <1>4. ASSUME ExpandStep(c) PROVE FALSE
    BY <1>4 DEF ExpandStep, ExpandFind, ResizeVolume, ResizeWait
  <1>5. ASSUME DeleteStep(c) PROVE FALSE
    <2>1. CASE DeleteFind(c) \/ DeleteWaitReleased(c)
      BY <2>1 DEF DeleteFind, DeleteWaitReleased
    <2>2. CASE DeleteRelease(c) \/ DeleteWaitDeleted(c)
      BY <2>2 DEF DeleteRelease, DeleteWaitDeleted
    <2> QED BY <1>5, <2>1, <2>2 DEF DeleteStep
  <1> QED BY <1>1, <1>2, <1>3, <1>4, <1>5 DEF Handler, UnpublishStep

\* How a step moves one call c, as far as the node of its request matters.
Stays(c) == pc'[c] = pc[c] /\ req'[c] = req[c]

CallChange(c) ==
  \/ Stays(c)
  \/ pc'[c] = "idle"
  \/ Handler(c) /\ pc[c] # "idle" /\ req'[c] = req[c]
  \/ /\ pc'[c] \in {"find", "answer"}
     /\ req'[c].op \in {"Publish", "Unpublish"} => req'[c].node \in Nodes

LEMMA RpcCallChange ==
  ASSUME TypeOK, NEW d \in Calls, Rpc(d), NEW c \in Calls
  PROVE  CallChange(c)
  <1>1. ASSUME NEW op, NEW v, NEW n, NEW gib, Receive(d, op, v, n, gib),
               op \in {"Publish", "Unpublish"} => n \in Nodes
        PROVE  CallChange(c)
    <2>1. c # d => Stays(c)
      BY <1>1 DEF Receive, Stays, TypeOK
    <2>2. pc'[d] \in {"find", "answer"} /\ req'[d].op = op /\ req'[d].node = n
      BY <1>1 DEF Receive, TypeOK
    <2> QED BY <1>1, <2>1, <2>2 DEF CallChange
  <1>2. CASE ControllerPublishVolume(d)
    BY <1>1, <1>2 DEF ControllerPublishVolume
  <1>3. CASE ControllerUnpublishVolume(d)
    BY <1>1, <1>3 DEF ControllerUnpublishVolume
  <1>4. CASE ControllerExpandVolume(d)
    BY <1>1, <1>4 DEF ControllerExpandVolume
  <1>5. CASE DeleteVolume(d)
    BY <1>1, <1>5 DEF DeleteVolume
  <1> QED BY <1>2, <1>3, <1>4, <1>5 DEF Rpc

LEMMA NextCallChange ==
  ASSUME TypeOK, [Next]_vars, NEW c \in Calls
  PROVE  CallChange(c)
  <1>1. ASSUME NEW d \in Calls, Rpc(d) PROVE CallChange(c)
    BY <1>1, RpcCallChange
  <1>2. ASSUME NEW d \in Calls, Handler(d) PROVE CallChange(c)
    <2>1. Shape(d)
      BY <1>2, HandlerShape
    <2>2. req' = req /\ pc[d] # "idle" /\ \A e \in Calls \ {d} : pc'[e] = pc[e]
      BY <2>1 DEF Shape, Frame, Running, Labels, Returns, Moves, TypeOK
    <2> QED BY <1>2, <2>2 DEF CallChange, Stays
  <1>3. ASSUME NEW d \in Calls, Answer(d) PROVE CallChange(c)
    BY <1>3 DEF Answer, CallChange, Stays, TypeOK
  <1>4. ASSUME NEW r \in Replicas, Crash(r) PROVE CallChange(c)
    BY <1>4 DEF Crash, CallChange, Stays, TypeOK
  <1>5. CASE UNCHANGED <<pc, req>>
    BY <1>5 DEF CallChange, Stays
  <1>6. \/ UNCHANGED <<pc, req>>
        \/ \E d \in Calls : Rpc(d) \/ Handler(d) \/ Answer(d)
        \/ \E r \in Replicas : Crash(r)
    BY DEF Next, CloudCompletes, CloudDisturbs, Orchestrator, WantAttached,
           WantDetached, WantDeleted, Trouble, GiveUp, LeaderMoves, vars, callVars
  <1> QED BY <1>1, <1>2, <1>3, <1>4, <1>5, <1>6

LEMMA NextChange ==
  ASSUME TypeOK, [Next]_vars, NEW v \in Volumes
  PROVE  Change(v)
  <1>1. ASSUME NEW c \in Calls, Handler(c) PROVE Change(v)
    BY <1>1, HandlerChange
  <1>2. ASSUME NEW w \in Volumes, CloudCompletes(w) PROVE Change(v)
    BY <1>2, CompletesChange DEF CloudCompletes, Change
  <1>3. CASE CloudDisturbs
    BY <1>3, DisturbsChange DEF CloudDisturbs, Change
  <1>4. CASE UNCHANGED disk
    BY <1>4 DEF Change, Keeps
  <1>5. ASSUME NEW c \in Calls, Rpc(c) PROVE UNCHANGED disk
    BY <1>5, RpcReceives DEF Receive, cloudVars
  <1>6. \/ UNCHANGED disk \/ CloudDisturbs
        \/ \E c \in Calls : Rpc(c) \/ Handler(c)
        \/ \E w \in Volumes : CloudCompletes(w)
    BY DEF Next, Answer, Orchestrator, WantAttached, WantDetached, WantDeleted,
           Trouble, GiveUp, LeaderMoves, Crash, vars, cloudVars
  <1> QED BY <1>1, <1>2, <1>3, <1>4, <1>5, <1>6

-----------------------------------------------------------------------------
(* The three parts of the inductive invariant, step by step.               *)

LEMMA NodeStep ==
  ASSUME TypeOK, NodeInv, [Next]_vars
  PROVE  NodeInv'
  <1> SUFFICES ASSUME NEW c \in Calls, pc'[c] # "idle",
                      req'[c].op \in {"Publish", "Unpublish"}
               PROVE  req'[c].node \in Nodes
    BY DEF NodeInv
  <1> QED BY NextCallChange DEF CallChange, Stays, NodeInv

LEMMA BoundStep ==
  ASSUME TypeOK, NodeInv, BoundInv, [Next]_vars
  PROVE  BoundInv'
  <1> SUFFICES ASSUME NEW v \in Volumes,
                      disk'[v].status \in {"ATTACHING", "IN_USE", "DETACHING"}
               PROVE  disk'[v].vm \in Nodes
    BY DEF BoundInv
  <1>1. disk[v].vm \in Nodes \union {NoVm}
    BY DEF TypeOK, CloudTypeOK, Disk
  <1>2. CASE Keeps(v)
    BY <1>2 DEF Keeps, BoundInv
  <1>3. CASE StaysBound(v)
    BY <1>1, <1>3 DEF StaysBound, BoundInv
  <1>4. ASSUME NEW c \in Calls, Attaches(c, v) PROVE disk'[v].vm \in Nodes
    BY <1>4 DEF Attaches, NodeInv
  <1>5. ASSUME NEW c \in Calls, Detaches(c, v) PROVE disk'[v].vm \in Nodes
    BY <1>5 DEF Detaches, BoundInv
  <1>6. ~Rests(v)
    BY DEF Rests
  <1> QED BY <1>2, <1>3, <1>4, <1>5, <1>6, NextChange DEF Change

LEMMA DetachStep ==
  ASSUME OneReplica, TypeOK, LockDiscipline, NodeInv, DetachInv, [Next]_vars
  PROVE  DetachInv'
  <1> SUFFICES ASSUME NEW c \in Calls, pc'[c] = "detach"
               PROVE  /\ req'[c].op = "Unpublish"
                      /\ disk'[req'[c].vol].vm \in {req'[c].node, NoVm}
    BY DEF DetachInv
  <1>1. CASE Stays(c)
    <2> DEFINE v == req[c].vol
    <2>1. /\ pc[c] = "detach" /\ req'[c] = req[c]
          /\ v \in Volumes /\ req[c].rep \in Replicas
          /\ req[c].op = "Unpublish" /\ disk[v].vm \in {req[c].node, NoVm}
      BY <1>1, RequestFields DEF Stays, DetachInv
    <2>2. ASSUME NEW d \in Calls, Attaches(d, v) PROVE FALSE
      <3>1. Running(c) /\ Running(d) /\ req[d].vol = req[c].vol /\ d # c
        BY <2>1, <2>2 DEF Attaches, Running, Labels
      <3>2. req[d].rep = req[c].rep
        BY <2>1, <3>1, RequestFields DEF OneReplica, Running, Labels
      <3> QED BY <3>1, <3>2 DEF LockDiscipline
    <2>3. disk'[v].vm \in {disk[v].vm, NoVm}
      BY <2>1, <2>2, NextChange DEF Change, Keeps, Rests, StaysBound, Detaches
    <2> QED BY <2>1, <2>3
  <1>2. CASE Handler(c) /\ req'[c] = req[c]
    <2>1. /\ req[c].op = "Unpublish" /\ disk' = disk
          /\ InstanceId(req[c].vol) = req[c].node
      BY <1>2, HandlerToDetach
    <2>2. InstanceId(req[c].vol) \in {disk[req[c].vol].vm, NoVm}
      BY DEF InstanceId
    <2>3. pc[c] # "idle"
      BY <1>2, HandlerShape DEF Shape, Running, Labels
    <2>4. req[c].node # NoVm
      BY <2>1, <2>3, CloudAssumption DEF NodeInv
    <2> QED BY <1>2, <2>1, <2>2, <2>4
  <1> QED BY <1>1, <1>2, NextCallChange DEF CallChange

\* DetachOnlyRequestedNode holds of every behaviour when there is one replica:
\* then, and (by the run two_replicas_detach) only then, is the comparison
\* ControllerUnpublishVolume made still true when it calls DetachDisks.
THEOREM DetachSafety ==
  ASSUME OneReplica
  PROVE  Spec => DetachOnlyRequestedNode
  <1> DEFINE Inv == TypeOK /\ LockDiscipline /\ NodeInv /\ BoundInv /\ DetachInv
  <1> DEFINE Detached == \A v \in Volumes :
               disk[v].status # "DETACHING" /\ disk'[v].status = "DETACHING" =>
                 \E c \in Calls : /\ At(c, "Unpublish", "detach")
                                  /\ req[c].vol = v
                                  /\ req[c].node = disk[v].vm
  <1>1. Init => NodeInv /\ BoundInv /\ DetachInv
    BY DEF Init, CloudInit, NodeInv, BoundInv, DetachInv
  <1>2. Inv /\ [Next]_vars => (NodeInv /\ BoundInv /\ DetachInv)'
    BY NodeStep, BoundStep, DetachStep
  <1>3. ASSUME Inv, [Next]_vars PROVE Detached
    <2> SUFFICES ASSUME NEW v \in Volumes, disk[v].status # "DETACHING",
                        disk'[v].status = "DETACHING"
                 PROVE  \E c \in Calls : /\ At(c, "Unpublish", "detach")
                                         /\ req[c].vol = v
                                         /\ req[c].node = disk[v].vm
      OBVIOUS
    <2>1. PICK c \in Calls : Detaches(c, v)
      BY <1>3, NextChange DEF Change, Keeps, Rests, StaysBound
    <2>2. disk[v].vm \in Nodes /\ disk[v].vm \in {req[c].node, NoVm}
      BY <1>3, <2>1 DEF Detaches, BoundInv, DetachInv
    <2> QED BY <2>1, <2>2, CloudAssumption DEF Detaches, At
  <1>4. Inv /\ [Next]_vars => [Detached]_vars
    BY <1>3
  <1> HIDE DEF Detached
  <1>5. Spec => [][Detached]_vars
    BY <1>1, <1>2, <1>4, TypeCorrect, LockSafety, PTL DEF Spec
  <1> QED BY <1>5 DEF DetachOnlyRequestedNode, Detached
=============================================================================
