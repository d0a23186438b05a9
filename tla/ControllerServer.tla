-------------------------- MODULE ControllerServer --------------------------
(***************************************************************************)
(* pkg/disk/rpcserver/controllerserver.go: the RPCs on an existing volume  *)
(* (ControllerPublishVolume, ControllerUnpublishVolume,                    *)
(* ControllerExpandVolume, DeleteVolume) together with the functions of    *)
(* pkg/cloud/cloud_manager.go they call.                                   *)
(*                                                                         *)
(* Each RPC is a goroutine of one replica.  It takes the lock of the       *)
(* volume id, makes its cloud calls one by one, and releases the lock on   *)
(* every return.  One action is the code from one cloud round trip to the  *)
(* next: between two of them the other goroutines, the other replicas, the *)
(* cloud and the sidecars all move.                                        *)
(*                                                                         *)
(* Around the handlers: the sidecars (external-attacher, -resizer and      *)
(* -provisioner), which keep a record of what they were last told,         *)
(* retry for ever, give up on a slow call while the handler keeps running  *)
(* (no handler looks at its context), and change leader from one replica   *)
(* to another; and replicas that crash and restart.                        *)
(***************************************************************************)
EXTENDS ResourceLocks, ZecCloud

CONSTANT Calls    \* bound: RPCs in flight at a time

VARIABLES
  pc,       \* pc[c]: the cloud round trip the handler is about to make
  req,      \* req[c]: the request being served
  ret,      \* ret[c]: the answer, once the handler has returned
  seen,     \* seen[c]: InstanceId as read by FindVolume
  last,     \* last[c]: lastRelease in cloud DeleteVolume
  times,    \* times[c]: loop counter of cloud DeleteVolume
  open,     \* open[c]: does the sidecar still wait for the answer?
  leader,   \* leader[s]: the replica on which sidecar s is active
  va,       \* va[v][n]: the VolumeAttachment of v and n
  pv,       \* pv[v]: the PersistentVolume
  cap       \* cap[v]: the capacity in GiB recorded for the volume

localVars == <<seen, last, times>>
callVars  == <<pc, ret, localVars, locks>>
coVars    == <<va, pv, cap>>
vars      == <<cloudVars, callVars, req, open, leader, coVars>>

-----------------------------------------------------------------------------
Sidecars == {"attacher", "resizer", "provisioner"}

Ops == {"Publish", "Unpublish", "Expand", "Delete"}

SidecarOf(op) ==
  CASE op \in {"Publish", "Unpublish"} -> "attacher"
    [] op = "Expand" -> "resizer"
    [] OTHER -> "provisioner"

Labels == {"find", "vm", "attach", "waitInUse", "verify", "detach",
           "waitAvailable", "resize", "waitStable", "release",
           "waitReleased", "waitDeleted"}

Codes == {"OK", "Aborted", "Internal", "NotFound", "FailedPrecondition"}

maxReleaseDiskTimes == 2

Request == [op : Ops, vol : Volumes, node : Nodes \union {NoVm},
            gib : 0..MaxGib, rep : Replicas]
NoReq == [op |-> "none"]
NoRet == [code |-> "none", gib |-> 0]

(* A handler runs, and holds its lock, from TryAcquire to its return.      *)
Running(c) == pc[c] \in Labels

TypeOK ==
  /\ CloudTypeOK
  /\ locks \in [Replicas -> SUBSET Volumes]
  /\ pc \in [Calls -> Labels \union {"idle", "answer"}]
  /\ req \in [Calls -> Request \union {NoReq}]
  /\ \A c \in Calls : pc[c] # "idle" <=> req[c] \in Request
  /\ ret \in [Calls -> [code : Codes, gib : 0..MaxGib] \union {NoRet}]
  /\ seen \in [Calls -> Nodes \union {NoVm}]
  /\ last \in [Calls -> BOOLEAN]
  /\ times \in [Calls -> 1..maxReleaseDiskTimes]
  /\ open \in [Calls -> BOOLEAN]
  /\ leader \in [Sidecars -> Replicas]
  /\ va \in [Volumes -> [Nodes -> {"none", "attaching", "attached", "detaching"}]]
  /\ pv \in [Volumes -> {"bound", "deleting", "deleted"}]
  /\ cap \in [Volumes -> 0..MaxGib]

Init ==
  /\ CloudInit
  /\ NewResourceLocks
  /\ pc = [c \in Calls |-> "idle"]
  /\ req = [c \in Calls |-> NoReq]
  /\ ret = [c \in Calls |-> NoRet]
  /\ seen = [c \in Calls |-> NoVm]
  /\ last = [c \in Calls |-> FALSE]
  /\ times = [c \in Calls |-> 1]
  /\ open = [c \in Calls |-> FALSE]
  /\ leader \in [Sidecars -> Replicas]
  /\ va = [v \in Volumes |-> [n \in Nodes |-> "none"]]
  /\ pv = [v \in Volumes |-> "bound"]
  /\ cap = [v \in Volumes |-> 1]

-----------------------------------------------------------------------------
(* How a handler moves.                                                    *)

At(c, op, label) == pc[c] = label /\ req[c].op = op

\* What no step of a handler touches.
Frame == UNCHANGED <<vmstate, req, open, leader, coVars>>

Goto(c, label) ==
  pc' = [pc EXCEPT ![c] = label] /\ UNCHANGED <<ret, locks>>

\* Every return: the deferred Release runs, then the answer is on its way.
Return(c, code, gib) ==
  /\ pc' = [pc EXCEPT ![c] = "answer"]
  /\ ret' = [ret EXCEPT ![c] = [code |-> code, gib |-> gib]]
  /\ Release(req[c].rep, req[c].vol)
  /\ seen' = [seen EXCEPT ![c] = NoVm]
  /\ last' = [last EXCEPT ![c] = FALSE]
  /\ times' = [times EXCEPT ![c] = 1]

Fail(c, code) == Return(c, code, 0) /\ UNCHANGED disk
Succeed(c)    == Return(c, "OK", 0) /\ UNCHANGED disk

\* An SDK call returns an error and has had no effect.
ApiError(c) == Fault /\ Fail(c, "Internal")

-----------------------------------------------------------------------------
(* waitDiskStatus: poll until the disk shows a wanted status.              *)

Wanted == [IN_USE    |-> {"IN_USE"},
           AVAILABLE |-> {"AVAILABLE"},
           STABLE    |-> {"AVAILABLE", "IN_USE"},
           DELETED   |-> {"GONE"}]

DiskReached(v, status) == disk[v].status \in Wanted[status]

\* The wait ends in an error: a poll fails, the status is reached after the
\* last poll (both an ApiError here), the 180 s are over and it is not reached,
\* or the disk polled is gone and that was not the aim.
WaitFails(c, status) ==
  \/ ApiError(c)
  \/ ~DiskReached(req[c].vol, status) /\ NoFault /\ Fail(c, "Internal")

-----------------------------------------------------------------------------
(* The prologue common to the four RPCs: the request is well formed, the   *)
(* id parses, and TryAcquire(volId) decides.  A sidecar has one call per   *)
(* volume outstanding.                                                     *)

Waiting(sidecar, v) ==
  \E c \in Calls : open[c] /\ req[c].vol = v /\ SidecarOf(req[c].op) = sidecar

Receive(c, op, v, n, gib) ==
  LET r == leader[SidecarOf(op)] IN
  /\ pc[c] = "idle"
  /\ ~Waiting(SidecarOf(op), v)
  /\ req' = [req EXCEPT ![c] = [op |-> op, vol |-> v, node |-> n,
                                gib |-> gib, rep |-> r]]
  /\ open' = [open EXCEPT ![c] = TRUE]
  /\ \/ /\ TryAcquire(r, v)
        /\ pc' = [pc EXCEPT ![c] = "find"]
        /\ UNCHANGED ret
     \/ /\ IsLocked(r, v)
        /\ pc' = [pc EXCEPT ![c] = "answer"]
        /\ ret' = [ret EXCEPT ![c] = [code |-> "Aborted", gib |-> 0]]
        /\ UNCHANGED locks
  /\ UNCHANGED <<cloudVars, localVars, leader, coVars>>

-----------------------------------------------------------------------------
(* ControllerPublishVolume                                                 *)

ControllerPublishVolume(c) ==
  \E v \in Volumes, n \in Nodes :
    va[v][n] = "attaching" /\ Receive(c, "Publish", v, n, 0)

PublishFind(c) ==
  LET v == req[c].vol IN
  /\ At(c, "Publish", "find")
  /\ \/ ApiError(c)
     \/ /\ NoFault
        /\ ~Exists(v)
        /\ Fail(c, "NotFound")
     \/ /\ NoFault
        /\ Exists(v)
        /\ seen' = [seen EXCEPT ![c] = InstanceId(v)]
        /\ Goto(c, "vm")
        /\ UNCHANGED <<disk, last, times>>
  /\ Frame

\* GetVmStatus, then the decision on the InstanceId read before it.
PublishVmStatus(c) ==
  LET n == req[c].node IN
  /\ At(c, "Publish", "vm")
  /\ \/ ApiError(c)
     \/ /\ NoFault
        /\ \/ GetVmStatus(n) = "ABSENT" /\ Fail(c, "NotFound")
           \/ GetVmStatus(n) = "STOPPED" /\ Fail(c, "FailedPrecondition")
           \/ GetVmStatus(n) = "RUNNING" /\
              \/ seen[c] = n /\ Succeed(c)
              \/ seen[c] \notin {n, NoVm} /\ Fail(c, "FailedPrecondition")
              \/ seen[c] = NoVm /\ Goto(c, "attach") /\ UNCHANGED <<disk, localVars>>
  /\ Frame

\* Broken form: the error of AttachDisks is lost in a shadowed variable.
AttachVolumeErrorLost(c) ==
  LET v == req[c].vol  n == req[c].node IN
  /\ At(c, "Publish", "attach")
  /\ NoFault
  /\ \/ ~CanAttach(v, n) /\ Succeed(c)
     \/ CanAttach(v, n) /\ AttachDisks(v, n) /\ Goto(c, "waitInUse") /\ UNCHANGED localVars
  /\ Frame

\* cloud AttachVolume up to its wait.  The error may hide an accepted request.
AttachVolume(c) ==
  LET v == req[c].vol  n == req[c].node IN
  /\ At(c, "Publish", "attach")
  /\ \/ ApiError(c)
     \/ ~CanAttach(v, n) /\ NoFault /\ Fail(c, "Internal")
     \/ /\ CanAttach(v, n)
        /\ AttachDisks(v, n)
        /\ \/ NoFault /\ Goto(c, "waitInUse") /\ UNCHANGED localVars
           \/ Fault /\ Return(c, "Internal", 0)
  /\ Frame

AttachWait(c) ==
  /\ At(c, "Publish", "waitInUse")
  /\ \/ WaitFails(c, "IN_USE")
     \/ /\ DiskReached(req[c].vol, "IN_USE")
        /\ NoFault
        /\ Goto(c, "verify")
        /\ UNCHANGED <<disk, localVars>>
  /\ Frame

\* The disk is read again; one found on another instance is left alone.
PublishVerify(c) ==
  LET v == req[c].vol IN
  /\ At(c, "Publish", "verify")
  /\ \/ ApiError(c)
     \/ /\ NoFault
        /\ \/ ~Exists(v) /\ Fail(c, "NotFound")
           \/ Exists(v) /\ InstanceId(v) # req[c].node /\ Fail(c, "Internal")
           \/ Exists(v) /\ InstanceId(v) = req[c].node /\ Succeed(c)
  /\ Frame

-----------------------------------------------------------------------------
(* ControllerUnpublishVolume                                               *)

ControllerUnpublishVolume(c) ==
  \E v \in Volumes, n \in Nodes :
    va[v][n] = "detaching" /\ Receive(c, "Unpublish", v, n, 0)

\* Broken form: the node must be RUNNING, as ControllerPublishVolume demands.
UnpublishFindRunningNode(c) ==
  LET v == req[c].vol  n == req[c].node IN
  /\ At(c, "Unpublish", "find")
  /\ NoFault
  /\ \/ vmstate[n] # "RUNNING" /\ Fail(c, "FailedPrecondition")
     \/ vmstate[n] = "RUNNING" /\ InstanceId(v) # n /\ Succeed(c)
     \/ /\ vmstate[n] = "RUNNING" /\ InstanceId(v) = n
        /\ Goto(c, "detach") /\ UNCHANGED <<disk, localVars>>
  /\ Frame

UnpublishFind(c) ==
  LET v == req[c].vol IN
  /\ At(c, "Unpublish", "find")
  /\ \/ ApiError(c)
     \/ /\ NoFault
        /\ \/ ~Exists(v) /\ Succeed(c)
           \/ Exists(v) /\ InstanceId(v) # req[c].node /\ Succeed(c)
           \/ /\ Exists(v) /\ InstanceId(v) = req[c].node
              /\ Goto(c, "detach")
              /\ UNCHANGED <<disk, localVars>>
  /\ Frame

\* cloud DetachVolume up to its wait; a disk in failedDiskIds is an error.
DetachVolume(c) ==
  LET v == req[c].vol IN
  /\ At(c, "Unpublish", "detach")
  /\ \/ ApiError(c)
     \/ ~CanDetach(v) /\ NoFault /\ Fail(c, "Internal")
     \/ /\ CanDetach(v)
        /\ DetachDisks(v)
        /\ \/ NoFault /\ Goto(c, "waitAvailable") /\ UNCHANGED localVars
           \/ Fault /\ Return(c, "Internal", 0)
  /\ Frame

\* Broken form: an accepted DetachDisks is taken for a finished one.
DetachWithoutWait(c) ==
  /\ At(c, "Unpublish", "waitAvailable")
  /\ NoFault /\ Succeed(c)
  /\ Frame

DetachWait(c) ==
  /\ At(c, "Unpublish", "waitAvailable")
  /\ \/ WaitFails(c, "AVAILABLE")
     \/ DiskReached(req[c].vol, "AVAILABLE") /\ NoFault /\ Succeed(c)
  /\ Frame

-----------------------------------------------------------------------------
(* ControllerExpandVolume.  gib is the size GetRequiredVolumeSizeByte      *)
(* computes (module Capacity).                                             *)

ControllerExpandVolume(c) ==
  \E v \in Volumes, gib \in 1..MaxGib :
    pv[v] = "bound" /\ gib > cap[v] /\ Receive(c, "Expand", v, NoVm, gib)

\* Past FindVolume an unknown type and a range no disk fits are refused without
\* any change (module Capacity); the requests here get past that.
ExpandFind(c) ==
  LET v == req[c].vol IN
  /\ At(c, "Expand", "find")
  /\ \/ ApiError(c)
     \/ /\ NoFault
        /\ \/ ~Exists(v) /\ Fail(c, "NotFound")
           \/ /\ Exists(v) /\ disk[v].size >= req[c].gib
              /\ Return(c, "OK", disk[v].size) /\ UNCHANGED disk
           \/ /\ Exists(v) /\ disk[v].size < req[c].gib
              /\ Goto(c, "resize") /\ UNCHANGED <<disk, localVars>>
  /\ Frame

\* cloud ResizeVolume up to its wait.
ResizeVolume(c) ==
  LET v == req[c].vol  gib == req[c].gib IN
  /\ At(c, "Expand", "resize")
  /\ \/ ApiError(c)
     \/ ~CanResize(v, gib) /\ NoFault /\ Fail(c, "Internal")
     \/ /\ CanResize(v, gib)
        /\ ResizeDisk(v, gib)
        /\ \/ NoFault /\ Goto(c, "waitStable") /\ UNCHANGED localVars
           \/ Fault /\ Return(c, "Internal", 0)
  /\ Frame

\* Broken form: the accepted request is taken for the finished resize.
ResizeWithoutWait(c) ==
  /\ At(c, "Expand", "waitStable")
  /\ NoFault /\ Return(c, "OK", req[c].gib) /\ UNCHANGED disk
  /\ Frame

\* The answer carries the requested size; the disk is not read again.
ResizeWait(c) ==
  /\ At(c, "Expand", "waitStable")
  /\ \/ WaitFails(c, "STABLE")
     \/ /\ DiskReached(req[c].vol, "STABLE")
        /\ NoFault /\ Return(c, "OK", req[c].gib) /\ UNCHANGED disk
  /\ Frame

-----------------------------------------------------------------------------
(* DeleteVolume: at most maxReleaseDiskTimes rounds of find, release, wait. *)

DeleteVolume(c) ==
  \E v \in Volumes : pv[v] = "deleting" /\ Receive(c, "Delete", v, NoVm, 0)

DeleteFind(c) ==
  LET v == req[c].vol IN
  /\ At(c, "Delete", "find")
  /\ \/ ApiError(c)
     \/ ~Exists(v) /\ NoFault /\ Succeed(c)
     \/ /\ Exists(v)
        /\ NoFault
        /\ last' = [last EXCEPT ![c] = (disk[v].status = "RECYCLED")]
        /\ Goto(c, "release")
        /\ UNCHANGED <<disk, seen, times>>
  /\ Frame

\* Broken form: only an AVAILABLE disk is released.
DeleteReleaseOnlyAvailable(c) ==
  LET v == req[c].vol IN
  /\ At(c, "Delete", "release")
  /\ NoFault
  /\ \/ ~Exists(v) /\ Succeed(c)
     \/ Exists(v) /\ disk[v].status # "AVAILABLE" /\ Fail(c, "Internal")
     \/ /\ disk[v].status = "AVAILABLE"
        /\ ReleaseDisk(v)
        /\ Goto(c, "waitReleased") /\ UNCHANGED localVars
  /\ Frame

\* RESOURCE_NOT_FOUND counts as deleted.
DeleteRelease(c) ==
  LET v == req[c].vol IN
  /\ At(c, "Delete", "release")
  /\ \/ ApiError(c)
     \/ ~Exists(v) /\ NoFault /\ Succeed(c)
     \/ Exists(v) /\ ~CanRelease(v) /\ NoFault /\ Fail(c, "Internal")
     \/ /\ CanRelease(v)
        /\ ReleaseDisk(v)
        /\ \/ /\ NoFault
              /\ Goto(c, IF last[c] THEN "waitDeleted" ELSE "waitReleased")
              /\ UNCHANGED localVars
           \/ Fault /\ Return(c, "Internal", 0)
  /\ Frame

\* waitDiskReleased ends: the release has had its effect.
DiskReleased(v) == disk[v].status \in {"GONE", "RECYCLED"}

\* Broken form: the recycle bin is taken for the end of the disk.
DeleteWaitRecycledIsEnough(c) ==
  /\ At(c, "Delete", "waitReleased")
  /\ DiskReleased(req[c].vol)
  /\ NoFault /\ Succeed(c)
  /\ Frame

\* Broken form: the loop has no bound.
DeleteWaitReleasedUnbounded(c) ==
  /\ At(c, "Delete", "waitReleased")
  /\ disk[req[c].vol].status = "RECYCLED" /\ NoFault
  /\ times' = [times EXCEPT ![c] = @ + 1]
  /\ Goto(c, "find")
  /\ UNCHANGED <<disk, seen, last>>
  /\ Frame

\* After waitDiskReleased: gone, or in the recycle bin and one more round.
DeleteWaitReleased(c) ==
  LET v == req[c].vol IN
  /\ At(c, "Delete", "waitReleased")
  /\ \/ ApiError(c)
     \/ ~Exists(v) /\ NoFault /\ Succeed(c)
     \/ ~DiskReleased(v) /\ NoFault /\ Fail(c, "Internal")
     \/ /\ disk[v].status = "RECYCLED" /\ NoFault
        /\ \/ /\ times[c] < maxReleaseDiskTimes
              /\ times' = [times EXCEPT ![c] = @ + 1]
              /\ Goto(c, "find")
              /\ UNCHANGED <<disk, seen, last>>
           \/ times[c] = maxReleaseDiskTimes /\ Fail(c, "Internal")
  /\ Frame

DeleteWaitDeleted(c) ==
  /\ At(c, "Delete", "waitDeleted")
  /\ \/ WaitFails(c, "DELETED")
     \/ DiskReached(req[c].vol, "DELETED") /\ NoFault /\ Succeed(c)
  /\ Frame

-----------------------------------------------------------------------------
(* The sidecars and the process the handlers run in.                       *)

CoLearns(q, gib) ==
  \/ /\ q.op = "Publish"
     /\ va' = [va EXCEPT ![q.vol][q.node] =
                 IF @ = "attaching" THEN "attached" ELSE @]
     /\ UNCHANGED <<pv, cap>>
  \/ /\ q.op = "Unpublish"
     /\ va' = [va EXCEPT ![q.vol][q.node] = "none"]
     /\ UNCHANGED <<pv, cap>>
  \/ /\ q.op = "Expand"
     /\ cap' = [cap EXCEPT ![q.vol] = gib]
     /\ UNCHANGED <<va, pv>>
  \/ /\ q.op = "Delete"
     /\ pv' = [pv EXCEPT ![q.vol] = "deleted"]
     /\ UNCHANGED <<va, cap>>

\* The answer arrives; errors and answers nobody waits for change nothing.
Answer(c) ==
  /\ pc[c] = "answer"
  /\ \/ open[c] /\ ret[c].code = "OK" /\ CoLearns(req[c], ret[c].gib)
     \/ (~open[c] \/ ret[c].code # "OK") /\ UNCHANGED coVars
  /\ pc' = [pc EXCEPT ![c] = "idle"]
  /\ req' = [req EXCEPT ![c] = NoReq]
  /\ ret' = [ret EXCEPT ![c] = NoRet]
  /\ open' = [open EXCEPT ![c] = FALSE]
  /\ UNCHANGED <<cloudVars, localVars, locks, leader>>

\* A volume is wanted on one node at a time, and not once it is deleted.
WantAttached(v, n) ==
  /\ pv[v] = "bound"
  /\ \A m \in Nodes : va[v][m] = "none"
  /\ va' = [va EXCEPT ![v][n] = "attaching"]
  /\ UNCHANGED <<cloudVars, callVars, req, open, leader, pv, cap>>

WantDetached(v, n) ==
  /\ va[v][n] \in {"attaching", "attached"}
  /\ va' = [va EXCEPT ![v][n] = "detaching"]
  /\ UNCHANGED <<cloudVars, callVars, req, open, leader, pv, cap>>

WantDeleted(v) ==
  /\ pv[v] = "bound"
  /\ \A n \in Nodes : va[v][n] = "none"
  /\ pv' = [pv EXCEPT ![v] = "deleting"]
  /\ UNCHANGED <<cloudVars, callVars, req, open, leader, va, cap>>

\* The sidecar's --timeout: it stops waiting, the handler goes on.
GiveUp(c) ==
  /\ open[c]
  /\ open' = [open EXCEPT ![c] = FALSE]
  /\ Fault
  /\ UNCHANGED <<disk, vmstate, callVars, req, leader, coVars>>

\* Leader election moves a sidecar; the new instance knows of no open call.
LeaderMoves(s, r) ==
  /\ leader' = [leader EXCEPT ![s] = r]
  /\ open' = [c \in Calls |-> open[c] /\ SidecarOf(req[c].op) # s]
  /\ Fault
  /\ UNCHANGED <<disk, vmstate, callVars, req, coVars>>

\* A replica restarts: its goroutines and its lock table are gone.
Crash(r) ==
  LET dead == {c \in Calls : pc[c] # "idle" /\ req[c].rep = r} IN
  /\ pc' = [c \in Calls |-> IF c \in dead THEN "idle" ELSE pc[c]]
  /\ req' = [c \in Calls |-> IF c \in dead THEN NoReq ELSE req[c]]
  /\ ret' = [c \in Calls |-> IF c \in dead THEN NoRet ELSE ret[c]]
  /\ seen' = [c \in Calls |-> IF c \in dead THEN NoVm ELSE seen[c]]
  /\ last' = [c \in Calls |-> IF c \in dead THEN FALSE ELSE last[c]]
  /\ times' = [c \in Calls |-> IF c \in dead THEN 1 ELSE times[c]]
  /\ open' = [c \in Calls |-> open[c] /\ c \notin dead]
  /\ LoseLocks(r)
  /\ Fault
  /\ UNCHANGED <<disk, vmstate, leader, coVars>>

-----------------------------------------------------------------------------
PublishStep(c) ==
  PublishFind(c) \/ PublishVmStatus(c) \/ AttachVolume(c) \/ AttachWait(c)
    \/ PublishVerify(c)
UnpublishStep(c) == UnpublishFind(c) \/ DetachVolume(c) \/ DetachWait(c)
ExpandStep(c) == ExpandFind(c) \/ ResizeVolume(c) \/ ResizeWait(c)
DeleteStep(c) ==
  DeleteFind(c) \/ DeleteRelease(c) \/ DeleteWaitReleased(c) \/ DeleteWaitDeleted(c)

Handler(c) ==
  PublishStep(c) \/ UnpublishStep(c) \/ ExpandStep(c) \/ DeleteStep(c)

Rpc(c) ==
  \/ ControllerPublishVolume(c) \/ ControllerUnpublishVolume(c)
  \/ ControllerExpandVolume(c) \/ DeleteVolume(c)

CloudCompletes(v) ==
  Completes(v) /\ UNCHANGED <<callVars, req, open, leader, coVars>>

CloudDisturbs ==
  Disturbs /\ UNCHANGED <<callVars, req, open, leader, coVars>>

Orchestrator ==
  \/ \E v \in Volumes, n \in Nodes : WantAttached(v, n) \/ WantDetached(v, n)
  \/ \E v \in Volumes : WantDeleted(v)

Trouble ==
  \/ \E c \in Calls : GiveUp(c)
  \/ \E s \in Sidecars, r \in Replicas : LeaderMoves(s, r)
  \/ \E r \in Replicas : Crash(r)

Next ==
  \/ \E c \in Calls : Rpc(c) \/ Handler(c) \/ Answer(c)
  \/ \E v \in Volumes : CloudCompletes(v)
  \/ CloudDisturbs \/ Orchestrator \/ Trouble

Spec == Init /\ [][Next]_vars

(* A goroutine in a handler runs, an answer sent arrives, the cloud        *)
(* finishes what it accepted, and the attacher and the provisioner retry   *)
(* for ever; with the failures bounded by MaxFaults.  Nothing makes a user *)
(* ask for anything, and nothing starts a stopped instance.                *)
Fairness ==
  /\ \A c \in Calls : WF_vars(Handler(c)) /\ WF_vars(Answer(c))
  /\ \A v \in Volumes : WF_vars(CloudCompletes(v))
  /\ SF_vars(\E c \in Calls : ControllerPublishVolume(c))
  /\ SF_vars(\E c \in Calls : ControllerUnpublishVolume(c))
  /\ SF_vars(\E c \in Calls : DeleteVolume(c))

FairSpec == Spec /\ Fairness

-----------------------------------------------------------------------------
(* Properties                                                              *)

\* LockDiscipline: in a replica no two running handlers work on one volume
\* id, a running handler has its id in the lock table, and every id in the
\* table belongs to a running handler: no return, crash or abandoned call
\* leaves a lock behind that would answer Aborted for ever.
LockDiscipline ==
  /\ \A c \in Calls : Running(c) => IsLocked(req[c].rep, req[c].vol)
  /\ \A c, d \in Calls :
       Running(c) /\ Running(d) /\ req[c].rep = req[d].rep
         /\ req[c].vol = req[d].vol => c = d
  /\ \A r \in Replicas, v \in Volumes :
       IsLocked(r, v) =>
         \E c \in Calls : Running(c) /\ req[c].rep = r /\ req[c].vol = v

\* DetachOnlyRequestedNode: a disk starts to detach only on behalf of a
\* ControllerUnpublishVolume whose node is the instance the disk is on.  The
\* handler compares the two on a copy read earlier, and DetachDisks names no
\* instance, so nothing but the lock keeps the copy true.
DetachOnlyRequestedNode ==
  [][\A v \in Volumes :
       disk[v].status # "DETACHING" /\ disk'[v].status = "DETACHING" =>
         \E c \in Calls : /\ At(c, "Unpublish", "detach")
                          /\ req[c].vol = v
                          /\ req[c].node = disk[v].vm]_vars

\* AttachedMeansAttached: a volume whose ControllerPublishVolume on a node was
\* answered OK stays on that node (or on its way there) until it is to be
\* detached, whatever other calls, late completions and restarts happen.
AttachedMeansAttached ==
  \A v \in Volumes, n \in Nodes :
    va[v][n] = "attached" /\ vmstate[n] # "ABSENT" =>
      disk[v].vm = n /\ disk[v].status \in {"ATTACHING", "IN_USE", "CHANGING"}

\* DetachedMeansDetached: once ControllerUnpublishVolume was answered OK for a
\* node, the disk is not on that node and does not get there later by an
\* attach that was under way, so the volume may be given to another node.
DetachedMeansDetached ==
  \A v \in Volumes, n \in Nodes : va[v][n] = "none" => disk[v].vm # n

\* DeletedMeansGone: DeleteVolume is answered OK only for a disk that is
\* destroyed, not for one that waits in the recycle bin, also when an earlier
\* attempt failed between the two releases or another replica releases too.
DeletedMeansGone == \A v \in Volumes : pv[v] = "deleted" => ~Exists(v)

\* CapacityIsReal: the capacity answered by ControllerExpandVolume is one the
\* disk has, although the handler does not read the disk after the resize.
CapacityIsReal == \A v \in Volumes : cap[v] <= disk[v].size

\* DetachCompletes: a volume that is to be detached from a node gets detached,
\* whatever the state of the instance, after any finite number of failures.
DetachCompletes ==
  \A v \in Volumes, n \in Nodes : va[v][n] = "detaching" ~> va[v][n] = "none"

\* AttachCompletes: a volume that is to be attached gets attached, unless the
\* instance is not running or the request is withdrawn.
AttachCompletes ==
  \A v \in Volumes, n \in Nodes :
    va[v][n] = "attaching" ~> va[v][n] # "attaching" \/ vmstate[n] # "RUNNING"

\* DeleteCompletes: a volume that is to be deleted gets destroyed, an attempt
\* that failed after the first release being finished by a later one.
DeleteCompletes ==
  \A v \in Volumes : pv[v] = "deleting" ~> pv[v] = "deleted"
=============================================================================
