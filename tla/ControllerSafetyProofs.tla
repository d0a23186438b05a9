----------------------- MODULE ControllerSafetyProofs -----------------------
(***************************************************************************)
(* What the orchestrator was told is true: proofs of DeletedMeansGone,     *)
(* CapacityIsReal, DetachedMeansDetached and AttachedMeansAttached.        *)
(*                                                                         *)
(* First a step of the specification is summarised by what it does to one  *)
(* disk, to one call and to one record of a sidecar; the invariants are    *)
(* then proved from the summaries alone.                                   *)
(***************************************************************************)
EXTENDS ControllerServerProofs

-----------------------------------------------------------------------------
(* What a handler's step can amount to.                                    *)

\* The disk the request of c is about, as the service has it.
DiskOf(c) == disk[req[c].vol]

Answers(c, code, gib) ==
  pc'[c] = "answer" /\ ret'[c].code = code /\ ret'[c].gib = gib

Refuses(c) ==
  pc'[c] = "answer" /\ ret'[c].code # "OK"

\* The fields of a disk after the step; where a release leads does not matter.
Turns(v, status, vm, size, goal) ==
  /\ disk'[v].status = status
  /\ disk'[v].vm = vm
  /\ disk'[v].size = size
  /\ disk'[v].goal = goal

Others(v) == \A w \in Volumes : w # v => disk'[w] = disk[w]

Attaching(c) ==
  /\ At(c, "Publish", "attach")
  /\ DiskOf(c).status = "AVAILABLE"
  /\ Turns(req[c].vol, "ATTACHING", req[c].node, DiskOf(c).size, DiskOf(c).goal)
  /\ Refuses(c) \/ pc'[c] = "waitInUse"

Detaching(c) ==
  /\ At(c, "Unpublish", "detach")
  /\ DiskOf(c).status = "IN_USE"
  /\ Turns(req[c].vol, "DETACHING", DiskOf(c).vm, DiskOf(c).size, DiskOf(c).goal)
  /\ Refuses(c) \/ pc'[c] = "waitAvailable"

Resizing(c) ==
  /\ At(c, "Expand", "resize")
  /\ DiskOf(c).status \in {"AVAILABLE", "IN_USE"}
  /\ req[c].gib > DiskOf(c).size
  /\ Turns(req[c].vol, "CHANGING", DiskOf(c).vm, DiskOf(c).size, req[c].gib)
  /\ Refuses(c) \/ pc'[c] = "waitStable"

Releasing(c) ==
  /\ At(c, "Delete", "release")
  /\ DiskOf(c).status \in {"AVAILABLE", "RECYCLED"}
  /\ Turns(req[c].vol, "DELETING", DiskOf(c).vm, DiskOf(c).size, DiskOf(c).goal)
  /\ Refuses(c) \/ pc'[c] \in {"waitReleased", "waitDeleted"}

\* A cloud call that only reads, and the call the handler makes next.
Reading(c) ==
  /\ UNCHANGED disk
  /\ \/ /\ At(c, "Publish", "find") /\ pc'[c] = "vm"
        /\ seen'[c] = InstanceId(req[c].vol)
     \/ pc'[c] \in Labels \ {"vm", "waitStable"}

\* The handler answers OK, and what it knows when it does.
Succeeding(c) ==
  /\ UNCHANGED disk
  /\ pc'[c] = "answer" /\ ret'[c].code = "OK"
  /\ \/ /\ At(c, "Publish", "vm")
        /\ seen[c] = req[c].node
     \/ /\ At(c, "Publish", "verify")
        /\ InstanceId(req[c].vol) = req[c].node
     \/ /\ req[c].op = "Unpublish"
        /\ \/ DiskOf(c).status \in {"GONE", "AVAILABLE"}
           \/ InstanceId(req[c].vol) # req[c].node
     \/ /\ At(c, "Expand", "find")
        /\ ret'[c].gib = DiskOf(c).size /\ DiskOf(c).size >= req[c].gib
     \/ /\ At(c, "Expand", "waitStable")
        /\ ret'[c].gib = req[c].gib
        /\ DiskOf(c).status \in {"AVAILABLE", "IN_USE"}
     \/ /\ req[c].op = "Delete"
        /\ DiskOf(c).status = "GONE"

Failing(c) == UNCHANGED disk /\ Refuses(c)

Outcome(c) ==
  \/ Attaching(c) \/ Detaching(c) \/ Resizing(c) \/ Releasing(c)
  \/ Reading(c) \/ Succeeding(c) \/ Failing(c)

\* A handler touches its own call and the disk of its request.
Alone(c) ==
  /\ Running(c)
  /\ Frame
  /\ Others(req[c].vol)
  /\ \A d \in Calls \ {c} : pc'[d] = pc[d] /\ ret'[d] = ret[d] /\ seen'[d] = seen[d]

LEMMA ReturnFacts ==
  ASSUME TypeOK, NEW c \in Calls, NEW code, NEW gib, Return(c, code, gib)
  PROVE  Answers(c, code, gib)
  BY DEF Return, Answers, TypeOK

LEMMA FailFacts ==
  ASSUME TypeOK, NEW c \in Calls, NEW code, code # "OK", Fail(c, code)
  PROVE  Failing(c)
  BY ReturnFacts DEF Fail, Failing, Refuses, Answers

LEMMA SucceedFacts ==
  ASSUME TypeOK, NEW c \in Calls, Succeed(c)
  PROVE  UNCHANGED disk /\ pc'[c] = "answer" /\ ret'[c].code = "OK"
  BY ReturnFacts DEF Succeed, Answers

LEMMA WaitFailsFacts ==
  ASSUME TypeOK, NEW c \in Calls, NEW status, WaitFails(c, status)
  PROVE  Failing(c)
  BY FailFacts DEF WaitFails, ApiError

LEMMA PublishOutcome ==
  ASSUME TypeOK, NEW c \in Calls, PublishStep(c)
  PROVE  Outcome(c)
  <1> USE FailFacts, SucceedFacts, GotoPc DEF Outcome, ApiError
  <1>0. pc[c] # "idle" /\ req[c].vol \in Volumes /\ DiskOf(c) \in Disk
    <2>1. pc[c] # "idle"
      BY PublishShape DEF Shape, Running, Labels
    <2> QED BY <2>1, RequestFields DEF DiskOf, TypeOK, CloudTypeOK
  <1>1. CASE PublishFind(c)
    <2>1. CASE /\ seen' = [seen EXCEPT ![c] = InstanceId(req[c].vol)]
               /\ Goto(c, "vm") /\ UNCHANGED disk
      BY <1>1, <2>1 DEF PublishFind, Reading, TypeOK
    <2> QED BY <1>1, <2>1 DEF PublishFind
  <1>2. CASE PublishVmStatus(c)
    BY <1>2 DEF PublishVmStatus, Succeeding, Reading, Labels
  <1>3. CASE AttachVolume(c)
    <2>1. CASE CanAttach(req[c].vol, req[c].node) /\ AttachDisks(req[c].vol, req[c].node)
      <3>1. DiskOf(c).status = "AVAILABLE"
        BY <2>1 DEF CanAttach, DiskOf
      <3>2. Turns(req[c].vol, "ATTACHING", req[c].node, DiskOf(c).size, DiskOf(c).goal)
        BY <1>0, <2>1 DEF AttachDisks, Turns, DiskOf, Disk, TypeOK, CloudTypeOK
      <3>3. Return(c, "Internal", 0) => Refuses(c)
        BY ReturnFacts DEF Answers, Refuses
      <3>4. Refuses(c) \/ pc'[c] = "waitInUse"
        BY <1>3, <3>3 DEF AttachVolume, Fail
      <3> QED BY <1>3, <3>1, <3>2, <3>4 DEF AttachVolume, Attaching
    <2> QED BY <1>3, <2>1 DEF AttachVolume
  <1>4. CASE AttachWait(c)
    BY <1>4, WaitFailsFacts DEF AttachWait, Reading, Labels
  <1>5. CASE PublishVerify(c)
    BY <1>5 DEF PublishVerify, Succeeding
  <1> QED BY <1>1, <1>2, <1>3, <1>4, <1>5 DEF PublishStep

LEMMA UnpublishOutcome ==
  ASSUME TypeOK, NEW c \in Calls, UnpublishStep(c)
  PROVE  Outcome(c)
  <1> USE FailFacts, SucceedFacts, GotoPc DEF Outcome, ApiError
  <1>0. pc[c] # "idle" /\ req[c].vol \in Volumes /\ DiskOf(c) \in Disk
    <2>1. pc[c] # "idle"
      BY UnpublishShape DEF Shape, Running, Labels
    <2> QED BY <2>1, RequestFields DEF DiskOf, TypeOK, CloudTypeOK
  <1>1. CASE UnpublishFind(c)
    BY <1>1 DEF UnpublishFind, At, Succeeding, Reading, Labels, Exists, DiskOf
  <1>2. CASE DetachVolume(c)
    <2>1. CASE CanDetach(req[c].vol) /\ DetachDisks(req[c].vol)
      <3>1. DiskOf(c).status = "IN_USE"
        BY <2>1 DEF CanDetach, DiskOf
      <3>2. Turns(req[c].vol, "DETACHING", DiskOf(c).vm, DiskOf(c).size, DiskOf(c).goal)
        BY <1>0, <2>1 DEF DetachDisks, Turns, DiskOf, Disk, TypeOK, CloudTypeOK
      <3>3. Return(c, "Internal", 0) => Refuses(c)
        BY ReturnFacts DEF Answers, Refuses
      <3>4. Refuses(c) \/ pc'[c] = "waitAvailable"
        BY <1>2, <3>3 DEF DetachVolume, Fail
      <3> QED BY <1>2, <3>1, <3>2, <3>4 DEF DetachVolume, Detaching
    <2> QED BY <1>2, <2>1 DEF DetachVolume
  <1>3. CASE DetachWait(c)
    BY <1>3, WaitFailsFacts DEF DetachWait, At, Succeeding, DiskReached, Wanted, DiskOf
  <1> QED BY <1>1, <1>2, <1>3 DEF UnpublishStep

LEMMA ExpandOutcome ==
  ASSUME TypeOK, NEW c \in Calls, ExpandStep(c)
  PROVE  Outcome(c)
  <1> USE FailFacts, GotoPc DEF Outcome, ApiError
  <1>0. pc[c] # "idle" /\ req[c].vol \in Volumes /\ DiskOf(c) \in Disk
    <2>1. pc[c] # "idle"
      BY ExpandShape DEF Shape, Running, Labels
    <2> QED BY <2>1, RequestFields DEF DiskOf, TypeOK, CloudTypeOK
  <1>1. CASE ExpandFind(c)
    BY <1>1, ReturnFacts DEF ExpandFind, Answers, Succeeding, Reading, Labels, DiskOf
  <1>2. CASE ResizeVolume(c)
    <2>1. CASE CanResize(req[c].vol, req[c].gib) /\ ResizeDisk(req[c].vol, req[c].gib)
      <3>1. DiskOf(c).status \in {"AVAILABLE", "IN_USE"} /\ req[c].gib > DiskOf(c).size
        BY <2>1 DEF CanResize, DiskOf
      <3>2. Turns(req[c].vol, "CHANGING", DiskOf(c).vm, DiskOf(c).size, req[c].gib)
        BY <1>0, <2>1 DEF ResizeDisk, Turns, DiskOf, Disk, TypeOK, CloudTypeOK
      <3>3. Return(c, "Internal", 0) => Refuses(c)
        BY ReturnFacts DEF Answers, Refuses
      <3>4. Refuses(c) \/ pc'[c] = "waitStable"
        BY <1>2, <3>3 DEF ResizeVolume, Fail
      <3> QED BY <1>2, <3>1, <3>2, <3>4 DEF ResizeVolume, Resizing
    <2> QED BY <1>2, <2>1 DEF ResizeVolume
  <1>3. CASE ResizeWait(c)
    BY <1>3, ReturnFacts, WaitFailsFacts
       DEF ResizeWait, Answers, Succeeding, DiskReached, Wanted, DiskOf
  <1> QED BY <1>1, <1>2, <1>3 DEF ExpandStep

LEMMA DeleteOutcome ==
  ASSUME TypeOK, NEW c \in Calls, DeleteStep(c)
  PROVE  Outcome(c)
  <1> USE FailFacts, SucceedFacts, GotoPc DEF Outcome, ApiError
  <1>0. pc[c] # "idle" /\ req[c].vol \in Volumes /\ DiskOf(c) \in Disk
    <2>1. pc[c] # "idle"
      BY DeleteShape DEF Shape, Running, Labels
    <2> QED BY <2>1, RequestFields DEF DiskOf, TypeOK, CloudTypeOK
  <1>1. CASE DeleteFind(c)
    BY <1>1 DEF DeleteFind, At, Succeeding, Reading, Labels, Exists, DiskOf
  <1>2. CASE DeleteRelease(c)
    <2>1. CASE CanRelease(req[c].vol) /\ ReleaseDisk(req[c].vol)
      <3>1. DiskOf(c).status \in {"AVAILABLE", "RECYCLED"}
        BY <2>1 DEF CanRelease, DiskOf
      <3>2. Turns(req[c].vol, "DELETING", DiskOf(c).vm, DiskOf(c).size, DiskOf(c).goal)
        BY <1>0, <2>1 DEF ReleaseDisk, Turns, DiskOf, Disk, TypeOK, CloudTypeOK
      <3>3. Return(c, "Internal", 0) => Refuses(c)
        BY ReturnFacts DEF Answers, Refuses
      <3>4. Refuses(c) \/ pc'[c] \in {"waitReleased", "waitDeleted"}
        BY <1>2, <2>1, <3>1, <3>3 DEF DeleteRelease, Fail, Exists, DiskOf
      <3> QED BY <1>2, <3>1, <3>2, <3>4 DEF DeleteRelease, Releasing
    <2> QED BY <1>2, <2>1 DEF DeleteRelease, At, Succeeding, Exists, DiskOf
  <1>3. CASE DeleteWaitReleased(c)
    BY <1>3 DEF DeleteWaitReleased, At, Succeeding, Reading, Labels, Exists, DiskOf
  <1>4. CASE DeleteWaitDeleted(c)
    BY <1>4, WaitFailsFacts DEF DeleteWaitDeleted, At, Succeeding, DiskReached, Wanted, DiskOf
  <1> QED BY <1>1, <1>2, <1>3, <1>4 DEF DeleteStep

LEMMA HandlerOutcome ==
  ASSUME TypeOK, NEW c \in Calls, Handler(c)
  PROVE  Outcome(c)
  BY PublishOutcome, UnpublishOutcome, ExpandOutcome, DeleteOutcome DEF Handler

LEMMA OthersKept ==
  ASSUME TypeOK, NEW v \in Volumes, NEW n, NEW gib,
         \/ UNCHANGED disk
         \/ AttachDisks(v, n) \/ DetachDisks(v) \/ ResizeDisk(v, gib) \/ ReleaseDisk(v)
  PROVE  Others(v)
  BY DEF AttachDisks, DetachDisks, ResizeDisk, ReleaseDisk, Others, TypeOK, CloudTypeOK

LEMMA HandlerAlone ==
  ASSUME TypeOK, NEW c \in Calls, Handler(c)
  PROVE  Alone(c)
  <1> DEFINE v == req[c].vol
  <1>1. Running(c) /\ Frame /\ v \in Volumes
    BY HandlerShape, RequestFields DEF Shape, Running, Labels
  <1>2. \A d \in Calls \ {c} : pc'[d] = pc[d] /\ ret'[d] = ret[d]
    BY HandlerShape DEF Shape, Returns, Moves, TypeOK
  <1>3. /\ seen' = seen \/ \E n : seen' = [seen EXCEPT ![c] = n]
        /\ \/ UNCHANGED disk
           \/ AttachDisks(v, req[c].node) \/ DetachDisks(v)
           \/ ResizeDisk(v, req[c].gib) \/ ReleaseDisk(v)
    <2> HIDE DEF v
    <2> USE DEF WaitFails, ApiError, Fail, Succeed, Return, localVars
    <2>1. CASE PublishStep(c)
      <3>1. CASE PublishFind(c)
        BY <3>1 DEF PublishFind
      <3>2. CASE PublishVmStatus(c)
        BY <3>2 DEF PublishVmStatus
      <3>3. CASE AttachVolume(c)
        BY <3>3 DEF AttachVolume, v
      <3>4. CASE AttachWait(c) \/ PublishVerify(c)
        BY <3>4 DEF AttachWait, PublishVerify
      <3> QED BY <2>1, <3>1, <3>2, <3>3, <3>4 DEF PublishStep
    <2>2. CASE UnpublishStep(c)
      <3>1. CASE UnpublishFind(c) \/ DetachWait(c)
        BY <3>1 DEF UnpublishFind, DetachWait
      <3>2. CASE DetachVolume(c)
        BY <3>2 DEF DetachVolume, v
      <3> QED BY <2>2, <3>1, <3>2 DEF UnpublishStep
    <2>3. CASE ExpandStep(c)
      <3>1. CASE ExpandFind(c) \/ ResizeWait(c)
        BY <3>1 DEF ExpandFind, ResizeWait
      <3>2. CASE ResizeVolume(c)
        BY <3>2 DEF ResizeVolume, v
      <3> QED BY <2>3, <3>1, <3>2 DEF ExpandStep
    <2>4. CASE DeleteStep(c)
      <3>1. CASE DeleteFind(c) \/ DeleteWaitDeleted(c)
        BY <3>1 DEF DeleteFind, DeleteWaitDeleted
      <3>2. CASE DeleteWaitReleased(c)
        BY <3>2 DEF DeleteWaitReleased
      <3>3. CASE DeleteRelease(c)
        BY <3>3 DEF DeleteRelease, v
      <3> QED BY <2>4, <3>1, <3>2, <3>3 DEF DeleteStep
    <2> QED BY <2>1, <2>2, <2>3, <2>4 DEF Handler
  <1>4. Others(v)
    BY <1>1, <1>3, OthersKept
  <1>5. \A d \in Calls \ {c} : seen'[d] = seen[d]
    BY <1>3 DEF TypeOK
  <1> QED BY <1>1, <1>2, <1>4, <1>5 DEF Alone

-----------------------------------------------------------------------------
(* What a step does to one disk v.                                         *)

\* The service ends an operation, empties or restores, or drops an instance.
ServiceTurns(v) ==
  LET d == disk[v] IN
  \/ d.status = "ATTACHING" /\ Turns(v, "IN_USE", d.vm, d.size, d.goal)
  \/ d.status = "DETACHING" /\ Turns(v, "AVAILABLE", NoVm, d.size, d.goal)
  \/ d.status = "CHANGING" /\ Turns(v, Rest(v), d.vm, d.goal, d.goal)
  \/ d.status \in {"DELETING", "RECYCLED"} /\ Turns(v, "GONE", d.vm, d.size, d.goal)
  \/ d.status = "DELETING" /\ Turns(v, "RECYCLED", d.vm, d.size, d.goal)
  \/ d.status = "RECYCLED" /\ Turns(v, "AVAILABLE", d.vm, d.size, d.goal)
  \/ /\ d.status = "IN_USE" /\ d.vm \in Nodes /\ vmstate'[d.vm] = "ABSENT"
     /\ Turns(v, "AVAILABLE", NoVm, d.size, d.goal)

\* The service gives up an operation, when it may.
GivesBack(v) ==
  LET d == disk[v] IN
  /\ Rollback
  /\ \/ d.status = "ATTACHING" /\ Turns(v, "AVAILABLE", NoVm, d.size, d.goal)
     \/ /\ d.status \in {"DETACHING", "CHANGING"}
        /\ Turns(v, Rest(v), d.vm, d.size, d.goal)

Accepted(c) == Attaching(c) \/ Detaching(c) \/ Resizing(c) \/ Releasing(c)

DiskStep(v) ==
  \/ disk'[v] = disk[v]
  \/ ServiceTurns(v)
  \/ GivesBack(v)
  \/ \E c \in Calls : Running(c) /\ req[c].vol = v /\ Accepted(c)

LEMMA CompletesDisk ==
  ASSUME TypeOK, NEW w \in Volumes, Completes(w), NEW v \in Volumes
  PROVE  disk'[v] = disk[v] \/ ServiceTurns(v)
  <1> USE DEF ServiceTurns, Turns, TypeOK, CloudTypeOK
  <1>0. disk[v] \in Disk
    OBVIOUS
  <1>1. CASE AttachDone(w)
    BY <1>1 DEF AttachDone, Disk
  <1>2. CASE DetachDone(w)
    BY <1>2 DEF DetachDone, Disk
  <1>3. CASE ResizeDone(w)
    BY <1>3 DEF ResizeDone, Disk
  <1>4. CASE ReleaseDone(w)
    <2>1. disk[w].after \in {"RECYCLED", "GONE"}
      BY DEF Disk
    <2> QED BY <1>4, <2>1 DEF ReleaseDone, Disk
  <1> QED BY <1>1, <1>2, <1>3, <1>4 DEF Completes

LEMMA DisturbsDisk ==
  ASSUME TypeOK, Disturbs, NEW v \in Volumes
  PROVE  disk'[v] = disk[v] \/ ServiceTurns(v) \/ GivesBack(v)
  <1> USE DEF Turns, TypeOK, CloudTypeOK
  <1>1. ASSUME NEW w \in Volumes, RecycleExpires(w)
        PROVE  disk'[v] = disk[v] \/ ServiceTurns(v)
    BY <1>1 DEF RecycleExpires, ServiceTurns, Disk
  <1>2. ASSUME NEW w \in Volumes, RecycleRestore(w)
        PROVE  disk'[v] = disk[v] \/ ServiceTurns(v)
    BY <1>2 DEF RecycleRestore, ServiceTurns, Disk
  <1>3. ASSUME NEW w \in Volumes, RolledBack(w)
        PROVE  disk'[v] = disk[v] \/ GivesBack(v)
    <2>1. CASE /\ disk' = [disk EXCEPT ![w].status = "AVAILABLE", ![w].vm = NoVm]
               /\ disk[w].status = "ATTACHING"
      BY <1>3, <2>1 DEF RolledBack, GivesBack, Disk
    <2>2. CASE /\ disk' = [disk EXCEPT ![w].status = Rest(w)]
               /\ disk[w].status \in {"DETACHING", "CHANGING"}
      BY <1>3, <2>2 DEF RolledBack, GivesBack, Disk
    <2> QED BY <1>3, <2>1, <2>2 DEF RolledBack
  <1>4. ASSUME NEW n \in Nodes, VmStops(n) \/ VmStarts(n)
        PROVE  disk'[v] = disk[v]
    BY <1>4 DEF VmStops, VmStarts
  <1>5. ASSUME NEW n \in Nodes, VmReleased(n)
        PROVE  disk'[v] = disk[v] \/ ServiceTurns(v)
    <2>1. disk'[v] = IF disk[v].vm = n
                     THEN [disk[v] EXCEPT !.status = "AVAILABLE", !.vm = NoVm]
                     ELSE disk[v]
      BY <1>5, Zenon DEF VmReleased
    <2>2. disk[v] \in Disk
      OBVIOUS
    <2>3. disk[v].vm = n => disk[v].status = "IN_USE" /\ vmstate'[n] = "ABSENT"
      BY <1>5 DEF VmReleased
    <2> QED BY <2>1, <2>2, <2>3 DEF ServiceTurns, Disk
  <1> QED BY <1>1, <1>2, <1>3, <1>4, <1>5 DEF Disturbs

LEMMA HandlerDisk ==
  ASSUME TypeOK, NEW c \in Calls, Handler(c), NEW v \in Volumes
  PROVE  DiskStep(v)
  BY HandlerOutcome, HandlerAlone
     DEF Outcome, Alone, Others, Reading, Succeeding, Failing, DiskStep, Accepted

LEMMA NextDisk ==
  ASSUME TypeOK, [Next]_vars, NEW v \in Volumes
  PROVE  DiskStep(v)
  <1>1. ASSUME NEW c \in Calls, Handler(c) PROVE DiskStep(v)
    BY <1>1, HandlerDisk
  <1>2. ASSUME NEW w \in Volumes, CloudCompletes(w) PROVE DiskStep(v)
    BY <1>2, CompletesDisk DEF CloudCompletes, DiskStep
  <1>3. CASE CloudDisturbs
    BY <1>3, DisturbsDisk DEF CloudDisturbs, DiskStep
  <1>4. CASE UNCHANGED disk
    BY <1>4 DEF DiskStep
  <1>5. ASSUME NEW c \in Calls, Rpc(c) PROVE UNCHANGED disk
    BY <1>5, RpcReceives DEF Receive, cloudVars
  <1>6. \/ UNCHANGED disk \/ CloudDisturbs
        \/ \E c \in Calls : Rpc(c) \/ Handler(c)
        \/ \E w \in Volumes : CloudCompletes(w)
    BY DEF Next, Answer, Orchestrator, WantAttached, WantDetached, WantDeleted,
           Trouble, GiveUp, LeaderMoves, Crash, vars, cloudVars
  <1> QED BY <1>1, <1>2, <1>3, <1>4, <1>5, <1>6

-----------------------------------------------------------------------------
(* What a step does to one call c.                                         *)

\* The call goes on as it was; at most nobody waits for it any more.
Untouched(c) ==
  /\ pc'[c] = pc[c] /\ req'[c] = req[c] /\ ret'[c] = ret[c] /\ seen'[c] = seen[c]
  /\ open'[c] => open[c]

Ends(c) == pc'[c] = "idle" /\ ~open'[c]

\* What the sidecars asked for when they send this request.
Asked(q) ==
  \/ q.op = "Publish" /\ q.node \in Nodes /\ va[q.vol][q.node] = "attaching"
  \/ q.op = "Unpublish" /\ q.node \in Nodes /\ va[q.vol][q.node] = "detaching"
  \/ q.op = "Expand" /\ q.gib > cap[q.vol]
  \/ q.op = "Delete" /\ pv[q.vol] = "deleting"

Starts(c) ==
  /\ pc[c] = "idle"
  /\ pc'[c] = "find" \/ Refuses(c)
  /\ req'[c].vol \in Volumes
  /\ ~Waiting(SidecarOf(req'[c].op), req'[c].vol)
  /\ Asked(req'[c])
  /\ UNCHANGED <<disk, vmstate, va, pv, cap>>
  /\ \A d \in Calls \ {c} : Untouched(d)

Works(c) ==
  /\ Handler(c)
  /\ Outcome(c) /\ Alone(c)
  /\ req'[c] = req[c]
  /\ open'[c] <=> open[c]

CallStep(c) == Untouched(c) \/ Ends(c) \/ Starts(c) \/ Works(c)

LEMMA ReceiveStarts ==
  ASSUME TypeOK, NEW c \in Calls, NEW op, NEW v \in Volumes, NEW n, NEW gib,
         Receive(c, op, v, n, gib),
         \/ op = "Publish" /\ n \in Nodes /\ va[v][n] = "attaching"
         \/ op = "Unpublish" /\ n \in Nodes /\ va[v][n] = "detaching"
         \/ op = "Expand" /\ gib > cap[v]
         \/ op = "Delete" /\ pv[v] = "deleting"
  PROVE  Starts(c)
  <1> DEFINE q == [op |-> op, vol |-> v, node |-> n, gib |-> gib,
                   rep |-> leader[SidecarOf(op)]]
  <1>1. req'[c] = q
    BY DEF Receive, TypeOK
  <1>2. Asked(q) /\ q.op = op /\ q.vol = v
    BY DEF Asked
  <1>3. pc[c] = "idle" /\ (pc'[c] = "find" \/ Refuses(c)) /\ ~Waiting(SidecarOf(op), v)
    BY DEF Receive, Refuses, TypeOK
  <1>4. UNCHANGED <<disk, vmstate, va, pv, cap>>
    BY DEF Receive, cloudVars, coVars
  <1>5. \A d \in Calls \ {c} :
          pc'[d] = pc[d] /\ req'[d] = req[d] /\ ret'[d] = ret[d] /\ seen'[d] = seen[d]
    BY DEF Receive, localVars, TypeOK
  <1>6. \A d \in Calls \ {c} : open'[d] => open[d]
    BY Zenon DEF Receive, TypeOK
  <1> HIDE DEF q
  <1> QED BY <1>1, <1>2, <1>3, <1>4, <1>5, <1>6 DEF Starts, Untouched

LEMMA RpcStarts ==
  ASSUME TypeOK, NEW c \in Calls, Rpc(c)
  PROVE  Starts(c)
  <1>1. CASE ControllerPublishVolume(c)
    BY <1>1, ReceiveStarts DEF ControllerPublishVolume
  <1>2. CASE ControllerUnpublishVolume(c)
    BY <1>2, ReceiveStarts DEF ControllerUnpublishVolume
  <1>3. CASE ControllerExpandVolume(c)
    BY <1>3, ReceiveStarts DEF ControllerExpandVolume
  <1>4. CASE DeleteVolume(c)
    BY <1>4, ReceiveStarts DEF DeleteVolume
  <1> QED BY <1>1, <1>2, <1>3, <1>4 DEF Rpc

LEMMA HandlerCall ==
  ASSUME TypeOK, NEW d \in Calls, Handler(d), NEW c \in Calls
  PROVE  CallStep(c)
  <1>1. Outcome(d) /\ Alone(d) /\ req' = req /\ open' = open
    BY HandlerOutcome, HandlerAlone DEF Alone, Frame
  <1>2. CASE c = d
    BY <1>1, <1>2 DEF CallStep, Works
  <1>3. CASE c # d
    BY <1>1, <1>3 DEF CallStep, Untouched, Alone
  <1> QED BY <1>2, <1>3

LEMMA NextCall ==
  ASSUME TypeOK, [Next]_vars, NEW c \in Calls
  PROVE  CallStep(c)
  <1>1. ASSUME NEW d \in Calls, Rpc(d) PROVE CallStep(c)
    BY <1>1, RpcStarts DEF CallStep, Starts
  <1>2. ASSUME NEW d \in Calls, Handler(d) PROVE CallStep(c)
    BY <1>2, HandlerCall
  <1>3. ASSUME NEW d \in Calls, Answer(d) PROVE CallStep(c)
    <2>1. /\ pc'[c] = IF c = d THEN "idle" ELSE pc[c]
          /\ c # d => req'[c] = req[c] /\ ret'[c] = ret[c] /\ seen'[c] = seen[c]
      BY <1>3 DEF Answer, localVars, TypeOK
    <2>2. open'[c] = IF c = d THEN FALSE ELSE open[c]
      BY <1>3, Zenon DEF Answer, TypeOK
    <2> QED BY <2>1, <2>2 DEF CallStep, Untouched, Ends
  <1>4. ASSUME NEW r \in Replicas, Crash(r) PROVE CallStep(c)
    <2> DEFINE dead == {d \in Calls : pc[d] # "idle" /\ req[d].rep = r}
    <2>1. /\ pc' = [d \in Calls |-> IF d \in dead THEN "idle" ELSE pc[d]]
          /\ req' = [d \in Calls |-> IF d \in dead THEN NoReq ELSE req[d]]
          /\ ret' = [d \in Calls |-> IF d \in dead THEN NoRet ELSE ret[d]]
          /\ seen' = [d \in Calls |-> IF d \in dead THEN NoVm ELSE seen[d]]
          /\ open' = [d \in Calls |-> open[d] /\ d \notin dead]
      BY <1>4 DEF Crash
    <2> HIDE DEF dead
    <2>2. CASE c \in dead
      BY <2>1, <2>2 DEF CallStep, Ends
    <2>3. CASE c \notin dead
      BY <2>1, <2>3 DEF CallStep, Untouched
    <2> QED BY <2>2, <2>3
  <1>5. ASSUME NEW d \in Calls, GiveUp(d) PROVE CallStep(c)
    <2>1. open'[c] => open[c]
      BY <1>5, Zenon DEF GiveUp, TypeOK
    <2> QED BY <1>5, <2>1 DEF GiveUp, callVars, localVars, CallStep, Untouched
  <1>6. ASSUME NEW s \in Sidecars, NEW r \in Replicas, LeaderMoves(s, r)
        PROVE  CallStep(c)
    <2>1. open'[c] => open[c]
      BY <1>6, Zenon DEF LeaderMoves, TypeOK
    <2> QED BY <1>6, <2>1 DEF LeaderMoves, callVars, localVars, CallStep, Untouched
  <1>7. CASE UNCHANGED <<pc, req, ret, seen, open>>
    BY <1>7 DEF CallStep, Untouched
  <1>8. \/ UNCHANGED <<pc, req, ret, seen, open>>
        \/ \E d \in Calls : Rpc(d) \/ Handler(d) \/ Answer(d) \/ GiveUp(d)
        \/ \E r \in Replicas : Crash(r)
        \/ \E s \in Sidecars, r \in Replicas : LeaderMoves(s, r)
    BY DEF Next, CloudCompletes, CloudDisturbs, Orchestrator, WantAttached,
           WantDetached, WantDeleted, Trouble, vars, callVars, localVars
  <1> QED BY <1>1, <1>2, <1>3, <1>4, <1>5, <1>6, <1>7, <1>8

-----------------------------------------------------------------------------
(* What a step does to the records of the sidecars.                        *)

\* The sidecar takes the answer of d for true.
Believed(d, op) ==
  /\ pc[d] = "answer" /\ open[d] /\ ret[d].code = "OK"
  /\ req[d].op = op
  /\ pc'[d] = "idle"
  /\ UNCHANGED <<disk, vmstate>>

VaStep(v, n) ==
  \/ va'[v][n] = va[v][n]
  \/ va[v][n] = "none" /\ va'[v][n] = "attaching" /\ UNCHANGED <<disk, vmstate>>
  \/ va[v][n] \in {"attaching", "attached"} /\ va'[v][n] = "detaching"
  \/ /\ va[v][n] = "attaching" /\ va'[v][n] = "attached"
     /\ \E d \in Calls : Believed(d, "Publish") /\ req[d].vol = v /\ req[d].node = n
  \/ /\ va'[v][n] = "none"
     /\ \E d \in Calls : Believed(d, "Unpublish") /\ req[d].vol = v /\ req[d].node = n

PvStep(v) ==
  \/ pv'[v] = pv[v]
  \/ pv[v] = "bound" /\ pv'[v] = "deleting"
  \/ /\ pv'[v] = "deleted"
     /\ \E d \in Calls : Believed(d, "Delete") /\ req[d].vol = v

CapStep(v) ==
  \/ cap'[v] = cap[v]
  \/ \E d \in Calls : Believed(d, "Expand") /\ req[d].vol = v /\ cap'[v] = ret[d].gib

LEMMA AnswerBelieved ==
  ASSUME TypeOK, NEW d \in Calls, Answer(d)
  PROVE  \/ UNCHANGED coVars
         \/ CoLearns(req[d], ret[d].gib) /\ Believed(d, req[d].op)
  <1>1. pc'[d] = "idle" /\ UNCHANGED <<disk, vmstate>> /\ pc[d] = "answer"
    BY DEF Answer, cloudVars, TypeOK
  <1> QED BY <1>1 DEF Answer, Believed

LEMMA NextCo ==
  ASSUME TypeOK, [Next]_vars
  PROVE  \/ UNCHANGED coVars
         \/ \E d \in Calls : CoLearns(req[d], ret[d].gib) /\ Believed(d, req[d].op)
         \/ Orchestrator
  <1>1. ASSUME NEW c \in Calls, Rpc(c) PROVE UNCHANGED coVars
    BY <1>1, RpcReceives DEF Receive
  <1>2. ASSUME NEW c \in Calls, Handler(c) PROVE UNCHANGED coVars
    BY <1>2, HandlerShape DEF Shape, Frame
  <1>3. \/ UNCHANGED coVars \/ Orchestrator
        \/ \E d \in Calls : Rpc(d) \/ Handler(d) \/ Answer(d)
    BY DEF Next, CloudCompletes, CloudDisturbs, Trouble, GiveUp, LeaderMoves, Crash, vars
  <1> QED BY <1>1, <1>2, <1>3, AnswerBelieved

LEMMA NextVa ==
  ASSUME TypeOK, [Next]_vars, NEW v \in Volumes, NEW n \in Nodes
  PROVE  VaStep(v, n)
  <1> USE DEF VaStep
  <1>0. va \in [Volumes -> [Nodes -> {"none", "attaching", "attached", "detaching"}]]
    BY DEF TypeOK
  <1>1. CASE UNCHANGED coVars
    BY <1>1 DEF coVars
  <1>2. ASSUME NEW d \in Calls, CoLearns(req[d], ret[d].gib), Believed(d, req[d].op)
        PROVE  VaStep(v, n)
    <2>1. req[d].vol \in Volumes /\ req[d].op \in Ops
      BY <1>2, RequestFields DEF Believed
    <2>2. CASE req[d].op = "Publish"
      BY <1>0, <1>2, <2>1, <2>2 DEF CoLearns
    <2>3. CASE req[d].op = "Unpublish"
      BY <1>0, <1>2, <2>1, <2>3 DEF CoLearns
    <2>4. CASE req[d].op \in {"Expand", "Delete"}
      BY <1>2, <2>4 DEF CoLearns
    <2> QED BY <2>1, <2>2, <2>3, <2>4 DEF Ops
  <1>3. ASSUME NEW w \in Volumes, NEW m \in Nodes, WantAttached(w, m) PROVE VaStep(v, n)
    BY <1>0, <1>3 DEF WantAttached, cloudVars
  <1>4. ASSUME NEW w \in Volumes, NEW m \in Nodes, WantDetached(w, m) PROVE VaStep(v, n)
    BY <1>0, <1>4 DEF WantDetached
  <1>5. ASSUME NEW w \in Volumes, WantDeleted(w) PROVE VaStep(v, n)
    BY <1>5 DEF WantDeleted
  <1> HIDE DEF VaStep
  <1> QED BY <1>1, <1>2, <1>3, <1>4, <1>5, NextCo DEF Orchestrator

LEMMA NextPv ==
  ASSUME TypeOK, [Next]_vars, NEW v \in Volumes
  PROVE  PvStep(v)
  <1> USE DEF PvStep
  <1>0. pv \in [Volumes -> {"bound", "deleting", "deleted"}]
    BY DEF TypeOK
  <1>1. CASE UNCHANGED coVars
    BY <1>1 DEF coVars
  <1>2. ASSUME NEW d \in Calls, CoLearns(req[d], ret[d].gib), Believed(d, req[d].op)
        PROVE  PvStep(v)
    BY <1>0, <1>2 DEF CoLearns
  <1>3. ASSUME NEW w \in Volumes, NEW m \in Nodes, WantAttached(w, m) \/ WantDetached(w, m)
        PROVE PvStep(v)
    BY <1>3 DEF WantAttached, WantDetached
  <1>4. ASSUME NEW w \in Volumes, WantDeleted(w) PROVE PvStep(v)
    BY <1>0, <1>4 DEF WantDeleted
  <1> HIDE DEF PvStep
  <1> QED BY <1>1, <1>2, <1>3, <1>4, NextCo DEF Orchestrator

LEMMA NextCap ==
  ASSUME TypeOK, [Next]_vars, NEW v \in Volumes
  PROVE  CapStep(v)
  <1>1. CASE UNCHANGED cap
    BY <1>1 DEF CapStep
  <1>2. ASSUME NEW d \in Calls, CoLearns(req[d], ret[d].gib), Believed(d, req[d].op)
        PROVE  CapStep(v)
    BY <1>2 DEF CoLearns, CapStep, TypeOK
  <1>3. Orchestrator => UNCHANGED cap
    BY DEF Orchestrator, WantAttached, WantDetached, WantDeleted
  <1> QED BY <1>1, <1>2, <1>3, NextCo DEF coVars

\* Nothing brings a deleted instance back.
LEMMA NextVm ==
  ASSUME TypeOK, [Next]_vars, NEW n \in Nodes, vmstate'[n] # "ABSENT"
  PROVE  vmstate[n] # "ABSENT"
  <1>1. ASSUME NEW m \in Nodes, VmStops(m) \/ VmStarts(m) \/ VmReleased(m)
        PROVE  vmstate[n] # "ABSENT"
    BY <1>1 DEF VmStops, VmStarts, VmReleased, TypeOK, CloudTypeOK
  <1>2. ASSUME NEW c \in Calls, Rpc(c) PROVE UNCHANGED vmstate
    BY <1>2, RpcReceives DEF Receive, cloudVars
  <1>3. ASSUME NEW c \in Calls, Handler(c) PROVE UNCHANGED vmstate
    BY <1>3, HandlerShape DEF Shape, Frame
  <1>4. \/ UNCHANGED vmstate
        \/ \E c \in Calls : Rpc(c) \/ Handler(c)
        \/ \E m \in Nodes : VmStops(m) \/ VmStarts(m) \/ VmReleased(m)
    BY DEF Next, CloudCompletes, Completes, AttachDone, DetachDone, ResizeDone,
           ReleaseDone, CloudDisturbs, Disturbs, RecycleExpires, RecycleRestore,
           RolledBack, Answer, Orchestrator, WantAttached, WantDetached,
           WantDeleted, Trouble, GiveUp, LeaderMoves, Crash, vars, cloudVars
  <1> QED BY <1>1, <1>2, <1>3, <1>4

-----------------------------------------------------------------------------
(* A deleted volume is gone, whatever the number of replicas.  A disk that *)
(* is gone stays gone, so the answer can be as late as it likes.           *)

LEMMA GoneStays ==
  ASSUME TypeOK, [Next]_vars, NEW v \in Volumes, disk[v].status = "GONE"
  PROVE  disk'[v].status = "GONE"
  BY NextDisk DEF DiskStep, ServiceTurns, GivesBack, Accepted, Attaching,
                  Detaching, Resizing, Releasing, DiskOf

\* A DeleteVolume that is about to answer OK has seen the disk gone.
DeleteInv ==
  \A c \in Calls :
    At(c, "Delete", "answer") /\ ret[c].code = "OK" => DiskOf(c).status = "GONE"

LEMMA DeleteInvStep ==
  ASSUME TypeOK, DeleteInv, [Next]_vars
  PROVE  DeleteInv'
  <1> SUFFICES ASSUME NEW c \in Calls, At(c, "Delete", "answer")', ret'[c].code = "OK"
               PROVE  DiskOf(c)'.status = "GONE"
    BY DEF DeleteInv
  <1>1. CASE Untouched(c)
    <2>1. DiskOf(c).status = "GONE" /\ req[c].vol \in Volumes /\ req'[c] = req[c]
      BY <1>1, RequestFields DEF Untouched, At, DeleteInv
    <2> QED BY <2>1, GoneStays DEF DiskOf
  <1>2. CASE Works(c)
    <2>1. /\ req'[c] = req[c] /\ req[c].op = "Delete" /\ pc'[c] = "answer"
          /\ ~Refuses(c) /\ Outcome(c)
      BY <1>2 DEF Works, At, Refuses
    <2>2. Succeeding(c)
      BY <2>1 DEF Outcome, Attaching, Detaching, Resizing, Releasing, Reading,
                  Failing, At, Labels
    <2> QED BY <2>1, <2>2 DEF Succeeding, At, DiskOf
  <1>3. ~Ends(c) /\ ~Starts(c)
    BY DEF Ends, Starts, Refuses, At
  <1> QED BY <1>1, <1>2, <1>3, NextCall DEF CallStep

LEMMA DeletedStep ==
  ASSUME TypeOK, DeleteInv, DeletedMeansGone, [Next]_vars
  PROVE  DeletedMeansGone'
  <1> SUFFICES ASSUME NEW v \in Volumes, pv'[v] = "deleted"
               PROVE  disk'[v].status = "GONE"
    BY DEF DeletedMeansGone, Exists
  <1>1. CASE pv[v] = "deleted"
    BY <1>1, GoneStays DEF DeletedMeansGone, Exists
  <1>2. ASSUME NEW d \in Calls, Believed(d, "Delete"), req[d].vol = v
        PROVE  disk'[v].status = "GONE"
    BY <1>2 DEF Believed, DeleteInv, At, DiskOf
  <1> QED BY <1>1, <1>2, NextPv DEF PvStep

\* DeletedMeansGone holds in every reachable state, for any number of
\* replicas, with or without operations the service gives up: no interleaving
\* of two DeleteVolumes, restore from the recycle bin or late answer makes the
\* provisioner forget a disk that still exists.
THEOREM DeleteSafety == Spec => []DeletedMeansGone
  <1>1. Init => DeleteInv /\ DeletedMeansGone
    BY DEF Init, DeleteInv, DeletedMeansGone, At
  <1>2. TypeOK /\ DeleteInv /\ DeletedMeansGone /\ [Next]_vars
          => (DeleteInv /\ DeletedMeansGone)'
    BY DeleteInvStep, DeletedStep
  <1> QED BY <1>1, <1>2, TypeCorrect, PTL DEF Spec

-----------------------------------------------------------------------------
(* The capacity answered is one the disk has, whatever the number of       *)
(* replicas, provided the service completes the resizes it accepts.        *)
(* ControllerExpandVolume does not read the disk after its wait; it need   *)
(* not, because a resize accepted is the only one until it is complete.    *)

\* A resize under way makes the disk larger.
GrowInv ==
  \A v \in Volumes : disk[v].status = "CHANGING" => disk[v].goal > disk[v].size

\* What a handler waits for is done, or under way.
ResizeInv ==
  \A c \in Calls :
    pc[c] = "waitStable" =>
      \/ DiskOf(c).size >= req[c].gib
      \/ DiskOf(c).status = "CHANGING" /\ DiskOf(c).goal >= req[c].gib

ExpandInv ==
  \A c \in Calls :
    At(c, "Expand", "answer") /\ ret[c].code = "OK" =>
      req[c].gib <= ret[c].gib /\ ret[c].gib <= DiskOf(c).size

LEMMA SizesAreIntegers ==
  ASSUME TypeOK
  PROVE  /\ \A v \in Volumes : disk[v].size \in Int /\ disk[v].goal \in Int
         /\ \A c \in Calls : pc[c] # "idle" => req[c].gib \in Int
         /\ \A c \in Calls : ret[c].gib \in Int
         /\ \A v \in Volumes : cap[v] \in Int
  <1>1. \A v \in Volumes : disk[v].size \in Int /\ disk[v].goal \in Int
    BY CloudAssumption DEF TypeOK, CloudTypeOK, Disk
  <1>2. \A c \in Calls : pc[c] # "idle" => req[c].gib \in Int
    BY RequestFields, CloudAssumption
  <1>3. \A c \in Calls : ret[c].gib \in Int
    BY CloudAssumption DEF TypeOK, NoRet
  <1>4. \A v \in Volumes : cap[v] \in Int
    BY CloudAssumption DEF TypeOK
  <1> QED BY <1>1, <1>2, <1>3, <1>4

LEMMA SizeGrows ==
  ASSUME TypeOK, GrowInv, [Next]_vars, NEW v \in Volumes
  PROVE  disk'[v].size >= disk[v].size
  BY NextDisk, SizesAreIntegers
     DEF DiskStep, ServiceTurns, GivesBack, Turns, GrowInv, Accepted, Attaching,
         Detaching, Resizing, Releasing, DiskOf

LEMMA GrowStep ==
  ASSUME TypeOK, GrowInv, [Next]_vars
  PROVE  GrowInv'
  <1> SUFFICES ASSUME NEW v \in Volumes, disk'[v].status = "CHANGING"
               PROVE  disk'[v].goal > disk'[v].size
    BY DEF GrowInv
  <1> QED
    BY NextDisk, SizesAreIntegers
       DEF DiskStep, ServiceTurns, GivesBack, Turns, Rest, GrowInv, Accepted,
           Attaching, Detaching, Resizing, Releasing, DiskOf

\* A resize goes on, or it is complete.
LEMMA ResizeGoesOn ==
  ASSUME ~Rollback, TypeOK, [Next]_vars, NEW v \in Volumes,
         disk[v].status = "CHANGING"
  PROVE  \/ disk'[v].status = "CHANGING" /\ disk'[v].goal = disk[v].goal
         \/ disk'[v].size = disk[v].goal
  BY NextDisk
     DEF DiskStep, ServiceTurns, GivesBack, Turns, Accepted, Attaching,
         Detaching, Resizing, Releasing, DiskOf

LEMMA ResizeInvStep ==
  ASSUME ~Rollback, TypeOK, GrowInv, ResizeInv, [Next]_vars
  PROVE  ResizeInv'
  <1> SUFFICES ASSUME NEW c \in Calls, pc'[c] = "waitStable"
               PROVE  \/ DiskOf(c)'.size >= req'[c].gib
                      \/ DiskOf(c)'.status = "CHANGING" /\ DiskOf(c)'.goal >= req'[c].gib
    BY DEF ResizeInv
  <1>1. CASE Untouched(c)
    <2>1. /\ req'[c] = req[c] /\ req[c].vol \in Volumes /\ pc[c] = "waitStable"
          /\ req[c].gib \in Int
      BY <1>1, RequestFields, SizesAreIntegers DEF Untouched
    <2>2. CASE DiskOf(c).size >= req[c].gib
      <3>1. disk'[req[c].vol].size >= disk[req[c].vol].size
        BY <2>1, SizeGrows
      <3>2. disk'[req[c].vol].size \in Int /\ disk[req[c].vol].size \in Int
        BY <2>1, SizesAreIntegers, NextDisk
           DEF DiskStep, ServiceTurns, GivesBack, Turns, Accepted, Attaching,
               Detaching, Resizing, Releasing, DiskOf
      <3> QED BY <2>1, <2>2, <3>1, <3>2 DEF DiskOf
    <2>3. CASE DiskOf(c).status = "CHANGING" /\ DiskOf(c).goal >= req[c].gib
      BY <2>1, <2>3, ResizeGoesOn DEF DiskOf
    <2> QED BY <2>1, <2>2, <2>3 DEF ResizeInv
  <1>2. CASE Works(c)
    <2>1. Resizing(c) /\ req'[c] = req[c]
      BY <1>2 DEF Works, Outcome, Attaching, Detaching, Releasing, Reading,
                  Succeeding, Failing, Refuses
    <2>2. req[c].gib \in Int
      BY <2>1, SizesAreIntegers DEF Resizing, At
    <2> QED BY <2>1, <2>2 DEF Resizing, Turns, DiskOf
  <1>3. ~Ends(c) /\ ~Starts(c)
    BY DEF Ends, Starts, Refuses
  <1> QED BY <1>1, <1>2, <1>3, NextCall DEF CallStep

LEMMA ExpandInvStep ==
  ASSUME ~Rollback, TypeOK, GrowInv, ResizeInv, ExpandInv, [Next]_vars
  PROVE  ExpandInv'
  <1> SUFFICES ASSUME NEW c \in Calls, At(c, "Expand", "answer")', ret'[c].code = "OK"
               PROVE  req'[c].gib <= ret'[c].gib /\ ret'[c].gib <= DiskOf(c)'.size
    BY DEF ExpandInv
  <1>1. CASE Untouched(c)
    <2>1. /\ req'[c] = req[c] /\ req[c].vol \in Volumes /\ ret'[c] = ret[c]
          /\ req[c].gib <= ret[c].gib /\ ret[c].gib <= DiskOf(c).size
      BY <1>1, RequestFields DEF Untouched, At, ExpandInv
    <2>2. disk'[req[c].vol].size >= disk[req[c].vol].size
      BY <2>1, SizeGrows
    <2>3. disk'[req[c].vol].size \in Int /\ disk[req[c].vol].size \in Int
      BY <2>1, SizesAreIntegers, NextDisk
         DEF DiskStep, ServiceTurns, GivesBack, Turns, Accepted, Attaching,
             Detaching, Resizing, Releasing, DiskOf
    <2> QED BY <2>1, <2>2, <2>3, SizesAreIntegers DEF DiskOf
  <1>2. CASE Works(c)
    <2>1. /\ req'[c] = req[c] /\ req[c].op = "Expand" /\ pc'[c] = "answer"
          /\ ~Refuses(c) /\ Outcome(c) /\ pc[c] # "idle"
      BY <1>2 DEF Works, At, Refuses, Alone, Running, Labels
    <2>2. Succeeding(c)
      BY <2>1 DEF Outcome, Attaching, Detaching, Resizing, Releasing, Reading,
                  Failing, At, Labels
    <2>3. req[c].gib \in Int /\ DiskOf(c).size \in Int
      BY <2>1, SizesAreIntegers, RequestFields DEF DiskOf
    <2>4. CASE At(c, "Expand", "find")
      BY <2>1, <2>2, <2>3, <2>4 DEF Succeeding, At, DiskOf
    <2>5. CASE At(c, "Expand", "waitStable")
      <3>1. ret'[c].gib = req[c].gib /\ DiskOf(c).status \in {"AVAILABLE", "IN_USE"}
        BY <2>2, <2>5 DEF Succeeding, At
      <3>2. DiskOf(c).size >= req[c].gib
        BY <2>5, <3>1 DEF ResizeInv, At
      <3> QED BY <2>1, <2>2, <2>3, <3>1, <3>2 DEF Succeeding, DiskOf
    <2> QED BY <2>1, <2>2, <2>4, <2>5 DEF Succeeding, At
  <1>3. ~Ends(c) /\ ~Starts(c)
    BY DEF Ends, Starts, Refuses, At
  <1> QED BY <1>1, <1>2, <1>3, NextCall DEF CallStep

LEMMA CapacityStep ==
  ASSUME TypeOK, GrowInv, ExpandInv, CapacityIsReal, [Next]_vars
  PROVE  CapacityIsReal'
  <1> SUFFICES ASSUME NEW v \in Volumes PROVE cap'[v] <= disk'[v].size
    BY DEF CapacityIsReal
  <1>1. disk'[v].size >= disk[v].size
    BY SizeGrows
  <1>2. disk'[v].size \in Int /\ disk[v].size \in Int /\ cap[v] \in Int
    BY SizesAreIntegers, NextDisk
       DEF DiskStep, ServiceTurns, GivesBack, Turns, Accepted, Attaching,
           Detaching, Resizing, Releasing, DiskOf
  <1>3. CASE cap'[v] = cap[v]
    BY <1>1, <1>2, <1>3 DEF CapacityIsReal
  <1>4. ASSUME NEW d \in Calls, Believed(d, "Expand"), req[d].vol = v, cap'[v] = ret[d].gib
        PROVE  cap'[v] <= disk'[v].size
    BY <1>4 DEF Believed, ExpandInv, At, DiskOf
  <1> QED BY <1>3, <1>4, NextCap DEF CapStep

\* The invariant behind CapacityIsReal, which the refinement needs too.
CapacityInv == GrowInv /\ ResizeInv /\ ExpandInv /\ CapacityIsReal

LEMMA CapacityInvariant ==
  ASSUME ~Rollback
  PROVE  Spec => []CapacityInv
  <1>1. Init => CapacityInv
    BY DEF Init, CloudInit, CapacityInv, GrowInv, ResizeInv, ExpandInv, CapacityIsReal, At
  <1>2. TypeOK /\ CapacityInv /\ [Next]_vars => CapacityInv'
    BY GrowStep, ResizeInvStep, ExpandInvStep, CapacityStep DEF CapacityInv
  <1> QED BY <1>1, <1>2, TypeCorrect, PTL DEF Spec

\* CapacityIsReal holds in every reachable state, for any number of replicas,
\* when the service completes the resizes it accepts: although no handler
\* reads the size after its wait, no answer promises more than the disk has.
THEOREM ExpandSafety ==
  ASSUME ~Rollback
  PROVE  Spec => []CapacityIsReal
  <1>1. CapacityInv => CapacityIsReal
    BY DEF CapacityInv
  <1> QED BY <1>1, CapacityInvariant, PTL

-----------------------------------------------------------------------------
(* Attaching and detaching, with one replica.                              *)

\* DescribeDisks shows the instance of a disk also while it is being attached
\* or detached.
AllShown == ShownIn = {"ATTACHING", "DETACHING"}

AttachOps == {"Publish", "Unpublish"}

\* A call that may still change something: it runs, or its answer is awaited.
Live(c) == Running(c) \/ open[c]

FreeInv ==
  \A v \in Volumes :
    disk[v].status \in {"AVAILABLE", "DELETING", "RECYCLED", "GONE"} =>
      disk[v].vm = NoVm

OpenInv == \A c \in Calls : open[c] => pc[c] # "idle"

\* A sidecar awaits one answer per volume.
OneOpenInv ==
  \A c, d \in Calls :
    /\ open[c] /\ open[d] /\ req[c].vol = req[d].vol
    /\ SidecarOf(req[c].op) = SidecarOf(req[d].op)
    => c = d

\* What a live call was sent for has not been settled by another one.
VaInv ==
  \A c \in Calls :
    Live(c) =>
      /\ req[c].op = "Publish" =>
           va[req[c].vol][req[c].node] \in {"attaching", "detaching"}
      /\ req[c].op = "Unpublish" => va[req[c].vol][req[c].node] = "detaching"

\* An awaited OK is final: nobody else is at work on the attachment.
DoneInv ==
  \A c \in Calls :
    open[c] /\ pc[c] = "answer" /\ ret[c].code = "OK" /\ req[c].op \in AttachOps =>
      \A d \in Calls :
        Running(d) /\ req[d].vol = req[c].vol => req[d].op \notin AttachOps

\* An awaited OK of ControllerUnpublishVolume is true.
OffInv ==
  \A c \in Calls :
    open[c] /\ At(c, "Unpublish", "answer") /\ ret[c].code = "OK" =>
      DiskOf(c).vm # req[c].node

LEMMA ShownInstance ==
  ASSUME AllShown, NEW v
  PROVE  InstanceId(v) = disk[v].vm
  BY DEF AllShown, InstanceId

\* A disk gets to an instance only by an AttachDisks call.
LEMMA VmChange ==
  ASSUME TypeOK, [Next]_vars, NEW v \in Volumes
  PROVE  \/ disk'[v].vm \in {disk[v].vm, NoVm}
         \/ \E c \in Calls : /\ Running(c) /\ req[c].vol = v /\ Attaching(c)
                             /\ disk'[v].vm = req[c].node
  BY NextDisk
     DEF DiskStep, ServiceTurns, GivesBack, Turns, Accepted, Attaching,
         Detaching, Resizing, Releasing, DiskOf

LEMMA FreeStep ==
  ASSUME TypeOK, FreeInv, [Next]_vars
  PROVE  FreeInv'
  <1> SUFFICES ASSUME NEW v \in Volumes,
                      disk'[v].status \in {"AVAILABLE", "DELETING", "RECYCLED", "GONE"}
               PROVE  disk'[v].vm = NoVm
    BY DEF FreeInv
  <1> QED
    BY NextDisk
       DEF DiskStep, ServiceTurns, GivesBack, Turns, Rest, Bound, FreeInv,
           Accepted, Attaching, Detaching, Resizing, Releasing, DiskOf

\* A working handler does not become idle, and its answer is awaited as before.
LEMMA WorksOn ==
  ASSUME NEW c \in Calls, Works(c)
  PROVE  /\ Running(c) /\ pc'[c] # "idle" /\ req'[c] = req[c]
         /\ open'[c] <=> open[c]
  <1>1. pc'[c] \in Labels \union {"answer"}
    BY DEF Works, Outcome, Attaching, Detaching, Resizing, Releasing, Reading,
           Succeeding, Failing, Refuses, Labels
  <1> QED BY <1>1 DEF Works, Alone, Labels

LEMMA OpenStep ==
  ASSUME TypeOK, OpenInv, [Next]_vars
  PROVE  OpenInv'
  <1> SUFFICES ASSUME NEW c \in Calls, open'[c] PROVE pc'[c] # "idle"
    BY DEF OpenInv
  <1>1. CASE Untouched(c)
    BY <1>1 DEF Untouched, OpenInv
  <1>2. CASE Works(c)
    BY <1>2, WorksOn
  <1>3. CASE Starts(c)
    BY <1>3 DEF Starts, Refuses
  <1> QED BY <1>1, <1>2, <1>3, NextCall DEF CallStep, Ends

LEMMA OneOpenStep ==
  ASSUME TypeOK, OpenInv, OneOpenInv, [Next]_vars
  PROVE  OneOpenInv'
  <1> SUFFICES ASSUME NEW c \in Calls, NEW d \in Calls, open'[c], open'[d],
                      req'[c].vol = req'[d].vol,
                      SidecarOf(req'[c].op) = SidecarOf(req'[d].op)
               PROVE  c = d
    BY DEF OneOpenInv
  <1>1. ASSUME NEW x \in Calls, NEW y \in Calls, x # y, Starts(x), open'[y],
               req'[x].vol = req'[y].vol,
               SidecarOf(req'[x].op) = SidecarOf(req'[y].op)
        PROVE  FALSE
    <2>1. open[y] /\ req'[y] = req[y]
      BY <1>1 DEF Starts, Untouched
    <2>2. Waiting(SidecarOf(req'[x].op), req'[x].vol)
      BY <1>1, <2>1 DEF Waiting
    <2> QED BY <1>1, <2>2 DEF Starts
  <1>2. CASE ~Starts(c) /\ ~Starts(d)
    <2>1. \A x \in {c, d} : open[x] /\ req'[x] = req[x]
      BY <1>2, NextCall, WorksOn DEF CallStep, Untouched, Ends
    <2> QED BY <2>1 DEF OneOpenInv
  <1> QED BY <1>1, <1>2

\* An answer believed about an attachment leaves no live call for its volume.
LEMMA BelievedAlone ==
  ASSUME OneOpenInv, DoneInv, NEW d \in Calls, NEW op \in AttachOps, Believed(d, op),
         NEW c \in Calls, Live(c), req[c].op \in AttachOps, req[c].vol = req[d].vol
  PROVE  c = d
  <1>1. SidecarOf(req[c].op) = SidecarOf(req[d].op)
    BY DEF Believed, SidecarOf, AttachOps
  <1>2. open[c] => c = d
    BY <1>1 DEF Believed, OneOpenInv
  <1>3. ~Running(c)
    BY DEF Believed, DoneInv
  <1> QED BY <1>2, <1>3 DEF Live

LEMMA VaInvStep ==
  ASSUME TypeOK, NodeInv, OpenInv, OneOpenInv, DoneInv, VaInv, [Next]_vars
  PROVE  VaInv'
  <1> SUFFICES ASSUME NEW c \in Calls, Live(c)'
               PROVE  /\ req'[c].op = "Publish" =>
                           va'[req'[c].vol][req'[c].node] \in {"attaching", "detaching"}
                      /\ req'[c].op = "Unpublish" =>
                           va'[req'[c].vol][req'[c].node] = "detaching"
    BY DEF VaInv
  <1>1. CASE Untouched(c)
    <2> SUFFICES ASSUME req[c].op \in AttachOps
                 PROVE  /\ req[c].op = "Publish" =>
                           va'[req[c].vol][req[c].node] \in {"attaching", "detaching"}
                        /\ req[c].op = "Unpublish" =>
                           va'[req[c].vol][req[c].node] = "detaching"
      BY <1>1 DEF Untouched, AttachOps
    <2>1. Live(c) /\ pc'[c] # "idle" /\ pc'[c] = pc[c]
      BY <1>1 DEF Untouched, Live, Running, Labels, OpenInv
    <2>2. req[c].vol \in Volumes /\ req[c].node \in Nodes
      BY <2>1, RequestFields DEF NodeInv, AttachOps
    <2>3. \A d \in Calls : Believed(d, "Publish") \/ Believed(d, "Unpublish") =>
                             req[c].vol # req[d].vol
      BY <2>1, BelievedAlone DEF Believed, AttachOps
    <2> QED BY <2>1, <2>2, <2>3, NextVa DEF VaStep, VaInv, AttachOps
  <1>2. CASE Works(c)
    BY <1>2, WorksOn DEF Works, Alone, Frame, coVars, VaInv, Live
  <1>3. CASE Starts(c)
    BY <1>3 DEF Starts, Asked
  <1>4. ~Ends(c)
    BY DEF Ends, Live, Running, Labels
  <1> QED BY <1>1, <1>2, <1>3, <1>4, NextCall DEF CallStep

LEMMA DoneStep ==
  ASSUME OneReplica, TypeOK, LockDiscipline, DoneInv, [Next]_vars
  PROVE  DoneInv'
  <1> SUFFICES ASSUME NEW c \in Calls, open'[c], pc'[c] = "answer",
                      ret'[c].code = "OK", req'[c].op \in AttachOps,
                      NEW d \in Calls, Running(d)', req'[d].vol = req'[c].vol,
                      req'[d].op \in AttachOps
               PROVE  FALSE
    BY DEF DoneInv
  <1>1. CASE Untouched(c)
    <2>1. /\ req'[c] = req[c] /\ open[c] /\ pc[c] = "answer" /\ ret[c].code = "OK"
          /\ req[c].op \in AttachOps
      BY <1>1 DEF Untouched
    <2>2. CASE Starts(d)
      <3>1. Waiting(SidecarOf(req'[d].op), req'[d].vol)
        BY <2>1 DEF Waiting, SidecarOf, AttachOps
      <3> QED BY <2>2, <3>1 DEF Starts
    <2>3. CASE Untouched(d) \/ Works(d)
      <3>1. Running(d) /\ req'[d] = req[d]
        BY <2>3, WorksOn DEF Untouched, Running
      <3> QED BY <2>1, <3>1 DEF DoneInv
    <2> QED BY <2>2, <2>3, NextCall DEF CallStep, Ends, Running, Labels
  <1>2. CASE Works(c)
    <2>1. Running(c) /\ req' = req
      BY <1>2 DEF Works, Alone, Frame
    <2>2. d # c /\ Running(d)
      BY <1>2 DEF Works, Alone, Running, Labels
    <2>3. req[d].rep = req[c].rep
      BY <2>1, <2>2, RequestFields DEF OneReplica, Running, Labels
    <2> QED BY <2>1, <2>2, <2>3 DEF LockDiscipline
  <1>3. ~Ends(c) /\ ~Starts(c)
    BY DEF Ends, Starts, Refuses
  <1> QED BY <1>1, <1>2, <1>3, NextCall DEF CallStep

\* The invariant of attaching and detaching that needs one replica only.
AttachInv ==
  /\ LockDiscipline /\ NodeInv /\ BoundInv /\ DetachInv
  /\ FreeInv /\ OpenInv /\ OneOpenInv /\ VaInv /\ DoneInv

LEMMA AttachInvariant ==
  ASSUME OneReplica
  PROVE  Spec => []AttachInv
  <1>1. Init => AttachInv
    <2> SUFFICES ASSUME Init PROVE AttachInv
      OBVIOUS
    <2>1. LockDiscipline
      BY DEF Init, NewResourceLocks, LockDiscipline, IsLocked, Running, Labels
    <2>2. NodeInv /\ BoundInv /\ DetachInv /\ FreeInv
      BY DEF Init, CloudInit, NodeInv, BoundInv, DetachInv, FreeInv
    <2>3. \A c \in Calls : ~open[c] /\ pc[c] = "idle"
      BY DEF Init
    <2>4. OpenInv /\ OneOpenInv /\ VaInv /\ DoneInv
      BY <2>3 DEF OpenInv, OneOpenInv, VaInv, DoneInv, Live, Running, Labels
    <2> QED BY <2>1, <2>2, <2>4 DEF AttachInv
  <1>2. TypeOK /\ AttachInv /\ [Next]_vars => AttachInv'
    <2> SUFFICES ASSUME TypeOK, AttachInv, [Next]_vars PROVE AttachInv'
      OBVIOUS
    <2> USE DEF AttachInv
    <2>1. (LockDiscipline /\ NodeInv /\ BoundInv /\ DetachInv)'
      BY LockStep, NodeStep, BoundStep, DetachStep
    <2>2. (FreeInv /\ OpenInv /\ OneOpenInv)'
      BY FreeStep, OpenStep, OneOpenStep
    <2>3. (VaInv /\ DoneInv)'
      BY VaInvStep, DoneStep
    <2> QED BY <2>1, <2>2, <2>3
  <1> QED BY <1>1, <1>2, TypeCorrect, PTL DEF Spec

-----------------------------------------------------------------------------
(* A detached volume is detached, if the service shows the instance of a   *)
(* disk in transit: ControllerUnpublishVolume takes none for detached.     *)

LEMMA OffStep ==
  ASSUME AllShown, TypeOK, AttachInv, OffInv, [Next]_vars
  PROVE  OffInv'
  <1> SUFFICES ASSUME NEW c \in Calls, open'[c], At(c, "Unpublish", "answer")',
                      ret'[c].code = "OK"
               PROVE  DiskOf(c)'.vm # req'[c].node
    BY DEF OffInv
  <1>1. CASE Untouched(c)
    <2>1. /\ req'[c] = req[c] /\ open[c] /\ At(c, "Unpublish", "answer")
          /\ ret[c].code = "OK"
      BY <1>1 DEF Untouched, At
    <2>2. req[c].vol \in Volumes /\ req[c].node \in Nodes
      BY <2>1, RequestFields DEF AttachInv, NodeInv, At
    <2>3. disk[req[c].vol].vm # req[c].node /\ req[c].node # NoVm
      BY <2>1, <2>2, CloudAssumption DEF OffInv, DiskOf
    <2>4. ~\E d \in Calls : Running(d) /\ req[d].vol = req[c].vol /\ Attaching(d)
      BY <2>1 DEF AttachInv, DoneInv, Attaching, At, AttachOps
    <2>5. disk'[req[c].vol].vm # req[c].node
      BY <2>2, <2>3, <2>4, VmChange
    <2> QED BY <2>1, <2>5 DEF DiskOf
  <1>2. CASE Works(c)
    <2>1. Running(c) /\ req'[c] = req[c] /\ pc[c] # "idle" /\ req[c].op = "Unpublish"
      BY <1>2, WorksOn DEF Running, Labels, At
    <2>2. Succeeding(c)
      BY <1>2 DEF Works, Outcome, Attaching, Detaching, Resizing, Releasing,
                  Reading, Failing, Refuses, At, Labels
    <2>3. req[c].vol \in Volumes /\ req[c].node \in Nodes
      BY <2>1, RequestFields DEF AttachInv, NodeInv
    <2>4. /\ disk' = disk
          /\ \/ DiskOf(c).status \in {"GONE", "AVAILABLE"}
             \/ InstanceId(req[c].vol) # req[c].node
      BY <2>1, <2>2 DEF Succeeding, At
    <2>5. DiskOf(c).status \in {"GONE", "AVAILABLE"} => DiskOf(c).vm = NoVm
      BY <2>3 DEF AttachInv, FreeInv, DiskOf
    <2> QED BY <2>1, <2>3, <2>4, <2>5, ShownInstance, CloudAssumption DEF DiskOf
  <1>3. ~Ends(c) /\ ~Starts(c)
    BY DEF Ends, Starts, Refuses, At
  <1> QED BY <1>1, <1>2, <1>3, NextCall DEF CallStep

LEMMA DetachedStep ==
  ASSUME TypeOK, AttachInv, OffInv, DetachedMeansDetached, [Next]_vars
  PROVE  DetachedMeansDetached'
  <1> SUFFICES ASSUME NEW v \in Volumes, NEW n \in Nodes, va'[v][n] = "none"
               PROVE  disk'[v].vm # n
    BY DEF DetachedMeansDetached
  <1>1. CASE va[v][n] = "none"
    <2>1. disk[v].vm # n /\ n # NoVm
      BY <1>1, CloudAssumption DEF DetachedMeansDetached
    <2>2. ASSUME NEW c \in Calls, Running(c), req[c].vol = v, Attaching(c)
          PROVE  req[c].node # n
      BY <1>1, <2>2 DEF Attaching, At, AttachInv, VaInv, Live
    <2> QED BY <2>1, <2>2, VmChange
  <1>2. ASSUME NEW d \in Calls, Believed(d, "Unpublish"), req[d].vol = v, req[d].node = n
        PROVE  disk'[v].vm # n
    BY <1>2 DEF Believed, OffInv, At, DiskOf
  <1> QED BY <1>1, <1>2, NextVa DEF VaStep

LEMMA OffInvariant ==
  ASSUME OneReplica, AllShown
  PROVE  Spec => [](OffInv /\ DetachedMeansDetached)
  <1>1. Init => OffInv /\ DetachedMeansDetached
    BY CloudAssumption DEF Init, CloudInit, OffInv, At, DetachedMeansDetached
  <1>2. TypeOK /\ AttachInv /\ OffInv /\ DetachedMeansDetached /\ [Next]_vars
        => (OffInv /\ DetachedMeansDetached)'
    BY OffStep, DetachedStep
  <1> QED BY <1>1, <1>2, TypeCorrect, AttachInvariant, PTL DEF Spec

\* DetachedMeansDetached holds in every reachable state when there is one
\* replica and the service shows the instance of a disk in transit: no attach
\* that was abandoned, answered late or restarted gets a volume to a node the
\* attacher has been told it is off, so it may go to another one.
THEOREM DetachedSafety ==
  ASSUME OneReplica, AllShown
  PROVE  Spec => []DetachedMeansDetached
  <1> QED BY OffInvariant, PTL

-----------------------------------------------------------------------------
(* An attached volume is attached.  This needs a service that completes    *)
(* the attaches it accepts, for the handler answers OK on an InstanceId it *)
(* reads while the attach is under way; in which statuses the service      *)
(* shows the instance does not matter.                                     *)

\* Somebody relies on v being on n, and n exists.
Needed(v, n) == va[v][n] \in {"attaching", "attached"} /\ vmstate[n] # "ABSENT"

\* v is on n and not about to leave.
There(v, n) == disk[v].vm = n /\ disk[v].status # "DETACHING"

\* A disk that is seen to leave an instance leaves it for an attachment that is
\* being undone.  One that is not seen may have been reported as detached.
LeaveInv ==
  \A v \in Volumes :
    disk[v].status = "DETACHING" /\ "DETACHING" \in ShownIn =>
      disk[v].vm \in Nodes /\ va[v][disk[v].vm] = "detaching"

\* An awaited OK of ControllerUnpublishVolume does not overlook a disk that is
\* seen to leave.
LeftInv ==
  \A c \in Calls :
    /\ open[c] /\ At(c, "Unpublish", "answer") /\ ret[c].code = "OK"
    /\ DiskOf(c).status = "DETACHING" /\ "DETACHING" \in ShownIn
    => DiskOf(c).vm # req[c].node

\* A ControllerPublishVolume that found its disk on the node still may say so.
SeenInv ==
  \A c \in Calls :
    At(c, "Publish", "vm") /\ seen[c] = req[c].node /\ Needed(req[c].vol, req[c].node) =>
      There(req[c].vol, req[c].node)

PublishedInv ==
  \A c \in Calls :
    /\ open[c] /\ At(c, "Publish", "answer") /\ ret[c].code = "OK"
    /\ Needed(req[c].vol, req[c].node)
    => There(req[c].vol, req[c].node)

OnInv ==
  \A v \in Volumes, n \in Nodes :
    va[v][n] = "attached" /\ vmstate[n] # "ABSENT" => There(v, n)

\* A disk begins to leave an instance only by the handler of a detach of it.
LEMMA LeaveChange ==
  ASSUME TypeOK, AttachInv, [Next]_vars, NEW v \in Volumes,
         disk'[v].status = "DETACHING"
  PROVE  /\ disk'[v].vm = disk[v].vm
         /\ \/ disk[v].status = "DETACHING"
            \/ /\ disk[v].vm \in Nodes /\ va[v][disk[v].vm] = "detaching"
               /\ \E c \in Calls : Running(c) /\ req[c].vol = v /\ Detaching(c)
               /\ ~\E d \in Calls : Believed(d, "Unpublish")
  <1>1. CASE disk[v].status = "DETACHING"
    BY <1>1, NextDisk
       DEF DiskStep, ServiceTurns, GivesBack, Turns, Rest, Accepted, Attaching,
           Detaching, Resizing, Releasing, DiskOf
  <1>2. CASE disk[v].status # "DETACHING"
    <2>1. PICK c \in Calls : Running(c) /\ req[c].vol = v /\ Detaching(c)
      BY <1>2, NextDisk
         DEF DiskStep, ServiceTurns, GivesBack, Turns, Rest, Accepted, Attaching,
             Detaching, Resizing, Releasing, DiskOf
    <2>2. disk'[v].vm = disk[v].vm /\ disk[v].vm \in Nodes /\ disk[v].vm = req[c].node
      BY <2>1, CloudAssumption DEF Detaching, Turns, DiskOf, At, AttachInv, BoundInv, DetachInv
    <2>3. va[v][req[c].node] = "detaching"
      BY <2>1 DEF Detaching, At, AttachInv, VaInv, Live
    <2>4. ~\E d \in Calls : Believed(d, "Unpublish")
      BY <1>2 DEF Believed
    <2> QED BY <2>1, <2>2, <2>3, <2>4
  <1> QED BY <1>1, <1>2

LEMMA LeaveStep ==
  ASSUME TypeOK, AttachInv, LeftInv, LeaveInv, [Next]_vars
  PROVE  LeaveInv'
  <1> SUFFICES ASSUME NEW v \in Volumes, disk'[v].status = "DETACHING",
                      "DETACHING" \in ShownIn
               PROVE  disk'[v].vm \in Nodes /\ va'[v][disk'[v].vm] = "detaching"
    BY DEF LeaveInv
  <1>1. disk'[v].vm = disk[v].vm /\ disk[v].vm \in Nodes /\ va[v][disk[v].vm] = "detaching"
    BY LeaveChange DEF LeaveInv
  <1>2. \A d \in Calls : Believed(d, "Unpublish") /\ req[d].vol = v =>
                           req[d].node # disk[v].vm
    <2>1. CASE disk[v].status = "DETACHING"
      BY <2>1 DEF Believed, LeftInv, At, DiskOf
    <2>2. CASE disk[v].status # "DETACHING"
      BY <2>2, LeaveChange
    <2> QED BY <2>1, <2>2
  <1> QED BY <1>1, <1>2, NextVa DEF VaStep

LEMMA LeftStep ==
  ASSUME TypeOK, AttachInv, LeftInv, [Next]_vars
  PROVE  LeftInv'
  <1> SUFFICES ASSUME NEW c \in Calls, open'[c], At(c, "Unpublish", "answer")',
                      ret'[c].code = "OK", DiskOf(c)'.status = "DETACHING",
                      "DETACHING" \in ShownIn
               PROVE  DiskOf(c)'.vm # req'[c].node
    BY DEF LeftInv
  <1>1. CASE Untouched(c)
    <2>1. /\ req'[c] = req[c] /\ open[c] /\ At(c, "Unpublish", "answer")
          /\ ret[c].code = "OK"
      BY <1>1 DEF Untouched, At
    <2>2. req[c].vol \in Volumes
      BY <2>1, RequestFields DEF At
    <2>3. ~\E d \in Calls : Running(d) /\ req[d].vol = req[c].vol /\ Detaching(d)
      BY <2>1 DEF AttachInv, DoneInv, Detaching, At, AttachOps
    <2>4. DiskOf(c).status = "DETACHING" /\ disk'[req[c].vol].vm = disk[req[c].vol].vm
      BY <2>1, <2>2, <2>3, LeaveChange DEF DiskOf
    <2> QED BY <2>1, <2>4 DEF LeftInv, DiskOf
  <1>2. CASE Works(c)
    <2>1. Running(c) /\ req'[c] = req[c] /\ req[c].op = "Unpublish"
      BY <1>2, WorksOn DEF At
    <2>2. Succeeding(c)
      BY <1>2 DEF Works, Outcome, Attaching, Detaching, Resizing, Releasing,
                  Reading, Failing, Refuses, At, Labels
    <2>3. disk' = disk /\ DiskOf(c).status = "DETACHING"
      BY <2>1, <2>2 DEF Succeeding, DiskOf
    <2>4. InstanceId(req[c].vol) # req[c].node
      BY <2>1, <2>2, <2>3 DEF Succeeding, At
    <2>5. InstanceId(req[c].vol) = DiskOf(c).vm
      BY <2>3 DEF InstanceId, DiskOf
    <2> QED BY <2>1, <2>3, <2>4, <2>5 DEF DiskOf
  <1>3. ~Ends(c) /\ ~Starts(c)
    BY DEF Ends, Starts, Refuses, At
  <1> QED BY <1>1, <1>2, <1>3, NextCall DEF CallStep

\* What is needed where it is stays there.
LEMMA StaysThere ==
  ASSUME ~Rollback, TypeOK, AttachInv, [Next]_vars,
         NEW v \in Volumes, NEW n \in Nodes, Needed(v, n), vmstate'[n] # "ABSENT",
         There(v, n)
  PROVE  There(v, n)'
  <1>1. disk[v].vm = n /\ disk[v].status \notin {"DETACHING", "AVAILABLE"}
    BY CloudAssumption DEF AttachInv, FreeInv, There
  <1>2. disk'[v].vm = n
    BY <1>1, NextDisk
       DEF DiskStep, ServiceTurns, GivesBack, Turns, Accepted, Attaching,
           Detaching, Resizing, Releasing, DiskOf
  <1>3. disk'[v].status # "DETACHING"
    BY <1>1, LeaveChange DEF Needed
  <1> QED BY <1>2, <1>3 DEF There

\* An instance that is shown is there, unless its detachment was asked for.
LEMMA ShownIsThere ==
  ASSUME LeaveInv, NEW v \in Volumes, NEW n \in Nodes, InstanceId(v) = n, Needed(v, n)
  PROVE  There(v, n)
  <1>1. /\ disk[v].vm = n
        /\ disk[v].status = "DETACHING" => "DETACHING" \in ShownIn
    BY CloudAssumption DEF InstanceId
  <1> QED BY <1>1 DEF LeaveInv, Needed, There

\* A live call's attachment that is needed after a step was needed before it.
LEMMA NeededBefore ==
  ASSUME TypeOK, NodeInv, OpenInv, VaInv, [Next]_vars, NEW c \in Calls,
         Live(c), req[c].op = "Publish", req'[c] = req[c],
         Needed(req[c].vol, req[c].node)'
  PROVE  /\ req[c].vol \in Volumes /\ req[c].node \in Nodes
         /\ Needed(req[c].vol, req[c].node)
         /\ vmstate'[req[c].node] # "ABSENT"
  <1>1. pc[c] # "idle"
    BY DEF Live, OpenInv, Running, Labels
  <1>2. req[c].vol \in Volumes /\ req[c].node \in Nodes
    BY <1>1, RequestFields DEF NodeInv
  <1>3. va[req[c].vol][req[c].node] \in {"attaching", "detaching"}
    BY DEF VaInv
  <1>4. va'[req[c].vol][req[c].node] \in {"attaching", "attached"}
    BY DEF Needed
  <1>5. va[req[c].vol][req[c].node] = "attaching"
    BY <1>2, <1>3, <1>4, NextVa DEF VaStep
  <1>6. vmstate'[req[c].node] # "ABSENT"
    BY DEF Needed
  <1> QED BY <1>2, <1>5, <1>6, NextVm DEF Needed

LEMMA SeenStep ==
  ASSUME ~Rollback, TypeOK, AttachInv, LeaveInv, SeenInv, [Next]_vars
  PROVE  SeenInv'
  <1> SUFFICES ASSUME NEW c \in Calls, At(c, "Publish", "vm")',
                      seen'[c] = req'[c].node, Needed(req[c].vol, req[c].node)'
               PROVE  There(req[c].vol, req[c].node)'
    BY DEF SeenInv
  <1>1. Live(c) /\ req[c].op = "Publish" /\ req'[c] = req[c]
    <2>1. CASE Untouched(c)
      BY <2>1 DEF Untouched, At, Live, Running, Labels
    <2>2. CASE Works(c)
      BY <2>2, WorksOn DEF At, Live
    <2> QED BY <2>1, <2>2, NextCall DEF CallStep, Ends, Starts, Refuses, At
  <1>2. /\ req[c].vol \in Volumes /\ req[c].node \in Nodes
        /\ Needed(req[c].vol, req[c].node) /\ vmstate'[req[c].node] # "ABSENT"
    BY <1>1, NeededBefore DEF AttachInv
  <1>3. There(req[c].vol, req[c].node)
    <2>1. CASE Untouched(c)
      BY <1>1, <1>2, <2>1 DEF Untouched, At, SeenInv
    <2>2. CASE Works(c)
      <3>1. Reading(c)
        BY <2>2 DEF Works, Outcome, Attaching, Detaching, Resizing, Releasing,
                    Succeeding, Failing, Refuses, At
      <3>2. InstanceId(req[c].vol) = req[c].node
        BY <1>1, <3>1 DEF Reading, At
      <3> QED BY <1>2, <3>2, ShownIsThere
    <2> QED BY <2>1, <2>2, NextCall DEF CallStep, Ends, Starts, Refuses, At
  <1>4. There(req[c].vol, req[c].node)' <=> disk'[req[c].vol].vm = req[c].node
                                            /\ disk'[req[c].vol].status # "DETACHING"
    BY <1>1 DEF There
  <1> QED BY <1>2, <1>3, <1>4, StaysThere DEF There

LEMMA PublishedStep ==
  ASSUME ~Rollback, TypeOK, AttachInv, LeaveInv, SeenInv, PublishedInv, [Next]_vars
  PROVE  PublishedInv'
  <1> SUFFICES ASSUME NEW c \in Calls, open'[c], At(c, "Publish", "answer")',
                      ret'[c].code = "OK", Needed(req[c].vol, req[c].node)'
               PROVE  There(req[c].vol, req[c].node)'
    BY DEF PublishedInv
  <1>1. Live(c) /\ req[c].op = "Publish" /\ req'[c] = req[c]
    <2>1. CASE Untouched(c)
      BY <2>1 DEF Untouched, At, Live
    <2>2. CASE Works(c)
      BY <2>2, WorksOn DEF At, Live
    <2> QED BY <2>1, <2>2, NextCall DEF CallStep, Ends, Starts, Refuses, At
  <1>2. /\ req[c].vol \in Volumes /\ req[c].node \in Nodes
        /\ Needed(req[c].vol, req[c].node) /\ vmstate'[req[c].node] # "ABSENT"
    BY <1>1, NeededBefore DEF AttachInv
  <1>3. There(req[c].vol, req[c].node)
    <2>1. CASE Untouched(c)
      BY <1>1, <1>2, <2>1 DEF Untouched, At, PublishedInv
    <2>2. CASE Works(c)
      <3>1. Succeeding(c)
        BY <2>2 DEF Works, Outcome, Attaching, Detaching, Resizing, Releasing,
                    Reading, Failing, Refuses, At, Labels
      <3>2. \/ At(c, "Publish", "vm") /\ seen[c] = req[c].node
            \/ InstanceId(req[c].vol) = req[c].node
        BY <1>1, <3>1 DEF Succeeding, At
      <3> QED BY <1>2, <3>2, ShownIsThere DEF SeenInv
    <2> QED BY <2>1, <2>2, NextCall DEF CallStep, Ends, Starts, Refuses, At
  <1>4. There(req[c].vol, req[c].node)' <=> disk'[req[c].vol].vm = req[c].node
                                            /\ disk'[req[c].vol].status # "DETACHING"
    BY <1>1 DEF There
  <1> QED BY <1>2, <1>3, <1>4, StaysThere DEF There

LEMMA OnStep ==
  ASSUME ~Rollback, TypeOK, AttachInv, PublishedInv, OnInv, [Next]_vars
  PROVE  OnInv'
  <1> SUFFICES ASSUME NEW v \in Volumes, NEW n \in Nodes,
                      va'[v][n] = "attached", vmstate'[n] # "ABSENT"
               PROVE  There(v, n)'
    BY DEF OnInv
  <1>1. vmstate[n] # "ABSENT"
    BY NextVm
  <1>2. CASE va[v][n] = "attached"
    <2>1. There(v, n) /\ Needed(v, n)
      BY <1>1, <1>2 DEF OnInv, Needed
    <2> QED BY <2>1, StaysThere
  <1>3. ASSUME NEW d \in Calls, Believed(d, "Publish"), req[d].vol = v,
               req[d].node = n, va[v][n] = "attaching"
        PROVE  There(v, n)'
    <2>1. There(v, n) /\ Needed(v, n)
      BY <1>1, <1>3 DEF Believed, PublishedInv, At, Needed
    <2> QED BY <2>1, StaysThere
  <1> QED BY <1>2, <1>3, NextVa DEF VaStep

\* The part of the invariant a service without rollbacks adds to AttachInv.
PublishInv == LeaveInv /\ LeftInv /\ SeenInv /\ PublishedInv /\ OnInv

LEMMA PublishInvariant ==
  ASSUME OneReplica, ~Rollback
  PROVE  Spec => []PublishInv
  <1>1. Init => PublishInv
    BY DEF Init, CloudInit, PublishInv, LeaveInv, LeftInv, SeenInv, PublishedInv, OnInv, At
  <1>2. TypeOK /\ AttachInv /\ PublishInv /\ [Next]_vars => PublishInv'
    BY LeaveStep, LeftStep, SeenStep, PublishedStep, OnStep DEF PublishInv
  <1> QED BY <1>1, <1>2, TypeCorrect, AttachInvariant, PTL DEF Spec

\* AttachedMeansAttached holds in every reachable state when there is one
\* replica and the service completes what it accepts, whether or not it shows
\* the instance of a disk in transit: once the attacher is told a volume is on a
\* node, nothing but a detach of it, or the end of the node, takes it away.
THEOREM AttachedSafety ==
  ASSUME OneReplica, ~Rollback
  PROVE  Spec => []AttachedMeansAttached
  <1>1. ASSUME TypeOK, AttachInv, PublishInv PROVE AttachedMeansAttached
    <2> SUFFICES ASSUME NEW v \in Volumes, NEW n \in Nodes,
                        va[v][n] = "attached", vmstate[n] # "ABSENT"
                 PROVE  /\ disk[v].vm = n
                        /\ disk[v].status \in {"ATTACHING", "IN_USE", "CHANGING"}
      BY DEF AttachedMeansAttached
    <2>1. disk[v].vm = n /\ disk[v].status # "DETACHING" /\ n # NoVm
      BY <1>1, CloudAssumption DEF PublishInv, OnInv, There
    <2>2. disk[v].status \in DiskStatus
      BY <1>1 DEF TypeOK, CloudTypeOK, Disk
    <2>3. disk[v].status \notin {"AVAILABLE", "DELETING", "RECYCLED", "GONE"}
      BY <1>1, <2>1 DEF AttachInv, FreeInv
    <2> QED BY <2>1, <2>2, <2>3 DEF DiskStatus
  <1>2. TypeOK /\ AttachInv /\ PublishInv => AttachedMeansAttached
    BY <1>1
  <1> QED BY <1>2, TypeCorrect, AttachInvariant, PublishInvariant, PTL
=============================================================================
