--------------------- MODULE ControllerRefinementProofs ---------------------
(***************************************************************************)
(* The controller of one replica implements VolumeService.  Every step of  *)
(* the driver, the cloud and the sidecars is, under the mapping of         *)
(* ControllerRefinement, a step of VolumeService or none.                  *)
(***************************************************************************)
EXTENDS ControllerRefinement, ControllerSafetyProofs

-----------------------------------------------------------------------------
(* What the mapping needs to know of deletions and expansions.             *)

\* A disk is on its way out only for a volume that is to be deleted.
ReleaseInv ==
  /\ \A c \in Calls :
       pc[c] # "idle" /\ req[c].op = "Delete" => pv[req[c].vol] # "bound"
  /\ \A v \in Volumes :
       disk[v].status \in {"DELETING", "RECYCLED", "GONE"} => pv[v] # "bound"

\* An awaited expansion asks for more than the resizer knows of.
AskedInv ==
  \A c \in Calls : open[c] /\ req[c].op = "Expand" => req[c].gib > cap[req[c].vol]

LEMMA PvNeverBoundAgain ==
  ASSUME TypeOK, [Next]_vars, NEW v \in Volumes, pv[v] # "bound"
  PROVE  pv'[v] # "bound"
  BY NextPv DEF PvStep

LEMMA ReleaseStep ==
  ASSUME TypeOK, ReleaseInv, [Next]_vars
  PROVE  ReleaseInv'
  <1>1. ASSUME NEW c \in Calls, pc'[c] # "idle", req'[c].op = "Delete"
        PROVE  pv'[req'[c].vol] # "bound"
    <2>1. CASE Untouched(c) \/ Works(c)
      <3>1. pc[c] # "idle" /\ req'[c] = req[c]
        BY <1>1, <2>1, WorksOn DEF Untouched, Running, Labels
      <3>2. req[c].vol \in Volumes
        BY <3>1, RequestFields
      <3> QED BY <1>1, <3>1, <3>2, PvNeverBoundAgain DEF ReleaseInv
    <2>2. CASE Starts(c)
      BY <1>1, <2>2 DEF Starts, Asked
    <2> QED BY <1>1, <2>1, <2>2, NextCall DEF CallStep, Ends
  <1>2. ASSUME NEW v \in Volumes, disk'[v].status \in {"DELETING", "RECYCLED", "GONE"}
        PROVE  pv'[v] # "bound"
    <2>1. CASE disk[v].status \in {"DELETING", "RECYCLED", "GONE"}
      BY <2>1, PvNeverBoundAgain DEF ReleaseInv
    <2>2. CASE disk[v].status \notin {"DELETING", "RECYCLED", "GONE"}
      <3>1. PICK c \in Calls : Running(c) /\ req[c].vol = v /\ Releasing(c)
        BY <1>2, <2>2, NextDisk
           DEF DiskStep, ServiceTurns, GivesBack, Turns, Rest, Accepted,
               Attaching, Detaching, Resizing, Releasing, DiskOf
      <3>2. pv[v] # "bound"
        BY <3>1 DEF Releasing, At, ReleaseInv
      <3> QED BY <3>2, PvNeverBoundAgain
    <2> QED BY <2>1, <2>2
  <1> QED BY <1>1, <1>2 DEF ReleaseInv

LEMMA AskedStep ==
  ASSUME TypeOK, OpenInv, OneOpenInv, AskedInv, [Next]_vars
  PROVE  AskedInv'
  <1> SUFFICES ASSUME NEW c \in Calls, open'[c], req'[c].op = "Expand"
               PROVE  req'[c].gib > cap'[req'[c].vol]
    BY DEF AskedInv
  <1>1. CASE Untouched(c) \/ Works(c)
    <2>1. open[c] /\ req'[c] = req[c] /\ pc[c] # "idle" /\ pc'[c] # "idle"
      BY <1>1, WorksOn DEF Untouched, OpenInv, Running, Labels
    <2>2. req[c].vol \in Volumes /\ req[c].gib > cap[req[c].vol]
      BY <2>1, RequestFields DEF AskedInv
    <2>3. ~\E d \in Calls : Believed(d, "Expand") /\ req[d].vol = req[c].vol
      BY <2>1 DEF Believed, OneOpenInv
    <2> QED BY <2>1, <2>2, <2>3, NextCap DEF CapStep
  <1>2. CASE Starts(c)
    BY <1>2 DEF Starts, Asked
  <1> QED BY <1>1, <1>2, NextCall DEF CallStep, Ends

\* Everything the mapping uses.
MapInv ==
  /\ AllShown /\ TypeOK /\ AttachInv /\ OffInv /\ PublishInv /\ CapacityInv
  /\ DeleteInv /\ DeletedMeansGone /\ ReleaseInv /\ AskedInv

LEMMA MapInvariant ==
  ASSUME OneReplica, AllShown, ~Rollback
  PROVE  Spec => []MapInv
  <1>1. Init => ReleaseInv /\ AskedInv /\ DeleteInv /\ DeletedMeansGone
    <2> SUFFICES ASSUME Init
                 PROVE  ReleaseInv /\ AskedInv /\ DeleteInv /\ DeletedMeansGone
      OBVIOUS
    <2>1. \A c \in Calls : pc[c] = "idle" /\ ~open[c]
      BY DEF Init
    <2> QED BY <2>1 DEF Init, CloudInit, ReleaseInv, AskedInv, DeleteInv,
                        DeletedMeansGone, At
  <1>2. /\ TypeOK /\ AttachInv /\ ReleaseInv /\ AskedInv /\ DeleteInv
        /\ DeletedMeansGone /\ [Next]_vars
        => (ReleaseInv /\ AskedInv /\ DeleteInv /\ DeletedMeansGone)'
    BY ReleaseStep, AskedStep, DeleteInvStep, DeletedStep DEF AttachInv
  <1>3. /\ TypeOK /\ AttachInv /\ OffInv /\ PublishInv /\ CapacityInv
        /\ ReleaseInv /\ AskedInv /\ DeleteInv /\ DeletedMeansGone
        => MapInv
    BY DEF MapInv
  <1> QED BY <1>1, <1>2, <1>3, TypeCorrect, AttachInvariant, OffInvariant,
             PublishInvariant, CapacityInvariant, PTL DEF Spec

-----------------------------------------------------------------------------
(* The steps of the disks.                                                 *)

\* Whatever the abstract specification does not see of a disk.
Unseen(v) ==
  /\ disk'[v].vm = disk[v].vm /\ disk'[v].size = disk[v].size
  /\ disk[v].status = "GONE" <=> disk'[v].status = "GONE"

LEMMA Stutter ==
  ASSUME \A v \in Volumes : Unseen(v),
         \A n \in Nodes : vmstate'[n] = "ABSENT" <=> vmstate[n] = "ABSENT",
         UNCHANGED <<va, pv, cap>>
  PROVE  UNCHANGED Service!vars
  BY DEF Service!vars, Unseen, Exists

LEMMA UnseenAlone ==
  ASSUME NEW v \in Volumes, Others(v), Unseen(v)
  PROVE  \A w \in Volumes : Unseen(w)
  BY DEF Others, Unseen

LEMMA AttachSimulates ==
  ASSUME MapInv, NEW c \in Calls, Running(c), Alone(c), Attaching(c)
  PROVE  Service!Next
  <1>1. /\ req[c].vol \in Volumes /\ req[c].node \in Nodes
        /\ disk[req[c].vol].status = "AVAILABLE"
    BY RequestFields DEF MapInv, AttachInv, NodeInv, Attaching, At, DiskOf
  <1>2. disk[req[c].vol].vm = NoVm
    BY <1>1 DEF MapInv, AttachInv, FreeInv
  <1>3. va[req[c].vol][req[c].node] \in {"attaching", "detaching"}
    BY DEF MapInv, AttachInv, VaInv, Live, Attaching, At
  <1>4. UNCHANGED <<vmstate, va, pv, cap>>
    BY DEF Alone, Frame, coVars
  <1>5. /\ disk'[req[c].vol].vm = req[c].node
        /\ disk'[req[c].vol].size = disk[req[c].vol].size
        /\ disk'[req[c].vol].status # "GONE"
    BY DEF Attaching, Turns, DiskOf
  <1>6. \A w \in Volumes \ {req[c].vol} : disk'[w] = disk[w]
    BY DEF Alone, Others
  <1>7. [w \in Volumes |-> disk'[w].vm] =
          [[w \in Volumes |-> disk[w].vm] EXCEPT ![req[c].vol] = req[c].node]
    BY <1>1, <1>5, <1>6
  <1>8. [w \in Volumes |-> disk'[w].size] = [w \in Volumes |-> disk[w].size]
    BY <1>1, <1>5, <1>6
  <1>9. {w \in Volumes : ~(disk'[w].status # "GONE")} = {w \in Volumes : ~(disk[w].status # "GONE")}
    BY <1>1, <1>5, <1>6
  <1>10. PICK v \in Volumes, n \in Nodes : v = req[c].vol /\ n = req[c].node
    BY <1>1
  <1>11. Service!Attach(v, n)
    BY <1>1, <1>2, <1>3, <1>4, <1>7, <1>8, <1>9, <1>10
       DEF Service!Attach, Service!Exists, Exists
  <1> QED BY <1>11 DEF Service!Next

LEMMA HandlerSimulates ==
  ASSUME MapInv, NEW c \in Calls, Handler(c)
  PROVE  Service!Next \/ UNCHANGED Service!vars
  <1> DEFINE v == req[c].vol
  <1>1. Outcome(c) /\ Alone(c) /\ Running(c) /\ v \in Volumes
    BY HandlerOutcome, HandlerAlone, RequestFields DEF MapInv, Alone, Running, Labels
  <1>2. UNCHANGED <<vmstate, va, pv, cap>> /\ Others(v)
    BY <1>1 DEF Alone, Frame, coVars
  <1>3. CASE Attaching(c)
    BY <1>1, <1>3, AttachSimulates
  <1>4. CASE Detaching(c) \/ Resizing(c) \/ Releasing(c)
    <2>1. Unseen(v)
      BY <1>4 DEF Detaching, Resizing, Releasing, Turns, DiskOf, Unseen
    <2> QED BY <1>1, <1>2, <2>1, UnseenAlone, Stutter
  <1>5. CASE Reading(c) \/ Succeeding(c) \/ Failing(c)
    <2>1. Unseen(v)
      BY <1>5 DEF Reading, Succeeding, Failing, Unseen
    <2> QED BY <1>1, <1>2, <2>1, UnseenAlone, Stutter
  <1> QED BY <1>1, <1>3, <1>4, <1>5 DEF Outcome

LEMMA CompletesOthers ==
  ASSUME TypeOK, NEW v \in Volumes, Completes(v)
  PROVE  Others(v) /\ UNCHANGED vmstate
  <1>1. CASE AttachDone(v) \/ DetachDone(v)
    BY <1>1 DEF AttachDone, DetachDone, Others, TypeOK, CloudTypeOK
  <1>2. CASE ResizeDone(v) \/ ReleaseDone(v)
    BY <1>2 DEF ResizeDone, ReleaseDone, Others, TypeOK, CloudTypeOK
  <1> QED BY <1>1, <1>2 DEF Completes

\* The end of a detach is where the volume leaves its node.
LEMMA DetachSimulates ==
  ASSUME MapInv, NEW v \in Volumes, disk[v].status = "DETACHING", Others(v),
         Turns(v, "AVAILABLE", NoVm, disk[v].size, disk[v].goal),
         UNCHANGED <<vmstate, va, pv, cap>>
  PROVE  Service!Next
  <1>1. disk[v].vm \in Nodes /\ va[v][disk[v].vm] = "detaching"
    BY DEF MapInv, AllShown, PublishInv, LeaveInv
  <1>2. [w \in Volumes |-> disk'[w].vm] = [[w \in Volumes |-> disk[w].vm] EXCEPT ![v] = NoVm]
    BY DEF Turns, Others
  <1>3. [w \in Volumes |-> disk'[w].size] = [w \in Volumes |-> disk[w].size]
    BY DEF Turns, Others
  <1>4. {w \in Volumes : ~(disk'[w].status # "GONE")} = {w \in Volumes : ~(disk[w].status # "GONE")}
    BY DEF Turns, Others
  <1>5. PICK n \in Nodes : n = disk[v].vm
    BY <1>1
  <1>6. Service!Detach(v, n)
    BY <1>1, <1>2, <1>3, <1>4, <1>5 DEF Service!Detach, Exists
  <1> QED BY <1>6 DEF Service!Next

LEMMA GrowSimulates ==
  ASSUME MapInv, NEW v \in Volumes, disk[v].status = "CHANGING", Others(v),
         Turns(v, Rest(v), disk[v].vm, disk[v].goal, disk[v].goal),
         UNCHANGED <<vmstate, va, pv, cap>>
  PROVE  Service!Next
  <1>1. disk[v].goal \in 1..MaxGib /\ disk[v].goal > disk[v].size
    BY DEF MapInv, CapacityInv, GrowInv, TypeOK, CloudTypeOK, Disk
  <1>2. [w \in Volumes |-> disk'[w].vm] = [w \in Volumes |-> disk[w].vm]
    BY DEF Turns, Others
  <1>3. [w \in Volumes |-> disk'[w].size] =
          [[w \in Volumes |-> disk[w].size] EXCEPT ![v] = disk[v].goal]
    BY DEF Turns, Others
  <1>4. {w \in Volumes : ~(disk'[w].status # "GONE")} = {w \in Volumes : ~(disk[w].status # "GONE")}
    BY DEF Turns, Others, Rest
  <1>5. Service!Grow(v)
    BY <1>1, <1>2, <1>3, <1>4 DEF Service!Grow, Service!Exists, Exists
  <1> QED BY <1>5 DEF Service!Next

LEMMA DestroySimulates ==
  ASSUME MapInv, NEW v \in Volumes, disk[v].status \in {"DELETING", "RECYCLED"}, Others(v),
         Turns(v, "GONE", disk[v].vm, disk[v].size, disk[v].goal),
         UNCHANGED <<vmstate, va, pv, cap>>
  PROVE  Service!Next
  <1>1. disk[v].vm = NoVm
    BY DEF MapInv, AttachInv, FreeInv
  <1>2. pv[v] = "deleting"
    BY DEF MapInv, ReleaseInv, DeletedMeansGone, Exists, TypeOK
  <1>3. [w \in Volumes |-> disk'[w].vm] = [w \in Volumes |-> disk[w].vm]
    BY DEF Turns, Others
  <1>4. [w \in Volumes |-> disk'[w].size] = [w \in Volumes |-> disk[w].size]
    BY DEF Turns, Others
  <1>5. {w \in Volumes : ~(disk'[w].status # "GONE")} =
          {w \in Volumes : ~(disk[w].status # "GONE")} \union {v}
    BY DEF Turns, Others
  <1>6. Service!Destroy(v)
    BY <1>1, <1>2, <1>3, <1>4, <1>5 DEF Service!Destroy, Service!Exists, Exists
  <1> QED BY <1>6 DEF Service!Next

LEMMA CompletesSimulates ==
  ASSUME ~Rollback, MapInv, NEW v \in Volumes, CloudCompletes(v)
  PROVE  Service!Next \/ UNCHANGED Service!vars
  <1> DEFINE d == disk[v]
  <1>1. Others(v) /\ UNCHANGED <<vmstate, va, pv, cap>>
    BY CompletesOthers DEF CloudCompletes, MapInv, coVars
  <1>2. disk'[v] = disk[v] \/ ServiceTurns(v)
    BY CompletesDisk DEF CloudCompletes, MapInv
  <1>3. CASE d.status = "DETACHING" /\ Turns(v, "AVAILABLE", NoVm, d.size, d.goal)
    BY <1>1, <1>3, DetachSimulates
  <1>4. CASE d.status = "CHANGING" /\ Turns(v, Rest(v), d.vm, d.goal, d.goal)
    BY <1>1, <1>4, GrowSimulates
  <1>5. CASE d.status \in {"DELETING", "RECYCLED"} /\ Turns(v, "GONE", d.vm, d.size, d.goal)
    BY <1>1, <1>5, DestroySimulates
  <1>6. CASE Unseen(v)
    BY <1>1, <1>6, UnseenAlone, Stutter
  <1>7. \/ Unseen(v)
        \/ d.status = "DETACHING" /\ Turns(v, "AVAILABLE", NoVm, d.size, d.goal)
        \/ d.status = "CHANGING" /\ Turns(v, Rest(v), d.vm, d.goal, d.goal)
        \/ d.status \in {"DELETING", "RECYCLED"} /\ Turns(v, "GONE", d.vm, d.size, d.goal)
    <2>1. ~(d.status = "IN_USE" /\ disk'[v] # disk[v])
      BY DEF CloudCompletes, Completes, AttachDone, DetachDone, ResizeDone, ReleaseDone
    <2> QED BY <1>2, <2>1 DEF ServiceTurns, Turns, Unseen
  <1> QED BY <1>3, <1>4, <1>5, <1>6, <1>7

\* An instance is deleted, and every disk on it with one step.
LEMMA NodeGoneSimulates ==
  ASSUME MapInv, NEW n \in Nodes, VmReleased(n), UNCHANGED <<va, pv, cap>>
  PROVE  Service!NodeGone(n)
  <1>1. \A w \in Volumes : disk[w] \in Disk
    BY DEF MapInv, TypeOK, CloudTypeOK
  <1>2. \A w \in Volumes :
          disk'[w] = IF disk[w].vm = n
                     THEN [disk[w] EXCEPT !.status = "AVAILABLE", !.vm = NoVm]
                     ELSE disk[w]
    BY Zenon DEF VmReleased
  <1>3. ASSUME NEW w \in Volumes
        PROVE  /\ disk'[w].vm = IF disk[w].vm = n THEN NoVm ELSE disk[w].vm
               /\ disk'[w].size = disk[w].size
               /\ disk'[w].status = "GONE" <=> disk[w].status = "GONE"
    <2>1. disk[w].vm = n => disk[w].status = "IN_USE"
      BY DEF VmReleased
    <2> QED BY <1>1, <1>2, <2>1 DEF Disk
  <1>4. [w \in Volumes |-> disk'[w].vm] =
          [w \in Volumes |-> IF [x \in Volumes |-> disk[x].vm][w] = n THEN NoVm
                             ELSE [x \in Volumes |-> disk[x].vm][w]]
    BY <1>3
  <1>5. [w \in Volumes |-> disk'[w].size] = [w \in Volumes |-> disk[w].size]
    BY <1>3
  <1>6. {w \in Volumes : ~(disk'[w].status # "GONE")} = {w \in Volumes : ~(disk[w].status # "GONE")}
    BY <1>3
  <1>7. {m \in Nodes : vmstate'[m] # "ABSENT"} = {m \in Nodes : vmstate[m] # "ABSENT"} \ {n}
    BY DEF VmReleased, MapInv, TypeOK, CloudTypeOK
  <1>8. n \in {m \in Nodes : vmstate[m] # "ABSENT"}
    BY DEF VmReleased
  <1> QED BY <1>4, <1>5, <1>6, <1>7, <1>8 DEF Service!NodeGone, Exists

LEMMA DisturbsSimulates ==
  ASSUME ~Rollback, MapInv, CloudDisturbs
  PROVE  Service!Next \/ UNCHANGED Service!vars
  <1>0. Disturbs /\ UNCHANGED <<va, pv, cap>> /\ TypeOK
    BY DEF CloudDisturbs, coVars, MapInv
  <1>1. ASSUME NEW v \in Volumes, RecycleExpires(v) PROVE Service!Next
    <2>1. /\ disk[v].status \in {"DELETING", "RECYCLED"} /\ Others(v)
          /\ Turns(v, "GONE", disk[v].vm, disk[v].size, disk[v].goal)
          /\ UNCHANGED vmstate
      BY <1>0, <1>1 DEF RecycleExpires, Others, Turns, TypeOK, CloudTypeOK, Disk
    <2> QED BY <1>0, <2>1, DestroySimulates
  <1>2. ASSUME NEW v \in Volumes, RecycleRestore(v) PROVE UNCHANGED Service!vars
    <2>1. Others(v) /\ Unseen(v) /\ UNCHANGED vmstate
      BY <1>0, <1>2 DEF RecycleRestore, Others, Unseen, TypeOK, CloudTypeOK, Disk
    <2> QED BY <1>0, <2>1, UnseenAlone, Stutter
  <1>3. ASSUME NEW n \in Nodes, VmStops(n) \/ VmStarts(n) PROVE UNCHANGED Service!vars
    <2>1. \A m \in Nodes : vmstate'[m] = "ABSENT" <=> vmstate[m] = "ABSENT"
      BY <1>0, <1>3 DEF VmStops, VmStarts, TypeOK, CloudTypeOK
    <2>2. \A v \in Volumes : Unseen(v)
      BY <1>3 DEF VmStops, VmStarts, Unseen
    <2> QED BY <1>0, <2>1, <2>2, Stutter
  <1>4. ASSUME NEW n \in Nodes, VmReleased(n) PROVE Service!Next
    BY <1>0, <1>4, NodeGoneSimulates DEF Service!Next
  <1>5. ASSUME NEW v \in Volumes, RolledBack(v) PROVE FALSE
    BY <1>5 DEF RolledBack
  <1> QED BY <1>0, <1>1, <1>2, <1>3, <1>4, <1>5 DEF Disturbs

-----------------------------------------------------------------------------
(* The steps of the sidecars.                                              *)

LEMMA AnswerSimulates ==
  ASSUME MapInv, NEW c \in Calls, Answer(c)
  PROVE  Service!Next \/ UNCHANGED Service!vars
  <1> DEFINE v == req[c].vol
  <1> DEFINE n == req[c].node
  <1>0. UNCHANGED <<disk, vmstate>> /\ TypeOK /\ v \in Volumes /\ req[c].op \in Ops
    BY RequestFields DEF Answer, cloudVars, MapInv
  <1>1. CASE UNCHANGED coVars
    BY <1>0, <1>1, Stutter DEF coVars, Unseen
  <1>2. CASE Believed(c, req[c].op) /\ CoLearns(req[c], ret[c].gib)
    <2>0. Live(c) /\ open[c] /\ pc[c] = "answer" /\ ret[c].code = "OK"
      BY <1>2 DEF Believed, Live
    <2>1. CASE req[c].op = "Publish"
      <3>1. n \in Nodes /\ va[v][n] \in {"attaching", "detaching"}
        BY <2>0, <2>1 DEF MapInv, AttachInv, NodeInv, VaInv
      <3>2. va' = [va EXCEPT ![v][n] = IF @ = "attaching" THEN "attached" ELSE @]
            /\ UNCHANGED <<pv, cap>>
        BY <1>2, <2>1 DEF CoLearns
      <3>3. CASE va[v][n] = "attaching"
        <4>1. disk[v].vm = n \/ vmstate[n] = "ABSENT"
          BY <2>0, <2>1, <3>1, <3>3 DEF MapInv, PublishInv, PublishedInv, There, At, Needed
        <4>2. va' = [va EXCEPT ![v][n] = "attached"]
          BY <1>0, <3>1, <3>2, <3>3 DEF TypeOK
        <4>3. Service!Attached(v, n)
          BY <1>0, <3>1, <3>2, <3>3, <4>1, <4>2 DEF Service!Attached, Exists
        <4> QED BY <1>0, <3>1, <4>3 DEF Service!Next
      <3>4. CASE va[v][n] = "detaching"
        <4>1. va' = va
          BY <1>0, <3>1, <3>2, <3>4 DEF TypeOK
        <4> QED BY <1>0, <3>2, <4>1, Stutter DEF Unseen
      <3> QED BY <3>1, <3>3, <3>4
    <2>2. CASE req[c].op = "Unpublish"
      <3>1. n \in Nodes /\ va[v][n] = "detaching" /\ disk[v].vm # n
        BY <2>0, <2>2 DEF MapInv, AttachInv, NodeInv, VaInv, OffInv, At, DiskOf
      <3>2. va' = [va EXCEPT ![v][n] = "none"] /\ UNCHANGED <<pv, cap>>
        BY <1>2, <2>2 DEF CoLearns
      <3>3. Service!Detached(v, n)
        BY <1>0, <3>1, <3>2 DEF Service!Detached, Exists
      <3> QED BY <1>0, <3>1, <3>3 DEF Service!Next
    <2>3. CASE req[c].op = "Expand"
      <3>1. cap' = [cap EXCEPT ![v] = ret[c].gib] /\ UNCHANGED <<va, pv>>
        BY <1>2, <2>3 DEF CoLearns
      <3>2. /\ req[c].gib <= ret[c].gib /\ ret[c].gib <= disk[v].size
            /\ req[c].gib > cap[v]
        BY <2>0, <2>3 DEF MapInv, CapacityInv, ExpandInv, AskedInv, At, DiskOf
      <3>3. /\ req[c].gib \in Int /\ ret[c].gib \in Int /\ cap[v] \in 0..MaxGib
            /\ disk[v].size \in 1..MaxGib
        BY <1>0, <2>0, SizesAreIntegers DEF TypeOK, CloudTypeOK, Disk
      <3>4. ret[c].gib \in 1..MaxGib /\ ret[c].gib > cap[v]
        BY <3>2, <3>3, CloudAssumption
      <3>5. Service!Expanded(v)
        BY <1>0, <3>1, <3>2, <3>4 DEF Service!Expanded, Exists
      <3> QED BY <1>0, <3>5 DEF Service!Next
    <2>4. CASE req[c].op = "Delete"
      <3>1. pv' = [pv EXCEPT ![v] = "deleted"] /\ UNCHANGED <<va, cap>>
        BY <1>2, <2>4 DEF CoLearns
      <3>2. disk[v].status = "GONE" /\ pv[v] \in {"deleting", "deleted"}
        BY <1>0, <2>0, <2>4 DEF MapInv, DeleteInv, ReleaseInv, At, DiskOf, TypeOK
      <3>3. CASE pv[v] = "deleting"
        <4>1. Service!Deleted(v)
          BY <1>0, <3>1, <3>2, <3>3 DEF Service!Deleted, Service!Exists, Exists
        <4> QED BY <1>0, <4>1 DEF Service!Next
      <3>4. CASE pv[v] = "deleted"
        <4>1. pv' = pv
          BY <1>0, <3>1, <3>4 DEF TypeOK
        <4> QED BY <1>0, <3>1, <4>1, Stutter DEF Unseen
      <3> QED BY <3>2, <3>3, <3>4
    <2> QED BY <1>0, <2>1, <2>2, <2>3, <2>4 DEF Ops
  <1> QED BY <1>0, <1>1, <1>2, AnswerBelieved

LEMMA WantSimulates ==
  ASSUME Orchestrator
  PROVE  Service!Next
  <1>1. ASSUME NEW v \in Volumes, NEW n \in Nodes, WantAttached(v, n)
        PROVE  Service!AskAttach(v, n)
    BY <1>1 DEF WantAttached, cloudVars, Service!AskAttach, Exists
  <1>2. ASSUME NEW v \in Volumes, NEW n \in Nodes, WantDetached(v, n)
        PROVE  Service!AskDetach(v, n)
    BY <1>2 DEF WantDetached, cloudVars, Service!AskDetach, Exists
  <1>3. ASSUME NEW v \in Volumes, WantDeleted(v)
        PROVE  Service!AskDelete(v)
    BY <1>3 DEF WantDeleted, cloudVars, Service!AskDelete, Exists
  <1> QED BY <1>1, <1>2, <1>3 DEF Orchestrator, Service!Next

LEMMA StepSimulates ==
  ASSUME ~Rollback, MapInv, [Next]_vars
  PROVE  [Service!Next]_(Service!vars)
  <1>1. ASSUME NEW c \in Calls, Handler(c) PROVE Service!Next \/ UNCHANGED Service!vars
    BY <1>1, HandlerSimulates
  <1>2. ASSUME NEW c \in Calls, Answer(c) PROVE Service!Next \/ UNCHANGED Service!vars
    BY <1>2, AnswerSimulates
  <1>3. ASSUME NEW v \in Volumes, CloudCompletes(v)
        PROVE  Service!Next \/ UNCHANGED Service!vars
    BY <1>3, CompletesSimulates
  <1>4. CASE CloudDisturbs
    BY <1>4, DisturbsSimulates
  <1>5. CASE Orchestrator
    BY <1>5, WantSimulates
  <1>6. CASE UNCHANGED <<disk, vmstate, va, pv, cap>>
    BY <1>6, Stutter DEF Unseen
  <1>7. ASSUME NEW c \in Calls, Rpc(c) PROVE UNCHANGED <<disk, vmstate, va, pv, cap>>
    BY <1>7, RpcReceives DEF Receive, cloudVars, coVars
  <1>8. \/ UNCHANGED <<disk, vmstate, va, pv, cap>>
        \/ \E c \in Calls : Rpc(c) \/ Handler(c) \/ Answer(c)
        \/ \E v \in Volumes : CloudCompletes(v)
        \/ CloudDisturbs \/ Orchestrator
    BY DEF Next, Trouble, GiveUp, LeaderMoves, Crash, vars, cloudVars, coVars
  <1> QED BY <1>1, <1>2, <1>3, <1>4, <1>5, <1>6, <1>7, <1>8

\* The controller implements VolumeService when there is one replica and the
\* service shows the instance of a disk in transit and completes what it
\* accepts: for any volumes, nodes, calls in flight and number of failures,
\* what happens to the volumes and what the sidecars are told is a behaviour
\* of the abstract service, in which no answer runs ahead of the disk.
THEOREM Refinement ==
  ASSUME OneReplica, AllShown, ~Rollback
  PROVE  Spec => ImplementsVolumeService
  <1>1. Init => Service!Init
    BY DEF Init, CloudInit, Service!Init, Exists
  <1>2. MapInv /\ [Next]_vars => [Service!Next]_(Service!vars)
    BY StepSimulates
  <1> QED BY <1>1, <1>2, MapInvariant, PTL DEF Spec, ImplementsVolumeService, Service!Spec
=============================================================================
