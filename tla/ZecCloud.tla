------------------------------ MODULE ZecCloud ------------------------------
(***************************************************************************)
(* The ZEC service behind the SDK client, as pkg/cloud uses it.  It is not *)
(* part of the repository: the statuses are those listed in                *)
(* pkg/cloud/types.go, what a call is accepted in and what it leads to is  *)
(* read off the waits and the comments of cloud_manager.go.                *)
(*                                                                         *)
(* Every mutating call is asynchronous: accepting it puts the disk in a    *)
(* transient status, the service leaves that status later, and DescribeDisks *)
(* shows whatever holds at the instant it is asked.                        *)
(***************************************************************************)
EXTENDS Integers

CONSTANTS
  Volumes,    \* disk ids
  Nodes,      \* instance ids
  NoVm,       \* the empty instance id
  MaxGib,     \* bound: largest disk size, in GiB
  MaxFaults,  \* bound: how many failures may happen
  ShownIn,    \* transient statuses in which DescribeDisks reports InstanceId
  Rollback    \* may an accepted operation be undone instead of completed?

ASSUME CloudAssumption ==
  /\ NoVm \notin Nodes
  /\ MaxGib \in Nat \ {0}
  /\ MaxFaults \in Nat
  /\ ShownIn \subseteq {"ATTACHING", "DETACHING"}
  /\ Rollback \in BOOLEAN

VARIABLES
  disk,     \* disk[v]: the record the service keeps of disk v
  vmstate,  \* vmstate[n]: what DescribeInstancesStatus says of instance n
  faults    \* failures so far

cloudVars == <<disk, vmstate, faults>>

\* The statuses of a disk that exists for the handlers here.  CREATING and FAILED
\* are in Provision; to every handler SNAPSHOT_CREATING and ROLLING_BACK are one
\* more status in which a wait goes on, like CHANGING.
DiskStatus == {"AVAILABLE", "ATTACHING", "IN_USE", "DETACHING", "CHANGING",
               "DELETING", "RECYCLED", "GONE"}   \* GONE: TotalCount is 0

Disk == [status : DiskStatus,
         vm     : Nodes \union {NoVm},  \* the instance it is, or is being, bound to
         size   : 1..MaxGib,
         goal   : 1..MaxGib,            \* size after a pending ResizeDisk
         after  : {"RECYCLED", "GONE"}] \* where a pending ReleaseDisk leads

CloudTypeOK ==
  /\ disk \in [Volumes -> Disk]
  /\ vmstate \in [Nodes -> {"RUNNING", "STOPPED", "ABSENT"}]
  /\ faults \in 0..MaxFaults

CloudInit ==
  /\ disk = [v \in Volumes |-> [status |-> "AVAILABLE", vm |-> NoVm,
                                size |-> 1, goal |-> 1, after |-> "RECYCLED"]]
  /\ vmstate = [n \in Nodes |-> "RUNNING"]
  /\ faults = 0

Fault   == faults < MaxFaults /\ faults' = faults + 1
NoFault == UNCHANGED faults

-----------------------------------------------------------------------------
(* What DescribeDisks and DescribeInstancesStatus show.                    *)

Exists(v) == disk[v].status # "GONE"

Bound(v) == disk[v].vm # NoVm

InstanceId(v) ==
  IF disk[v].status \in {"ATTACHING", "DETACHING"} \ ShownIn
  THEN NoVm ELSE disk[v].vm

\* GetVmStatus: the status of an instance, ABSENT when none is listed.
GetVmStatus(n) == vmstate[n]

(* The mutating calls, in the states in which the service accepts them.    *)

CanAttach(v, n) == disk[v].status = "AVAILABLE" /\ vmstate[n] # "ABSENT"

AttachDisks(v, n) ==
  disk' = [disk EXCEPT ![v].status = "ATTACHING", ![v].vm = n]

CanDetach(v) == disk[v].status = "IN_USE"

\* The request names the disk and no instance (InstanceCheckFlag is false).
DetachDisks(v) == disk' = [disk EXCEPT ![v].status = "DETACHING"]

CanResize(v, gib) ==
  disk[v].status \in {"AVAILABLE", "IN_USE"} /\ gib > disk[v].size

ResizeDisk(v, gib) ==
  disk' = [disk EXCEPT ![v].status = "CHANGING", ![v].goal = gib]

CanRelease(v) == disk[v].status \in {"AVAILABLE", "RECYCLED"}

ReleaseDisk(v) ==
  disk' = [disk EXCEPT ![v].status = "DELETING",
                       ![v].after = IF disk[v].status = "RECYCLED"
                                    THEN "GONE" ELSE "RECYCLED"]

-----------------------------------------------------------------------------
(* Steps the service takes by itself.                                      *)

\* The status a disk rests in when no operation is pending.
Rest(v) == IF Bound(v) THEN "IN_USE" ELSE "AVAILABLE"

AttachDone(v) ==
  /\ disk[v].status = "ATTACHING"
  /\ disk' = [disk EXCEPT ![v].status = "IN_USE"]
  /\ UNCHANGED <<vmstate, faults>>

DetachDone(v) ==
  /\ disk[v].status = "DETACHING"
  /\ disk' = [disk EXCEPT ![v].status = "AVAILABLE", ![v].vm = NoVm]
  /\ UNCHANGED <<vmstate, faults>>

ResizeDone(v) ==
  /\ disk[v].status = "CHANGING"
  /\ disk' = [disk EXCEPT ![v].status = Rest(v), ![v].size = disk[v].goal]
  /\ UNCHANGED <<vmstate, faults>>

\* A first release leads to the recycle bin or straight to destruction.
ReleaseDone(v) ==
  /\ disk[v].status = "DELETING"
  /\ \E s \in {disk[v].after, "GONE"} : disk' = [disk EXCEPT ![v].status = s]
  /\ UNCHANGED <<vmstate, faults>>

\* The recycle bin is emptied after 24 hours; an operator may empty it, too.
RecycleExpires(v) ==
  /\ disk[v].status = "RECYCLED"
  /\ disk' = [disk EXCEPT ![v].status = "GONE"]
  /\ UNCHANGED <<vmstate, faults>>

\* An operator takes a disk back out of the recycle bin.
RecycleRestore(v) ==
  /\ disk[v].status = "RECYCLED"
  /\ disk' = [disk EXCEPT ![v].status = "AVAILABLE"]
  /\ Fault
  /\ UNCHANGED vmstate

\* An accepted attach, detach or resize is given up by the service.
RolledBack(v) ==
  /\ Rollback
  /\ \/ /\ disk[v].status = "ATTACHING"
        /\ disk' = [disk EXCEPT ![v].status = "AVAILABLE", ![v].vm = NoVm]
     \/ /\ disk[v].status \in {"DETACHING", "CHANGING"}
        /\ disk' = [disk EXCEPT ![v].status = Rest(v)]
  /\ Fault
  /\ UNCHANGED vmstate

VmStops(n) ==
  /\ vmstate[n] = "RUNNING"
  /\ vmstate' = [vmstate EXCEPT ![n] = "STOPPED"]
  /\ Fault
  /\ UNCHANGED disk

VmStarts(n) ==
  /\ vmstate[n] = "STOPPED"
  /\ vmstate' = [vmstate EXCEPT ![n] = "RUNNING"]
  /\ UNCHANGED <<disk, faults>>

\* The instance is deleted; the disks in use on it become available.
VmReleased(n) ==
  /\ vmstate[n] # "ABSENT"
  /\ \A v \in Volumes : disk[v].vm = n => disk[v].status = "IN_USE"
  /\ vmstate' = [vmstate EXCEPT ![n] = "ABSENT"]
  /\ disk' = [v \in Volumes |->
                IF disk[v].vm = n
                THEN [disk[v] EXCEPT !.status = "AVAILABLE", !.vm = NoVm]
                ELSE disk[v]]
  /\ Fault

Completes(v) ==
  \/ AttachDone(v) \/ DetachDone(v) \/ ResizeDone(v) \/ ReleaseDone(v)

Disturbs ==
  \/ \E v \in Volumes : RecycleExpires(v) \/ RecycleRestore(v) \/ RolledBack(v)
  \/ \E n \in Nodes : VmStops(n) \/ VmStarts(n) \/ VmReleased(n)
=============================================================================
