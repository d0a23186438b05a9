----------------------------- MODULE Provision -----------------------------
(***************************************************************************)
(* CreateVolume of controllerserver.go, with FindVolumeByName,             *)
(* CreateVolume and CreateVolumeFromSnapshot of cloud_manager.go: how a    *)
(* claim gets one disk although the call that creates it may be repeated,  *)
(* abandoned or lost.  A disk that exists is recognised by its name.       *)
(*                                                                         *)
(* Sizes are whole GiB here: module Capacity computes them.  Module         *)
(* Placement says what the class and the topology of a request ask for.    *)
(***************************************************************************)
EXTENDS ResourceLocks, Placement

CONSTANTS
  Calls,      \* bound: RPCs in flight at a time
  Request,    \* Request[k]: what claim k asks for: name, access modes, parameters
              \* of the class, accessibility requirement, size, content source
  Disks,      \* bound: disk ids the cloud can hand out
  NoDisk,     \* no disk id
  Snaps,      \* snapshots a volume can be restored from
  NoSnap,     \* no content source
  MaxFaults,  \* bound: how many failures may happen
  MayFail     \* may a disk the cloud accepted end as FAILED?

Claims == DOMAIN Request

Name(k) == Request[k].name
Size(k) == Request[k].gib
Src(k)  == Request[k].src
Required(k) == Request[k].req

IsSequence(s) == s \in Seq({s[i] : i \in DOMAIN s})

\* An accessibility requirement as the provisioner sends it: CSI asks that the
\* preferred topologies are among the requisite ones, if there are any.
WellFormed(requirement) ==
  /\ IsSequence(requirement.preferred) /\ IsSequence(requirement.requisite)
  /\ requirement.nil => requirement.requisite = <<>>
  /\ requirement.requisite # <<>> =>
       \A i \in DOMAIN requirement.preferred :
         \E j \in DOMAIN requirement.requisite :
           requirement.preferred[i] = requirement.requisite[j]

ASSUME ProvisionAssumption ==
  /\ \A k \in Claims : /\ Name(k) \in STRING /\ Request[k].modes \subseteq STRING
                       /\ Size(k) \in Nat \ {0}
                       /\ Src(k) \in Snaps \union {NoSnap}
                       /\ WellFormed(Required(k))
  /\ NoDisk \notin Disks /\ NoSnap \notin Snaps
  /\ MaxFaults \in Nat
  /\ MayFail \in BOOLEAN

VARIABLES
  disk,    \* disk[d]: the record the cloud keeps of disk d
  snaps,   \* the snapshots that exist and can make disks
  faults,  \* failures so far
  pc,      \* pc[c]: the cloud round trip the handler is about to make
  req,     \* req[c]: the claim and the replica
  new,     \* new[c]: the id CreateDisks returned
  ret,     \* ret[c]: the answer
  open,    \* open[c]: does the provisioner still wait?
  leader,  \* the replica on which the provisioner is active
  vol      \* vol[k]: the disk claim k is bound to

cloudVars == <<disk, snaps, faults>>
callVars  == <<pc, req, new, ret, open, locks>>
vars      == <<cloudVars, callVars, leader, vol>>

-----------------------------------------------------------------------------
(* The storage class decides the type and the group of the disk, and its   *)
(* zone if no topology is required; otherwise the topology picked does.    *)
Placed(k) ==
  LET class == NewZecStorageClassFromMap(Request[k].params)
      topo  == IF Required(k).nil THEN class ELSE PickTopology(Required(k))
  IN
  IF class.ok /\ topo.ok
  THEN [ok |-> TRUE, zone |-> topo.zone, type |-> class.type, group |-> class.group]
  ELSE [ok |-> FALSE]

place == [k \in Claims |-> Placed(k)]

NewDisk(k) ==
  [status |-> "CREATING", name |-> Name(k), zone |-> place[k].zone,
   type |-> place[k].type, group |-> place[k].group, gib |-> Size(k), src |-> Src(k)]

Unused == [status |-> "UNUSED"]
NoReq  == [rep |-> "none"]
NoRet  == [code |-> "none"]

Labels == {"findByName", "findSnapshot", "create", "waitAvailable", "findNew"}

Running(c) == pc[c] \in Labels

\* The disks DescribeDisks lists: also the one in the recycle bin.
Live == {d \in Disks : disk[d].status # "UNUSED"}

TypeOK ==
  /\ \A d \in Disks : disk[d].status \in {"UNUSED", "CREATING", "AVAILABLE",
                                           "FAILED", "RECYCLED"}
  /\ snaps \subseteq Snaps
  /\ faults \in 0..MaxFaults
  /\ pc \in [Calls -> Labels \union {"idle", "answer"}]
  /\ \A c \in Calls : pc[c] # "idle" => req[c].rep \in Replicas /\ req[c].claim \in Claims
  /\ new \in [Calls -> Disks \union {NoDisk}]
  /\ \A c \in Calls : pc[c] \in {"waitAvailable", "findNew"} => new[c] \in Disks
  /\ \A c \in Calls : ret[c].code = "OK" => ret[c].diskId \in Disks
  /\ open \in [Calls -> BOOLEAN]
  /\ leader \in Replicas
  /\ vol \in [Claims -> Disks \union {NoDisk}]

Init ==
  /\ disk = [d \in Disks |-> Unused]
  /\ snaps = Snaps
  /\ faults = 0
  /\ NewResourceLocks
  /\ pc = [c \in Calls |-> "idle"]
  /\ req = [c \in Calls |-> NoReq]
  /\ new = [c \in Calls |-> NoDisk]
  /\ ret = [c \in Calls |-> NoRet]
  /\ open = [c \in Calls |-> FALSE]
  /\ leader \in Replicas
  /\ vol = [k \in Claims |-> NoDisk]

-----------------------------------------------------------------------------
(* How the handler moves.                                                  *)

Fault   == faults < MaxFaults /\ faults' = faults + 1
NoFault == UNCHANGED faults

Frame == UNCHANGED <<snaps, req, open, leader, vol>>

\* Broken forms: the Release of the snapshot is deferred before it is acquired;
HeldTooMuch(c) == {Name(req[c].claim), Src(req[c].claim)} \ {NoSnap}

\* it is missing.
HeldNameOnly(c) == {Name(req[c].claim)}

\* The ids whose Release is deferred: the name, and past the search also the
\* snapshot.
Held(c) ==
  {Name(req[c].claim)} \union
    IF pc[c] = "findByName" THEN {} ELSE {Src(req[c].claim)} \ {NoSnap}

Return(c, answer) ==
  /\ pc' = [pc EXCEPT ![c] = "answer"]
  /\ ret' = [ret EXCEPT ![c] = answer]
  /\ new' = [new EXCEPT ![c] = NoDisk]
  /\ locks' = [locks EXCEPT ![req[c].rep] = @ \ Held(c)]

Goto(c, label) == pc' = [pc EXCEPT ![c] = label] /\ UNCHANGED ret

Fail(c, code) == Return(c, [code |-> code]) /\ UNCHANGED disk

ApiError(c) == Fault /\ Fail(c, "Internal")

\* genCsiVolId fails without a serial number.  A disk that is still being
\* created may well lack it; that the cloud has none for another is a failure.
MayLackSerial(d) == IF disk[d].status = "CREATING" THEN NoFault ELSE Fault

Found(c, d) ==
  \/ NoFault /\ Return(c, [code |-> "OK", diskId |-> d]) /\ UNCHANGED disk
  \/ MayLackSerial(d) /\ Fail(c, "Aborted")

-----------------------------------------------------------------------------
(* CreateVolume                                                            *)

\* Broken form: the access modes are not looked at.
ServedAnyMode(k) == place[k].ok

\* The access modes, the storage class and the topology are such that the
\* prologue does not answer InvalidArgument.
Served(k) == ValidateVolumeCapabilities(Request[k].modes) /\ place[k].ok

\* The claims whose CreateVolume gets past the prologue.
ServedClaims == {k \in Claims : Served(k)}

\* Any other request is answered at once, without a lock or with one that is
\* released again, and the provisioner knows no more than before.
RefuseVolume(c, k) ==
  /\ pc[c] = "idle"
  /\ k \notin ServedClaims
  /\ UNCHANGED vars

CreateVolume(c, k) ==
  /\ vol[k] = NoDisk
  /\ pc[c] = "idle"
  /\ k \in ServedClaims
  /\ \A d \in Calls : ~(open[d] /\ req[d].claim = k)
  /\ req' = [req EXCEPT ![c] = [claim |-> k, rep |-> leader]]
  /\ open' = [open EXCEPT ![c] = TRUE]
  /\ \/ /\ TryAcquire(leader, Name(k))
        /\ pc' = [pc EXCEPT ![c] = "findByName"]
        /\ UNCHANGED ret
     \/ /\ IsLocked(leader, Name(k))
        /\ pc' = [pc EXCEPT ![c] = "answer"]
        /\ ret' = [ret EXCEPT ![c] = [code |-> "Aborted"]]
        /\ UNCHANGED locks
  /\ UNCHANGED <<cloudVars, new, leader, vol>>

\* Broken form: a disk in the recycle bin counts as existing.
NamesakesInRecycleBin(k) ==
  {d \in Live : /\ disk[d].name = Name(k) /\ disk[d].zone = place[k].zone
                /\ disk[d].group = place[k].group /\ disk[d].type = place[k].type}

\* FindVolumeByName: the disks listed for the name, the zone and the group,
\* without those in the recycle bin and those of another type.  The name goes
\* into a regular expression as it is: the names the provisioner makes, a prefix
\* and a uid, match only themselves.  Without a zone nothing is found.
Namesakes(k) ==
  {d \in Live : /\ disk[d].name = Name(k) /\ disk[d].zone = place[k].zone
                /\ disk[d].group = place[k].group /\ disk[d].type = place[k].type
                /\ disk[d].status # "RECYCLED"}

\* An existing disk will do: its size and its topology are compared, its
\* status is not.
Compatible(k, d) ==
  disk[d].gib = Size(k) /\ IsValidTopology(disk[d].type, disk[d].zone, Required(k))

\* The first namesake decides.  If there is none the handler goes on, with the
\* lock of the snapshot if it needs one.
FindVolumeByName(c) ==
  LET k == req[c].claim  r == req[c].rep IN
  /\ pc[c] = "findByName"
  /\ \/ ApiError(c)
     \/ \E d \in Namesakes(k) :
          \/ ~Compatible(k, d) /\ NoFault /\ Fail(c, "AlreadyExists")
          \/ Compatible(k, d) /\ Found(c, d)
     \/ /\ Namesakes(k) = {} /\ Src(k) = NoSnap /\ NoFault
        /\ Goto(c, "create") /\ UNCHANGED <<disk, new, locks>>
     \/ /\ Namesakes(k) = {} /\ Src(k) # NoSnap /\ NoFault
        /\ \/ /\ TryAcquire(r, Src(k))
              /\ Goto(c, "findSnapshot") /\ UNCHANGED <<disk, new>>
           \/ IsLocked(r, Src(k)) /\ Fail(c, "Aborted")
  /\ Frame

\* FindSnapshot and the test of DiskAbility.
ProvFindSnapshot(c) ==
  LET s == Src(req[c].claim) IN
  /\ pc[c] = "findSnapshot"
  /\ \/ ApiError(c)
     \/ s \notin snaps /\ NoFault /\ Fail(c, "NotFound")
     \/ s \in snaps /\ NoFault /\ Goto(c, "create") /\ UNCHANGED <<disk, new, locks>>
  /\ Frame

\* The id of a new disk: one never used before, which one does not matter.
HasFreeId == \E d \in Disks : disk[d] = Unused
NextId    == CHOOSE d \in Disks : disk[d] = Unused

\* Broken form: the id in the answer of CreateDisks is lost in a shadowed
\* variable.
ProvCreateIdLost(c) ==
  LET k == req[c].claim IN
  /\ pc[c] = "create" /\ NoFault
  /\ HasFreeId
  /\ LET d == NextId IN
       /\ disk' = [disk EXCEPT ![d] = NewDisk(k)]
  /\ Goto(c, "waitAvailable")
  /\ UNCHANGED <<new, locks>>
  /\ Frame

\* What both functions of the cloud manager that create disks, and the cloud,
\* ask for: a topology may come without a zone, and a snapshot may be gone.
Creatable(k) == place[k].zone # "" /\ Src(k) \in snaps \union {NoSnap}

\* cloud CreateVolume or CreateVolumeFromSnapshot up to the wait; an error may
\* hide an accepted request.
ProvCreate(c) ==
  LET k == req[c].claim IN
  /\ pc[c] = "create"
  /\ \/ ApiError(c)
     \/ ~Creatable(k) /\ NoFault /\ Fail(c, "Internal")
     \/ /\ Creatable(k) /\ HasFreeId
        /\ LET d == NextId IN
             /\ disk' = [disk EXCEPT ![d] = NewDisk(k)]
             /\ \/ /\ NoFault /\ Goto(c, "waitAvailable")
                   /\ new' = [new EXCEPT ![c] = d]
                   /\ UNCHANGED locks
                \/ Fault /\ Return(c, [code |-> "Internal"])
  /\ Frame

ProvWaitAvailable(c) ==
  /\ pc[c] = "waitAvailable"
  /\ \/ ApiError(c)
     \/ disk[new[c]].status # "AVAILABLE" /\ NoFault /\ Fail(c, "Internal")
     \/ /\ disk[new[c]].status = "AVAILABLE" /\ NoFault
        /\ Goto(c, "findNew")
        /\ UNCHANGED <<disk, new, locks>>
  /\ Frame

ProvFindNew(c) ==
  /\ pc[c] = "findNew"
  /\ \/ ApiError(c)
     \/ Found(c, new[c])
  /\ Frame

-----------------------------------------------------------------------------
(* The cloud, the provisioner and the process.                             *)

CreateDone(d) ==
  /\ disk[d].status = "CREATING"
  /\ disk' = [disk EXCEPT ![d].status = "AVAILABLE"]
  /\ UNCHANGED <<snaps, faults, callVars, leader, vol>>

CreateFails(d) ==
  /\ MayFail
  /\ disk[d].status = "CREATING"
  /\ disk' = [disk EXCEPT ![d].status = "FAILED"]
  /\ Fault
  /\ UNCHANGED <<snaps, callVars, leader, vol>>

\* The disk of a claim, or the one a call has found or seen AVAILABLE.
InUse(d) ==
  \/ \E k \in Claims : vol[k] = d
  \/ \E c \in Calls : pc[c] = "findNew" /\ new[c] = d
  \/ \E c \in Calls : pc[c] = "answer" /\ ret[c].code = "OK" /\ ret[c].diskId = d

\* An operator throws away a disk nobody uses, although a call may be about to
\* look for its name or may wait for it to be AVAILABLE.
DiskRecycled(d) ==
  /\ disk[d].status = "AVAILABLE"
  /\ ~InUse(d)
  /\ disk' = [disk EXCEPT ![d].status = "RECYCLED"]
  /\ Fault
  /\ UNCHANGED <<snaps, callVars, leader, vol>>

\* A snapshot is deleted, possibly through another replica.
SnapshotGone(s) ==
  /\ s \in snaps
  /\ snaps' = snaps \ {s}
  /\ Fault
  /\ UNCHANGED <<disk, callVars, leader, vol>>

Answer(c) ==
  /\ pc[c] = "answer"
  /\ \/ /\ open[c] /\ ret[c].code = "OK"
        /\ vol' = [vol EXCEPT ![req[c].claim] = ret[c].diskId]
     \/ (~open[c] \/ ret[c].code # "OK") /\ UNCHANGED vol
  /\ pc' = [pc EXCEPT ![c] = "idle"]
  /\ req' = [req EXCEPT ![c] = NoReq]
  /\ ret' = [ret EXCEPT ![c] = NoRet]
  /\ open' = [open EXCEPT ![c] = FALSE]
  /\ UNCHANGED <<cloudVars, new, locks, leader>>

\* The sidecar's --timeout: it stops waiting, the handler goes on.
GiveUp(c) ==
  /\ open[c]
  /\ open' = [open EXCEPT ![c] = FALSE]
  /\ Fault
  /\ UNCHANGED <<disk, snaps, pc, req, new, ret, locks, leader, vol>>

LeaderMoves(r) ==
  /\ leader' = r
  /\ open' = [c \in Calls |-> FALSE]
  /\ Fault
  /\ UNCHANGED <<disk, snaps, pc, req, new, ret, locks, vol>>

\* A replica restarts: its goroutines and its lock table are gone.
Crash(r) ==
  LET dead == {c \in Calls : pc[c] # "idle" /\ req[c].rep = r} IN
  /\ pc' = [c \in Calls |-> IF c \in dead THEN "idle" ELSE pc[c]]
  /\ req' = [c \in Calls |-> IF c \in dead THEN NoReq ELSE req[c]]
  /\ new' = [c \in Calls |-> IF c \in dead THEN NoDisk ELSE new[c]]
  /\ ret' = [c \in Calls |-> IF c \in dead THEN NoRet ELSE ret[c]]
  /\ open' = [c \in Calls |-> open[c] /\ c \notin dead]
  /\ LoseLocks(r)
  /\ Fault
  /\ UNCHANGED <<disk, snaps, leader, vol>>

-----------------------------------------------------------------------------
Handler(c) ==
  \/ FindVolumeByName(c) \/ ProvFindSnapshot(c) \/ ProvCreate(c)
  \/ ProvWaitAvailable(c) \/ ProvFindNew(c)

Next ==
  \/ \E c \in Calls : \/ \E k \in Claims : CreateVolume(c, k) \/ RefuseVolume(c, k)
                      \/ Handler(c) \/ Answer(c) \/ GiveUp(c)
  \/ \E d \in Disks : CreateDone(d) \/ CreateFails(d) \/ DiskRecycled(d)
  \/ \E s \in Snaps : SnapshotGone(s)
  \/ \E r \in Replicas : LeaderMoves(r) \/ Crash(r)

Spec == Init /\ [][Next]_vars

(* Goroutines run, answers arrive, the cloud finishes what it accepted and *)
(* the provisioner retries every claim for ever.                           *)
Fairness ==
  /\ \A c \in Calls : WF_vars(Handler(c) \/ Answer(c))
  /\ WF_vars(\E d \in Disks : CreateDone(d))
  /\ \A k \in ServedClaims : SF_vars(\E c \in Calls : CreateVolume(c, k))

FairSpec == Spec /\ Fairness

-----------------------------------------------------------------------------
(* Properties                                                              *)

\* LocksMatchHandlers: the lock table of a replica holds exactly the names and
\* snapshots of its running handlers, each held once: every return, including
\* the one on the second lock being taken, gives back what was acquired and
\* nothing else.
LocksMatchHandlers ==
  /\ \A r \in Replicas :
       locks[r] = UNION {IF Running(c) /\ req[c].rep = r THEN
                           {Name(req[c].claim)} \union
                             IF pc[c] = "findByName" THEN {} ELSE {Src(req[c].claim)} \ {NoSnap}
                         ELSE {} : c \in Calls}
  /\ \A c, d \in Calls :
       Running(c) /\ Running(d) /\ req[c].rep = req[d].rep
         /\ Name(req[c].claim) = Name(req[d].claim) => c = d

\* OneDiskPerName: retries, late handlers and lost answers never make a second
\* disk of one name, zone, group and type; it would be paid for and never used.
OneDiskPerName ==
  \A d, e \in Live :
    /\ "RECYCLED" \notin {disk[d].status, disk[e].status}
    /\ disk[d].name = disk[e].name /\ disk[d].zone = disk[e].zone
    /\ disk[d].type = disk[e].type /\ disk[d].group = disk[e].group
    => d = e

\* A disk of zone z is within reach of a topology that names it or no zone.
InReach(z, topology) == Get(topology, ZoneKey, z) = z

\* BoundAsAsked: a claim is only bound if it asked for what a disk can do, and
\* to a disk of its name and size that is not in the recycle bin, within reach
\* of one of the requisite topologies or in the zone of the class, although
\* FindVolumeByName may have found it and another call made it.
BoundAsAsked ==
  \A k \in Claims :
    vol[k] # NoDisk =>
      /\ Request[k].modes \subseteq {"SINGLE_NODE_WRITER", "SINGLE_NODE_SINGLE_WRITER"}
      /\ disk[vol[k]].gib = Size(k)
      /\ disk[vol[k]].name = Name(k)
      /\ disk[vol[k]].status # "RECYCLED"
      /\ Required(k).requisite # <<>> =>
           \E i \in DOMAIN Required(k).requisite : InReach(disk[vol[k]].zone, Required(k).requisite[i])
      /\ Required(k).nil => disk[vol[k]].zone = place[k].zone

\* RefusedIsDifferent: CreateVolume answers AlreadyExists only if there is a
\* disk of that name with another size; the comment before the search says that
\* a repeated request with the same capacity should not fail.
RefusedIsDifferent ==
  \A c \in Calls :
    pc[c] = "answer" /\ ret[c].code = "AlreadyExists" =>
      \E d \in Live : /\ disk[d].name = Name(req[c].claim)
                       /\ disk[d].gib # Size(req[c].claim)

\* No retry helps this claim: it has no zone, its snapshot is gone, or a disk of
\* its name has another size.
Stuck(k) ==
  \/ ~Creatable(k)
  \/ \E d \in Namesakes(k) : disk[d].gib # Size(k)

\* ClaimGetsBound: in the end every claim that is served has its disk, also when
\* another one is restored from the same snapshot at the same time, unless it or
\* a claim of the same name is stuck (whose retries may hold the lock of the
\* name whenever this claim tries).
ClaimGetsBound ==
  <>(\A k \in ServedClaims :
       vol[k] # NoDisk \/ \E j \in Claims : Name(j) = Name(k) /\ Stuck(j))

\* BoundIsUsable: the disk a claim is bound to can be attached, now or once it
\* is created; the comment of FindVolumeByName says that no other is found.
BoundIsUsable ==
  \A k \in Claims :
    vol[k] # NoDisk => disk[vol[k]].status \in {"CREATING", "AVAILABLE"}
=============================================================================
