----------------------------- MODULE Snapshots -----------------------------
(***************************************************************************)
(* CreateSnapshot and DeleteSnapshot of controllerserver.go with the       *)
(* functions of cloud_manager.go they call, the snapshot service of the    *)
(* cloud, and the external-snapshotter that retries both.                  *)
(*                                                                         *)
(* CreateSnapshot locks the source volume, DeleteSnapshot the snapshot id; *)
(* a snapshot is recognised on a retry by its name.  As in                 *)
(* ControllerServer an action is the code between two cloud round trips.   *)
(* Only volumes whose disk has SnapshotAbility are here: any other one is  *)
(* refused before anything changes.                                        *)
(***************************************************************************)
EXTENDS ResourceLocks, Integers

CONSTANTS
  Calls,      \* bound: RPCs in flight at a time
  Volumes,    \* source volumes
  Zone,       \* Zone[v]: the zone of the disk of v
  Group,      \* Group[v]: its resource group
  Contents,   \* VolumeSnapshotContents: records of a name and a source
  Snaps,      \* bound: snapshot ids the cloud can hand out
  NoSnap,     \* no snapshot id
  MaxFaults,  \* bound: how many failures may happen
  MayFail     \* may a snapshot the cloud accepted end as FAILED?

ASSUME SnapshotAssumption ==
  /\ Contents \subseteq [name : STRING, src : Volumes]
  /\ Volumes = DOMAIN Zone /\ Volumes = DOMAIN Group
  /\ NoSnap \notin Snaps
  /\ MaxFaults \in Nat
  /\ MayFail \in BOOLEAN

VARIABLES
  snap,    \* snap[s]: the record the cloud keeps of snapshot s
  disks,   \* the volumes whose disk exists
  faults,  \* failures so far
  pc,      \* pc[c]: the cloud round trip the handler is about to make
  req,     \* req[c]: the request: operation, content, snapshot id, replica
  new,     \* new[c]: the id CreateSnapshot was given
  ret,     \* ret[c]: the answer
  open,    \* open[c]: does the sidecar still wait?
  leader,  \* the replica on which the snapshotter is active
  co,      \* co[k]: how far content k is
  sid      \* sid[k]: the snapshot id recorded in content k

cloudVars == <<snap, disks, faults>>
callVars  == <<pc, req, new, ret, open, locks>>
vars      == <<cloudVars, callVars, leader, co, sid>>

-----------------------------------------------------------------------------
Unused == [status |-> "UNUSED", name |-> "", src |-> ""]
NoReq  == [op |-> "none"]
NoRet  == [code |-> "none"]

CreateLabels == {"findVolume", "findByName", "create", "waitAvailable", "findNew"}
DeleteLabels == {"findSnapshot", "delete", "waitDeleted"}

Running(c) == pc[c] \in CreateLabels \union DeleteLabels

\* The snapshots the cloud still knows of.
Live == {s \in Snaps : snap[s].status \notin {"UNUSED", "GONE"}}

\* What the handler of request q locks.
LockId(q) == IF q.op = "Create" THEN q.content.src ELSE q.snapId

TypeOK ==
  /\ \A s \in Snaps : snap[s].status \in {"UNUSED", "CREATING", "AVAILABLE",
                                           "FAILED", "DELETING", "GONE"}
  /\ disks \subseteq Volumes
  /\ faults \in 0..MaxFaults
  /\ locks \in [Replicas -> SUBSET (Volumes \union Snaps)]
  /\ pc \in [Calls -> CreateLabels \union DeleteLabels \union {"idle", "answer"}]
  /\ \A c \in Calls : pc[c] # "idle" => req[c].rep \in Replicas
  /\ new \in [Calls -> Snaps \union {NoSnap}]
  /\ \A c \in Calls : pc[c] \in {"waitAvailable", "findNew"} => new[c] \in Snaps
  /\ open \in [Calls -> BOOLEAN]
  /\ leader \in Replicas
  /\ co \in [Contents -> {"none", "creating", "pending", "ready", "deleting", "deleted"}]
  /\ sid \in [Contents -> Snaps \union {NoSnap}]

\* A content is wanted or not; the first call for it comes at any time.
Init ==
  /\ snap = [s \in Snaps |-> Unused]
  /\ disks = Volumes
  /\ faults = 0
  /\ NewResourceLocks
  /\ pc = [c \in Calls |-> "idle"]
  /\ req = [c \in Calls |-> NoReq]
  /\ new = [c \in Calls |-> NoSnap]
  /\ ret = [c \in Calls |-> NoRet]
  /\ open = [c \in Calls |-> FALSE]
  /\ leader \in Replicas
  /\ co \in [Contents -> {"none", "creating"}]
  /\ sid = [k \in Contents |-> NoSnap]

-----------------------------------------------------------------------------
(* How a handler moves.                                                    *)

Fault   == faults < MaxFaults /\ faults' = faults + 1
NoFault == UNCHANGED faults

Frame == UNCHANGED <<disks, req, open, leader, co, sid>>

Goto(c, label) == pc' = [pc EXCEPT ![c] = label] /\ UNCHANGED <<ret, locks>>

\* Every return: the deferred Release runs, then the answer is on its way.
Return(c, answer) ==
  /\ pc' = [pc EXCEPT ![c] = "answer"]
  /\ ret' = [ret EXCEPT ![c] = answer]
  /\ new' = [new EXCEPT ![c] = NoSnap]
  /\ Release(req[c].rep, LockId(req[c]))

Fail(c, code) == Return(c, [code |-> code]) /\ UNCHANGED snap

\* Broken form: an existing snapshot is always reported ready.
FoundAlwaysReady(c, s) ==
  /\ Return(c, [code |-> "OK", snapId |-> s, ready |-> TRUE])
  /\ UNCHANGED snap

\* ReadyToUse is set when the snapshot is AVAILABLE as read.
Found(c, s) ==
  /\ Return(c, [code |-> "OK", snapId |-> s, ready |-> snap[s].status = "AVAILABLE"])
  /\ UNCHANGED snap

Done(c) == Return(c, [code |-> "OK"]) /\ UNCHANGED snap

\* An SDK call returns an error and has had no effect.
ApiError(c) == Fault /\ Fail(c, "Internal")

\* The prologue: the request is well formed and TryAcquire decides.  While a
\* create has not been answered for certain the snapshotter keeps the content
\* marked as being created, which is what keeps it from being deleted.
Receive(c, q) ==
  /\ pc[c] = "idle"
  /\ \A d \in Calls : ~(open[d] /\ req[d].content = q.content)
  /\ req' = [req EXCEPT ![c] = q]
  /\ open' = [open EXCEPT ![c] = TRUE]
  /\ \/ /\ TryAcquire(q.rep, LockId(q))
        /\ pc' = [pc EXCEPT ![c] = IF q.op = "Create" THEN "findVolume" ELSE "findSnapshot"]
        /\ UNCHANGED ret
     \/ /\ IsLocked(q.rep, LockId(q))
        /\ pc' = [pc EXCEPT ![c] = "answer"]
        /\ ret' = [ret EXCEPT ![c] = [code |-> "Aborted"]]
        /\ UNCHANGED locks
  /\ co' = IF q.op = "Create" THEN [co EXCEPT ![q.content] = "creating"] ELSE co
  /\ UNCHANGED <<cloudVars, new, leader, sid>>

-----------------------------------------------------------------------------
(* CreateSnapshot                                                          *)

CreateSnapshot(c, k) ==
  /\ co[k] \in {"creating", "pending"}
  /\ Receive(c, [op |-> "Create", content |-> k, snapId |-> NoSnap, rep |-> leader])

SnapFindVolume(c) ==
  /\ pc[c] = "findVolume"
  /\ \/ ApiError(c)
     \/ req[c].content.src \notin disks /\ NoFault /\ Fail(c, "NotFound")
     \/ /\ req[c].content.src \in disks /\ NoFault
        /\ Goto(c, "findByName")
        /\ UNCHANGED <<snap, new>>
  /\ Frame

\* DescribeSnapshots filtered by the name and by the zone and the group of the
\* disk, which its snapshots have too; all pages are collected.  The name goes
\* into a regular expression as it is: the names the snapshotter makes, a prefix
\* and a uid, match only themselves.
Listed(k) ==
  {s \in Live : /\ snap[s].name = k.name
                /\ Zone[snap[s].src] = Zone[k.src] /\ Group[snap[s].src] = Group[k.src]}

\* Broken form: an existing snapshot is only recognised once it is complete.
FindSnapshotByNameAvailable(c) ==
  LET found == {s \in Listed(req[c].content) : snap[s].status = "AVAILABLE"} IN
  /\ pc[c] = "findByName" /\ NoFault
  /\ \/ \E s \in found : Found(c, s)
     \/ found = {} /\ Goto(c, "create") /\ UNCHANGED <<snap, new>>
  /\ Frame

\* FindSnapshotByName looks at the first snapshot listed and no further.
FindSnapshotByName(c) ==
  LET k == req[c].content IN
  /\ pc[c] = "findByName"
  /\ \/ ApiError(c)
     \/ /\ NoFault
        /\ \E s \in Listed(k) :
             \/ snap[s].src = k.src /\ Found(c, s)
             \/ snap[s].src # k.src /\ Fail(c, "AlreadyExists")
     \/ /\ Listed(k) = {} /\ NoFault
        /\ Goto(c, "create")
        /\ UNCHANGED <<snap, new>>
  /\ Frame

\* The id of a new snapshot: one never used before, which one does not matter.
HasFreeId == \E s \in Snaps : snap[s] = Unused
NextId    == CHOOSE s \in Snaps : snap[s] = Unused

\* Broken form: the id in the answer of CreateSnapshot is lost in a shadowed
\* variable.
SnapCreateIdLost(c) ==
  LET k == req[c].content IN
  /\ pc[c] = "create" /\ NoFault
  /\ HasFreeId
  /\ LET s == NextId IN
       /\ snap' = [snap EXCEPT ![s] = [status |-> "CREATING", name |-> k.name,
                                       src |-> k.src]]
  /\ Goto(c, "waitAvailable")
  /\ UNCHANGED new
  /\ Frame

\* cloud CreateSnapshot up to its wait; an error may hide an accepted request.
SnapCreate(c) ==
  LET k == req[c].content IN
  /\ pc[c] = "create"
  /\ \/ ApiError(c)
     \/ k.src \notin disks /\ NoFault /\ Fail(c, "Internal")
     \/ /\ k.src \in disks /\ HasFreeId
        /\ LET s == NextId IN
             /\ snap' = [snap EXCEPT ![s] = [status |-> "CREATING", name |-> k.name,
                                             src |-> k.src]]
             /\ \/ /\ NoFault /\ Goto(c, "waitAvailable")
                   /\ new' = [new EXCEPT ![c] = s]
                \/ Fault /\ Return(c, [code |-> "Internal"])
  /\ Frame

\* waitDiskSnapStatus(AVAILABLE); as in ControllerServer an ApiError is also
\* the 180 s ending after the last poll.
SnapWaitAvailable(c) ==
  /\ pc[c] = "waitAvailable"
  /\ \/ ApiError(c)
     \/ snap[new[c]].status # "AVAILABLE" /\ NoFault /\ Fail(c, "Internal")
     \/ /\ snap[new[c]].status = "AVAILABLE" /\ NoFault
        /\ Goto(c, "findNew")
        /\ UNCHANGED <<snap, new>>
  /\ Frame

SnapFindNew(c) ==
  /\ pc[c] = "findNew"
  /\ \/ ApiError(c)
     \/ new[c] \notin Live /\ NoFault /\ Fail(c, "Internal")
     \/ new[c] \in Live /\ NoFault /\ Found(c, new[c])
  /\ Frame

-----------------------------------------------------------------------------
(* DeleteSnapshot                                                          *)

DeleteSnapshot(c, k) ==
  /\ co[k] = "deleting"
  /\ Receive(c, [op |-> "Delete", content |-> k, snapId |-> sid[k], rep |-> leader])

\* Broken form: a snapshot that is already gone is an error.
FindSnapshotMissingIsError(c) ==
  /\ pc[c] = "findSnapshot" /\ NoFault
  /\ \/ req[c].snapId \notin Live /\ Fail(c, "NotFound")
     \/ req[c].snapId \in Live /\ Goto(c, "delete") /\ UNCHANGED <<snap, new>>
  /\ Frame

FindSnapshot(c) ==
  /\ pc[c] = "findSnapshot"
  /\ \/ ApiError(c)
     \/ req[c].snapId \notin Live /\ NoFault /\ Done(c)
     \/ req[c].snapId \in Live /\ NoFault /\ Goto(c, "delete") /\ UNCHANGED <<snap, new>>
  /\ Frame

\* cloud DeleteSnapshot up to its wait: a snapshot that is gone counts as
\* deleted, one in the list of failed ids is an error.
SnapDelete(c) ==
  LET s == req[c].snapId IN
  /\ pc[c] = "delete"
  /\ \/ ApiError(c)
     \/ s \notin Live /\ NoFault /\ Done(c)
     \/ snap[s].status \in {"CREATING", "DELETING"} /\ NoFault /\ Fail(c, "Internal")
     \/ /\ snap[s].status \in {"AVAILABLE", "FAILED"}
        /\ snap' = [snap EXCEPT ![s].status = "DELETING"]
        /\ \/ NoFault /\ Goto(c, "waitDeleted") /\ UNCHANGED new
           \/ Fault /\ Return(c, [code |-> "Internal"])
  /\ Frame

\* Broken form: an accepted DeleteSnapshots is taken for a finished one.
SnapDeleteWithoutWait(c) ==
  /\ pc[c] = "waitDeleted" /\ NoFault /\ Done(c)
  /\ Frame

SnapWaitDeleted(c) ==
  /\ pc[c] = "waitDeleted"
  /\ \/ ApiError(c)
     \/ req[c].snapId \in Live /\ NoFault /\ Fail(c, "Internal")
     \/ req[c].snapId \notin Live /\ NoFault /\ Done(c)
  /\ Frame

-----------------------------------------------------------------------------
(* The cloud, the snapshotter and the process.                             *)

SnapshotCompletes(s) ==
  /\ \/ /\ snap[s].status = "CREATING"
        /\ snap' = [snap EXCEPT ![s].status = "AVAILABLE"]
     \/ /\ snap[s].status = "DELETING"
        /\ snap' = [snap EXCEPT ![s].status = "GONE"]
  /\ UNCHANGED <<disks, faults, callVars, leader, co, sid>>

SnapshotFails(s) ==
  /\ MayFail
  /\ snap[s].status = "CREATING"
  /\ snap' = [snap EXCEPT ![s].status = "FAILED"]
  /\ Fault
  /\ UNCHANGED <<disks, callVars, leader, co, sid>>

\* The source volume is deleted, and with it its snapshots; the contents that
\* name them stay.
DiskReleased(v) ==
  /\ v \in disks
  /\ disks' = disks \ {v}
  /\ snap' = [s \in Snaps |-> IF snap[s].src = v
                              THEN [snap[s] EXCEPT !.status = "GONE"] ELSE snap[s]]
  /\ Fault
  /\ UNCHANGED <<callVars, leader, co, sid>>

\* The answer arrives.  A created snapshot that is not ready is asked for
\* again; errors and answers nobody waits for change nothing.
Answer(c) ==
  LET k == req[c].content IN
  /\ pc[c] = "answer"
  /\ \/ /\ open[c] /\ ret[c].code = "OK" /\ req[c].op = "Create"
        /\ co' = [co EXCEPT ![k] = IF ret[c].ready THEN "ready" ELSE "pending"]
        /\ sid' = [sid EXCEPT ![k] = ret[c].snapId]
     \/ /\ open[c] /\ ret[c].code = "OK" /\ req[c].op = "Delete"
        /\ co' = [co EXCEPT ![k] = "deleted"]
        /\ UNCHANGED sid
     \/ (~open[c] \/ ret[c].code # "OK") /\ UNCHANGED <<co, sid>>
  /\ pc' = [pc EXCEPT ![c] = "idle"]
  /\ req' = [req EXCEPT ![c] = NoReq]
  /\ ret' = [ret EXCEPT ![c] = NoRet]
  /\ open' = [open EXCEPT ![c] = FALSE]
  /\ UNCHANGED <<cloudVars, new, locks, leader>>

\* A content is deleted once it has a snapshot id and no create is uncertain.
WantNoSnapshot(k) ==
  /\ co[k] \in {"pending", "ready"}
  /\ co' = [co EXCEPT ![k] = "deleting"]
  /\ UNCHANGED <<cloudVars, callVars, leader, sid>>

\* The sidecar's --timeout: it stops waiting, the handler goes on.
GiveUp(c) ==
  /\ open[c]
  /\ open' = [open EXCEPT ![c] = FALSE]
  /\ Fault
  /\ UNCHANGED <<snap, disks, pc, req, new, ret, locks, leader, co, sid>>

LeaderMoves(r) ==
  /\ leader' = r
  /\ open' = [c \in Calls |-> FALSE]
  /\ Fault
  /\ UNCHANGED <<snap, disks, pc, req, new, ret, locks, co, sid>>

\* A replica restarts: its goroutines and its lock table are gone.
Crash(r) ==
  LET dead == {c \in Calls : pc[c] # "idle" /\ req[c].rep = r} IN
  /\ pc' = [c \in Calls |-> IF c \in dead THEN "idle" ELSE pc[c]]
  /\ req' = [c \in Calls |-> IF c \in dead THEN NoReq ELSE req[c]]
  /\ new' = [c \in Calls |-> IF c \in dead THEN NoSnap ELSE new[c]]
  /\ ret' = [c \in Calls |-> IF c \in dead THEN NoRet ELSE ret[c]]
  /\ open' = [c \in Calls |-> open[c] /\ c \notin dead]
  /\ LoseLocks(r)
  /\ Fault
  /\ UNCHANGED <<snap, disks, leader, co, sid>>

-----------------------------------------------------------------------------
Handler(c) ==
  \/ SnapFindVolume(c) \/ FindSnapshotByName(c) \/ SnapCreate(c)
  \/ SnapWaitAvailable(c) \/ SnapFindNew(c)
  \/ FindSnapshot(c) \/ SnapDelete(c) \/ SnapWaitDeleted(c)

Snapshotter(c, k) == CreateSnapshot(c, k) \/ DeleteSnapshot(c, k)

Next ==
  \/ \E c \in Calls : \/ \E k \in Contents : Snapshotter(c, k)
                      \/ Handler(c) \/ Answer(c) \/ GiveUp(c)
  \/ \E s \in Snaps : SnapshotCompletes(s) \/ SnapshotFails(s)
  \/ \E v \in Volumes : DiskReleased(v)
  \/ \E k \in Contents : WantNoSnapshot(k)
  \/ \E r \in Replicas : LeaderMoves(r) \/ Crash(r)

Spec == Init /\ [][Next]_vars

(* Goroutines run, answers arrive, the cloud finishes what it accepted and *)
(* the snapshotter retries every content for ever.                         *)
Fairness ==
  /\ \A c \in Calls : WF_vars(Handler(c) \/ Answer(c))
  /\ WF_vars(\E s \in Snaps : SnapshotCompletes(s))
  /\ \A k \in Contents : SF_vars(\E c \in Calls : Snapshotter(c, k))

FairSpec == Spec /\ Fairness

-----------------------------------------------------------------------------
(* Properties                                                              *)

SameContent(s, k) == snap[s].name = k.name /\ snap[s].src = k.src

\* OneSnapshotPerContent: retries, late handlers and lost answers never leave
\* two snapshots of one name and one source behind, of which the sidecar would
\* know at most one.
OneSnapshotPerContent ==
  \A s, t \in Live : snap[s].name = snap[t].name /\ snap[s].src = snap[t].src => s = t

\* ReadyIsAvailable: a snapshot reported ReadyToUse is complete and is the one
\* asked for, also when it was found by name and not created by this call, as
\* long as its source volume exists.
ReadyIsAvailable ==
  \A k \in Contents :
    co[k] = "ready" => /\ SameContent(sid[k], k)
                       /\ k.src \in disks => snap[sid[k]].status = "AVAILABLE"

\* NothingLeftBehind: after DeleteSnapshot is answered OK no snapshot of that
\* content is left, known to the sidecar or not, nor created later by a
\* CreateSnapshot still under way.
NothingLeftBehind ==
  \A k \in Contents : co[k] = "deleted" => \A s \in Live : ~SameContent(s, k)

\* A content that can get no further by itself: its source disk is gone or its
\* name leads to a snapshot that will not do, namely one of another volume, or
\* one that FAILED and that every retry finds again.
Obstructed(k) ==
  /\ co[k] \in {"creating", "pending"}
  /\ \/ k.src \notin disks
     \/ \E s \in Listed(k) : snap[s].src # k.src \/ snap[s].status = "FAILED"

\* ContentSettles: a snapshot that is wanted gets ready and one that is to be
\* deleted gets deleted, after any finite number of failures, unless the
\* content is obstructed; deleting is never obstructed.
ContentSettles ==
  \A k \in Contents :
    co[k] \in {"creating", "deleting"} ~> co[k] \in {"ready", "deleted"} \/ Obstructed(k)

\* NamesAreUnique: no two snapshots with one name and different source volumes,
\* as the comment of CreateSnapshot promises.
NamesAreUnique ==
  \A s, t \in Live : snap[s].name = snap[t].name => snap[s].src = snap[t].src
=============================================================================
