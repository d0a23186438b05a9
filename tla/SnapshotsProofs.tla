--------------------------- MODULE SnapshotsProofs ---------------------------
(***************************************************************************)
(* Theorems about Snapshots, for any number of contents, volumes, calls    *)
(* and snapshot ids.  What a content is told of its snapshot stays true in *)
(* any number of replicas (ReadySafety); that there is never a second      *)
(* snapshot, and none left after a deletion, needs the lock of the source  *)
(* volume, hence one replica (SnapshotSafety, LeftoverSafety).             *)
(***************************************************************************)
EXTENDS Snapshots, TLAPS

\* One process: its lock table is the only one.
OneReplica == \A r, t \in Replicas : r = t

Statuses == {"UNUSED", "CREATING", "AVAILABLE", "FAILED", "DELETING", "GONE"}
CoStates == {"none", "creating", "pending", "ready", "deleting", "deleted"}

\* The id was handed out at some time.
Used(s) == snap[s].status # "UNUSED"

\* The snapshot s is, or was, one of content k.
Holds(s, k) == s \in Snaps /\ Used(s) /\ SameContent(s, k)

\* What a snapshot can be called.
Names == {k.name : k \in Contents} \union {""}

\* The record of a snapshot.
SnapInv == snap \in [Snaps -> [status : Statuses, name : Names, src : Volumes \union {""}]]

Requests == [op : {"Create", "Delete"}, content : Contents,
             snapId : Snaps \union {NoSnap}, rep : Replicas]

\* A call in progress has a request of the operation its label belongs to, and
\* a deletion names a snapshot.
CallInv ==
  /\ DOMAIN req = Calls /\ DOMAIN ret = Calls
  /\ \A c \in Calls : pc[c] # "idle" =>
       /\ req[c] \in Requests
       /\ pc[c] \in CreateLabels => req[c].op = "Create"
       /\ pc[c] \in DeleteLabels => req[c].op = "Delete"

\* The snapshotter waits for one call per content; while it waits for a create
\* the content is marked as being created, and while it waits for a deletion as
\* being deleted.
OpenInv ==
  /\ \A c \in Calls : open[c] =>
       /\ pc[c] # "idle"
       /\ req[c].op = "Create" => co[req[c].content] = "creating"
       /\ req[c].op = "Delete" => co[req[c].content] = "deleting"
  /\ \A c, d \in Calls :
       open[c] /\ open[d] /\ req[c].content = req[d].content => c = d

Known(k) == co[k] \in {"pending", "ready", "deleting", "deleted"}

\* A content that got an answer knows the id of a snapshot of its own, and a
\* deletion, waited for or not, is about that snapshot.
ContentInv ==
  /\ \A k \in Contents : Known(k) => Holds(sid[k], k)
  /\ \A c \in Calls : pc[c] # "idle" /\ req[c].op = "Delete" =>
       /\ co[req[c].content] \in {"deleting", "deleted"}
       /\ req[c].snapId = sid[req[c].content]

\* The id in the hands of CreateSnapshot is of the content it was called for.
NewInv ==
  \A c \in Calls : pc[c] \in {"waitAvailable", "findNew"} => Holds(new[c], req[c].content)

\* The snapshot is complete, unless its source volume is gone.
Complete(s, k) == k.src \in disks => snap[s].status = "AVAILABLE"

Told(c) == pc[c] = "answer" /\ ret[c].code = "OK" /\ req[c].op = "Create"

\* An answer names a snapshot of the content, and while it is on its way to a
\* snapshotter that waits for it, a snapshot said to be ready stays so.
ReadyInv ==
  /\ \A c \in Calls : Told(c) =>
       /\ Holds(ret[c].snapId, req[c].content)
       /\ open[c] /\ ret[c].ready => Complete(ret[c].snapId, req[c].content)
  /\ \A k \in Contents : co[k] = "ready" => Complete(sid[k], k)

BaseInv == TypeOK /\ SnapInv /\ CallInv /\ OpenInv /\ ContentInv /\ NewInv /\ ReadyInv

\* A running handler has the lock of its id, and is the only one with it.
LockInv ==
  \A c \in Calls : Running(c) =>
    /\ LockId(req[c]) \in locks[req[c].rep]
    /\ \A d \in Calls :
         Running(d) /\ req[d].rep = req[c].rep /\ LockId(req[d]) = LockId(req[c]) => c = d

\* When a handler is about to create a snapshot, there is still none.
CreateInv ==
  \A c \in Calls : pc[c] = "create" => \A s \in Live : ~SameContent(s, req[c].content)

\* No handler is creating a snapshot for content k.
Quiet(k) == \A c \in Calls : ~(pc[c] \in CreateLabels /\ req[c].content = k)

\* If there is a snapshot of content k it is s.
Only(s, k) == \A t \in Live : SameContent(t, k) => t = s

\* Once the snapshotter knows, or is about to be told, the id of a snapshot no
\* create is under way for it, and there is no other snapshot.
SoleInv ==
  /\ \A c \in Calls : open[c] /\ Told(c) =>
       Quiet(req[c].content) /\ Only(ret[c].snapId, req[c].content)
  /\ \A k \in Contents : Known(k) => Quiet(k) /\ Only(sid[k], k)

\* A deletion is answered when the snapshot is gone, and it stays gone.
GoneInv ==
  /\ \A c \in Calls : pc[c] = "answer" /\ ret[c].code = "OK" /\ req[c].op = "Delete" =>
       snap[req[c].snapId].status = "GONE"
  /\ \A k \in Contents : co[k] = "deleted" => snap[sid[k]].status = "GONE"

\* The part about the snapshots that exist.
FewInv == CreateInv /\ OneSnapshotPerContent /\ SoleInv

SingleInv == BaseInv /\ LockInv /\ FewInv /\ GoneInv

-----------------------------------------------------------------------------
(* What a step of a handler can do.                                        *)

NewSnapshot(k) == [status |-> "CREATING", name |-> k.name, src |-> k.src]

\* What happens to the snapshots: nothing, one is created under an id that was
\* never used, or the one named in a deletion starts to go.
SnapEffect(c) ==
  \/ snap' = snap
  \/ /\ pc[c] = "create" /\ pc'[c] # "create"
     /\ \E s \in Snaps : snap[s] = Unused /\ snap' = [snap EXCEPT ![s] = NewSnapshot(req[c].content)]
  \/ /\ pc[c] = "delete" /\ req[c].snapId \in Snaps
     /\ snap[req[c].snapId].status \in {"AVAILABLE", "FAILED"}
     /\ snap' = [snap EXCEPT ![req[c].snapId].status = "DELETING"]

\* The handler goes on to another round trip, with its lock.
GoesOn(c) ==
  /\ pc'[c] \in CreateLabels \union DeleteLabels
  /\ pc[c] \in CreateLabels <=> pc'[c] \in CreateLabels
  /\ pc'[c] = "create" => Listed(req[c].content) = {} /\ snap' = snap
  /\ pc'[c] \in {"waitAvailable", "findNew"} => Holds(new[c], req[c].content)'
  /\ UNCHANGED <<ret, locks>>

\* The handler returns; its lock is released.
Returns(c) ==
  /\ pc'[c] = "answer"
  /\ Release(req[c].rep, LockId(req[c]))
  /\ ret'[c].code = "OK" =>
       /\ snap' = snap
       /\ req[c].op = "Create" =>
            /\ ret'[c].snapId \in Live /\ SameContent(ret'[c].snapId, req[c].content)
            /\ ret'[c].ready => snap[ret'[c].snapId].status = "AVAILABLE"
       /\ req[c].op = "Delete" => req[c].snapId \notin Live

Outcome(c) ==
  /\ Running(c)
  /\ Frame
  /\ faults' \in 0..MaxFaults
  /\ pc' \in [Calls -> CreateLabels \union DeleteLabels \union {"idle", "answer"}]
  /\ new' \in [Calls -> Snaps \union {NoSnap}]
  /\ DOMAIN ret' = Calls
  /\ \A d \in Calls \ {c} : pc'[d] = pc[d] /\ new'[d] = new[d] /\ ret'[d] = ret[d]
  /\ SnapEffect(c)
  /\ GoesOn(c) \/ Returns(c)

\* Every disjunct Fail and ApiError of a handler is such a step.
LEMMA FailOutcome ==
  ASSUME BaseInv, NEW c \in Calls, Running(c), Frame, faults' \in 0..MaxFaults,
         NEW code, code # "OK", Fail(c, code)
  PROVE  Outcome(c)
BY DEF Fail, Return, Outcome, Returns, SnapEffect, BaseInv, TypeOK, CallInv

\* A failure is counted within its bound.
LEMMA FaultCount ==
  ASSUME BaseInv, Fault \/ NoFault
  PROVE  faults' \in 0..MaxFaults
BY SnapshotAssumption DEF BaseInv, TypeOK, Fault, NoFault

LEMMA ErrorOutcome ==
  ASSUME BaseInv, NEW c \in Calls, Running(c), Frame, ApiError(c)
  PROVE  Outcome(c)
<1>1. faults' \in 0..MaxFaults /\ Fail(c, "Internal")
  BY FaultCount DEF ApiError
<1>2. "Internal" # "OK"
  OBVIOUS
<1> QED
  BY <1>1, <1>2, FailOutcome

LEMMA RefusalOutcome ==
  ASSUME BaseInv, NEW c \in Calls, Running(c), Frame, NoFault,
         NEW code, code # "OK", Fail(c, code)
  PROVE  Outcome(c)
<1>1. faults' \in 0..MaxFaults
  BY FaultCount
<1> QED
  BY <1>1, FailOutcome

\* An answer with an existing snapshot of the content.
LEMMA FoundOutcome ==
  ASSUME BaseInv, NEW c \in Calls, Running(c), Frame, NoFault, req[c].op = "Create",
         NEW s \in Live, SameContent(s, req[c].content), Found(c, s)
  PROVE  Outcome(c)
<1>1. faults' \in 0..MaxFaults
  BY FaultCount
<1>2. ret'[c] = [code |-> "OK", snapId |-> s, ready |-> snap[s].status = "AVAILABLE"]
  BY DEF Found, Return, BaseInv, CallInv
<1>3. ret'[c].snapId = s /\ (ret'[c].ready => snap[s].status = "AVAILABLE")
  <2> DEFINE b == snap[s].status = "AVAILABLE"
  <2>1. ret'[c] = [code |-> "OK", snapId |-> s, ready |-> b]
    BY <1>2
  <2> HIDE DEF b
  <2>2. ret'[c].snapId = s /\ ret'[c].ready = b
    BY <2>1
  <2> QED
    BY <2>2 DEF b
<1>4. Returns(c)
  BY <1>3 DEF Found, Return, Returns, BaseInv, TypeOK
<1> QED
  BY <1>1, <1>4 DEF Found, Return, Outcome, SnapEffect, BaseInv, TypeOK, CallInv

\* The answer to a deletion whose snapshot is gone.
LEMMA DoneOutcome ==
  ASSUME BaseInv, NEW c \in Calls, Running(c), Frame, NoFault, req[c].op = "Delete",
         req[c].snapId \notin Live, Done(c)
  PROVE  Outcome(c)
BY FaultCount DEF Done, Return, Returns, Outcome, SnapEffect, BaseInv, TypeOK, CallInv

LEMMA FindVolumeOutcome ==
  ASSUME BaseInv, NEW c \in Calls, SnapFindVolume(c)
  PROVE  Outcome(c)
<1>1. Running(c) /\ Frame
  BY DEF SnapFindVolume, Running, CreateLabels
<1>2. CASE ApiError(c)
  BY <1>1, <1>2, ErrorOutcome
<1>3. CASE NoFault /\ Fail(c, "NotFound")
  <2>1. "NotFound" # "OK"
    OBVIOUS
  <2> QED
    BY <1>1, <1>3, <2>1, RefusalOutcome
<1>4. CASE NoFault /\ Goto(c, "findByName") /\ UNCHANGED <<snap, new>>
  BY <1>1, <1>4, FaultCount
     DEF SnapFindVolume, Goto, GoesOn, Outcome, SnapEffect, BaseInv, TypeOK, CallInv,
         CreateLabels, DeleteLabels
<1> QED
  BY <1>2, <1>3, <1>4 DEF SnapFindVolume

LEMMA FindByNameOutcome ==
  ASSUME BaseInv, NEW c \in Calls, FindSnapshotByName(c)
  PROVE  Outcome(c)
<1>1. Running(c) /\ Frame /\ req[c].op = "Create"
  BY DEF FindSnapshotByName, Running, CreateLabels, BaseInv, CallInv
<1>2. CASE ApiError(c)
  BY <1>1, <1>2, ErrorOutcome
<1>3. CASE NoFault /\ \E s \in Listed(req[c].content) :
             \/ snap[s].src = req[c].content.src /\ Found(c, s)
             \/ snap[s].src # req[c].content.src /\ Fail(c, "AlreadyExists")
  <2>1. PICK s \in Listed(req[c].content) :
             \/ snap[s].src = req[c].content.src /\ Found(c, s)
             \/ snap[s].src # req[c].content.src /\ Fail(c, "AlreadyExists")
    BY <1>3
  <2>2. CASE snap[s].src = req[c].content.src /\ Found(c, s)
    BY <1>1, <1>3, <2>2, FoundOutcome DEF Listed, SameContent
  <2>3. CASE Fail(c, "AlreadyExists")
    <3>1. "AlreadyExists" # "OK"
      OBVIOUS
    <3> QED
      BY <1>1, <1>3, <2>3, <3>1, RefusalOutcome
  <2> QED
    BY <2>1, <2>2, <2>3
<1>4. CASE /\ Listed(req[c].content) = {} /\ NoFault
           /\ Goto(c, "create") /\ UNCHANGED <<snap, new>>
  BY <1>1, <1>4, FaultCount
     DEF FindSnapshotByName, Goto, GoesOn, Outcome, SnapEffect, BaseInv, TypeOK, CallInv,
         CreateLabels, DeleteLabels
<1> QED
  BY <1>2, <1>3, <1>4 DEF FindSnapshotByName

\* The record of a new snapshot is of the content it is created for.
LEMMA CreatedHolds ==
  ASSUME BaseInv, NEW k \in Contents, NEW s \in Snaps,
         snap' = [snap EXCEPT ![s] = NewSnapshot(k)]
  PROVE  Holds(s, k)'
BY SnapshotAssumption DEF Holds, Used, SameContent, NewSnapshot, BaseInv, SnapInv

LEMMA CreateOutcome ==
  ASSUME BaseInv, NEW c \in Calls, SnapCreate(c)
  PROVE  Outcome(c)
<1> DEFINE k == req[c].content
<1>1. Running(c) /\ Frame /\ k \in Contents /\ pc[c] = "create"
  BY DEF SnapCreate, Running, CreateLabels, BaseInv, CallInv, Requests
<1>2. CASE ApiError(c)
  BY <1>1, <1>2, ErrorOutcome
<1>3. CASE NoFault /\ Fail(c, "Internal")
  <2>1. "Internal" # "OK"
    OBVIOUS
  <2> QED
    BY <1>1, <1>3, <2>1, RefusalOutcome
<1>4. ASSUME NEW s \in Snaps, snap[s] = Unused, snap' = [snap EXCEPT ![s] = NewSnapshot(k)],
             \/ /\ NoFault /\ Goto(c, "waitAvailable")
                /\ new' = [new EXCEPT ![c] = s]
             \/ Fault /\ Return(c, [code |-> "Internal"])
      PROVE  Outcome(c)
  <2>1. faults' \in 0..MaxFaults
    BY <1>4, FaultCount
  <2>2. Holds(s, k)' /\ req' = req
    BY <1>1, <1>4, CreatedHolds DEF Frame
  <2>3. pc'[c] # "create"
    BY <1>4 DEF Goto, Return, BaseInv, TypeOK
  <2>4. SnapEffect(c)
    BY <1>1, <1>4, <2>3 DEF SnapEffect
  <2>5. CASE NoFault /\ Goto(c, "waitAvailable") /\ new' = [new EXCEPT ![c] = s]
    <3>1. new'[c] = s /\ pc'[c] = "waitAvailable"
      BY <2>5 DEF Goto, BaseInv, TypeOK
    <3>2. Holds(new[c], req[c].content)'
      BY <2>2, <3>1
    <3>3. GoesOn(c)
      BY <1>1, <2>5, <3>1, <3>2 DEF GoesOn, Goto, CreateLabels, DeleteLabels
    <3> QED
      BY <1>1, <2>1, <2>4, <2>5, <3>1, <3>3
         DEF Outcome, Goto, BaseInv, TypeOK, CallInv, CreateLabels
  <2>6. CASE Fault /\ Return(c, [code |-> "Internal"])
    BY <1>1, <2>1, <2>4, <2>6 DEF Outcome, Return, Returns, BaseInv, TypeOK, CallInv
  <2> QED
    BY <1>4, <2>5, <2>6
<1>5. CASE /\ HasFreeId
           /\ LET s == NextId IN
                /\ snap' = [snap EXCEPT ![s] = NewSnapshot(k)]
                /\ \/ /\ NoFault /\ Goto(c, "waitAvailable")
                      /\ new' = [new EXCEPT ![c] = s]
                   \/ Fault /\ Return(c, [code |-> "Internal"])
  <2>1. NextId \in Snaps /\ snap[NextId] = Unused
    BY <1>5 DEF HasFreeId, NextId
  <2> QED
    BY <1>4, <1>5, <2>1
<1> QED
  BY <1>2, <1>3, <1>5 DEF SnapCreate, NewSnapshot

LEMMA WaitAvailableOutcome ==
  ASSUME BaseInv, NEW c \in Calls, SnapWaitAvailable(c)
  PROVE  Outcome(c)
<1>1. Running(c) /\ Frame /\ Holds(new[c], req[c].content) /\ pc[c] = "waitAvailable"
  BY DEF SnapWaitAvailable, Running, CreateLabels, BaseInv, NewInv
<1>2. CASE ApiError(c)
  BY <1>1, <1>2, ErrorOutcome
<1>3. CASE NoFault /\ Fail(c, "Internal")
  <2>1. "Internal" # "OK"
    OBVIOUS
  <2> QED
    BY <1>1, <1>3, <2>1, RefusalOutcome
<1>4. CASE NoFault /\ Goto(c, "findNew") /\ UNCHANGED <<snap, new>>
  <2>1. Holds(new[c], req[c].content)'
    BY <1>1, <1>4 DEF Frame, Holds, Used, SameContent
  <2>2. pc'[c] = "findNew"
    BY <1>4 DEF Goto, BaseInv, TypeOK
  <2>3. GoesOn(c)
    BY <1>1, <1>4, <2>1, <2>2 DEF Goto, GoesOn, CreateLabels, DeleteLabels
  <2> QED
    BY <1>1, <1>4, <2>3, FaultCount
       DEF Goto, Outcome, SnapEffect, BaseInv, TypeOK, CallInv, CreateLabels
<1> QED
  BY <1>2, <1>3, <1>4 DEF SnapWaitAvailable

LEMMA FindNewOutcome ==
  ASSUME BaseInv, NEW c \in Calls, SnapFindNew(c)
  PROVE  Outcome(c)
<1>1. Running(c) /\ Frame /\ Holds(new[c], req[c].content) /\ req[c].op = "Create"
  BY DEF SnapFindNew, Running, CreateLabels, BaseInv, NewInv, CallInv
<1>2. CASE ApiError(c)
  BY <1>1, <1>2, ErrorOutcome
<1>3. CASE NoFault /\ Fail(c, "Internal")
  <2>1. "Internal" # "OK"
    OBVIOUS
  <2> QED
    BY <1>1, <1>3, <2>1, RefusalOutcome
<1>4. CASE new[c] \in Live /\ NoFault /\ Found(c, new[c])
  BY <1>1, <1>4, FoundOutcome DEF Holds
<1> QED
  BY <1>2, <1>3, <1>4 DEF SnapFindNew

LEMMA FindSnapshotOutcome ==
  ASSUME BaseInv, NEW c \in Calls, FindSnapshot(c)
  PROVE  Outcome(c)
<1>1. Running(c) /\ Frame /\ req[c].op = "Delete"
  BY DEF FindSnapshot, Running, DeleteLabels, BaseInv, CallInv
<1>2. CASE ApiError(c)
  BY <1>1, <1>2, ErrorOutcome
<1>3. CASE req[c].snapId \notin Live /\ NoFault /\ Done(c)
  BY <1>1, <1>3, DoneOutcome
<1>4. CASE NoFault /\ Goto(c, "delete") /\ UNCHANGED <<snap, new>>
  BY <1>1, <1>4, FaultCount
     DEF FindSnapshot, Goto, GoesOn, Outcome, SnapEffect, BaseInv, TypeOK, CallInv,
         CreateLabels, DeleteLabels
<1> QED
  BY <1>2, <1>3, <1>4 DEF FindSnapshot

LEMMA DeleteOutcome ==
  ASSUME BaseInv, NEW c \in Calls, SnapDelete(c)
  PROVE  Outcome(c)
<1> DEFINE s == req[c].snapId
<1>1. Running(c) /\ Frame /\ req[c].op = "Delete" /\ pc[c] = "delete"
  BY DEF SnapDelete, Running, DeleteLabels, BaseInv, CallInv
<1>2. CASE ApiError(c)
  BY <1>1, <1>2, ErrorOutcome
<1>3. CASE s \notin Live /\ NoFault /\ Done(c)
  BY <1>1, <1>3, DoneOutcome
<1>4. CASE NoFault /\ Fail(c, "Internal")
  <2>1. "Internal" # "OK"
    OBVIOUS
  <2> QED
    BY <1>1, <1>4, <2>1, RefusalOutcome
<1>5. CASE /\ snap[s].status \in {"AVAILABLE", "FAILED"}
           /\ snap' = [snap EXCEPT ![s].status = "DELETING"]
           /\ \/ NoFault /\ Goto(c, "waitDeleted") /\ UNCHANGED new
              \/ Fault /\ Return(c, [code |-> "Internal"])
  <2>1. faults' \in 0..MaxFaults
    BY <1>5, FaultCount
  <2>2. s \in Snaps
    BY <1>1 DEF BaseInv, ContentInv, Holds, Known, Running, CreateLabels, DeleteLabels,
                CallInv, Requests
  <2>3. SnapEffect(c)
    BY <1>1, <1>5, <2>2 DEF SnapEffect
  <2>4. CASE NoFault /\ Goto(c, "waitDeleted") /\ UNCHANGED new
    BY <1>1, <2>1, <2>3, <2>4
       DEF Goto, GoesOn, Outcome, BaseInv, TypeOK, CallInv, CreateLabels, DeleteLabels
  <2>5. CASE Fault /\ Return(c, [code |-> "Internal"])
    BY <1>1, <2>1, <2>3, <2>5 DEF Outcome, Return, Returns, BaseInv, TypeOK, CallInv
  <2> QED
    BY <1>5, <2>4, <2>5
<1> QED
  BY <1>2, <1>3, <1>4, <1>5 DEF SnapDelete

LEMMA WaitDeletedOutcome ==
  ASSUME BaseInv, NEW c \in Calls, SnapWaitDeleted(c)
  PROVE  Outcome(c)
<1>1. Running(c) /\ Frame /\ req[c].op = "Delete"
  BY DEF SnapWaitDeleted, Running, DeleteLabels, BaseInv, CallInv
<1>2. CASE ApiError(c)
  BY <1>1, <1>2, ErrorOutcome
<1>3. CASE NoFault /\ Fail(c, "Internal")
  <2>1. "Internal" # "OK"
    OBVIOUS
  <2> QED
    BY <1>1, <1>3, <2>1, RefusalOutcome
<1>4. CASE req[c].snapId \notin Live /\ NoFault /\ Done(c)
  BY <1>1, <1>4, DoneOutcome
<1> QED
  BY <1>2, <1>3, <1>4 DEF SnapWaitDeleted

LEMMA HandlerOutcome ==
  ASSUME BaseInv, NEW c \in Calls, Handler(c)
  PROVE  Outcome(c)
BY FindVolumeOutcome, FindByNameOutcome, CreateOutcome, WaitAvailableOutcome,
   FindNewOutcome, FindSnapshotOutcome, DeleteOutcome, WaitDeletedOutcome DEF Handler

-----------------------------------------------------------------------------
(* How snapshots change.                                                   *)

\* What is true of the snapshots in every step: a used id keeps its name and
\* source, a snapshot that is gone stays gone, and a complete one is lost only
\* with its source volume or through a deletion that names it.
SnapEvolves ==
  /\ SnapInv'
  /\ disks' \subseteq disks
  /\ \A s \in Snaps : Used(s) =>
       Used(s)' /\ snap'[s].name = snap[s].name /\ snap'[s].src = snap[s].src
  /\ \A s \in Snaps : snap[s].status = "GONE" => snap'[s].status = "GONE"
  /\ \A s \in Snaps : snap[s].status = "AVAILABLE" =>
       \/ snap'[s].status = "AVAILABLE"
       \/ snap[s].src \notin disks'
       \/ \E c \in Calls : pc[c] = "delete" /\ req[c].snapId = s

LEMMA SnapTypes ==
  ASSUME SnapInv, NEW s \in Snaps
  PROVE  /\ snap[s] \in [status : Statuses, name : Names, src : Volumes \union {""}]
         /\ snap[s].status \in Statuses /\ snap[s].name \in Names
         /\ snap[s].src \in Volumes \union {""}
BY DEF SnapInv

LEMMA UnusedStatus == Unused.status = "UNUSED"
BY DEF Unused

\* A new snapshot disturbs no other.
LEMMA CreationEvolves ==
  ASSUME BaseInv, NEW k \in Contents, NEW s \in Snaps, snap[s] = Unused,
         snap' = [snap EXCEPT ![s] = NewSnapshot(k)], disks' = disks
  PROVE  SnapEvolves
<1>1. NewSnapshot(k) \in [status : Statuses, name : Names, src : Volumes \union {""}]
  <2>1. k.name \in Names /\ k.src \in Volumes
    BY SnapshotAssumption DEF Names
  <2> QED
    BY <2>1 DEF NewSnapshot, Statuses
<1>2. SnapInv'
  BY <1>1 DEF BaseInv, SnapInv
<1>3. snap[s].status = "UNUSED"
  BY UnusedStatus
<1>4. \A t \in Snaps \ {s} : snap'[t] = snap[t]
  BY DEF BaseInv, SnapInv
<1> QED
  BY <1>2, <1>3, <1>4 DEF SnapEvolves, Used

\* A change of status of one snapshot.
LEMMA StatusChange ==
  ASSUME SnapInv, NEW s \in Snaps, NEW status \in Statuses,
         snap' = [snap EXCEPT ![s].status = status]
  PROVE  /\ SnapInv'
         /\ \A t \in Snaps \ {s} : snap'[t] = snap[t]
         /\ snap'[s].status = status
         /\ snap'[s].name = snap[s].name /\ snap'[s].src = snap[s].src
BY DEF SnapInv

LEMMA HandlerEvolves ==
  ASSUME BaseInv, NEW c \in Calls, Outcome(c)
  PROVE  SnapEvolves
<1>1. disks' = disks /\ Running(c)
  BY DEF Outcome, Frame
<1>2. req[c].content \in Contents
  BY <1>1 DEF BaseInv, CallInv, Requests, Running, CreateLabels, DeleteLabels
<1>3. CASE snap' = snap
  BY <1>1, <1>3 DEF SnapEvolves, BaseInv, SnapInv, Used
<1>4. CASE \E s \in Snaps : snap[s] = Unused /\ snap' = [snap EXCEPT ![s] = NewSnapshot(req[c].content)]
  BY <1>1, <1>2, <1>4, CreationEvolves
<1>5. CASE /\ pc[c] = "delete" /\ req[c].snapId \in Snaps
           /\ snap[req[c].snapId].status \in {"AVAILABLE", "FAILED"}
           /\ snap' = [snap EXCEPT ![req[c].snapId].status = "DELETING"]
  <2> DEFINE s == req[c].snapId
  <2>1. "DELETING" \in Statuses /\ SnapInv
    BY DEF Statuses, BaseInv
  <2>2. /\ SnapInv'
        /\ \A t \in Snaps \ {s} : snap'[t] = snap[t]
        /\ snap'[s].status = "DELETING"
        /\ snap'[s].name = snap[s].name /\ snap'[s].src = snap[s].src
    BY <1>5, <2>1, StatusChange
  <2>3. Holds(s, req[c].content)
    BY <1>1, <1>2, <1>5 DEF BaseInv, ContentInv, CallInv, Known, DeleteLabels
  <2> QED
    BY <1>1, <1>5, <2>2, <2>3 DEF SnapEvolves, Used, Holds
<1> QED
  BY <1>3, <1>4, <1>5 DEF Outcome, SnapEffect

\* The cloud's own steps: an operation completes or fails, or a source volume
\* is deleted together with its snapshots.
LEMMA CloudEvolves ==
  ASSUME BaseInv, NEW s \in Snaps, SnapshotCompletes(s) \/ SnapshotFails(s)
  PROVE  SnapEvolves
<1>1. PICK status \in Statuses :
        /\ snap[s].status \in {"CREATING", "DELETING"}
        /\ snap' = [snap EXCEPT ![s].status = status]
        /\ disks' = disks /\ status # "UNUSED"
  BY DEF SnapshotCompletes, SnapshotFails, Statuses
<1>2. /\ SnapInv'
      /\ \A t \in Snaps \ {s} : snap'[t] = snap[t]
      /\ snap'[s].status = status
      /\ snap'[s].name = snap[s].name /\ snap'[s].src = snap[s].src
  BY <1>1, StatusChange DEF BaseInv
<1> QED
  BY <1>1, <1>2 DEF SnapEvolves, Used

LEMMA ReleaseEvolves ==
  ASSUME BaseInv, NEW v \in Volumes, DiskReleased(v)
  PROVE  SnapEvolves
<1>1. /\ disks' = disks \ {v}
      /\ snap' = [s \in Snaps |-> IF snap[s].src = v
                                  THEN [snap[s] EXCEPT !.status = "GONE"] ELSE snap[s]]
  BY DEF DiskReleased
<1>2. ASSUME NEW s \in Snaps
      PROVE  /\ snap'[s] \in [status : Statuses, name : Names, src : Volumes \union {""}]
             /\ snap'[s].name = snap[s].name /\ snap'[s].src = snap[s].src
             /\ snap[s].src = v => snap'[s].status = "GONE"
             /\ snap[s].src # v => snap'[s] = snap[s]
  <2>1. snap[s] \in [status : Statuses, name : Names, src : Volumes \union {""}]
    BY SnapTypes DEF BaseInv
  <2>2. CASE snap[s].src = v
    <3>1. snap'[s] = [snap[s] EXCEPT !.status = "GONE"]
      BY <1>1, <2>2
    <3> QED
      BY <2>1, <2>2, <3>1 DEF Statuses
  <2>3. CASE snap[s].src # v
    BY <1>1, <2>1, <2>3
  <2> QED
    BY <2>2, <2>3
<1>3. SnapInv'
  BY <1>1, <1>2 DEF SnapInv
<1> QED
  BY <1>1, <1>2, <1>3 DEF SnapEvolves, Used

LEMMA SameEvolves ==
  ASSUME BaseInv, UNCHANGED <<snap, disks>>
  PROVE  SnapEvolves
BY DEF BaseInv, SnapInv, SnapEvolves, Used

\* Contents are told apart by name and source.
LEMMA OneContent ==
  ASSUME NEW j \in Contents, NEW k \in Contents, j.name = k.name, j.src = k.src
  PROVE  j = k
BY SnapshotAssumption

LEMMA HoldsStays ==
  ASSUME SnapEvolves, NEW s, NEW k, Holds(s, k)
  PROVE  Holds(s, k)'
BY DEF SnapEvolves, Holds, SameContent, Used

\* A deletion under way is about a snapshot of its content.
LEMMA DeletionIsOwn ==
  ASSUME BaseInv, NEW c \in Calls, pc[c] # "idle", req[c].op = "Delete"
  PROVE  /\ req[c].content \in Contents
         /\ co[req[c].content] \in {"deleting", "deleted"}
         /\ Holds(req[c].snapId, req[c].content)
BY DEF BaseInv, CallInv, Requests, ContentInv, Known

\* While a content is not being deleted its snapshot stays complete.
LEMMA CompleteStays ==
  ASSUME BaseInv, SnapEvolves, NEW s, NEW k \in Contents, Holds(s, k), Complete(s, k),
         co[k] \notin {"deleting", "deleted"}
  PROVE  Complete(s, k)'
<1> SUFFICES ASSUME k.src \in disks'
             PROVE  snap'[s].status = "AVAILABLE"
  BY DEF Complete
<1>1. s \in Snaps /\ snap[s].status = "AVAILABLE" /\ snap[s].src = k.src
  BY DEF Complete, SnapEvolves, Holds, SameContent
<1>2. ASSUME NEW c \in Calls, pc[c] = "delete", req[c].snapId = s
      PROVE  FALSE
  <2>1. pc[c] # "idle" /\ req[c].op = "Delete"
    BY <1>2 DEF BaseInv, CallInv, DeleteLabels
  <2>2. /\ req[c].content \in Contents
        /\ co[req[c].content] \in {"deleting", "deleted"}
        /\ Holds(s, req[c].content)
    BY <1>2, <2>1, DeletionIsOwn
  <2>3. req[c].content = k
    BY <2>2, OneContent DEF Holds, SameContent
  <2> QED
    BY <2>2, <2>3
<1> QED
  BY <1>1, <1>2 DEF SnapEvolves

-----------------------------------------------------------------------------
(* The invariant that holds in any number of replicas.                     *)

\* What the request of a call in progress looks like.
LEMMA RequestTypes ==
  ASSUME BaseInv, NEW c \in Calls, pc[c] # "idle"
  PROVE  /\ req[c].op \in {"Create", "Delete"} /\ req[c].content \in Contents
         /\ req[c].content.src \in Volumes /\ req[c].rep \in Replicas
         /\ req[c].snapId \in Snaps \union {NoSnap}
         /\ req[c].op = "Delete" => req[c].snapId \in Snaps
         /\ LockId(req[c]) \in Volumes \union Snaps
<1>1. /\ req[c].op \in {"Create", "Delete"} /\ req[c].content \in Contents
      /\ req[c].rep \in Replicas /\ req[c].snapId \in Snaps \union {NoSnap}
  BY DEF BaseInv, CallInv, Requests
<1>2. req[c].content.src \in Volumes
  BY <1>1, SnapshotAssumption
<1>3. req[c].op = "Delete" => req[c].snapId \in Snaps
  BY DeletionIsOwn DEF Holds
<1> QED
  BY <1>1, <1>2, <1>3 DEF LockId

LEMMA HandlerBase ==
  ASSUME BaseInv, NEW c \in Calls, Outcome(c)
  PROVE  BaseInv'
<1>1. SnapEvolves
  BY HandlerEvolves
<1>2. Running(c) /\ pc[c] # "idle" /\ req' = req /\ open' = open /\ co' = co /\ sid' = sid
      /\ disks' = disks /\ leader' = leader
  BY DEF Outcome, Frame, Running, CreateLabels, DeleteLabels
<1>3. \A d \in Calls \ {c} : pc'[d] = pc[d] /\ new'[d] = new[d] /\ ret'[d] = ret[d]
  BY DEF Outcome
<1>4. pc'[c] # "idle"
  BY DEF Outcome, GoesOn, Returns, CreateLabels, DeleteLabels
<1>5. TypeOK'
  <2>1. \A s \in Snaps : snap'[s].status \in Statuses
    BY <1>1 DEF SnapEvolves, SnapInv
  <2>2. locks' \in [Replicas -> SUBSET (Volumes \union Snaps)]
    BY <1>2, RequestTypes DEF Outcome, GoesOn, Returns, Release, BaseInv, TypeOK
  <2>3. \A d \in Calls : pc'[d] # "idle" => req'[d].rep \in Replicas
    BY <1>2, <1>3 DEF BaseInv, TypeOK
  <2>4. \A d \in Calls : pc'[d] \in {"waitAvailable", "findNew"} => new'[d] \in Snaps
    BY <1>3 DEF BaseInv, TypeOK, Outcome, GoesOn, Returns, Holds
  <2> QED
    BY <1>2, <2>1, <2>2, <2>3, <2>4 DEF Outcome, BaseInv, TypeOK, Statuses
<1>6. CallInv'
  <2>1. /\ pc'[c] \in CreateLabels => pc[c] \in CreateLabels
        /\ pc'[c] \in DeleteLabels => pc[c] \in DeleteLabels
    BY <1>2 DEF Outcome, GoesOn, Returns, CreateLabels, DeleteLabels, Running
  <2> QED
    BY <1>2, <1>3, <2>1 DEF BaseInv, CallInv, Outcome
<1>7. OpenInv'
  BY <1>2, <1>3, <1>4 DEF BaseInv, OpenInv
<1>8. ContentInv'
  <2>1. \A k \in Contents : Known(k)' => Holds(sid[k], k)'
    BY <1>1, <1>2, HoldsStays DEF BaseInv, ContentInv, Known
  <2> QED
    BY <1>2, <1>3, <2>1 DEF BaseInv, ContentInv
<1>9. NewInv'
  <2> SUFFICES ASSUME NEW d \in Calls, pc'[d] \in {"waitAvailable", "findNew"}
               PROVE  Holds(new[d], req[d].content)'
    BY DEF NewInv
  <2>1. CASE d = c
    BY <2>1 DEF Outcome, GoesOn, Returns
  <2>2. CASE d # c
    <3>1. Holds(new[d], req[d].content) /\ new'[d] = new[d] /\ req'[d] = req[d]
      BY <1>2, <1>3, <2>2 DEF BaseInv, NewInv
    <3>2. Holds(new[d], req[d].content)'
      BY <1>1, <3>1, HoldsStays
    <3> QED
      BY <3>2
  <2> QED
    BY <2>1, <2>2
<1>10. ReadyInv'
  <2>1. ASSUME NEW d \in Calls, Told(d)'
        PROVE  /\ Holds(ret[d].snapId, req[d].content)'
               /\ (open[d] /\ ret[d].ready => Complete(ret[d].snapId, req[d].content))'
    <3>1. CASE d = c
      <4>1. Returns(c) /\ ret'[c].code = "OK" /\ req[c].op = "Create"
        BY <1>2, <2>1, <3>1 DEF Told, Outcome, GoesOn, CreateLabels, DeleteLabels
      <4>2. /\ snap' = snap
            /\ ret'[c].snapId \in Live /\ SameContent(ret'[c].snapId, req[c].content)
            /\ ret'[c].ready => snap[ret'[c].snapId].status = "AVAILABLE"
        BY <4>1 DEF Returns
      <4> QED
        BY <1>2, <3>1, <4>2 DEF Holds, Used, Live, SameContent, Complete
    <3>2. CASE d # c
      <4>1. Told(d) /\ ret'[d] = ret[d] /\ open'[d] = open[d]
        BY <1>2, <1>3, <2>1, <3>2 DEF Told
      <4>2. /\ Holds(ret[d].snapId, req[d].content)
            /\ open[d] /\ ret[d].ready => Complete(ret[d].snapId, req[d].content)
        BY <4>1 DEF BaseInv, ReadyInv
      <4>3. open[d] => co[req[d].content] = "creating" /\ req[d].content \in Contents
        BY <4>1, RequestTypes DEF BaseInv, OpenInv, Told
      <4>4. Holds(ret[d].snapId, req[d].content)'
        BY <1>1, <1>2, <1>3, <3>2, <4>2, HoldsStays
      <4>5. (open[d] /\ ret[d].ready => Complete(ret[d].snapId, req[d].content))'
        BY <1>1, <1>2, <1>3, <3>2, <4>2, <4>3, CompleteStays
      <4> QED
        BY <4>1, <4>4, <4>5
    <3> QED
      BY <3>1, <3>2
  <2>2. \A k \in Contents : co'[k] = "ready" => Complete(sid[k], k)'
    BY <1>1, <1>2, CompleteStays DEF BaseInv, ReadyInv, ContentInv, Known
  <2> QED
    BY <1>2, <2>1, <2>2 DEF ReadyInv
<1> QED
  BY <1>1, <1>5, <1>6, <1>7, <1>8, <1>9, <1>10 DEF BaseInv, SnapEvolves

\* A step in which no call starts or moves: some may end without an answer, and
\* some may no longer be waited for.
Shedding ==
  /\ UNCHANGED <<co, sid>>
  /\ leader' \in Replicas /\ faults' \in 0..MaxFaults
  /\ locks' \in [Replicas -> SUBSET (Volumes \union Snaps)]
  /\ pc' \in [Calls -> CreateLabels \union DeleteLabels \union {"idle", "answer"}]
  /\ new' \in [Calls -> Snaps \union {NoSnap}]
  /\ open' \in [Calls -> BOOLEAN]
  /\ DOMAIN req' = Calls /\ DOMAIN ret' = Calls
  /\ \A c \in Calls :
       \/ /\ pc'[c] = pc[c] /\ req'[c] = req[c] /\ new'[c] = new[c] /\ ret'[c] = ret[c]
          /\ open'[c] => open[c]
       \/ pc'[c] = "idle" /\ ~open'[c]

LEMMA SheddingBase ==
  ASSUME BaseInv, SnapEvolves, Shedding
  PROVE  BaseInv'
<1>1. \A c \in Calls : pc'[c] # "idle" =>
        /\ pc'[c] = pc[c] /\ req'[c] = req[c] /\ new'[c] = new[c] /\ ret'[c] = ret[c]
        /\ open'[c] => open[c]
  BY DEF Shedding
<1>2. \A c \in Calls : open'[c] => pc'[c] # "idle"
  BY DEF Shedding, BaseInv, OpenInv
<1>3. co' = co /\ sid' = sid
  BY DEF Shedding
<1>4. TypeOK'
  <2>1. \A s \in Snaps : snap'[s].status \in Statuses
    BY DEF SnapEvolves, SnapInv
  <2>2. disks' \subseteq Volumes
    BY DEF SnapEvolves, BaseInv, TypeOK
  <2>3. \A c \in Calls : pc'[c] # "idle" => req'[c].rep \in Replicas
    BY <1>1 DEF BaseInv, TypeOK
  <2>4. \A c \in Calls : pc'[c] \in {"waitAvailable", "findNew"} => new'[c] \in Snaps
    BY <1>1 DEF BaseInv, TypeOK
  <2> QED
    BY <1>3, <2>1, <2>2, <2>3, <2>4 DEF Shedding, BaseInv, TypeOK, Statuses
<1>5. CallInv'
  BY <1>1 DEF BaseInv, CallInv, Shedding
<1>6. OpenInv'
  BY <1>1, <1>2, <1>3 DEF BaseInv, OpenInv
<1>7. ContentInv'
  <2>1. \A k \in Contents : Known(k)' => Holds(sid[k], k)'
    BY <1>3, HoldsStays DEF BaseInv, ContentInv, Known
  <2> QED
    BY <1>1, <1>3, <2>1 DEF BaseInv, ContentInv
<1>8. NewInv'
  <2> SUFFICES ASSUME NEW c \in Calls, pc'[c] \in {"waitAvailable", "findNew"}
               PROVE  Holds(new[c], req[c].content)'
    BY DEF NewInv
  <2>1. Holds(new[c], req[c].content) /\ new'[c] = new[c] /\ req'[c] = req[c]
    BY <1>1 DEF BaseInv, NewInv
  <2> QED
    BY <2>1, HoldsStays
<1>9. ReadyInv'
  <2>1. ASSUME NEW c \in Calls, Told(c)'
        PROVE  /\ Holds(ret[c].snapId, req[c].content)'
               /\ (open[c] /\ ret[c].ready => Complete(ret[c].snapId, req[c].content))'
    <3>1. Told(c) /\ ret'[c] = ret[c] /\ req'[c] = req[c] /\ (open'[c] => open[c])
      BY <1>1, <2>1 DEF Told
    <3>2. /\ Holds(ret[c].snapId, req[c].content)
          /\ open[c] /\ ret[c].ready => Complete(ret[c].snapId, req[c].content)
      BY <3>1 DEF BaseInv, ReadyInv
    <3>3. open[c] => co[req[c].content] = "creating" /\ req[c].content \in Contents
      BY <3>1, RequestTypes DEF BaseInv, OpenInv, Told
    <3>4. Holds(ret[c].snapId, req[c].content)'
      BY <3>1, <3>2, HoldsStays
    <3>5. (open[c] /\ ret[c].ready => Complete(ret[c].snapId, req[c].content))'
      BY <3>1, <3>2, <3>3, CompleteStays
    <3> QED
      BY <3>4, <3>5
  <2>2. \A k \in Contents : co'[k] = "ready" => Complete(sid[k], k)'
    BY <1>3, CompleteStays DEF BaseInv, ReadyInv, ContentInv, Known
  <2> QED
    BY <1>3, <2>1, <2>2 DEF ReadyInv
<1> QED
  BY <1>4, <1>5, <1>6, <1>7, <1>8, <1>9 DEF BaseInv, SnapEvolves

\* The steps of this kind: of the cloud, of a snapshotter that no longer waits,
\* and of a process that dies.
LEMMA GiveUpSheds ==
  ASSUME BaseInv, NEW c \in Calls, GiveUp(c)
  PROVE  SnapEvolves /\ Shedding /\ UNCHANGED <<snap, pc, req, ret, locks>>
BY SameEvolves, FaultCount DEF GiveUp, Shedding, BaseInv, TypeOK, CallInv

LEMMA LeaderSheds ==
  ASSUME BaseInv, NEW r \in Replicas, LeaderMoves(r)
  PROVE  SnapEvolves /\ Shedding /\ UNCHANGED <<snap, pc, req, ret, locks>>
BY SameEvolves, FaultCount DEF LeaderMoves, Shedding, BaseInv, TypeOK, CallInv

LEMMA CrashSheds ==
  ASSUME BaseInv, NEW r \in Replicas, Crash(r)
  PROVE  /\ SnapEvolves /\ Shedding /\ UNCHANGED snap /\ LoseLocks(r)
         /\ \A c \in Calls : pc'[c] # "idle" => req[c].rep # r
<1>1. SnapEvolves
  BY SameEvolves DEF Crash
<1>2. faults' \in 0..MaxFaults
  BY FaultCount DEF Crash
<1>3. locks' \in [Replicas -> SUBSET (Volumes \union Snaps)]
  BY DEF Crash, LoseLocks, BaseInv, TypeOK
<1> QED
  BY <1>1, <1>2, <1>3 DEF Crash, Shedding, BaseInv, TypeOK, CallInv

LEMMA CloudSheds ==
  ASSUME BaseInv, NEW s \in Snaps, SnapshotCompletes(s) \/ SnapshotFails(s)
  PROVE  SnapEvolves /\ Shedding /\ UNCHANGED <<pc, req, ret, locks>>
BY CloudEvolves, FaultCount
   DEF SnapshotCompletes, SnapshotFails, NoFault, Shedding, callVars, BaseInv, TypeOK, CallInv

LEMMA ReleaseSheds ==
  ASSUME BaseInv, NEW v \in Volumes, DiskReleased(v)
  PROVE  SnapEvolves /\ Shedding /\ UNCHANGED <<pc, req, ret, locks>>
BY ReleaseEvolves, FaultCount DEF DiskReleased, Shedding, callVars, BaseInv, TypeOK, CallInv

\* What the arrival of a request does, granted or not.
Received(c, q) ==
  /\ pc[c] = "idle" /\ pc'[c] # "idle"
  /\ req' = [req EXCEPT ![c] = q]
  /\ open' = [open EXCEPT ![c] = TRUE]
  /\ UNCHANGED <<snap, disks, faults, new, leader, sid>>
  /\ pc' \in [Calls -> CreateLabels \union DeleteLabels \union {"idle", "answer"}]
  /\ DOMAIN ret' = Calls
  /\ \A d \in Calls \ {c} : pc'[d] = pc[d] /\ ret'[d] = ret[d]
  /\ \A d \in Calls : ~(open[d] /\ req[d].content = q.content)
  /\ \/ /\ TryAcquire(q.rep, LockId(q))
        /\ pc'[c] = IF q.op = "Create" THEN "findVolume" ELSE "findSnapshot"
     \/ pc'[c] = "answer" /\ ret'[c].code # "OK" /\ UNCHANGED locks
  /\ \/ /\ q.op = "Create" /\ co[q.content] \in {"creating", "pending"}
        /\ co' = [co EXCEPT ![q.content] = "creating"]
     \/ q.op = "Delete" /\ co[q.content] = "deleting" /\ q.snapId = sid[q.content] /\ co' = co

LEMMA ReceiveEffect ==
  ASSUME BaseInv, NEW c \in Calls, NEW k \in Contents, Snapshotter(c, k)
  PROVE  \E q \in Requests : Received(c, q) /\ q.content = k
<1>1. leader \in Replicas /\ sid[k] \in Snaps \union {NoSnap}
  BY DEF BaseInv, TypeOK
<1>2. CASE CreateSnapshot(c, k)
  <2> DEFINE q == [op |-> "Create", content |-> k, snapId |-> NoSnap, rep |-> leader]
  <2>1. q \in Requests /\ q.op = "Create" /\ q.content = k
    BY <1>1 DEF Requests
  <2>2. co[k] \in {"creating", "pending"} /\ Receive(c, q)
    BY <1>2 DEF CreateSnapshot
  <2> HIDE DEF q
  <2>3. Received(c, q)
    BY <2>1, <2>2 DEF Receive, Received, BaseInv, TypeOK, CallInv, CreateLabels, DeleteLabels,
                      cloudVars
  <2> QED
    BY <2>1, <2>3
<1>3. CASE DeleteSnapshot(c, k)
  <2> DEFINE q == [op |-> "Delete", content |-> k, snapId |-> sid[k], rep |-> leader]
  <2>1. q \in Requests /\ q.op = "Delete" /\ q.content = k /\ q.snapId = sid[k]
    BY <1>1 DEF Requests
  <2>2. co[k] = "deleting" /\ Receive(c, q)
    BY <1>3 DEF DeleteSnapshot
  <2> HIDE DEF q
  <2>3. Received(c, q)
    BY <2>1, <2>2 DEF Receive, Received, BaseInv, TypeOK, CallInv, CreateLabels, DeleteLabels,
                      cloudVars
  <2> QED
    BY <2>1, <2>3
<1> QED
  BY <1>2, <1>3 DEF Snapshotter

LEMMA ReceiveBase ==
  ASSUME BaseInv, NEW c \in Calls, NEW q \in Requests, Received(c, q)
  PROVE  BaseInv'
<1>1. SnapEvolves
  BY SameEvolves DEF Received
<1>2. /\ req'[c] = q /\ open'[c] = TRUE
      /\ \A d \in Calls \ {c} :
           pc'[d] = pc[d] /\ ret'[d] = ret[d] /\ req'[d] = req[d] /\ open'[d] = open[d]
      /\ new' = new /\ sid' = sid /\ disks' = disks /\ snap' = snap
  BY DEF Received, BaseInv, TypeOK, CallInv
<1>3. q.content \in Contents /\ q.rep \in Replicas /\ q.op \in {"Create", "Delete"}
  BY DEF Requests
<1>4. LockId(q) \in Volumes \union Snaps
  <2>1. q.op = "Delete" => q.snapId \in Snaps
    BY <1>3 DEF Received, BaseInv, ContentInv, Known, Holds
  <2>2. q.content.src \in Volumes
    BY <1>3, SnapshotAssumption
  <2> QED
    BY <1>3, <2>1, <2>2 DEF LockId
<1>5. pc'[c] \notin {"idle", "waitAvailable", "findNew"}
  BY DEF Received
<1>6. co' \in [Contents -> CoStates]
  BY <1>3 DEF Received, BaseInv, TypeOK, CoStates
<1>7. TypeOK'
  <2>1. locks' \in [Replicas -> SUBSET (Volumes \union Snaps)]
    BY <1>3, <1>4 DEF Received, TryAcquire, BaseInv, TypeOK
  <2>2. \A d \in Calls : pc'[d] # "idle" => req'[d].rep \in Replicas
    BY <1>2, <1>3 DEF BaseInv, TypeOK
  <2>3. \A d \in Calls : pc'[d] \in {"waitAvailable", "findNew"} => new'[d] \in Snaps
    BY <1>2, <1>5 DEF BaseInv, TypeOK
  <2> QED
    BY <1>6, <2>1, <2>2, <2>3 DEF Received, BaseInv, TypeOK, CoStates
<1>8. CallInv'
  BY <1>2 DEF Received, BaseInv, CallInv, CreateLabels, DeleteLabels
<1>9. \A d \in Calls : pc[d] # "idle" /\ req[d].op = "Delete" =>
        co'[req[d].content] = co[req[d].content]
  BY <1>3, RequestTypes, DeletionIsOwn DEF Received, BaseInv, TypeOK
<1>10. \A k \in Contents : k # q.content => co'[k] = co[k]
  BY <1>3 DEF Received, BaseInv, TypeOK
<1>11. OpenInv'
  <2>1. \A d \in Calls \ {c} : open'[d] => req'[d].content # q.content /\ req'[d].content \in Contents
    BY <1>2, RequestTypes DEF Received, BaseInv, OpenInv
  <2>2. /\ q.op = "Create" => co'[q.content] = "creating"
        /\ q.op = "Delete" => co'[q.content] = "deleting"
    BY <1>3 DEF Received, BaseInv, TypeOK
  <2> QED
    BY <1>2, <1>5, <1>10, <2>1, <2>2 DEF BaseInv, OpenInv
<1>12. ContentInv'
  <2>1. \A k \in Contents : Known(k)' => Known(k)
    BY <1>3, <1>10 DEF Received, Known, BaseInv, TypeOK
  <2>2. \A k \in Contents : Known(k)' => Holds(sid[k], k)'
    BY <1>1, <1>2, <2>1, HoldsStays DEF BaseInv, ContentInv
  <2>3. q.op = "Delete" => co'[q.content] = "deleting" /\ q.snapId = sid'[q.content]
    BY <1>2, <1>3 DEF Received
  <2> QED
    BY <1>2, <1>9, <2>2, <2>3 DEF BaseInv, ContentInv
<1>13. NewInv'
  BY <1>2, <1>5 DEF BaseInv, NewInv, Holds, SameContent, Used
<1>14. ReadyInv'
  <2>1. ~Told(c)'
    BY DEF Told, Received
  <2>2. \A k \in Contents : co'[k] = "ready" => co[k] = "ready"
    BY <1>3, <1>10 DEF Received, BaseInv, TypeOK
  <2> QED
    BY <1>2, <2>1, <2>2 DEF BaseInv, ReadyInv, Told, Holds, SameContent, Used, Complete
<1> QED
  BY <1>1, <1>7, <1>8, <1>11, <1>12, <1>13, <1>14 DEF BaseInv, SnapEvolves

\* A record of the snapshotter that changes is that of the content of an answer
\* it waited for, or of a content it wants no more.
LEMMA AnswerEffect ==
  ASSUME BaseInv, NEW c \in Calls, Answer(c)
  PROVE  /\ req[c].content \in Contents /\ pc[c] = "answer"
         /\ snap' = snap /\ disks' = disks /\ faults' = faults /\ new' = new
         /\ locks' = locks /\ leader' = leader
         /\ pc'[c] = "idle" /\ open'[c] = FALSE
         /\ \A d \in Calls \ {c} :
              pc'[d] = pc[d] /\ ret'[d] = ret[d] /\ req'[d] = req[d] /\ open'[d] = open[d]
         /\ \A k \in Contents : k # req[c].content => co'[k] = co[k] /\ sid'[k] = sid[k]
         /\ co' \in [Contents -> CoStates] /\ sid' \in [Contents -> Snaps \union {NoSnap}]
         /\ LET k == req[c].content IN
            \/ co' = co /\ sid' = sid
            \/ /\ open[c] /\ Told(c) /\ co[k] = "creating" /\ sid'[k] = ret[c].snapId
               /\ (ret[c].ready /\ co'[k] = "ready") \/ co'[k] = "pending"
            \/ /\ open[c] /\ ret[c].code = "OK" /\ req[c].op = "Delete"
               /\ co[k] = "deleting" /\ co'[k] = "deleted" /\ sid' = sid
<1> DEFINE k == req[c].content
<1>1. pc[c] = "answer" /\ k \in Contents
  BY RequestTypes DEF Answer
<1>2. /\ snap' = snap /\ disks' = disks /\ faults' = faults /\ new' = new
      /\ locks' = locks /\ leader' = leader
      /\ pc'[c] = "idle" /\ open'[c] = FALSE
      /\ \A d \in Calls \ {c} :
           pc'[d] = pc[d] /\ ret'[d] = ret[d] /\ req'[d] = req[d] /\ open'[d] = open[d]
  BY DEF Answer, cloudVars, BaseInv, TypeOK, CallInv
<1>3. CASE /\ open[c] /\ ret[c].code = "OK" /\ req[c].op = "Create"
           /\ co' = [co EXCEPT ![k] = IF ret[c].ready THEN "ready" ELSE "pending"]
           /\ sid' = [sid EXCEPT ![k] = ret[c].snapId]
  <2>1. Told(c) /\ co[k] = "creating" /\ ret[c].snapId \in Snaps
    BY <1>1, <1>3 DEF Told, BaseInv, OpenInv, ReadyInv, Holds
  <2>2. CASE ret[c].ready
    <3>1. co' = [co EXCEPT ![k] = "ready"]
      BY <1>3, <2>2
    <3> QED
      BY <1>1, <1>2, <1>3, <2>1, <2>2, <3>1 DEF BaseInv, TypeOK, CoStates
  <2>3. CASE ~ret[c].ready
    <3>1. co' = [co EXCEPT ![k] = "pending"]
      BY <1>3, <2>3
    <3> QED
      BY <1>1, <1>2, <1>3, <2>1, <3>1 DEF BaseInv, TypeOK, CoStates
  <2> QED
    BY <2>2, <2>3
<1>4. CASE /\ open[c] /\ ret[c].code = "OK" /\ req[c].op = "Delete"
           /\ co' = [co EXCEPT ![k] = "deleted"] /\ sid' = sid
  <2>1. co[k] = "deleting"
    BY <1>4 DEF BaseInv, OpenInv
  <2> QED
    BY <1>1, <1>2, <1>4, <2>1 DEF BaseInv, TypeOK, CoStates
<1>5. CASE co' = co /\ sid' = sid
  BY <1>1, <1>2, <1>5 DEF BaseInv, TypeOK, CoStates
<1> QED
  BY <1>3, <1>4, <1>5 DEF Answer

LEMMA AnswerBase ==
  ASSUME BaseInv, NEW c \in Calls, Answer(c)
  PROVE  BaseInv'
<1> DEFINE k == req[c].content
<1>1. SnapEvolves
  BY AnswerEffect, SameEvolves
<1>2. /\ k \in Contents /\ pc[c] = "answer" /\ snap' = snap /\ disks' = disks /\ new' = new
      /\ pc'[c] = "idle" /\ open'[c] = FALSE
      /\ \A d \in Calls \ {c} :
           pc'[d] = pc[d] /\ ret'[d] = ret[d] /\ req'[d] = req[d] /\ open'[d] = open[d]
      /\ \A j \in Contents : j # k => co'[j] = co[j] /\ sid'[j] = sid[j]
  BY AnswerEffect
<1>3. \/ co' = co /\ sid' = sid
      \/ /\ open[c] /\ Told(c) /\ co[k] = "creating" /\ sid'[k] = ret[c].snapId
         /\ (ret[c].ready /\ co'[k] = "ready") \/ co'[k] = "pending"
      \/ /\ open[c] /\ co[k] = "deleting" /\ co'[k] = "deleted" /\ sid' = sid
  BY AnswerEffect
<1> HIDE DEF k
<1>4. TypeOK'
  <2>1. pc' \in [Calls -> CreateLabels \union DeleteLabels \union {"idle", "answer"}]
        /\ open' \in [Calls -> BOOLEAN]
    BY DEF Answer, BaseInv, TypeOK
  <2>2. /\ faults' = faults /\ locks' = locks /\ leader' = leader
        /\ co' \in [Contents -> CoStates] /\ sid' \in [Contents -> Snaps \union {NoSnap}]
    BY AnswerEffect
  <2>3. \A d \in Calls : pc'[d] # "idle" => req'[d].rep \in Replicas
    BY <1>2 DEF BaseInv, TypeOK
  <2> QED
    BY <1>2, <2>1, <2>2, <2>3 DEF BaseInv, TypeOK, CoStates
<1>5. CallInv'
  BY <1>2 DEF Answer, BaseInv, CallInv
<1>6. \A d \in Calls \ {c} : open[d] =>
        req[d].content # req[c].content \/ co' = co
  BY <1>3 DEF BaseInv, OpenInv, k
<1>7. OpenInv'
  <2>1. \A d \in Calls \ {c} : open[d] => req[d].content \in Contents
    BY RequestTypes DEF BaseInv, OpenInv
  <2> QED
    BY <1>2, <1>6, <2>1 DEF BaseInv, OpenInv, k
<1>8. ContentInv'
  <2>1. ASSUME NEW j \in Contents, Known(j)'
        PROVE  Holds(sid[j], j)'
    <3>1. CASE Known(j) /\ sid'[j] = sid[j]
      BY <1>1, <3>1, HoldsStays DEF BaseInv, ContentInv
    <3>2. CASE j = k /\ Told(c) /\ sid'[k] = ret[c].snapId
      <4>1. Holds(ret[c].snapId, k)
        BY <3>2 DEF BaseInv, ReadyInv, k
      <4> QED
        BY <1>1, <3>2, <4>1, HoldsStays
    <3> QED
      BY <1>2, <1>3, <2>1, <3>1, <3>2 DEF Known
  <2>2. ASSUME NEW d \in Calls, pc'[d] # "idle", req'[d].op = "Delete"
        PROVE  /\ co'[req'[d].content] \in {"deleting", "deleted"}
               /\ req'[d].snapId = sid'[req'[d].content]
    <3>1. d # c /\ req'[d] = req[d] /\ pc[d] # "idle" /\ req[d].op = "Delete"
      BY <1>2, <2>2
    <3>2. /\ req[d].content \in Contents /\ co[req[d].content] \in {"deleting", "deleted"}
          /\ req[d].snapId = sid[req[d].content]
      BY <3>1, DeletionIsOwn DEF BaseInv, ContentInv
    <3> QED
      BY <1>2, <1>3, <3>1, <3>2
  <2> QED
    BY <2>1, <2>2 DEF ContentInv
<1>9. NewInv'
  BY <1>2 DEF BaseInv, NewInv, Holds, SameContent, Used
<1>10. ReadyInv'
  <2>1. \A j \in Contents : co'[j] = "ready" => Complete(sid[j], j)'
    <3> SUFFICES ASSUME NEW j \in Contents, co'[j] = "ready"
                 PROVE  Complete(sid[j], j)'
      OBVIOUS
    <3>1. CASE co[j] = "ready" /\ sid'[j] = sid[j]
      BY <1>2, <3>1 DEF BaseInv, ReadyInv, Complete
    <3>2. CASE j = k /\ open[c] /\ Told(c) /\ ret[c].ready /\ sid'[k] = ret[c].snapId
      BY <1>2, <3>2 DEF BaseInv, ReadyInv, Complete, k
    <3> QED
      BY <1>2, <1>3, <3>1, <3>2
  <2>2. \A d \in Calls : Told(d)' => d # c /\ Told(d)
    BY <1>2 DEF Told
  <2> QED
    BY <1>2, <2>1, <2>2 DEF BaseInv, ReadyInv, Holds, SameContent, Used, Complete
<1> QED
  BY <1>1, <1>4, <1>5, <1>7, <1>8, <1>9, <1>10 DEF BaseInv, SnapEvolves

LEMMA WantBase ==
  ASSUME BaseInv, NEW k \in Contents, WantNoSnapshot(k)
  PROVE  BaseInv'
<1>1. /\ co[k] \in {"pending", "ready"} /\ co'[k] = "deleting"
      /\ \A j \in Contents : j # k => co'[j] = co[j]
      /\ UNCHANGED <<snap, disks, faults, pc, req, new, ret, open, locks, leader, sid>>
  BY DEF WantNoSnapshot, cloudVars, callVars, BaseInv, TypeOK
<1>2. TypeOK'
  BY <1>1 DEF WantNoSnapshot, BaseInv, TypeOK
<1>3. SnapInv' /\ CallInv' /\ NewInv'
  BY <1>1 DEF BaseInv, SnapInv, CallInv, NewInv, Holds, SameContent, Used
<1>4. OpenInv'
  <2>1. \A c \in Calls : open[c] => req[c].content \in Contents /\ req[c].content # k
    BY <1>1, RequestTypes DEF BaseInv, OpenInv
  <2> QED
    BY <1>1, <2>1 DEF BaseInv, OpenInv
<1>5. ContentInv'
  <2>1. \A c \in Calls : pc[c] # "idle" /\ req[c].op = "Delete" =>
          req[c].content \in Contents /\ req[c].content # k
    BY <1>1, RequestTypes, DeletionIsOwn
  <2> QED
    BY <1>1, <2>1 DEF BaseInv, ContentInv, Known, Holds, SameContent, Used
<1>6. ReadyInv'
  BY <1>1 DEF BaseInv, ReadyInv, Told, Holds, SameContent, Used, Complete
<1> QED
  BY <1>2, <1>3, <1>4, <1>5, <1>6 DEF BaseInv

LEMMA BaseInit ==
  ASSUME Init
  PROVE  BaseInv
<1>1. SnapInv
  <2>1. Unused \in [status : Statuses, name : Names, src : Volumes \union {""}]
    BY DEF Unused, Statuses, Names
  <2>2. snap = [s \in Snaps |-> Unused]
    BY DEF Init
  <2> QED
    BY <2>1, <2>2 DEF SnapInv
<1>2. /\ pc = [c \in Calls |-> "idle"] /\ open = [c \in Calls |-> FALSE]
      /\ co \in [Contents -> {"none", "creating"}]
  BY DEF Init
<1>3. \A c \in Calls : pc[c] = "idle" /\ open[c] = FALSE
  BY <1>2
<1>4. \A k \in Contents : co[k] \in {"none", "creating"}
  BY <1>2
<1>5. TypeOK
  <2>1. \A s \in Snaps : snap[s].status \in Statuses
    BY <1>1, SnapTypes
  <2>2. faults \in 0..MaxFaults
    BY SnapshotAssumption DEF Init
  <2>3. locks \in [Replicas -> SUBSET (Volumes \union Snaps)]
    BY DEF Init, NewResourceLocks
  <2>4. co \in [Contents -> CoStates]
    BY <1>2 DEF CoStates
  <2>5. /\ disks \subseteq Volumes /\ leader \in Replicas
        /\ new \in [Calls -> Snaps \union {NoSnap}]
        /\ sid \in [Contents -> Snaps \union {NoSnap}]
    BY DEF Init
  <2> QED
    BY <1>2, <1>3, <2>1, <2>2, <2>3, <2>4, <2>5 DEF TypeOK, Statuses, CoStates
<1>6. CallInv
  BY <1>3 DEF CallInv, Init
<1> QED
  BY <1>1, <1>3, <1>4, <1>5, <1>6
     DEF BaseInv, OpenInv, ContentInv, Known, NewInv, ReadyInv, Told

LEMMA BaseStep ==
  ASSUME BaseInv, [Next]_vars
  PROVE  BaseInv'
<1>1. ASSUME NEW c \in Calls, NEW k \in Contents, Snapshotter(c, k)
      PROVE  BaseInv'
  BY <1>1, ReceiveEffect, ReceiveBase
<1>2. ASSUME NEW c \in Calls, Handler(c)
      PROVE  BaseInv'
  BY <1>2, HandlerOutcome, HandlerBase
<1>3. ASSUME NEW c \in Calls, Answer(c)
      PROVE  BaseInv'
  BY <1>3, AnswerBase
<1>4. ASSUME NEW c \in Calls, GiveUp(c)
      PROVE  BaseInv'
  BY <1>4, GiveUpSheds, SheddingBase
<1>5. ASSUME NEW s \in Snaps, SnapshotCompletes(s) \/ SnapshotFails(s)
      PROVE  BaseInv'
  BY <1>5, CloudSheds, SheddingBase
<1>6. ASSUME NEW v \in Volumes, DiskReleased(v)
      PROVE  BaseInv'
  BY <1>6, ReleaseSheds, SheddingBase
<1>7. ASSUME NEW k \in Contents, WantNoSnapshot(k)
      PROVE  BaseInv'
  BY <1>7, WantBase
<1>8. ASSUME NEW r \in Replicas, LeaderMoves(r) \/ Crash(r)
      PROVE  BaseInv'
  BY <1>8, LeaderSheds, CrashSheds, SheddingBase
<1>9. CASE UNCHANGED vars
  BY <1>9 DEF vars, cloudVars, callVars, BaseInv, TypeOK, SnapInv, CallInv, OpenInv,
              ContentInv, Known, NewInv, ReadyInv, Told, Holds, SameContent, Used, Complete
<1> QED
  BY <1>1, <1>2, <1>3, <1>4, <1>5, <1>6, <1>7, <1>8, <1>9 DEF Next

LEMMA BaseSafety == Spec => []BaseInv
<1>1. Init => BaseInv
  BY BaseInit
<1>2. BaseInv /\ [Next]_vars => BaseInv'
  BY BaseStep
<1> QED
  BY <1>1, <1>2, PTL DEF Spec

\* Every reachable state of CreateSnapshot and DeleteSnapshot with the cloud and
\* the snapshotter is well typed: a handler that waits for its snapshot has the
\* id of one, and every lock is that of a volume or of a snapshot.
THEOREM SnapshotsTypeCorrect == Spec => []TypeOK
<1>1. BaseInv => TypeOK
  BY DEF BaseInv
<1> QED
  BY <1>1, BaseSafety, PTL

\* ReadyIsAvailable holds in any number of replicas: what CreateSnapshot reports
\* as ready is complete, of the right name and source, and stays so until the
\* snapshotter asks for its deletion or the source volume goes; no late handler
\* of this or another content takes it away.
THEOREM ReadySafety == Spec => []ReadyIsAvailable
<1>1. BaseInv => ReadyIsAvailable
  BY DEF BaseInv, ContentInv, Known, ReadyInv, Holds, Complete, ReadyIsAvailable
<1> QED
  BY <1>1, BaseSafety, PTL

-----------------------------------------------------------------------------
(* The lock of a running handler, in any number of replicas.               *)

LEMMA HandlerLock ==
  ASSUME BaseInv, LockInv, NEW c \in Calls, Outcome(c)
  PROVE  LockInv'
<1>1. /\ Running(c) /\ req' = req /\ pc[c] # "idle"
      /\ \A d \in Calls \ {c} : pc'[d] = pc[d]
  BY DEF Outcome, Frame, Running, CreateLabels, DeleteLabels
<1>2. \A d \in Calls : Running(d)' => Running(d)
  BY <1>1 DEF Running
<1>3. CASE GoesOn(c)
  BY <1>1, <1>2, <1>3 DEF GoesOn, LockInv
<1>4. CASE Returns(c)
  <2>1. \A d \in Calls : Running(d)' => d # c
    BY <1>4 DEF Running, Returns, CreateLabels, DeleteLabels
  <2>2. locks' = [locks EXCEPT ![req[c].rep] = @ \ {LockId(req[c])}]
    BY <1>4 DEF Returns, Release
  <2>3. ASSUME NEW d \in Calls, Running(d)'
        PROVE  LockId(req[d]) \in locks'[req[d].rep]
    <3>1. Running(d) /\ d # c /\ LockId(req[d]) \in locks[req[d].rep]
      BY <1>2, <2>1, <2>3 DEF LockInv
    <3>2. req[d].rep # req[c].rep \/ LockId(req[d]) # LockId(req[c])
      BY <1>1, <3>1 DEF LockInv
    <3>3. req[d].rep \in Replicas
      BY <3>1, RequestTypes DEF Running, CreateLabels, DeleteLabels
    <3> QED
      BY <2>2, <3>1, <3>2, <3>3 DEF BaseInv, TypeOK
  <2> QED
    BY <1>1, <1>2, <2>3 DEF LockInv
<1> QED
  BY <1>3, <1>4 DEF Outcome

LEMMA ReceiveLock ==
  ASSUME BaseInv, LockInv, NEW c \in Calls, NEW q \in Requests, Received(c, q)
  PROVE  LockInv'
<1>1. /\ req'[c] = q /\ pc[c] = "idle"
      /\ \A d \in Calls \ {c} : pc'[d] = pc[d] /\ req'[d] = req[d]
  BY DEF Received, BaseInv, CallInv
<1>2. \A d \in Calls \ {c} : Running(d)' <=> Running(d)
  BY <1>1 DEF Running
<1>3. CASE UNCHANGED locks /\ pc'[c] = "answer"
  BY <1>1, <1>2, <1>3 DEF LockInv, Running, CreateLabels, DeleteLabels
<1>4. CASE TryAcquire(q.rep, LockId(q))
  <2>1. LockId(q) \notin locks[q.rep]
        /\ locks' = [locks EXCEPT ![q.rep] = @ \union {LockId(q)}]
    BY <1>4 DEF TryAcquire, IsLocked
  <2>2. q.rep \in Replicas /\ locks \in [Replicas -> SUBSET (Volumes \union Snaps)]
    BY DEF Requests, BaseInv, TypeOK
  <2>3. \A d \in Calls \ {c} : Running(d) =>
          /\ req[d].rep \in Replicas /\ LockId(req[d]) \in locks[req[d].rep]
          /\ ~(req[d].rep = q.rep /\ LockId(req[d]) = LockId(q))
    BY <2>1, RequestTypes DEF LockInv, Running, CreateLabels, DeleteLabels
  <2>4. \A d \in Calls : Running(d)' => LockId(req'[d]) \in locks'[req'[d].rep]
    BY <1>1, <1>2, <2>1, <2>2, <2>3
  <2>5. \A d, e \in Calls :
          Running(d)' /\ Running(e)' /\ req'[d].rep = req'[e].rep
            /\ LockId(req'[d]) = LockId(req'[e]) => d = e
    BY <1>1, <1>2, <2>3 DEF LockInv
  <2> QED
    BY <2>4, <2>5 DEF LockInv
<1> QED
  BY <1>3, <1>4 DEF Received

LEMMA CrashLock ==
  ASSUME BaseInv, LockInv, NEW r \in Replicas, Crash(r)
  PROVE  LockInv'
<1>1. \A c \in Calls : Running(c)' =>
        Running(c) /\ req'[c] = req[c] /\ req[c].rep # r /\ req[c].rep \in Replicas
  BY CrashSheds, RequestTypes DEF Shedding, Running, CreateLabels, DeleteLabels
<1>2. \A t \in Replicas : t # r => locks'[t] = locks[t]
  BY DEF Crash, LoseLocks, BaseInv, TypeOK
<1> QED
  BY <1>1, <1>2 DEF LockInv

LEMMA SameLock ==
  ASSUME LockInv, UNCHANGED <<req, locks>>, \A c \in Calls : Running(c)' => Running(c)
  PROVE  LockInv'
BY DEF LockInv

LEMMA AnswerLock ==
  ASSUME BaseInv, LockInv, NEW c \in Calls, Answer(c)
  PROVE  LockInv'
<1>1. /\ locks' = locks /\ pc'[c] = "idle"
      /\ \A d \in Calls \ {c} : pc'[d] = pc[d] /\ req'[d] = req[d]
  BY DEF Answer, BaseInv, TypeOK, CallInv
<1>2. \A d \in Calls : Running(d)' => Running(d) /\ req'[d] = req[d]
  BY <1>1 DEF Running, CreateLabels, DeleteLabels
<1> QED
  BY <1>1, <1>2 DEF LockInv

-----------------------------------------------------------------------------
(* One replica: no second snapshot, and none left behind.                  *)

\* No snapshot comes into being in this step.
Shrinks ==
  \A s \in Snaps : s \in Live' =>
    s \in Live /\ snap'[s].name = snap[s].name /\ snap'[s].src = snap[s].src

LEMMA OnlyStays ==
  ASSUME Shrinks, NEW s, NEW k, Only(s, k)
  PROVE  Only(s, k)'
BY DEF Shrinks, Only, SameContent, Live

LEMMA UniqueStays ==
  ASSUME Shrinks, OneSnapshotPerContent
  PROVE  OneSnapshotPerContent'
BY DEF Shrinks, OneSnapshotPerContent, Live

LEMMA NoneStays ==
  ASSUME Shrinks, NEW k, \A s \in Live : ~SameContent(s, k)
  PROVE  (\A s \in Live : ~SameContent(s, k))'
BY DEF Shrinks, SameContent, Live

LEMMA SheddingFew ==
  ASSUME BaseInv, FewInv, Shedding, Shrinks
  PROVE  FewInv'
<1>1. \A c \in Calls : pc'[c] # "idle" =>
        /\ pc'[c] = pc[c] /\ req'[c] = req[c] /\ ret'[c] = ret[c]
        /\ open'[c] => open[c]
  BY DEF Shedding
<1>2. co' = co /\ sid' = sid
  BY DEF Shedding
<1>3. CreateInv'
  <2> SUFFICES ASSUME NEW c \in Calls, pc'[c] = "create"
               PROVE  (\A s \in Live : ~SameContent(s, req[c].content))'
    BY DEF CreateInv
  <2>1. req'[c] = req[c] /\ \A s \in Live : ~SameContent(s, req[c].content)
    BY <1>1 DEF FewInv, CreateInv
  <2> QED
    BY <2>1, NoneStays
<1>4. \A k : Quiet(k) => Quiet(k)'
  BY <1>1 DEF Quiet, CreateLabels
<1>5. SoleInv'
  <2>1. ASSUME NEW c \in Calls, open'[c], Told(c)'
        PROVE  Quiet(req[c].content)' /\ Only(ret[c].snapId, req[c].content)'
    <3>1. open[c] /\ Told(c) /\ req'[c] = req[c] /\ ret'[c] = ret[c]
      BY <1>1, <2>1 DEF Told
    <3>2. Quiet(req[c].content) /\ Only(ret[c].snapId, req[c].content)
      BY <3>1 DEF FewInv, SoleInv
    <3> QED
      BY <1>4, <3>1, <3>2, OnlyStays
  <2>2. ASSUME NEW k \in Contents, Known(k)'
        PROVE  Quiet(k)' /\ Only(sid[k], k)'
    <3>1. Quiet(k) /\ Only(sid[k], k)
      BY <1>2, <2>2 DEF FewInv, SoleInv, Known
    <3> QED
      BY <1>2, <1>4, <3>1, OnlyStays
  <2> QED
    BY <2>1, <2>2 DEF SoleInv
<1> QED
  BY <1>3, <1>5, UniqueStays DEF FewInv

\* A record of GoneInv stays true while no answer comes.
LEMMA SheddingGone ==
  ASSUME BaseInv, SnapEvolves, GoneInv, Shedding
  PROVE  GoneInv'
<1>1. ASSUME NEW c \in Calls, pc'[c] = "answer", ret'[c].code = "OK", req'[c].op = "Delete"
      PROVE  snap'[req'[c].snapId].status = "GONE"
  <2>1. pc[c] = "answer" /\ ret[c].code = "OK" /\ req[c].op = "Delete" /\ req'[c] = req[c]
    BY <1>1 DEF Shedding
  <2>2. req[c].snapId \in Snaps /\ snap[req[c].snapId].status = "GONE"
    BY <2>1, RequestTypes DEF GoneInv
  <2> QED
    BY <2>1, <2>2 DEF SnapEvolves
<1>2. \A k \in Contents : co'[k] = "deleted" => snap'[sid'[k]].status = "GONE"
  BY DEF Shedding, GoneInv, BaseInv, ContentInv, Known, Holds, SnapEvolves
<1> QED
  BY <1>1, <1>2 DEF GoneInv

LEMMA CloudShrinks ==
  ASSUME BaseInv, NEW s \in Snaps, SnapshotCompletes(s) \/ SnapshotFails(s)
  PROVE  Shrinks
<1>1. PICK status \in Statuses :
        /\ snap[s].status \in {"CREATING", "DELETING"}
        /\ snap' = [snap EXCEPT ![s].status = status]
  BY DEF SnapshotCompletes, SnapshotFails, Statuses
<1>2. /\ \A t \in Snaps \ {s} : snap'[t] = snap[t]
      /\ snap'[s].name = snap[s].name /\ snap'[s].src = snap[s].src
  BY <1>1, StatusChange DEF BaseInv
<1> QED
  BY <1>1, <1>2 DEF Shrinks, Live

LEMMA ReleaseShrinks ==
  ASSUME BaseInv, NEW v \in Volumes, DiskReleased(v)
  PROVE  Shrinks
<1>1. snap' = [s \in Snaps |-> IF snap[s].src = v
                               THEN [snap[s] EXCEPT !.status = "GONE"] ELSE snap[s]]
  BY DEF DiskReleased
<1>2. ASSUME NEW s \in Snaps
      PROVE  /\ snap[s].src = v => snap'[s].status = "GONE"
             /\ snap[s].src # v => snap'[s] = snap[s]
  <2>1. snap[s] \in [status : Statuses, name : Names, src : Volumes \union {""}]
    BY SnapTypes DEF BaseInv
  <2>2. CASE snap[s].src = v
    <3>1. snap'[s] = [snap[s] EXCEPT !.status = "GONE"]
      BY <1>1, <2>2
    <3> QED
      BY <2>1, <2>2, <3>1
  <2>3. CASE snap[s].src # v
    BY <1>1, <2>3
  <2> QED
    BY <2>2, <2>3
<1> QED
  BY <1>2 DEF Shrinks, Live

LEMMA SameShrinks ==
  ASSUME snap' = snap
  PROVE  Shrinks
BY DEF Shrinks, Live

\* With one replica two handlers that create for one volume are one handler.
LEMMA OneCreator ==
  ASSUME OneReplica, BaseInv, LockInv, NEW c \in Calls, NEW d \in Calls,
         pc[c] \in CreateLabels, pc[d] \in CreateLabels,
         req[c].content.src = req[d].content.src
  PROVE  c = d
<1>1. Running(c) /\ Running(d) /\ pc[c] # "idle" /\ pc[d] # "idle"
  BY DEF Running, CreateLabels
<1>2. req[c].op = "Create" /\ req[d].op = "Create"
  BY <1>1 DEF BaseInv, CallInv
<1>3. req[c].rep = req[d].rep
  BY <1>1, RequestTypes DEF OneReplica
<1> QED
  BY <1>1, <1>2, <1>3 DEF LockInv, LockId

\* A snapshot is created.
LEMMA CreationFew ==
  ASSUME OneReplica, BaseInv, LockInv, FewInv, NEW c \in Calls, Outcome(c),
         pc[c] = "create", pc'[c] # "create",
         NEW s \in Snaps, snap[s] = Unused,
         snap' = [snap EXCEPT ![s] = NewSnapshot(req[c].content)]
  PROVE  FewInv'
<1> DEFINE k == req[c].content
<1>1. /\ req' = req /\ open' = open /\ co' = co /\ sid' = sid
      /\ \A d \in Calls \ {c} : pc'[d] = pc[d] /\ ret'[d] = ret[d]
  BY DEF Outcome, Frame
<1>2. k \in Contents /\ pc[c] \in CreateLabels
  BY RequestTypes DEF CreateLabels
<1>3. /\ s \notin Live /\ snap' # snap
      /\ \A t \in Snaps \ {s} : snap'[t] = snap[t]
      /\ snap'[s].name = k.name /\ snap'[s].src = k.src
  <2>1. snap[s].status = "UNUSED"
    BY UnusedStatus
  <2>2. snap'[s] = NewSnapshot(k) /\ \A t \in Snaps \ {s} : snap'[t] = snap[t]
    BY DEF BaseInv, SnapInv
  <2>3. /\ NewSnapshot(k).name = k.name /\ NewSnapshot(k).src = k.src
        /\ NewSnapshot(k).status = "CREATING"
    BY DEF NewSnapshot
  <2> QED
    BY <2>1, <2>2, <2>3 DEF Live
<1>4. \A t \in Live' : t = s \/ (t \in Live /\ t \in Snaps \ {s} /\ snap'[t] = snap[t])
  BY <1>3 DEF Live
<1>5. \A t \in Live : ~(snap[t].name = k.name /\ snap[t].src = k.src)
  BY DEF FewInv, CreateInv, SameContent
<1> HIDE DEF k
<1>6. OneSnapshotPerContent'
  <2> SUFFICES ASSUME NEW t \in Live', NEW u \in Live',
                      snap'[t].name = snap'[u].name, snap'[t].src = snap'[u].src
               PROVE  t = u
    BY DEF OneSnapshotPerContent
  <2> QED
    BY <1>3, <1>4, <1>5 DEF FewInv, OneSnapshotPerContent
<1>7. CreateInv'
  <2> SUFFICES ASSUME NEW d \in Calls, pc'[d] = "create", NEW t \in Live',
                      snap'[t].name = req[d].content.name, snap'[t].src = req[d].content.src
               PROVE  FALSE
    BY <1>1 DEF CreateInv, SameContent
  <2>1. d # c /\ pc[d] = "create" /\ pc[d] \in CreateLabels
    BY <1>1 DEF CreateLabels
  <2>2. CASE t = s
    BY <1>2, <1>3, <2>1, <2>2, OneCreator DEF k
  <2>3. CASE t \in Live /\ snap'[t] = snap[t]
    BY <2>1, <2>3 DEF FewInv, CreateInv, SameContent
  <2> QED
    BY <1>4, <2>2, <2>3
<1>8. \A j : Quiet(j) => Quiet(j)' /\ j # k
  BY <1>1, <1>2 DEF Quiet, k
<1>9. ASSUME NEW j \in Contents, j # k, NEW u, Only(u, j)
      PROVE  Only(u, j)'
  <2> SUFFICES ASSUME NEW t \in Live', snap'[t].name = j.name, snap'[t].src = j.src
               PROVE  t = u
    BY DEF Only, SameContent
  <2>1. t # s
    BY <1>2, <1>3, <1>9, OneContent
  <2> QED
    BY <1>4, <1>9, <2>1 DEF Only, SameContent
<1>10. SoleInv'
  <2>1. ASSUME NEW d \in Calls, open'[d], Told(d)'
        PROVE  Quiet(req[d].content)' /\ Only(ret[d].snapId, req[d].content)'
    <3>1. d # c
      BY <1>3, <2>1 DEF Told, Outcome, GoesOn, Returns, CreateLabels, DeleteLabels
    <3>2. open[d] /\ Told(d) /\ req'[d] = req[d] /\ ret'[d] = ret[d]
      BY <1>1, <2>1, <3>1 DEF Told
    <3>3. Quiet(req[d].content) /\ Only(ret[d].snapId, req[d].content)
      BY <3>2 DEF FewInv, SoleInv
    <3>4. req[d].content \in Contents
      BY <3>2, RequestTypes DEF Told
    <3> QED
      BY <1>8, <1>9, <3>2, <3>3, <3>4
  <2>2. ASSUME NEW j \in Contents, Known(j)'
        PROVE  Quiet(j)' /\ Only(sid[j], j)'
    <3>1. Quiet(j) /\ Only(sid[j], j)
      BY <1>1, <2>2 DEF FewInv, SoleInv, Known
    <3> QED
      BY <1>1, <1>8, <1>9, <3>1
  <2> QED
    BY <2>1, <2>2 DEF SoleInv
<1> QED
  BY <1>6, <1>7, <1>10 DEF FewInv

\* No snapshot is created: the handler goes on, or it answers.
LEMMA MoveFew ==
  ASSUME OneReplica, BaseInv, LockInv, FewInv, NEW c \in Calls, Outcome(c), Shrinks
  PROVE  FewInv'
<1> DEFINE k == req[c].content
<1>1. /\ req' = req /\ open' = open /\ co' = co /\ sid' = sid
      /\ \A d \in Calls \ {c} : pc'[d] = pc[d] /\ ret'[d] = ret[d]
  BY DEF Outcome, Frame
<1>2. pc'[c] \in CreateLabels => pc[c] \in CreateLabels
  BY DEF Outcome, GoesOn, Returns, CreateLabels
<1>3. k \in Contents
  BY RequestTypes DEF Outcome, Running, CreateLabels, DeleteLabels
<1>4. CreateInv'
  <2> SUFFICES ASSUME NEW d \in Calls, pc'[d] = "create"
               PROVE  (\A s \in Live : ~SameContent(s, req[d].content))'
    BY DEF CreateInv
  <2>1. CASE d = c
    <3>1. Listed(k) = {} /\ snap' = snap
      BY <2>1 DEF Outcome, GoesOn, Returns
    <3>2. \A s \in Live : ~SameContent(s, k)
      BY <3>1 DEF Listed, SameContent
    <3> QED
      BY <1>1, <2>1, <3>2, NoneStays
  <2>2. CASE d # c
    <3>1. \A s \in Live : ~SameContent(s, req[d].content)
      BY <1>1, <2>2 DEF FewInv, CreateInv
    <3> QED
      BY <1>1, <3>1, NoneStays
  <2> QED
    BY <2>1, <2>2
<1>5. \A j : Quiet(j) => Quiet(j)'
  BY <1>1, <1>2 DEF Quiet
<1>6. SoleInv'
  <2>1. ASSUME NEW d \in Calls, open'[d], Told(d)'
        PROVE  Quiet(req[d].content)' /\ Only(ret[d].snapId, req[d].content)'
    <3>1. CASE d = c
      <4>1. Returns(c) /\ ret'[c].code = "OK" /\ req[c].op = "Create"
        BY <1>1, <2>1, <3>1 DEF Told, Outcome, GoesOn, CreateLabels, DeleteLabels
      <4>2. ret'[c].snapId \in Live /\ SameContent(ret'[c].snapId, k) /\ snap' = snap
            /\ pc'[c] = "answer"
        BY <4>1 DEF Returns
      <4>3. pc[c] \in CreateLabels
        BY <4>1 DEF Outcome, Running, BaseInv, CallInv, CreateLabels, DeleteLabels
      <4>4. \A e \in Calls : pc[e] \in CreateLabels /\ req[e].content = k => e = c
        BY <4>3, OneCreator
      <4>5. Quiet(req[c].content)'
        BY <1>1, <4>2, <4>4 DEF Quiet, CreateLabels
      <4>6. Only(ret[c].snapId, req[c].content)'
        BY <1>1, <4>2 DEF Only, FewInv, OneSnapshotPerContent, SameContent, Live
      <4> QED
        BY <3>1, <4>5, <4>6
    <3>2. CASE d # c
      <4>1. open[d] /\ Told(d) /\ req'[d] = req[d] /\ ret'[d] = ret[d]
        BY <1>1, <2>1, <3>2 DEF Told
      <4>2. Quiet(req[d].content) /\ Only(ret[d].snapId, req[d].content)
        BY <4>1 DEF FewInv, SoleInv
      <4> QED
        BY <1>5, <4>1, <4>2, OnlyStays
    <3> QED
      BY <3>1, <3>2
  <2>2. ASSUME NEW j \in Contents, Known(j)'
        PROVE  Quiet(j)' /\ Only(sid[j], j)'
    <3>1. Quiet(j) /\ Only(sid[j], j)
      BY <1>1, <2>2 DEF FewInv, SoleInv, Known
    <3> QED
      BY <1>1, <1>5, <3>1, OnlyStays
  <2> QED
    BY <2>1, <2>2 DEF SoleInv
<1> QED
  BY <1>4, <1>6, UniqueStays DEF FewInv

LEMMA HandlerFew ==
  ASSUME OneReplica, BaseInv, LockInv, FewInv, NEW c \in Calls, Outcome(c)
  PROVE  FewInv'
<1>1. CASE snap' = snap
  BY <1>1, SameShrinks, MoveFew
<1>2. CASE /\ pc[c] = "create" /\ pc'[c] # "create"
           /\ \E s \in Snaps : snap[s] = Unused /\ snap' = [snap EXCEPT ![s] = NewSnapshot(req[c].content)]
  BY <1>2, CreationFew
<1>3. CASE /\ req[c].snapId \in Snaps
           /\ snap[req[c].snapId].status \in {"AVAILABLE", "FAILED"}
           /\ snap' = [snap EXCEPT ![req[c].snapId].status = "DELETING"]
  <2> DEFINE s == req[c].snapId
  <2>1. "DELETING" \in Statuses /\ SnapInv
    BY DEF Statuses, BaseInv
  <2>2. /\ \A t \in Snaps \ {s} : snap'[t] = snap[t]
        /\ snap'[s].name = snap[s].name /\ snap'[s].src = snap[s].src
    BY <1>3, <2>1, StatusChange
  <2>3. Shrinks
    BY <1>3, <2>2 DEF Shrinks, Live
  <2> QED
    BY <2>3, MoveFew
<1> QED
  BY <1>1, <1>2, <1>3 DEF Outcome, SnapEffect

LEMMA HandlerGone ==
  ASSUME BaseInv, GoneInv, NEW c \in Calls, Outcome(c)
  PROVE  GoneInv'
<1>1. SnapEvolves
  BY HandlerEvolves
<1>2. /\ req' = req /\ co' = co /\ sid' = sid /\ pc[c] # "idle"
      /\ \A d \in Calls \ {c} : pc'[d] = pc[d] /\ ret'[d] = ret[d]
  BY DEF Outcome, Frame, Running, CreateLabels, DeleteLabels
<1>3. ASSUME NEW d \in Calls, pc'[d] = "answer", ret'[d].code = "OK", req[d].op = "Delete"
      PROVE  snap'[req[d].snapId].status = "GONE"
  <2>1. CASE d = c
    <3>1. req[c].snapId \notin Live /\ snap' = snap
      BY <1>3, <2>1 DEF Outcome, GoesOn, Returns, CreateLabels, DeleteLabels
    <3>2. Holds(req[c].snapId, req[c].content)
      BY <1>2, <1>3, <2>1, DeletionIsOwn
    <3> QED
      BY <2>1, <3>1, <3>2 DEF Live, Holds, Used
  <2>2. CASE d # c
    <3>1. req[d].snapId \in Snaps /\ snap[req[d].snapId].status = "GONE"
      BY <1>2, <1>3, <2>2, RequestTypes DEF GoneInv
    <3> QED
      BY <1>1, <3>1 DEF SnapEvolves
  <2> QED
    BY <2>1, <2>2
<1>4. \A k \in Contents : co[k] = "deleted" => snap'[sid[k]].status = "GONE"
  BY <1>1 DEF GoneInv, BaseInv, ContentInv, Known, Holds, SnapEvolves
<1> QED
  BY <1>2, <1>3, <1>4 DEF GoneInv

LEMMA ReceiveFew ==
  ASSUME BaseInv, FewInv, GoneInv, NEW c \in Calls, NEW q \in Requests, Received(c, q)
  PROVE  FewInv' /\ GoneInv'
<1>1. /\ req'[c] = q /\ snap' = snap /\ sid' = sid
      /\ \A d \in Calls \ {c} :
           pc'[d] = pc[d] /\ ret'[d] = ret[d] /\ req'[d] = req[d] /\ open'[d] = open[d]
      /\ \A d \in Calls : ~(open[d] /\ req[d].content = q.content)
  BY DEF Received, BaseInv, TypeOK, CallInv
<1>2. /\ pc'[c] # "create" /\ ~(pc'[c] = "answer" /\ ret'[c].code = "OK")
      /\ pc'[c] \in CreateLabels => q.op = "Create"
  BY DEF Received, CreateLabels, Requests
<1>3. /\ \A k \in Contents : Known(k)' => Known(k)
      /\ q.op = "Create" => ~Known(q.content)'
      /\ \A k \in Contents : co'[k] = "deleted" => co[k] = "deleted"
  <2>1. q.content \in Contents
    BY DEF Requests
  <2> QED
    BY <2>1 DEF Received, Known, BaseInv, TypeOK
<1>4. Shrinks
  BY <1>1, SameShrinks
<1>5. CreateInv'
  <2> SUFFICES ASSUME NEW d \in Calls, pc'[d] = "create"
               PROVE  (\A s \in Live : ~SameContent(s, req[d].content))'
    BY DEF CreateInv
  <2>1. req'[d] = req[d] /\ \A s \in Live : ~SameContent(s, req[d].content)
    BY <1>1, <1>2 DEF FewInv, CreateInv
  <2> QED
    BY <1>4, <2>1, NoneStays
<1>6. \A k : Quiet(k) /\ (k # q.content \/ q.op # "Create") => Quiet(k)'
  BY <1>1, <1>2 DEF Quiet
<1>7. SoleInv'
  <2>1. ASSUME NEW d \in Calls, open'[d], Told(d)'
        PROVE  Quiet(req[d].content)' /\ Only(ret[d].snapId, req[d].content)'
    <3>1. /\ open[d] /\ Told(d) /\ req'[d] = req[d] /\ ret'[d] = ret[d]
          /\ req[d].content # q.content
      BY <1>1, <1>2, <2>1 DEF Told
    <3>2. Quiet(req[d].content) /\ Only(ret[d].snapId, req[d].content)
      BY <3>1 DEF FewInv, SoleInv
    <3> QED
      BY <1>4, <1>6, <3>1, <3>2, OnlyStays
  <2>2. ASSUME NEW k \in Contents, Known(k)'
        PROVE  Quiet(k)' /\ Only(sid[k], k)'
    <3>1. Quiet(k) /\ Only(sid[k], k) /\ (k # q.content \/ q.op # "Create")
      BY <1>3, <2>2 DEF FewInv, SoleInv
    <3> QED
      BY <1>1, <1>4, <1>6, <3>1, OnlyStays
  <2> QED
    BY <2>1, <2>2 DEF SoleInv
<1>8. GoneInv'
  BY <1>1, <1>2, <1>3 DEF GoneInv
<1> QED
  BY <1>4, <1>5, <1>7, <1>8, UniqueStays DEF FewInv

LEMMA AnswerFew ==
  ASSUME BaseInv, FewInv, GoneInv, NEW c \in Calls, Answer(c)
  PROVE  FewInv' /\ GoneInv'
<1> DEFINE k == req[c].content
<1>1. /\ k \in Contents /\ pc[c] = "answer" /\ snap' = snap
      /\ pc'[c] = "idle" /\ open'[c] = FALSE
      /\ \A d \in Calls \ {c} :
           pc'[d] = pc[d] /\ ret'[d] = ret[d] /\ req'[d] = req[d] /\ open'[d] = open[d]
      /\ \A j \in Contents : j # k => co'[j] = co[j] /\ sid'[j] = sid[j]
  BY AnswerEffect
<1>2. \/ co' = co /\ sid' = sid
      \/ /\ open[c] /\ Told(c) /\ sid'[k] = ret[c].snapId
         /\ co'[k] \in {"ready", "pending"}
      \/ /\ ret[c].code = "OK" /\ req[c].op = "Delete"
         /\ co[k] = "deleting" /\ co'[k] = "deleted" /\ sid' = sid
  BY AnswerEffect
<1> HIDE DEF k
<1>3. Shrinks
  BY <1>1, SameShrinks
<1>4. CreateInv'
  <2> SUFFICES ASSUME NEW d \in Calls, pc'[d] = "create"
               PROVE  (\A s \in Live : ~SameContent(s, req[d].content))'
    BY DEF CreateInv
  <2>1. req'[d] = req[d] /\ \A s \in Live : ~SameContent(s, req[d].content)
    BY <1>1 DEF FewInv, CreateInv
  <2> QED
    BY <1>3, <2>1, NoneStays
<1>5. \A j : Quiet(j) => Quiet(j)'
  BY <1>1 DEF Quiet, CreateLabels
<1>6. SoleInv'
  <2>1. ASSUME NEW d \in Calls, open'[d], Told(d)'
        PROVE  Quiet(req[d].content)' /\ Only(ret[d].snapId, req[d].content)'
    <3>1. open[d] /\ Told(d) /\ req'[d] = req[d] /\ ret'[d] = ret[d]
      BY <1>1, <2>1 DEF Told
    <3>2. Quiet(req[d].content) /\ Only(ret[d].snapId, req[d].content)
      BY <3>1 DEF FewInv, SoleInv
    <3> QED
      BY <1>3, <1>5, <3>1, <3>2, OnlyStays
  <2>2. ASSUME NEW j \in Contents, Known(j)'
        PROVE  Quiet(j)' /\ Only(sid[j], j)'
    <3>1. CASE Known(j) /\ sid'[j] = sid[j]
      <4>1. Quiet(j) /\ Only(sid[j], j)
        BY <3>1 DEF FewInv, SoleInv
      <4> QED
        BY <1>3, <1>5, <3>1, <4>1, OnlyStays
    <3>2. CASE j = k /\ open[c] /\ Told(c) /\ sid'[k] = ret[c].snapId
      <4>1. Quiet(k) /\ Only(ret[c].snapId, k)
        BY <3>2 DEF FewInv, SoleInv, k
      <4> QED
        BY <1>3, <1>5, <3>2, <4>1, OnlyStays
    <3> QED
      BY <1>1, <1>2, <2>2, <3>1, <3>2 DEF Known
  <2> QED
    BY <2>1, <2>2 DEF SoleInv
<1>7. GoneInv'
  <2>1. \A j \in Contents : co'[j] = "deleted" => snap'[sid'[j]].status = "GONE"
    <3> SUFFICES ASSUME NEW j \in Contents, co'[j] = "deleted"
                 PROVE  snap[sid'[j]].status = "GONE"
      BY <1>1
    <3>1. CASE co[j] = "deleted" /\ sid'[j] = sid[j]
      BY <3>1 DEF GoneInv
    <3>2. CASE j = k /\ ret[c].code = "OK" /\ req[c].op = "Delete" /\ sid' = sid
      <4>1. req[c].snapId = sid[k]
        BY <1>1, <3>2 DEF BaseInv, ContentInv, k
      <4>2. snap[req[c].snapId].status = "GONE"
        BY <1>1, <3>2 DEF GoneInv
      <4> QED
        BY <3>2, <4>1, <4>2
    <3> QED
      BY <1>1, <1>2, <3>1, <3>2
  <2> QED
    BY <1>1, <2>1 DEF GoneInv
<1> QED
  BY <1>3, <1>4, <1>6, <1>7, UniqueStays DEF FewInv

LEMMA WantFew ==
  ASSUME FewInv, GoneInv, BaseInv, NEW k \in Contents, WantNoSnapshot(k)
  PROVE  FewInv' /\ GoneInv'
<1>1. /\ \A j \in Contents : Known(j)' => Known(j)
      /\ \A j \in Contents : co'[j] = "deleted" => co[j] = "deleted"
      /\ UNCHANGED <<snap, pc, req, ret, open, sid>>
  BY DEF WantNoSnapshot, cloudVars, callVars, BaseInv, TypeOK, Known
<1> QED
  BY <1>1 DEF FewInv, GoneInv, CreateInv, OneSnapshotPerContent, SoleInv, Quiet, Only, Told,
              Live, SameContent

LEMMA SingleInit ==
  ASSUME Init
  PROVE  SingleInv
<1>1. BaseInv
  BY BaseInit
<1>2. \A c \in Calls : pc[c] = "idle"
  BY DEF Init
<1>3. Live = {}
  <2>1. \A s \in Snaps : snap[s] = Unused
    BY DEF Init
  <2> QED
    BY <2>1, UnusedStatus DEF Live
<1>4. \A k \in Contents : co[k] \in {"none", "creating"}
  BY DEF Init
<1> QED
  BY <1>1, <1>2, <1>3, <1>4
     DEF SingleInv, LockInv, Running, CreateLabels, DeleteLabels, FewInv, CreateInv,
         OneSnapshotPerContent, SoleInv, Told, Known, GoneInv

LEMMA SingleStep ==
  ASSUME OneReplica, SingleInv, [Next]_vars
  PROVE  SingleInv'
<1>1. BaseInv /\ LockInv /\ FewInv /\ GoneInv
  BY DEF SingleInv
<1>2. BaseInv'
  BY <1>1, BaseStep
<1>3. ASSUME NEW c \in Calls, NEW k \in Contents, Snapshotter(c, k)
      PROVE  LockInv' /\ FewInv' /\ GoneInv'
  BY <1>1, <1>3, ReceiveEffect, ReceiveLock, ReceiveFew
<1>4. ASSUME NEW c \in Calls, Handler(c)
      PROVE  LockInv' /\ FewInv' /\ GoneInv'
  BY <1>1, <1>4, HandlerOutcome, HandlerLock, HandlerFew, HandlerGone
<1>5. ASSUME NEW c \in Calls, Answer(c)
      PROVE  LockInv' /\ FewInv' /\ GoneInv'
  BY <1>1, <1>5, AnswerLock, AnswerFew
<1>6. ASSUME SnapEvolves, Shedding, Shrinks, UNCHANGED <<pc, req, locks>>
      PROVE  LockInv' /\ FewInv' /\ GoneInv'
  <2>1. \A c \in Calls : Running(c)' => Running(c)
    BY <1>6 DEF Running
  <2> QED
    BY <1>1, <1>6, <2>1, SameLock, SheddingFew, SheddingGone
<1>7. ASSUME NEW c \in Calls, GiveUp(c)
      PROVE  LockInv' /\ FewInv' /\ GoneInv'
  BY <1>1, <1>6, <1>7, GiveUpSheds, SameShrinks
<1>8. ASSUME NEW s \in Snaps, SnapshotCompletes(s) \/ SnapshotFails(s)
      PROVE  LockInv' /\ FewInv' /\ GoneInv'
  BY <1>1, <1>6, <1>8, CloudSheds, CloudShrinks
<1>9. ASSUME NEW v \in Volumes, DiskReleased(v)
      PROVE  LockInv' /\ FewInv' /\ GoneInv'
  BY <1>1, <1>6, <1>9, ReleaseSheds, ReleaseShrinks
<1>10. ASSUME NEW k \in Contents, WantNoSnapshot(k)
      PROVE  LockInv' /\ FewInv' /\ GoneInv'
  <2>1. UNCHANGED <<pc, req, locks>>
    BY <1>10 DEF WantNoSnapshot, callVars
  <2>2. \A c \in Calls : Running(c)' => Running(c)
    BY <2>1 DEF Running
  <2> QED
    BY <1>1, <1>10, <2>1, <2>2, SameLock, WantFew
<1>11. ASSUME NEW r \in Replicas, LeaderMoves(r)
      PROVE  LockInv' /\ FewInv' /\ GoneInv'
  BY <1>1, <1>6, <1>11, LeaderSheds, SameShrinks
<1>12. ASSUME NEW r \in Replicas, Crash(r)
      PROVE  LockInv' /\ FewInv' /\ GoneInv'
  BY <1>1, <1>12, CrashSheds, CrashLock, SameShrinks, SheddingFew, SheddingGone
<1>13. ASSUME UNCHANGED vars
       PROVE  LockInv' /\ FewInv' /\ GoneInv'
  <2>1. UNCHANGED <<snap, disks, faults, pc, req, new, ret, open, locks, leader, co, sid>>
    BY <1>13 DEF vars, cloudVars, callVars
  <2>2. SnapEvolves
    BY <1>1, <2>1, SameEvolves
  <2>3. Shrinks
    BY <2>1, SameShrinks
  <2>4. Shedding
    BY <1>1, <2>1 DEF Shedding, BaseInv, TypeOK, CallInv
  <2> QED
    BY <1>6, <2>1, <2>2, <2>3, <2>4
<1>14. LockInv' /\ FewInv' /\ GoneInv'
  <2>1. CASE \E c \in Calls : \/ \E k \in Contents : Snapshotter(c, k)
                             \/ Handler(c) \/ Answer(c) \/ GiveUp(c)
    BY <2>1, <1>3, <1>4, <1>5, <1>7
  <2>2. CASE \E s \in Snaps : SnapshotCompletes(s) \/ SnapshotFails(s)
    BY <2>2, <1>8
  <2>3. CASE \E v \in Volumes : DiskReleased(v)
    BY <2>3, <1>9
  <2>4. CASE \E k \in Contents : WantNoSnapshot(k)
    BY <2>4, <1>10
  <2>5. CASE \E r \in Replicas : LeaderMoves(r) \/ Crash(r)
    <3>1. PICK r \in Replicas : LeaderMoves(r) \/ Crash(r)
      BY <2>5
    <3> QED
      BY <3>1, <1>11, <1>12
  <2> QED
    BY <1>13, <2>1, <2>2, <2>3, <2>4, <2>5 DEF Next
<1> QED
  BY <1>2, <1>14 DEF SingleInv

LEMMA SingleSafety ==
  ASSUME OneReplica
  PROVE  Spec => []SingleInv
<1>1. Init => SingleInv
  BY SingleInit
<1>2. SingleInv /\ [Next]_vars => SingleInv'
  BY SingleStep
<1> QED
  BY <1>1, <1>2, PTL DEF Spec

\* OneSnapshotPerContent holds with one replica: the lock of the source volume
\* covers the search by name and the creation, so that a late handler and its
\* retry never both create, whatever answers are lost and whenever the process
\* restarts.
THEOREM SnapshotSafety ==
  ASSUME OneReplica
  PROVE  Spec => []OneSnapshotPerContent
<1>1. SingleInv => OneSnapshotPerContent
  BY DEF SingleInv, FewInv
<1> QED
  BY <1>1, SingleSafety, PTL

\* NothingLeftBehind holds with one replica: DeleteSnapshot and CreateSnapshot
\* lock different ids, but no create is under way for a content whose snapshot
\* id the snapshotter knows, so what DeleteSnapshot reports as deleted was the
\* last snapshot of the content and none comes after it.
THEOREM LeftoverSafety ==
  ASSUME OneReplica
  PROVE  Spec => []NothingLeftBehind
<1>1. SingleInv => NothingLeftBehind
  BY DEF SingleInv, FewInv, SoleInv, GoneInv, Known, Only, Live, NothingLeftBehind
<1> QED
  BY <1>1, SingleSafety, PTL
=============================================================================
