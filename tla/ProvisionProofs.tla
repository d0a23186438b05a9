--------------------------- MODULE ProvisionProofs ---------------------------
(***************************************************************************)
(* Theorems about Provision, for any number of claims, disks, snapshots    *)
(* and concurrent calls and for every storage class and requirement.  The  *)
(* locks, what a claim is bound to and why one is refused are right in any *)
(* number of replicas; that there is never a second disk needs the lock of *)
(* the name, hence one replica.                                            *)
(***************************************************************************)
EXTENDS Provision, TLAPS

\* One process: its lock table is the only one.
OneReplica == \A r, t \in Replicas : r = t

\* Every requisite topology has both keys, as the nodes report them.
FullTopologies ==
  \A k \in Claims : \A i \in DOMAIN Required(k).requisite :
    Required(k).requisite[i] = [zone |-> Required(k).requisite[i][ZoneKey],
                                vmType |-> Required(k).requisite[i][VmTypeKey]]

Statuses == {"UNUSED", "CREATING", "AVAILABLE", "FAILED", "RECYCLED"}

\* The record of a disk made for claim k.
DiskOf(k, status) ==
  [status |-> status, name |-> Name(k), zone |-> place[k].zone,
   type |-> place[k].type, group |-> place[k].group, gib |-> Size(k), src |-> Src(k)]

\* Every disk was made for a claim that is served.
DiskInv ==
  /\ DOMAIN disk = Disks
  /\ \A d \in Disks :
       disk[d] = Unused \/ \E k \in ServedClaims, status \in Statuses \ {"UNUSED"} :
                             disk[d] = DiskOf(k, status)

\* A call in progress is for a claim that is served.
CallInv ==
  /\ DOMAIN req = Calls /\ DOMAIN ret = Calls
  /\ \A c \in Calls : pc[c] # "idle" => req[c].claim \in ServedClaims
  /\ \A c \in Calls : open[c] => pc[c] # "idle"

\* Disk d is what claim k asked for, whichever claim it was made for; it may be
\* in the recycle bin.
MadeFor(d, k) ==
  /\ d \in Disks /\ k \in ServedClaims
  /\ disk[d].status # "UNUSED"
  /\ disk[d].name = Name(k) /\ disk[d].gib = Size(k) /\ disk[d].zone = place[k].zone

Suits(d, k) == MadeFor(d, k) /\ disk[d].status # "RECYCLED"

\* What a handler waits for is a disk made as the claim asks; what it then has
\* in hand, what it answers with and what a claim is bound to is one that suits
\* the claim.
SuitInv ==
  /\ \A c \in Calls : pc[c] = "waitAvailable" => MadeFor(new[c], req[c].claim)
  /\ \A c \in Calls : pc[c] = "findNew" => Suits(new[c], req[c].claim)
  /\ \A c \in Calls : pc[c] = "answer" /\ ret[c].code = "OK" => Suits(ret[c].diskId, req[c].claim)
  /\ \A k \in Claims : vol[k] # NoDisk => Suits(vol[k], k)

\* There is a disk of the name of claim k with another size.
Taken(k) ==
  \E d \in Disks : /\ disk[d].status # "UNUSED" /\ disk[d].name = Name(k)
                   /\ disk[d].gib # Size(k)

BaseInv == TypeOK /\ DiskInv /\ CallInv /\ SuitInv

\* No id is held by two handlers of one process.
HeldOnce ==
  \A c, d \in Calls :
    Running(c) /\ Running(d) /\ req[c].rep = req[d].rep /\ Held(c) \cap Held(d) # {} => c = d

\* The table of a process holds the ids its running handlers hold.
TableInv ==
  \A r \in Replicas : \A id : id \in locks[r] <=>
    \E c \in Calls : Running(c) /\ req[c].rep = r /\ id \in Held(c)

LockInv == DOMAIN locks = Replicas /\ HeldOnce /\ TableInv

\* From the search to the creation there is no disk of the name.
AbsentInv ==
  \A c \in Calls : pc[c] \in {"findSnapshot", "create"} => Namesakes(req[c].claim) = {}

SingleInv == BaseInv /\ LockInv /\ AbsentInv /\ OneDiskPerName

-----------------------------------------------------------------------------
(* What a step of the handler can do.                                      *)

\* A disk is created under an id that was never used, or none changes.
DiskEffect(c) ==
  \/ disk' = disk
  \/ /\ pc[c] = "create" /\ pc'[c] \notin {"findSnapshot", "create"}
     /\ \E d \in Disks : /\ disk[d] = Unused
                         /\ disk' = [disk EXCEPT ![d] = DiskOf(req[c].claim, "CREATING")]

\* The handler goes on to another round trip, with what it holds and perhaps
\* one id more.
GoesOn(c) ==
  /\ pc'[c] \in Labels \ {"findByName"}
  /\ pc'[c] \in {"findSnapshot", "create"} =>
       disk' = disk /\ (pc[c] = "findSnapshot" \/ Namesakes(req[c].claim) = {})
  /\ pc'[c] = "waitAvailable" => MadeFor(new[c], req[c].claim)'
  /\ pc'[c] = "findNew" => Suits(new[c], req[c].claim)'
  /\ ret' = ret
  /\ \/ locks' = locks /\ Held(c)' = Held(c)
     \/ \E id : TryAcquire(req[c].rep, id) /\ Held(c)' = Held(c) \union {id}

\* The handler returns; what it holds is released.
Returns(c) ==
  /\ pc'[c] = "answer"
  /\ locks' = [locks EXCEPT ![req[c].rep] = @ \ Held(c)]
  /\ ret'[c].code = "OK" => disk' = disk /\ Suits(ret'[c].diskId, req[c].claim)
  /\ ret'[c].code = "AlreadyExists" =>
       disk' = disk /\ \E d \in Namesakes(req[c].claim) : ~Compatible(req[c].claim, d)

Outcome(c) ==
  /\ Running(c)
  /\ Frame
  /\ faults' \in 0..MaxFaults
  /\ pc' \in [Calls -> Labels \union {"idle", "answer"}]
  /\ new' \in [Calls -> Disks \union {NoDisk}]
  /\ DOMAIN ret' = Calls
  /\ \A d \in Calls \ {c} : pc'[d] = pc[d] /\ new'[d] = new[d] /\ ret'[d] = ret[d]
  /\ DiskEffect(c)
  /\ GoesOn(c) \/ Returns(c)

\* A failure is counted within its bound.
LEMMA FaultCount ==
  ASSUME BaseInv, Fault \/ NoFault
  PROVE  faults' \in 0..MaxFaults
BY ProvisionAssumption DEF BaseInv, TypeOK, Fault, NoFault

LEMMA RefusalOutcome ==
  ASSUME BaseInv, NEW c \in Calls, Running(c), Frame, faults' \in 0..MaxFaults,
         NEW code, code \notin {"OK", "AlreadyExists"}, Fail(c, code)
  PROVE  Outcome(c)
BY DEF Fail, Return, Outcome, Returns, DiskEffect, BaseInv, TypeOK, CallInv

LEMMA ErrorOutcome ==
  ASSUME BaseInv, NEW c \in Calls, Running(c), Frame, ApiError(c)
  PROVE  Outcome(c)
<1>1. faults' \in 0..MaxFaults /\ Fail(c, "Internal")
  BY FaultCount DEF ApiError
<1>2. "Internal" \notin {"OK", "AlreadyExists"}
  OBVIOUS
<1> QED
  BY <1>1, <1>2, RefusalOutcome

\* A disk found by name or just created is answered with, unless its serial
\* number is missing.
LEMMA FoundOutcome ==
  ASSUME BaseInv, NEW c \in Calls, Running(c), Frame,
         NEW d, Suits(d, req[c].claim), Found(c, d)
  PROVE  Outcome(c)
<1>1. faults' \in 0..MaxFaults
  BY FaultCount DEF Found, MayLackSerial
<1>2. CASE Return(c, [code |-> "OK", diskId |-> d]) /\ UNCHANGED disk
  <2>1. ret'[c] = [code |-> "OK", diskId |-> d]
    BY <1>2 DEF Return, BaseInv, CallInv
  <2>2. ret'[c].code = "OK" /\ ret'[c].diskId = d
    BY <2>1
  <2>3. Returns(c)
    BY <1>2, <2>2 DEF Return, Returns, BaseInv, TypeOK
  <2> QED
    BY <1>1, <1>2, <2>3 DEF Return, Outcome, DiskEffect, BaseInv, TypeOK, CallInv
<1>3. CASE Fail(c, "Aborted")
  <2>1. "Aborted" \notin {"OK", "AlreadyExists"}
    OBVIOUS
  <2> QED
    BY <1>1, <1>3, <2>1, RefusalOutcome
<1> QED
  BY <1>2, <1>3 DEF Found

\* What a call in progress is for.
LEMMA RequestTypes ==
  ASSUME BaseInv, NEW c \in Calls, pc[c] # "idle"
  PROVE  req[c].rep \in Replicas /\ req[c].claim \in ServedClaims /\ req[c].claim \in Claims
BY DEF BaseInv, TypeOK, CallInv

LEMMA FindByNameOutcome ==
  ASSUME BaseInv, NEW c \in Calls, FindVolumeByName(c)
  PROVE  Outcome(c)
<1> DEFINE k == req[c].claim
           r == req[c].rep
<1>1. Running(c) /\ Frame /\ k \in ServedClaims /\ pc[c] = "findByName"
  BY RequestTypes DEF FindVolumeByName, Running, Labels
<1>2. Held(c) = {Name(k)}
  BY <1>1 DEF Held
<1>3. CASE ApiError(c)
  BY <1>1, <1>3, ErrorOutcome
<1>4. CASE \E d \in Namesakes(k) :
             \/ ~Compatible(k, d) /\ NoFault /\ Fail(c, "AlreadyExists")
             \/ Compatible(k, d) /\ Found(c, d)
  <2>1. PICK d \in Namesakes(k) : \/ ~Compatible(k, d) /\ NoFault /\ Fail(c, "AlreadyExists")
                                  \/ Compatible(k, d) /\ Found(c, d)
    BY <1>4
  <2>2. CASE ~Compatible(k, d) /\ NoFault /\ Fail(c, "AlreadyExists")
    <3>1. ret'[c].code = "AlreadyExists" /\ disk' = disk
      BY <2>2 DEF Fail, Return, BaseInv, CallInv
    <3>2. Returns(c)
      BY <2>1, <2>2, <3>1 DEF Fail, Return, Returns, BaseInv, TypeOK
    <3> QED
      BY <1>1, <2>2, <3>2, FaultCount
         DEF Fail, Return, Outcome, DiskEffect, BaseInv, TypeOK, CallInv
  <2>3. CASE Compatible(k, d) /\ Found(c, d)
    <3>1. Suits(d, k)
      BY <1>1, <2>3 DEF Suits, MadeFor, Namesakes, Live, Compatible
    <3> QED
      BY <1>1, <2>3, <3>1, FoundOutcome
  <2> QED
    BY <2>1, <2>2, <2>3
<1>5. CASE /\ Namesakes(k) = {} /\ Src(k) = NoSnap /\ NoFault
           /\ Goto(c, "create") /\ UNCHANGED <<disk, new, locks>>
  <2>1. pc'[c] = "create" /\ req' = req /\ ret' = ret /\ disk' = disk /\ locks' = locks
    BY <1>1, <1>5 DEF Goto, Frame, BaseInv, TypeOK
  <2>2. Held(c)' = Held(c)
    BY <1>2, <1>5, <2>1 DEF Held
  <2>3. GoesOn(c)
    BY <1>5, <2>1, <2>2 DEF GoesOn, Labels
  <2> QED
    BY <1>1, <1>5, <2>3, FaultCount DEF Goto, Outcome, DiskEffect, BaseInv, TypeOK, CallInv, Labels
<1>6. CASE /\ Namesakes(k) = {} /\ Src(k) # NoSnap /\ NoFault
           /\ TryAcquire(r, Src(k)) /\ Goto(c, "findSnapshot") /\ UNCHANGED <<disk, new>>
  <2>1. pc'[c] = "findSnapshot" /\ req' = req /\ ret' = ret /\ disk' = disk
    BY <1>1, <1>6 DEF Goto, Frame, BaseInv, TypeOK
  <2>2. Held(c)' = Held(c) \union {Src(k)}
    BY <1>2, <1>6, <2>1 DEF Held
  <2>3. GoesOn(c)
    BY <1>6, <2>1, <2>2 DEF GoesOn, Labels
  <2> QED
    BY <1>1, <1>6, <2>3, FaultCount DEF Goto, Outcome, DiskEffect, BaseInv, TypeOK, CallInv, Labels
<1>7. CASE NoFault /\ Fail(c, "Aborted")
  <2>1. "Aborted" \notin {"OK", "AlreadyExists"} /\ faults' \in 0..MaxFaults
    BY <1>7, FaultCount
  <2> QED
    BY <1>1, <1>7, <2>1, RefusalOutcome
<1> QED
  BY <1>3, <1>4, <1>5, <1>6, <1>7 DEF FindVolumeByName

\* Past the search a handler keeps what it holds.
LEMMA HeldStays ==
  ASSUME NEW c \in Calls, pc[c] # "findByName", pc'[c] # "findByName", req' = req
  PROVE  Held(c)' = Held(c)
BY DEF Held

LEMMA FindSnapshotOutcome ==
  ASSUME BaseInv, NEW c \in Calls, ProvFindSnapshot(c)
  PROVE  Outcome(c)
<1>1. Running(c) /\ Frame /\ pc[c] = "findSnapshot"
  BY DEF ProvFindSnapshot, Running, Labels
<1>2. CASE ApiError(c)
  BY <1>1, <1>2, ErrorOutcome
<1>3. CASE NoFault /\ Fail(c, "NotFound")
  <2>1. "NotFound" \notin {"OK", "AlreadyExists"} /\ faults' \in 0..MaxFaults
    BY <1>3, FaultCount
  <2> QED
    BY <1>1, <1>3, <2>1, RefusalOutcome
<1>4. CASE NoFault /\ Goto(c, "create") /\ UNCHANGED <<disk, new, locks>>
  <2>1. pc'[c] = "create" /\ req' = req /\ ret' = ret /\ disk' = disk /\ locks' = locks
    BY <1>1, <1>4 DEF Goto, Frame, BaseInv, TypeOK
  <2>2. Held(c)' = Held(c)
    BY <1>1, <2>1, HeldStays
  <2>3. GoesOn(c)
    BY <1>1, <2>1, <2>2 DEF GoesOn, Labels
  <2> QED
    BY <1>1, <1>4, <2>3, FaultCount DEF Goto, Outcome, DiskEffect, BaseInv, TypeOK, CallInv, Labels
<1> QED
  BY <1>2, <1>3, <1>4 DEF ProvFindSnapshot

\* The record of a new disk suits the claim it is made for.
LEMMA DiskOfFields ==
  ASSUME NEW k, NEW status
  PROVE  /\ DiskOf(k, status).status = status /\ DiskOf(k, status).name = Name(k)
         /\ DiskOf(k, status).zone = place[k].zone /\ DiskOf(k, status).type = place[k].type
         /\ DiskOf(k, status).group = place[k].group /\ DiskOf(k, status).gib = Size(k)
BY DEF DiskOf

LEMMA CreateOutcome ==
  ASSUME BaseInv, NEW c \in Calls, ProvCreate(c)
  PROVE  Outcome(c)
<1> DEFINE k == req[c].claim
<1>1. Running(c) /\ Frame /\ k \in ServedClaims /\ pc[c] = "create"
  BY RequestTypes DEF ProvCreate, Running, Labels
<1>2. CASE ApiError(c)
  BY <1>1, <1>2, ErrorOutcome
<1>3. CASE NoFault /\ Fail(c, "Internal")
  <2>1. "Internal" \notin {"OK", "AlreadyExists"} /\ faults' \in 0..MaxFaults
    BY <1>3, FaultCount
  <2> QED
    BY <1>1, <1>3, <2>1, RefusalOutcome
<1>4. ASSUME NEW d \in Disks, disk[d] = Unused,
             disk' = [disk EXCEPT ![d] = DiskOf(k, "CREATING")],
             \/ /\ NoFault /\ Goto(c, "waitAvailable")
                /\ new' = [new EXCEPT ![c] = d] /\ UNCHANGED locks
             \/ Fault /\ Return(c, [code |-> "Internal"])
      PROVE  Outcome(c)
  <2>1. faults' \in 0..MaxFaults
    BY <1>4, FaultCount
  <2>2. req' = req
    BY <1>1 DEF Frame
  <2>3. pc'[c] \in {"waitAvailable", "answer"}
    BY <1>4 DEF Goto, Return, BaseInv, TypeOK
  <2>4. DiskEffect(c)
    BY <1>1, <1>4, <2>3 DEF DiskEffect
  <2>5. CASE /\ NoFault /\ Goto(c, "waitAvailable")
             /\ new' = [new EXCEPT ![c] = d] /\ UNCHANGED locks
    <3>1. new'[c] = d /\ pc'[c] = "waitAvailable" /\ ret' = ret /\ locks' = locks
      BY <2>5 DEF Goto, BaseInv, TypeOK
    <3>2. disk'[d] = DiskOf(k, "CREATING")
      BY <1>4 DEF BaseInv, DiskInv
    <3>3. MadeFor(new[c], req[c].claim)'
      BY <1>1, <2>2, <3>1, <3>2, DiskOfFields DEF MadeFor
    <3>4. Held(c)' = Held(c)
      BY <1>1, <2>2, <3>1, HeldStays
    <3>5. GoesOn(c)
      BY <3>1, <3>3, <3>4 DEF GoesOn, Labels
    <3> QED
      BY <1>1, <2>1, <2>4, <2>5, <3>1, <3>5 DEF Outcome, Goto, BaseInv, TypeOK, CallInv, Labels
  <2>6. CASE Fault /\ Return(c, [code |-> "Internal"])
    BY <1>1, <2>1, <2>4, <2>6 DEF Outcome, Return, Returns, BaseInv, TypeOK, CallInv
  <2> QED
    BY <1>4, <2>5, <2>6
<1>5. CASE /\ HasFreeId
           /\ LET d == NextId IN
                /\ disk' = [disk EXCEPT ![d] = DiskOf(k, "CREATING")]
                /\ \/ /\ NoFault /\ Goto(c, "waitAvailable")
                      /\ new' = [new EXCEPT ![c] = d] /\ UNCHANGED locks
                   \/ Fault /\ Return(c, [code |-> "Internal"])
  <2>1. NextId \in Disks /\ disk[NextId] = Unused
    BY <1>5 DEF HasFreeId, NextId
  <2> QED
    BY <1>4, <1>5, <2>1
<1>6. NewDisk(k) = DiskOf(k, "CREATING")
  BY DEF NewDisk, DiskOf
<1> QED
  BY <1>2, <1>3, <1>5, <1>6 DEF ProvCreate

LEMMA WaitAvailableOutcome ==
  ASSUME BaseInv, NEW c \in Calls, ProvWaitAvailable(c)
  PROVE  Outcome(c)
<1>1. Running(c) /\ Frame /\ MadeFor(new[c], req[c].claim) /\ pc[c] = "waitAvailable"
  BY DEF ProvWaitAvailable, Running, Labels, BaseInv, SuitInv
<1>2. CASE ApiError(c)
  BY <1>1, <1>2, ErrorOutcome
<1>3. CASE NoFault /\ Fail(c, "Internal")
  <2>1. "Internal" \notin {"OK", "AlreadyExists"} /\ faults' \in 0..MaxFaults
    BY <1>3, FaultCount
  <2> QED
    BY <1>1, <1>3, <2>1, RefusalOutcome
<1>4. CASE /\ disk[new[c]].status = "AVAILABLE"
           /\ NoFault /\ Goto(c, "findNew") /\ UNCHANGED <<disk, new, locks>>
  <2>1. /\ pc'[c] = "findNew" /\ req' = req /\ ret' = ret /\ disk' = disk /\ locks' = locks
        /\ new' = new
    BY <1>1, <1>4 DEF Goto, Frame, BaseInv, TypeOK
  <2>2. Held(c)' = Held(c)
    BY <1>1, <2>1, HeldStays
  <2>3. Suits(new[c], req[c].claim)'
    BY <1>1, <1>4, <2>1 DEF Suits, MadeFor
  <2>4. GoesOn(c)
    BY <2>1, <2>2, <2>3 DEF GoesOn, Labels
  <2> QED
    BY <1>1, <1>4, <2>4, FaultCount DEF Goto, Outcome, DiskEffect, BaseInv, TypeOK, CallInv, Labels
<1> QED
  BY <1>2, <1>3, <1>4 DEF ProvWaitAvailable

LEMMA FindNewOutcome ==
  ASSUME BaseInv, NEW c \in Calls, ProvFindNew(c)
  PROVE  Outcome(c)
<1>1. Running(c) /\ Frame /\ Suits(new[c], req[c].claim)
  BY DEF ProvFindNew, Running, Labels, BaseInv, SuitInv
<1>2. CASE ApiError(c)
  BY <1>1, <1>2, ErrorOutcome
<1>3. CASE Found(c, new[c])
  BY <1>1, <1>3, FoundOutcome
<1> QED
  BY <1>2, <1>3 DEF ProvFindNew

LEMMA HandlerOutcome ==
  ASSUME BaseInv, NEW c \in Calls, Handler(c)
  PROVE  Outcome(c)
BY FindByNameOutcome, FindSnapshotOutcome, CreateOutcome, WaitAvailableOutcome, FindNewOutcome
   DEF Handler

-----------------------------------------------------------------------------
(* How disks change.                                                       *)

\* What is true of the disks in every step: a used id keeps what it was made
\* as, and a disk goes to the recycle bin only when nobody uses it.
DiskEvolves ==
  /\ DiskInv'
  /\ \A d \in Disks : disk[d].status # "UNUSED" =>
       /\ disk'[d].status # "UNUSED"
       /\ disk'[d].name = disk[d].name /\ disk'[d].gib = disk[d].gib
       /\ disk'[d].zone = disk[d].zone /\ disk'[d].type = disk[d].type
       /\ disk'[d].group = disk[d].group
       /\ disk[d].status = "RECYCLED" => disk'[d].status = "RECYCLED"
       /\ disk'[d].status = "RECYCLED" =>
            disk[d].status = "RECYCLED" \/ ~InUse(d)

\* No disk comes into being in this step.
NoNewDisk == \A d \in Disks : disk[d].status = "UNUSED" => disk'[d].status = "UNUSED"

LEMMA UnusedStatus == Unused.status = "UNUSED"
BY DEF Unused

\* A disk in use has the record of a claim.
LEMMA UsedRecord ==
  ASSUME DiskInv, NEW d \in Disks, disk[d].status # "UNUSED"
  PROVE  \E k \in ServedClaims : disk[d] = DiskOf(k, disk[d].status) /\ disk[d].status \in Statuses
<1>1. PICK k \in ServedClaims, status \in Statuses \ {"UNUSED"} : disk[d] = DiskOf(k, status)
  BY UnusedStatus DEF DiskInv
<1>2. disk[d].status = status
  BY <1>1, DiskOfFields
<1> QED
  BY <1>1, <1>2

\* A change of status of one disk.
LEMMA StatusChange ==
  ASSUME DiskInv, NEW d \in Disks, disk[d].status # "UNUSED",
         NEW status \in Statuses \ {"UNUSED"}, disk' = [disk EXCEPT ![d].status = status]
  PROVE  /\ DiskInv'
         /\ \A e \in Disks \ {d} : disk'[e] = disk[e]
         /\ disk'[d].status = status
         /\ disk'[d].name = disk[d].name /\ disk'[d].gib = disk[d].gib
         /\ disk'[d].zone = disk[d].zone /\ disk'[d].type = disk[d].type
         /\ disk'[d].group = disk[d].group
<1>1. PICK k \in ServedClaims : disk[d] = DiskOf(k, disk[d].status)
  BY UsedRecord
<1>2. /\ DOMAIN disk' = Disks /\ \A e \in Disks \ {d} : disk'[e] = disk[e]
      /\ disk'[d] = [disk[d] EXCEPT !.status = status]
  BY DEF DiskInv
<1>3. disk'[d] = DiskOf(k, status)
  BY <1>1, <1>2 DEF DiskOf
<1>4. DiskInv'
  BY <1>2, <1>3 DEF DiskInv
<1> QED
  BY <1>1, <1>2, <1>3, <1>4, DiskOfFields

\* A new disk disturbs no other.
LEMMA Creation ==
  ASSUME DiskInv, NEW d \in Disks, disk[d] = Unused, NEW k \in ServedClaims,
         disk' = [disk EXCEPT ![d] = DiskOf(k, "CREATING")]
  PROVE  /\ DiskInv'
         /\ \A e \in Disks \ {d} : disk'[e] = disk[e]
         /\ disk[d].status = "UNUSED" /\ disk'[d] = DiskOf(k, "CREATING")
<1>1. /\ DOMAIN disk' = Disks /\ \A e \in Disks \ {d} : disk'[e] = disk[e]
      /\ disk'[d] = DiskOf(k, "CREATING")
  BY DEF DiskInv
<1>2. "CREATING" \in Statuses \ {"UNUSED"}
  BY DEF Statuses
<1>3. DiskInv'
  BY <1>1, <1>2 DEF DiskInv
<1> QED
  BY <1>1, <1>3, UnusedStatus

LEMMA HandlerEvolves ==
  ASSUME BaseInv, NEW c \in Calls, Outcome(c)
  PROVE  DiskEvolves
<1>1. req[c].claim \in ServedClaims /\ DiskInv
  BY RequestTypes DEF Outcome, Running, Labels, BaseInv
<1>2. CASE disk' = disk
  BY <1>1, <1>2 DEF DiskEvolves, DiskInv
<1>3. CASE \E d \in Disks : /\ disk[d] = Unused
                            /\ disk' = [disk EXCEPT ![d] = DiskOf(req[c].claim, "CREATING")]
  BY <1>1, <1>3, Creation DEF DiskEvolves
<1> QED
  BY <1>2, <1>3 DEF Outcome, DiskEffect

LEMMA CloudEvolves ==
  ASSUME BaseInv, NEW d \in Disks, CreateDone(d) \/ CreateFails(d) \/ DiskRecycled(d)
  PROVE  DiskEvolves /\ NoNewDisk
<1>1. PICK status \in Statuses \ {"UNUSED"} :
        /\ disk[d].status \in {"CREATING", "AVAILABLE"}
        /\ disk' = [disk EXCEPT ![d].status = status]
        /\ status = "RECYCLED" => DiskRecycled(d)
  BY DEF CreateDone, CreateFails, DiskRecycled, Statuses
<1>2. /\ DiskInv'
      /\ \A e \in Disks \ {d} : disk'[e] = disk[e]
      /\ disk'[d].status = status
      /\ disk'[d].name = disk[d].name /\ disk'[d].gib = disk[d].gib
      /\ disk'[d].zone = disk[d].zone /\ disk'[d].type = disk[d].type
      /\ disk'[d].group = disk[d].group
  BY <1>1, StatusChange DEF BaseInv
<1> QED
  BY <1>1, <1>2 DEF DiskEvolves, NoNewDisk, DiskRecycled

LEMMA SameEvolves ==
  ASSUME BaseInv, disk' = disk
  PROVE  DiskEvolves /\ NoNewDisk
BY DEF BaseInv, DiskInv, DiskEvolves, NoNewDisk

\* What was made for a claim stays as it was made, and while it is in use it
\* goes on to suit the claim.
LEMMA MadeStays ==
  ASSUME DiskEvolves, NEW d, NEW k, MadeFor(d, k)
  PROVE  MadeFor(d, k)'
BY DEF DiskEvolves, MadeFor, ServedClaims

LEMMA SuitsStays ==
  ASSUME DiskEvolves, NEW d, NEW k, Suits(d, k), InUse(d)
  PROVE  Suits(d, k)'
BY MadeStays DEF DiskEvolves, Suits, MadeFor

LEMMA TakenStays ==
  ASSUME DiskEvolves, NEW k, Taken(k)
  PROVE  Taken(k)'
BY DEF DiskEvolves, Taken

-----------------------------------------------------------------------------
(* The invariant that holds in any number of replicas.                     *)

\* The statuses of the type invariant.
LEMMA DiskStatuses ==
  ASSUME DiskEvolves
  PROVE  \A d \in Disks : disk'[d].status \in Statuses
<1> SUFFICES ASSUME NEW d \in Disks
             PROVE  disk'[d].status \in Statuses
  OBVIOUS
<1>1. CASE disk'[d] = Unused
  BY <1>1, UnusedStatus DEF Statuses
<1>2. CASE \E k \in ServedClaims, status \in Statuses \ {"UNUSED"} : disk'[d] = DiskOf(k, status)
  BY <1>2, DiskOfFields
<1> QED
  BY <1>1, <1>2 DEF DiskEvolves, DiskInv

LEMMA HandlerBase ==
  ASSUME BaseInv, NEW c \in Calls, Outcome(c)
  PROVE  BaseInv'
<1>1. DiskEvolves
  BY HandlerEvolves
<1>2. /\ Running(c) /\ pc[c] # "idle" /\ req' = req /\ open' = open /\ vol' = vol
      /\ snaps' = snaps /\ leader' = leader
  BY DEF Outcome, Frame, Running, Labels
<1>3. \A d \in Calls \ {c} : pc'[d] = pc[d] /\ new'[d] = new[d] /\ ret'[d] = ret[d]
  BY DEF Outcome
<1>4. pc'[c] # "idle"
  BY DEF Outcome, GoesOn, Returns, Labels
<1>5. SuitInv'
  <2>0. ASSUME NEW d \in Calls, pc'[d] = "waitAvailable"
        PROVE  MadeFor(new[d], req[d].claim)'
    <3>1. CASE d = c
      BY <2>0, <3>1 DEF Outcome, GoesOn, Returns
    <3>2. CASE d # c
      <4>1. MadeFor(new[d], req[d].claim) /\ new'[d] = new[d] /\ req'[d] = req[d]
        BY <1>2, <1>3, <2>0, <3>2 DEF BaseInv, SuitInv
      <4> QED
        BY <1>1, <4>1, MadeStays
    <3> QED
      BY <3>1, <3>2
  <2>1. ASSUME NEW d \in Calls, pc'[d] = "findNew"
        PROVE  Suits(new[d], req[d].claim)'
    <3>1. CASE d = c
      BY <2>1, <3>1 DEF Outcome, GoesOn, Returns
    <3>2. CASE d # c
      <4>1. /\ Suits(new[d], req[d].claim) /\ new'[d] = new[d] /\ req'[d] = req[d]
            /\ InUse(new[d])
        BY <1>2, <1>3, <2>1, <3>2 DEF BaseInv, SuitInv, InUse
      <4> QED
        BY <1>1, <4>1, SuitsStays
    <3> QED
      BY <3>1, <3>2
  <2>2. ASSUME NEW d \in Calls, pc'[d] = "answer", ret'[d].code = "OK"
        PROVE  Suits(ret[d].diskId, req[d].claim)'
    <3>1. CASE d = c
      <4>1. Suits(ret'[c].diskId, req[c].claim) /\ disk' = disk
        BY <2>2, <3>1 DEF Outcome, GoesOn, Returns, Labels
      <4> QED
        BY <1>2, <3>1, <4>1 DEF Suits, MadeFor
    <3>2. CASE d # c
      <4>1. /\ Suits(ret[d].diskId, req[d].claim) /\ ret'[d] = ret[d] /\ req'[d] = req[d]
            /\ InUse(ret[d].diskId)
        BY <1>2, <1>3, <2>2, <3>2 DEF BaseInv, SuitInv, InUse
      <4> QED
        BY <1>1, <4>1, SuitsStays
    <3> QED
      BY <3>1, <3>2
  <2>3. \A k \in Claims : vol'[k] # NoDisk => Suits(vol[k], k)'
    BY <1>1, <1>2, SuitsStays DEF BaseInv, SuitInv, InUse
  <2> QED
    BY <2>0, <2>1, <2>2, <2>3 DEF SuitInv
<1>6. TypeOK'
  <2>1. \A d \in Disks : disk'[d].status \in Statuses
    BY <1>1, DiskStatuses
  <2>2. \A d \in Calls : pc'[d] # "idle" => req'[d].rep \in Replicas /\ req'[d].claim \in Claims
    BY <1>2, <1>3 DEF BaseInv, TypeOK
  <2>3. \A d \in Calls : pc'[d] \in {"waitAvailable", "findNew"} => new'[d] \in Disks
    BY <1>5 DEF SuitInv, Suits, MadeFor
  <2>4. \A d \in Calls : ret'[d].code = "OK" => ret'[d].diskId \in Disks
    <3> SUFFICES ASSUME NEW d \in Calls, ret'[d].code = "OK"
                 PROVE  ret'[d].diskId \in Disks
      OBVIOUS
    <3>1. CASE ret'[d] = ret[d]
      BY <3>1 DEF BaseInv, TypeOK
    <3>2. CASE d = c /\ Returns(c)
      BY <3>2 DEF Returns, Suits, MadeFor
    <3> QED
      BY <1>3, <3>1, <3>2 DEF Outcome, GoesOn
  <2> QED
    BY <1>2, <2>1, <2>2, <2>3, <2>4 DEF Outcome, BaseInv, TypeOK, Statuses
<1>7. CallInv'
  BY <1>2, <1>3, <1>4 DEF BaseInv, CallInv, Outcome
<1> QED
  BY <1>1, <1>5, <1>6, <1>7 DEF BaseInv, DiskEvolves

\* A step in which no call starts or moves: some may end without an answer, and
\* some may no longer be waited for.
Shedding ==
  /\ UNCHANGED vol
  /\ snaps' \subseteq Snaps
  /\ leader' \in Replicas /\ faults' \in 0..MaxFaults
  /\ pc' \in [Calls -> Labels \union {"idle", "answer"}]
  /\ new' \in [Calls -> Disks \union {NoDisk}]
  /\ open' \in [Calls -> BOOLEAN]
  /\ DOMAIN req' = Calls /\ DOMAIN ret' = Calls
  /\ \A c \in Calls :
       \/ /\ pc'[c] = pc[c] /\ req'[c] = req[c] /\ new'[c] = new[c] /\ ret'[c] = ret[c]
          /\ open'[c] => open[c]
       \/ pc'[c] = "idle" /\ ~open'[c] /\ ret'[c] = NoRet

LEMMA SheddingBase ==
  ASSUME BaseInv, DiskEvolves, Shedding
  PROVE  BaseInv'
<1>1. \A c \in Calls : pc'[c] # "idle" =>
        /\ pc'[c] = pc[c] /\ req'[c] = req[c] /\ new'[c] = new[c] /\ ret'[c] = ret[c]
        /\ open'[c] => open[c]
  BY DEF Shedding
<1>2. \A c \in Calls : open'[c] => pc'[c] # "idle"
  BY DEF Shedding, BaseInv, CallInv
<1>3. SuitInv'
  <2>0. ASSUME NEW c \in Calls, pc'[c] = "waitAvailable"
        PROVE  MadeFor(new[c], req[c].claim)'
    <3>1. MadeFor(new[c], req[c].claim) /\ new'[c] = new[c] /\ req'[c] = req[c]
      BY <1>1, <2>0 DEF BaseInv, SuitInv
    <3> QED
      BY <3>1, MadeStays
  <2>1. ASSUME NEW c \in Calls, pc'[c] = "findNew"
        PROVE  Suits(new[c], req[c].claim)'
    <3>1. /\ Suits(new[c], req[c].claim) /\ new'[c] = new[c] /\ req'[c] = req[c]
          /\ InUse(new[c])
      BY <1>1, <2>1 DEF BaseInv, SuitInv, InUse
    <3> QED
      BY <3>1, SuitsStays
  <2>2. ASSUME NEW c \in Calls, pc'[c] = "answer", ret'[c].code = "OK"
        PROVE  Suits(ret[c].diskId, req[c].claim)'
    <3>1. /\ Suits(ret[c].diskId, req[c].claim) /\ ret'[c] = ret[c] /\ req'[c] = req[c]
          /\ InUse(ret[c].diskId)
      BY <1>1, <2>2 DEF BaseInv, SuitInv, InUse
    <3> QED
      BY <3>1, SuitsStays
  <2>3. \A k \in Claims : vol'[k] # NoDisk => Suits(vol[k], k)'
    BY SuitsStays DEF Shedding, BaseInv, SuitInv, InUse
  <2> QED
    BY <2>0, <2>1, <2>2, <2>3 DEF SuitInv
<1>4. TypeOK'
  <2>1. \A d \in Disks : disk'[d].status \in Statuses
    BY DiskStatuses
  <2>2. \A c \in Calls : pc'[c] # "idle" => req'[c].rep \in Replicas /\ req'[c].claim \in Claims
    BY <1>1 DEF BaseInv, TypeOK
  <2>3. \A c \in Calls : pc'[c] \in {"waitAvailable", "findNew"} => new'[c] \in Disks
    BY <1>3 DEF SuitInv, Suits, MadeFor
  <2>4. \A c \in Calls : ret'[c].code = "OK" => ret'[c].diskId \in Disks
    BY DEF Shedding, BaseInv, TypeOK, NoRet
  <2> QED
    BY <2>1, <2>2, <2>3, <2>4 DEF Shedding, BaseInv, TypeOK, Statuses
<1>5. CallInv'
  BY <1>1, <1>2 DEF BaseInv, CallInv, Shedding
<1> QED
  BY <1>3, <1>4, <1>5 DEF BaseInv, DiskEvolves

\* The steps of this kind: of the cloud, of a provisioner that no longer waits,
\* and of a process that dies.
LEMMA GiveUpSheds ==
  ASSUME BaseInv, NEW c \in Calls, GiveUp(c)
  PROVE  DiskEvolves /\ NoNewDisk /\ Shedding /\ UNCHANGED <<pc, req, ret, locks>>
BY SameEvolves, FaultCount DEF GiveUp, Shedding, BaseInv, TypeOK, CallInv

LEMMA LeaderSheds ==
  ASSUME BaseInv, NEW r \in Replicas, LeaderMoves(r)
  PROVE  DiskEvolves /\ NoNewDisk /\ Shedding /\ UNCHANGED <<pc, req, ret, locks>>
BY SameEvolves, FaultCount DEF LeaderMoves, Shedding, BaseInv, TypeOK, CallInv

LEMMA CrashSheds ==
  ASSUME BaseInv, NEW r \in Replicas, Crash(r)
  PROVE  /\ DiskEvolves /\ NoNewDisk /\ Shedding /\ LoseLocks(r)
         /\ \A c \in Calls : pc'[c] # "idle" => req[c].rep # r
         /\ \A c \in Calls : pc[c] # "idle" /\ req[c].rep # r => pc'[c] = pc[c] /\ req'[c] = req[c]
<1>1. DiskEvolves /\ NoNewDisk
  BY SameEvolves DEF Crash
<1>2. faults' \in 0..MaxFaults
  BY FaultCount DEF Crash
<1> QED
  BY <1>1, <1>2 DEF Crash, Shedding, BaseInv, TypeOK, CallInv

LEMMA CloudSheds ==
  ASSUME BaseInv, NEW d \in Disks, CreateDone(d) \/ CreateFails(d) \/ DiskRecycled(d)
  PROVE  DiskEvolves /\ NoNewDisk /\ Shedding /\ UNCHANGED <<pc, req, ret, locks>>
<1>1. DiskEvolves /\ NoNewDisk
  BY CloudEvolves
<1>2. faults' \in 0..MaxFaults
  BY FaultCount DEF CreateDone, CreateFails, DiskRecycled, NoFault
<1>3. UNCHANGED <<snaps, pc, req, new, ret, open, locks, leader, vol>>
  BY DEF CreateDone, CreateFails, DiskRecycled, callVars
<1> QED
  BY <1>1, <1>2, <1>3 DEF Shedding, BaseInv, TypeOK, CallInv

LEMMA SnapshotSheds ==
  ASSUME BaseInv, NEW s \in Snaps, SnapshotGone(s)
  PROVE  DiskEvolves /\ NoNewDisk /\ Shedding /\ UNCHANGED <<pc, req, ret, locks>>
<1>1. DiskEvolves /\ NoNewDisk
  BY SameEvolves DEF SnapshotGone
<1>2. faults' \in 0..MaxFaults
  BY FaultCount DEF SnapshotGone
<1>3. snaps' \subseteq Snaps /\ UNCHANGED <<pc, req, new, ret, open, locks, leader, vol>>
  BY DEF SnapshotGone, callVars, BaseInv, TypeOK
<1> QED
  BY <1>1, <1>2, <1>3 DEF Shedding, BaseInv, TypeOK, CallInv

LEMMA StutterSheds ==
  ASSUME BaseInv, UNCHANGED vars
  PROVE  DiskEvolves /\ NoNewDisk /\ Shedding /\ UNCHANGED <<pc, req, ret, locks>>
<1>1. UNCHANGED <<disk, snaps, faults, pc, req, new, ret, open, locks, leader, vol>>
  BY DEF vars, cloudVars, callVars
<1> QED
  BY <1>1, SameEvolves DEF Shedding, BaseInv, TypeOK, CallInv

\* What the arrival of a request does, granted or not.
Received(c, k) ==
  /\ pc[c] = "idle" /\ vol[k] = NoDisk /\ k \in ServedClaims
  /\ req' = [req EXCEPT ![c] = [claim |-> k, rep |-> leader]]
  /\ open' = [open EXCEPT ![c] = TRUE]
  /\ UNCHANGED <<disk, snaps, faults, new, leader, vol>>
  /\ pc' \in [Calls -> Labels \union {"idle", "answer"}]
  /\ DOMAIN ret' = Calls
  /\ \A d \in Calls \ {c} : pc'[d] = pc[d] /\ ret'[d] = ret[d]
  /\ \/ /\ TryAcquire(leader, Name(k)) /\ pc'[c] = "findByName" /\ ret' = ret
     \/ /\ pc'[c] = "answer" /\ ret'[c].code \notin {"OK", "AlreadyExists"}
        /\ UNCHANGED locks

LEMMA ReceiveEffect ==
  ASSUME BaseInv, NEW c \in Calls, NEW k \in Claims, CreateVolume(c, k)
  PROVE  Received(c, k)
BY DEF CreateVolume, Received, cloudVars, BaseInv, TypeOK, CallInv, Labels

LEMMA ReceiveBase ==
  ASSUME BaseInv, NEW c \in Calls, NEW k \in Claims, Received(c, k)
  PROVE  BaseInv'
<1>1. /\ req'[c] = [claim |-> k, rep |-> leader] /\ open'[c] = TRUE
      /\ \A d \in Calls \ {c} :
           pc'[d] = pc[d] /\ ret'[d] = ret[d] /\ req'[d] = req[d] /\ open'[d] = open[d]
      /\ new' = new /\ disk' = disk /\ vol' = vol /\ k \in ServedClaims
  BY DEF Received, BaseInv, TypeOK, CallInv
<1>2. req'[c].claim = k /\ req'[c].rep = leader /\ leader \in Replicas
  BY <1>1 DEF BaseInv, TypeOK
<1>3. /\ pc'[c] \notin {"idle", "waitAvailable", "findNew"}
      /\ ~(pc'[c] = "answer" /\ ret'[c].code = "OK")
  BY DEF Received
<1>4. TypeOK'
  <2>1. \A d \in Calls : pc'[d] # "idle" => req'[d].rep \in Replicas /\ req'[d].claim \in Claims
    BY <1>1, <1>2 DEF BaseInv, TypeOK
  <2>2. \A d \in Calls : pc'[d] \in {"waitAvailable", "findNew"} => new'[d] \in Disks
    BY <1>1, <1>3 DEF BaseInv, TypeOK
  <2>3. \A d \in Calls : ret'[d].code = "OK" => ret'[d].diskId \in Disks
    BY <1>1 DEF Received, BaseInv, TypeOK
  <2> QED
    BY <2>1, <2>2, <2>3 DEF Received, BaseInv, TypeOK
<1>5. CallInv'
  BY <1>1, <1>2, <1>3 DEF Received, BaseInv, CallInv
<1>6. SuitInv'
  BY <1>1, <1>3 DEF BaseInv, SuitInv, Suits, MadeFor
<1>7. DiskInv'
  BY <1>1 DEF BaseInv, DiskInv
<1> QED
  BY <1>4, <1>5, <1>6, <1>7 DEF BaseInv

LEMMA AnswerBase ==
  ASSUME BaseInv, NEW c \in Calls, Answer(c)
  PROVE  BaseInv'
<1>1. /\ pc[c] = "answer" /\ pc'[c] = "idle" /\ open'[c] = FALSE /\ ret'[c] = NoRet
      /\ \A d \in Calls \ {c} :
           pc'[d] = pc[d] /\ ret'[d] = ret[d] /\ req'[d] = req[d] /\ open'[d] = open[d]
      /\ UNCHANGED <<disk, snaps, faults, new, leader>>
  BY DEF Answer, cloudVars, BaseInv, TypeOK, CallInv
<1>2. req[c].claim \in Claims /\ req[c].claim \in ServedClaims
  BY <1>1, RequestTypes
<1>3. \/ vol' = vol
      \/ /\ ret[c].code = "OK" /\ vol' = [vol EXCEPT ![req[c].claim] = ret[c].diskId]
         /\ Suits(ret[c].diskId, req[c].claim)
  BY <1>1 DEF Answer, BaseInv, SuitInv
<1>4. TypeOK'
  <2>1. vol' \in [Claims -> Disks \union {NoDisk}]
    BY <1>2, <1>3 DEF BaseInv, TypeOK, Suits, MadeFor
  <2>2. \A d \in Calls : pc'[d] # "idle" => req'[d].rep \in Replicas /\ req'[d].claim \in Claims
    BY <1>1 DEF BaseInv, TypeOK
  <2>3. \A d \in Calls : ret'[d].code = "OK" => ret'[d].diskId \in Disks
    BY <1>1 DEF BaseInv, TypeOK, NoRet
  <2>4. \A d \in Calls : pc'[d] \in {"waitAvailable", "findNew"} => new'[d] \in Disks
    BY <1>1 DEF BaseInv, TypeOK
  <2>5. pc' \in [Calls -> Labels \union {"idle", "answer"}] /\ open' \in [Calls -> BOOLEAN]
    BY DEF Answer, BaseInv, TypeOK
  <2> QED
    BY <1>1, <2>1, <2>2, <2>3, <2>4, <2>5 DEF BaseInv, TypeOK
<1>5. CallInv'
  BY <1>1 DEF Answer, BaseInv, CallInv
<1>6. SuitInv'
  <2>1. \A k \in Claims : vol'[k] # NoDisk => Suits(vol[k], k)'
    BY <1>1, <1>2, <1>3 DEF BaseInv, SuitInv, Suits, MadeFor, TypeOK
  <2>2. \A d \in Calls : pc'[d] # "idle" => d # c
    BY <1>1
  <2> QED
    BY <1>1, <2>1, <2>2 DEF BaseInv, SuitInv, Suits, MadeFor
<1>7. DiskInv'
  BY <1>1 DEF BaseInv, DiskInv
<1> QED
  BY <1>4, <1>5, <1>6, <1>7 DEF BaseInv

LEMMA BaseInit ==
  ASSUME Init
  PROVE  BaseInv
<1>1. \A d \in Disks : disk[d] = Unused
  BY DEF Init
<1>2. DiskInv
  BY <1>1 DEF Init, DiskInv
<1>3. \A c \in Calls : pc[c] = "idle" /\ open[c] = FALSE /\ ret[c] = NoRet
  BY DEF Init
<1>4. \A k \in Claims : vol[k] = NoDisk
  BY DEF Init
<1>5. TypeOK
  <2>1. \A d \in Disks : disk[d].status \in Statuses
    BY <1>1, UnusedStatus DEF Statuses
  <2>2. faults \in 0..MaxFaults
    BY ProvisionAssumption DEF Init
  <2>3. /\ snaps \subseteq Snaps /\ leader \in Replicas
        /\ pc \in [Calls -> Labels \union {"idle", "answer"}]
        /\ new \in [Calls -> Disks \union {NoDisk}]
        /\ open \in [Calls -> BOOLEAN]
        /\ vol \in [Claims -> Disks \union {NoDisk}]
    BY DEF Init
  <2>4. \A c \in Calls : ret[c].code # "OK"
    BY <1>3 DEF NoRet
  <2> QED
    BY <1>3, <2>1, <2>2, <2>3, <2>4 DEF TypeOK, Statuses
<1>6. CallInv
  BY <1>3 DEF Init, CallInv
<1>7. SuitInv
  BY <1>3, <1>4 DEF SuitInv
<1> QED
  BY <1>2, <1>5, <1>6, <1>7 DEF BaseInv

\* Every step is one of these four kinds.
LEMMA StepKinds ==
  ASSUME BaseInv, [Next]_vars
  PROVE  \/ \E c \in Calls, k \in Claims : Received(c, k)
         \/ \E c \in Calls : Outcome(c)
         \/ \E c \in Calls : Answer(c)
         \/ DiskEvolves /\ NoNewDisk /\ Shedding /\ UNCHANGED <<pc, req, ret, locks>>
         \/ \E r \in Replicas : Crash(r)
<1>1. CASE \E c \in Calls : \E k \in Claims : CreateVolume(c, k) \/ RefuseVolume(c, k)
  BY <1>1, ReceiveEffect, StutterSheds DEF RefuseVolume
<1>2. CASE \E c \in Calls : Handler(c) \/ Answer(c) \/ GiveUp(c)
  BY <1>2, HandlerOutcome, GiveUpSheds
<1>3. CASE \E d \in Disks : CreateDone(d) \/ CreateFails(d) \/ DiskRecycled(d)
  BY <1>3, CloudSheds
<1>4. CASE \E s \in Snaps : SnapshotGone(s)
  BY <1>4, SnapshotSheds
<1>5. CASE \E r \in Replicas : LeaderMoves(r) \/ Crash(r)
  BY <1>5, LeaderSheds
<1>6. CASE UNCHANGED vars
  BY <1>6, StutterSheds
<1> QED
  BY <1>1, <1>2, <1>3, <1>4, <1>5, <1>6 DEF Next

LEMMA BaseStep ==
  ASSUME BaseInv, [Next]_vars
  PROVE  BaseInv'
BY StepKinds, ReceiveBase, HandlerBase, AnswerBase, SheddingBase, CrashSheds

LEMMA BaseSafety == Spec => []BaseInv
<1>1. Init => BaseInv
  BY BaseInit
<1>2. BaseInv /\ [Next]_vars => BaseInv'
  BY BaseStep
<1> QED
  BY <1>1, <1>2, PTL DEF Spec

\* Every reachable state of CreateVolume with the cloud and the provisioner is
\* well typed: a handler that waits for its disk has the id of one, and an
\* answer of OK names a disk.
THEOREM ProvisionTypeCorrect == Spec => []TypeOK
<1>1. BaseInv => TypeOK
  BY DEF BaseInv
<1> QED
  BY <1>1, BaseSafety, PTL

-----------------------------------------------------------------------------
(* Placement: where a claim that is served is put.                         *)

\* A served claim has a class that is valid and a topology that was picked.
LEMMA PlaceOfServed ==
  ASSUME NEW k \in ServedClaims
  PROVE  /\ k \in Claims /\ Request[k].modes \subseteq VolumeCap
         /\ place[k].type \in VolumeTypes
         /\ ~Required(k).nil => PickTopology(Required(k)).ok
                                /\ place[k].zone = PickTopology(Required(k)).zone
<1> DEFINE class == NewZecStorageClassFromMap(Request[k].params)
           topo == IF Required(k).nil THEN class ELSE PickTopology(Required(k))
<1>1. k \in Claims /\ place[k].ok /\ Request[k].modes \subseteq VolumeCap
  BY DEF ServedClaims, Served, ValidateVolumeCapabilities
<1>2. place[k] = Placed(k)
  BY <1>1 DEF place
<1>3. Placed(k) = IF class.ok /\ topo.ok
                  THEN [ok |-> TRUE, zone |-> topo.zone, type |-> class.type, group |-> class.group]
                  ELSE [ok |-> FALSE]
  BY DEF Placed
<1>4. class.ok => class.type \in VolumeTypes
  BY DEF NewZecStorageClassFromMap, BadClass
<1> HIDE DEF class, topo
<1>5. class.ok /\ topo.ok
  BY <1>1, <1>2, <1>3
<1>6. place[k].zone = topo.zone /\ place[k].type = class.type
  BY <1>2, <1>3, <1>5
<1> QED
  BY <1>1, <1>4, <1>5, <1>6 DEF topo

\* The zone picked is that of the first topology, which is a requisite one if
\* there are any.
LEMMA PickedIsRequisite ==
  ASSUME NEW k \in ServedClaims, Required(k).requisite # <<>>
  PROVE  \E i \in DOMAIN Required(k).requisite :
           /\ place[k].zone = Get(Required(k).requisite[i], ZoneKey, "")
           /\ Get(Required(k).requisite[i], VmTypeKey, "BasicVm") \in VmTypes
<1> DEFINE q == Required(k)
           first == Head(q.preferred \o q.requisite)
<1>1. k \in Claims
  BY PlaceOfServed
<1>2. WellFormed(q)
  BY <1>1, ProvisionAssumption
<1>3. ~q.nil
  BY <1>2 DEF WellFormed
<1>4. /\ q.preferred \o q.requisite # <<>>
      /\ place[k].zone = Get(first, ZoneKey, "")
      /\ Get(first, VmTypeKey, "BasicVm") \in VmTypes
  <2>1. PickTopology(q).ok /\ place[k].zone = PickTopology(q).zone
    BY <1>3, PlaceOfServed
  <2> DEFINE none == q.preferred \o q.requisite = <<>>
             odd == ~(DOMAIN first \subseteq {ZoneKey, VmTypeKey})
             unknown == Get(first, VmTypeKey, "BasicVm") \notin VmTypes
             zone == Get(first, ZoneKey, "")
  <2>2. PickTopology(q) = IF none \/ odd \/ unknown THEN [ok |-> FALSE]
                          ELSE [ok |-> TRUE, zone |-> zone]
    BY DEF PickTopology
  <2>3. ~none /\ ~unknown /\ place[k].zone = zone
    <3> HIDE DEF none, odd, unknown, zone, q
    <3>1. CASE none \/ odd \/ unknown
      BY <2>1, <2>2, <3>1
    <3>2. CASE ~(none \/ odd \/ unknown)
      BY <2>1, <2>2, <3>2
    <3> QED
      BY <3>1, <3>2
  <2> QED
    BY <2>3
<1>5. \E i \in DOMAIN q.requisite : first = q.requisite[i]
  <2> DEFINE S == {q.preferred[i] : i \in DOMAIN q.preferred}
                    \union {q.requisite[i] : i \in DOMAIN q.requisite}
             p == q.preferred
             t == q.requisite
  <2>1. p \in Seq(S) /\ t \in Seq(S) /\ t # <<>>
    <3>1. /\ p \in Seq({p[i] : i \in DOMAIN p}) /\ t \in Seq({t[i] : i \in DOMAIN t})
          /\ t # <<>>
      BY <1>2 DEF WellFormed, IsSequence
    <3>2. ASSUME NEW s, NEW A, NEW B, s \in Seq(A), A \subseteq B
          PROVE  s \in Seq(B)
      BY <3>2
    <3>3. {p[i] : i \in DOMAIN p} \subseteq S /\ {t[i] : i \in DOMAIN t} \subseteq S
      OBVIOUS
    <3> HIDE DEF p, t, S
    <3> QED
      BY <3>1, <3>2, <3>3
  <2>2. \A i \in DOMAIN p : \E j \in DOMAIN t : p[i] = t[j]
    BY <1>2 DEF WellFormed
  <2>3. first = Head(p \o t)
    OBVIOUS
  <2> HIDE DEF S, p, t, first
  <2>4. CASE p = <<>>
    <3>1. p \o t = t
      BY <2>1, <2>4
    <3> QED
      BY <2>1, <2>3, <3>1 DEF t
  <2>5. CASE p # <<>>
    <3>1. Head(p \o t) = p[1] /\ 1 \in DOMAIN p
      BY <2>1, <2>5
    <3> QED
      BY <2>2, <2>3, <3>1 DEF t
  <2> QED
    BY <2>4, <2>5
<1> HIDE DEF first
<1> QED
  BY <1>4, <1>5

\* A claim is bound to a disk of its own making or one that FindVolumeByName
\* found: either has the zone that was picked.
LEMMA BaseBound ==
  ASSUME BaseInv
  PROVE  BoundAsAsked
<1> SUFFICES ASSUME NEW k \in Claims, vol[k] # NoDisk
             PROVE  /\ Request[k].modes \subseteq VolumeCap
                    /\ disk[vol[k]].gib = Size(k)
                    /\ disk[vol[k]].name = Name(k)
                    /\ disk[vol[k]].status # "RECYCLED"
                    /\ Required(k).requisite # <<>> =>
                         \E i \in DOMAIN Required(k).requisite :
                           InReach(disk[vol[k]].zone, Required(k).requisite[i])
                    /\ Required(k).nil => disk[vol[k]].zone = place[k].zone
  BY DEF BoundAsAsked, VolumeCap
<1>1. Suits(vol[k], k)
  BY DEF BaseInv, SuitInv
<1>2. k \in ServedClaims /\ disk[vol[k]].zone = place[k].zone
  BY <1>1 DEF Suits, MadeFor
<1>3. Request[k].modes \subseteq VolumeCap
  BY <1>2, PlaceOfServed
<1>4. ASSUME Required(k).requisite # <<>>
      PROVE  \E i \in DOMAIN Required(k).requisite :
               InReach(disk[vol[k]].zone, Required(k).requisite[i])
  <2>1. PICK i \in DOMAIN Required(k).requisite :
          place[k].zone = Get(Required(k).requisite[i], ZoneKey, "")
    BY <1>2, <1>4, PickedIsRequisite
  <2>2. InReach(disk[vol[k]].zone, Required(k).requisite[i])
    BY <1>2, <2>1 DEF InReach, Get
  <2> QED
    BY <2>2
<1> QED
  BY <1>1, <1>2, <1>3, <1>4 DEF Suits, MadeFor

\* A claim is only ever bound to a disk that is what it asked for, in any
\* number of replicas and whoever made the disk: CreateVolume never answers
\* with one of another name, size or zone, nor with one in the recycle bin.
THEOREM BoundSafety == Spec => []BoundAsAsked
<1>1. BaseInv => BoundAsAsked
  BY BaseBound
<1> QED
  BY <1>1, BaseSafety, PTL

-----------------------------------------------------------------------------
(* Why a claim is refused.                                                 *)

\* An answer of AlreadyExists is given because of a disk of another size, and
\* that disk never goes away.
TakenInv ==
  \A c \in Calls : pc[c] = "answer" /\ ret[c].code = "AlreadyExists" => Taken(req[c].claim)

\* A namesake is in the zone that was picked, so its topology is a requisite
\* one: only its size can be wrong.
LEMMA NamesakeReaches ==
  ASSUME FullTopologies, NEW k \in ServedClaims, NEW d \in Namesakes(k)
  PROVE  IsValidTopology(disk[d].type, disk[d].zone, Required(k))
<1>1. /\ disk[d].zone = place[k].zone /\ disk[d].type = place[k].type
      /\ place[k].type \in VolumeTypes /\ k \in Claims
  BY PlaceOfServed DEF Namesakes
<1>2. CASE Required(k).requisite = <<>>
  BY <1>2 DEF IsValidTopology
<1>3. CASE Required(k).requisite # <<>>
  <2>1. PICK i \in DOMAIN Required(k).requisite :
          /\ place[k].zone = Get(Required(k).requisite[i], ZoneKey, "")
          /\ Get(Required(k).requisite[i], VmTypeKey, "BasicVm") \in VmTypes
    BY <1>3, PickedIsRequisite
  <2> DEFINE t == Required(k).requisite[i]
  <2>2. t = [zone |-> t[ZoneKey], vmType |-> t[VmTypeKey]]
    BY <1>1 DEF FullTopologies
  <2> HIDE DEF t
  <2>3. ZoneKey \in DOMAIN t /\ VmTypeKey \in DOMAIN t
    BY <2>2 DEF ZoneKey, VmTypeKey
  <2>4. t[ZoneKey] = place[k].zone /\ t[VmTypeKey] \in VmTypes
    BY <2>1, <2>3 DEF Get, t
  <2>5. t \in GetVolumeTopology(disk[d].type, disk[d].zone)
    BY <1>1, <2>2, <2>4 DEF GetVolumeTopology
  <2> QED
    BY <2>5 DEF IsValidTopology, t
<1> QED
  BY <1>2, <1>3

LEMMA NamesakeTaken ==
  ASSUME FullTopologies, NEW k \in ServedClaims, NEW d \in Namesakes(k), ~Compatible(k, d)
  PROVE  Taken(k)
<1>1. disk[d].gib # Size(k)
  BY NamesakeReaches DEF Compatible
<1> QED
  BY <1>1 DEF Taken, Namesakes, Live

LEMMA TakenStep ==
  ASSUME FullTopologies, BaseInv, TakenInv, [Next]_vars
  PROVE  TakenInv'
<1>1. ASSUME DiskEvolves, NEW c \in Calls, pc[c] = "answer", ret[c].code = "AlreadyExists",
             req'[c] = req[c]
      PROVE  Taken(req[c].claim)'
  <2>1. Taken(req[c].claim)
    BY <1>1 DEF TakenInv
  <2> QED
    BY <1>1, <2>1, TakenStays
<1>2. CASE \E c \in Calls, k \in Claims : Received(c, k)
  <2>1. PICK c \in Calls, k \in Claims : Received(c, k)
    BY <1>2
  <2>2. /\ \A d \in Calls \ {c} : pc'[d] = pc[d] /\ ret'[d] = ret[d] /\ req'[d] = req[d]
        /\ ~(pc'[c] = "answer" /\ ret'[c].code = "AlreadyExists")
        /\ DiskEvolves
    BY <2>1, SameEvolves DEF Received, BaseInv, CallInv
  <2> QED
    BY <1>1, <2>2 DEF TakenInv
<1>3. CASE \E c \in Calls : Outcome(c)
  <2>1. PICK c \in Calls : Outcome(c)
    BY <1>3
  <2>2. /\ \A d \in Calls \ {c} : pc'[d] = pc[d] /\ ret'[d] = ret[d]
        /\ req' = req /\ DiskEvolves /\ req[c].claim \in ServedClaims
    BY <2>1, HandlerEvolves, RequestTypes DEF Outcome, Frame, Running, Labels
  <2>3. ASSUME pc'[c] = "answer", ret'[c].code = "AlreadyExists"
        PROVE  Taken(req[c].claim)'
    <3>1. disk' = disk /\ \E d \in Namesakes(req[c].claim) : ~Compatible(req[c].claim, d)
      BY <2>1, <2>3 DEF Outcome, GoesOn, Returns, Labels
    <3>2. Taken(req[c].claim)
      BY <2>2, <3>1, NamesakeTaken
    <3> QED
      BY <2>2, <3>2, TakenStays
  <2> QED
    BY <1>1, <2>2, <2>3 DEF TakenInv
<1>4. CASE \E c \in Calls : Answer(c)
  <2>1. PICK c \in Calls : Answer(c)
    BY <1>4
  <2>2. /\ \A d \in Calls \ {c} : pc'[d] = pc[d] /\ ret'[d] = ret[d] /\ req'[d] = req[d]
        /\ pc'[c] = "idle" /\ DiskEvolves
    BY <2>1, SameEvolves DEF Answer, cloudVars, BaseInv, TypeOK, CallInv
  <2> QED
    BY <1>1, <2>2 DEF TakenInv
<1>5. CASE DiskEvolves /\ Shedding
  BY <1>1, <1>5 DEF Shedding, TakenInv
<1> QED
  BY <1>2, <1>3, <1>4, <1>5, StepKinds, CrashSheds

\* CreateVolume answers AlreadyExists only because of a disk of that name with
\* another size, in any number of replicas, if every requisite topology has the
\* two keys the nodes report.  The run provision_zone_only shows that it may
\* refuse its own disk otherwise.
THEOREM RefusedSafety ==
  ASSUME FullTopologies
  PROVE  Spec => []RefusedIsDifferent
<1>1. Init => TakenInv
  BY DEF Init, TakenInv
<1>2. TakenInv /\ BaseInv /\ [Next]_vars => TakenInv'
  BY TakenStep
<1>3. TakenInv => RefusedIsDifferent
  BY DEF TakenInv, Taken, RefusedIsDifferent, Live
<1> QED
  BY <1>1, <1>2, <1>3, BaseSafety, PTL DEF Spec

-----------------------------------------------------------------------------
(* The locks.                                                              *)

\* What a process holds is held by one of its running handlers, and by no
\* second one.
LEMMA LockInit ==
  ASSUME Init
  PROVE  LockInv
BY DEF Init, NewResourceLocks, LockInv, HeldOnce, TableInv, Running, Labels

\* Nothing changes for a step in which the same handlers run and hold the same.
LEMMA LockSame ==
  ASSUME LockInv, locks' = locks,
         \A c \in Calls : Running(c)' <=> Running(c),
         \A c \in Calls : Running(c) => req'[c].rep = req[c].rep /\ Held(c)' = Held(c)
  PROVE  LockInv'
BY DEF LockInv, HeldOnce, TableInv

\* One handler gets an id nobody in its process holds: a new one its first, a
\* running one another.
LEMMA LockAcquired ==
  ASSUME LockInv, NEW c \in Calls, NEW r \in Replicas, NEW id, TryAcquire(r, id),
         Running(c)', req'[c].rep = r,
         Running(c) => req[c].rep = r /\ Held(c)' = Held(c) \union {id},
         ~Running(c) => Held(c)' = {id},
         \A d \in Calls \ {c} : /\ Running(d)' <=> Running(d)
                                /\ Running(d) => req'[d].rep = req[d].rep /\ Held(d)' = Held(d)
  PROVE  LockInv'
<1>1. /\ DOMAIN locks' = Replicas /\ locks'[r] = locks[r] \union {id} /\ id \notin locks[r]
      /\ \A t \in Replicas \ {r} : locks'[t] = locks[t]
  BY DEF TryAcquire, IsLocked, LockInv
<1>2. \A d \in Calls : Running(d) /\ req[d].rep = r => id \notin Held(d)
  BY <1>1 DEF LockInv, TableInv
<1>3. HeldOnce'
  <2> SUFFICES ASSUME NEW d \in Calls, NEW e \in Calls, Running(d)', Running(e)',
                      req'[d].rep = req'[e].rep, NEW x, x \in Held(d)', x \in Held(e)', d # e
               PROVE  FALSE
    BY DEF HeldOnce
  <2>1. ASSUME NEW f \in Calls, f # c, Running(f)', req'[f].rep = r, x \in Held(f)', x \in Held(c)'
        PROVE  FALSE
    <3>1. Running(f) /\ req[f].rep = r /\ x \in Held(f)
      BY <2>1
    <3>2. x # id /\ Running(c) /\ req[c].rep = r /\ x \in Held(c)
      BY <1>2, <2>1, <3>1
    <3> QED
      BY <2>1, <3>1, <3>2 DEF LockInv, HeldOnce
  <2>2. CASE d = c \/ e = c
    BY <2>1, <2>2
  <2>3. CASE d # c /\ e # c
    BY <2>3 DEF LockInv, HeldOnce
  <2> QED
    BY <2>2, <2>3
<1>4. TableInv'
  <2> SUFFICES ASSUME NEW t \in Replicas, NEW x
               PROVE  x \in locks'[t] <=>
                        \E d \in Calls : Running(d)' /\ req'[d].rep = t /\ x \in Held(d)'
    BY DEF TableInv
  <2>1. x \in locks[t] <=> \E d \in Calls : Running(d) /\ req[d].rep = t /\ x \in Held(d)
    BY DEF LockInv, TableInv
  <2>2. ASSUME x \in locks'[t]
        PROVE  \E d \in Calls : Running(d)' /\ req'[d].rep = t /\ x \in Held(d)'
    <3>1. CASE x \in locks[t]
      BY <2>1, <3>1
    <3>2. CASE t = r /\ x = id
      BY <3>2
    <3> QED
      BY <1>1, <2>2, <3>1, <3>2
  <2>3. ASSUME NEW d \in Calls, Running(d)', req'[d].rep = t, x \in Held(d)'
        PROVE  x \in locks'[t]
    <3>1. CASE d = c
      BY <1>1, <2>1, <2>3, <3>1
    <3>2. CASE d # c
      BY <1>1, <2>1, <2>3, <3>2
    <3> QED
      BY <3>1, <3>2
  <2> QED
    BY <2>2, <2>3
<1> QED
  BY <1>1, <1>3, <1>4 DEF LockInv

\* A handler returns and releases all it holds: nobody else in its process
\* holds any of that.
LEMMA LockReleased ==
  ASSUME LockInv, NEW c \in Calls, Running(c), req[c].rep \in Replicas, ~Running(c)',
         locks' = [locks EXCEPT ![req[c].rep] = @ \ Held(c)],
         \A d \in Calls \ {c} : /\ Running(d)' <=> Running(d)
                                /\ Running(d) => req'[d].rep = req[d].rep /\ Held(d)' = Held(d)
  PROVE  LockInv'
<1> DEFINE r == req[c].rep
<1>1. /\ DOMAIN locks' = Replicas /\ locks'[r] = locks[r] \ Held(c)
      /\ \A t \in Replicas \ {r} : locks'[t] = locks[t]
  BY DEF LockInv
<1>2. HeldOnce'
  BY DEF LockInv, HeldOnce
<1>3. TableInv'
  <2> SUFFICES ASSUME NEW t \in Replicas, NEW x
               PROVE  x \in locks'[t] <=>
                        \E d \in Calls : Running(d)' /\ req'[d].rep = t /\ x \in Held(d)'
    BY DEF TableInv
  <2>1. x \in locks[t] <=> \E d \in Calls : Running(d) /\ req[d].rep = t /\ x \in Held(d)
    BY DEF LockInv, TableInv
  <2>2. ASSUME x \in locks'[t]
        PROVE  \E d \in Calls : Running(d)' /\ req'[d].rep = t /\ x \in Held(d)'
    <3>1. PICK d \in Calls : Running(d) /\ req[d].rep = t /\ x \in Held(d)
      BY <1>1, <2>1, <2>2
    <3>2. d # c
      BY <1>1, <2>2, <3>1
    <3> QED
      BY <3>1, <3>2
  <2>3. ASSUME NEW d \in Calls, Running(d)', req'[d].rep = t, x \in Held(d)'
        PROVE  x \in locks'[t]
    <3>1. d # c /\ Running(d) /\ req[d].rep = t /\ x \in Held(d)
      BY <2>3
    <3>2. t = r => x \notin Held(c)
      BY <3>1 DEF LockInv, HeldOnce
    <3> QED
      BY <1>1, <2>1, <3>1, <3>2
  <2> QED
    BY <2>2, <2>3
<1> QED
  BY <1>1, <1>2, <1>3 DEF LockInv

\* A process dies with its handlers and its table.
LEMMA LockLost ==
  ASSUME LockInv, NEW r \in Replicas, LoseLocks(r),
         \A c \in Calls : Running(c)' => Running(c) /\ req[c].rep # r,
         \A c \in Calls : Running(c) /\ req[c].rep # r =>
                            Running(c)' /\ req'[c].rep = req[c].rep /\ Held(c)' = Held(c)
  PROVE  LockInv'
<1>1. /\ DOMAIN locks' = Replicas /\ locks'[r] = {}
      /\ \A t \in Replicas \ {r} : locks'[t] = locks[t]
  BY DEF LoseLocks, LockInv
<1>2. HeldOnce'
  BY DEF LockInv, HeldOnce
<1>3. TableInv'
  BY <1>1 DEF LockInv, TableInv
<1> QED
  BY <1>1, <1>2, <1>3 DEF LockInv

\* What a call holds depends on its own state only.
LEMMA HeldDepends ==
  ASSUME NEW c \in Calls, pc'[c] = pc[c], req'[c] = req[c]
  PROVE  (Running(c)' <=> Running(c)) /\ req'[c].rep = req[c].rep /\ Held(c)' = Held(c)
BY DEF Running, Held

LEMMA LockStep ==
  ASSUME BaseInv, LockInv, [Next]_vars
  PROVE  LockInv'
<1>1. CASE \E c \in Calls, k \in Claims : Received(c, k)
  <2>1. PICK c \in Calls, k \in Claims : Received(c, k)
    BY <1>1
  <2>2. /\ \A d \in Calls \ {c} : pc'[d] = pc[d] /\ req'[d] = req[d]
        /\ req'[c] = [claim |-> k, rep |-> leader] /\ leader \in Replicas /\ pc[c] = "idle"
    BY <2>1 DEF Received, BaseInv, TypeOK, CallInv
  <2>3. req'[c].claim = k /\ req'[c].rep = leader /\ ~Running(c)
    BY <2>2 DEF Running, Labels
  <2>4. CASE TryAcquire(leader, Name(k)) /\ pc'[c] = "findByName"
    <3>1. Running(c)' /\ Held(c)' = {Name(k)}
      BY <2>3, <2>4 DEF Running, Labels, Held
    <3> QED
      BY <2>2, <2>3, <2>4, <3>1, HeldDepends, LockAcquired
  <2>5. CASE pc'[c] = "answer" /\ UNCHANGED locks
    <3>1. ~Running(c)'
      BY <2>5 DEF Running, Labels
    <3> QED
      BY <2>2, <2>3, <2>5, <3>1, HeldDepends, LockSame
  <2> QED
    BY <2>1, <2>4, <2>5 DEF Received
<1>2. CASE \E c \in Calls : Outcome(c)
  <2>1. PICK c \in Calls : Outcome(c)
    BY <1>2
  <2>2. /\ Running(c) /\ req' = req /\ req[c].rep \in Replicas
        /\ \A d \in Calls \ {c} : pc'[d] = pc[d]
    BY <2>1, RequestTypes DEF Outcome, Frame, Running, Labels
  <2>3. CASE GoesOn(c)
    <3>1. Running(c)'
      BY <2>3 DEF GoesOn, Running
    <3>2. CASE locks' = locks /\ Held(c)' = Held(c)
      BY <2>2, <3>1, <3>2, HeldDepends, LockSame
    <3>3. CASE \E id : TryAcquire(req[c].rep, id) /\ Held(c)' = Held(c) \union {id}
      BY <2>2, <3>1, <3>3, HeldDepends, LockAcquired
    <3> QED
      BY <2>3, <3>2, <3>3 DEF GoesOn
  <2>4. CASE Returns(c)
    <3>1. ~Running(c)' /\ locks' = [locks EXCEPT ![req[c].rep] = @ \ Held(c)]
      BY <2>4 DEF Returns, Running, Labels
    <3> QED
      BY <2>2, <3>1, HeldDepends, LockReleased
  <2> QED
    BY <2>1, <2>3, <2>4 DEF Outcome
<1>3. CASE \E c \in Calls : Answer(c)
  <2>1. PICK c \in Calls : Answer(c)
    BY <1>3
  <2>2. /\ \A d \in Calls \ {c} : pc'[d] = pc[d] /\ req'[d] = req[d]
        /\ pc[c] = "answer" /\ pc'[c] = "idle" /\ locks' = locks
    BY <2>1 DEF Answer, BaseInv, TypeOK, CallInv
  <2>3. ~Running(c) /\ ~Running(c)'
    BY <2>2 DEF Running, Labels
  <2> QED
    BY <2>2, <2>3, HeldDepends, LockSame
<1>4. CASE UNCHANGED <<pc, req, ret, locks>>
  BY <1>4, HeldDepends, LockSame
<1>5. CASE \E r \in Replicas : Crash(r)
  <2>1. PICK r \in Replicas : Crash(r)
    BY <1>5
  <2>2. /\ LoseLocks(r) /\ Shedding
        /\ \A c \in Calls : pc'[c] # "idle" => req[c].rep # r
        /\ \A c \in Calls : pc[c] # "idle" /\ req[c].rep # r => pc'[c] = pc[c] /\ req'[c] = req[c]
    BY <2>1, CrashSheds
  <2>3. \A c \in Calls : Running(c)' => Running(c) /\ req[c].rep # r
    BY <2>2 DEF Shedding, Running, Labels
  <2>4. \A c \in Calls : Running(c) /\ req[c].rep # r =>
                           Running(c)' /\ req'[c].rep = req[c].rep /\ Held(c)' = Held(c)
    BY <2>2, HeldDepends DEF Running, Labels
  <2> QED
    BY <2>2, <2>3, <2>4, LockLost
<1> QED
  BY <1>1, <1>2, <1>3, <1>4, <1>5, StepKinds

LEMMA LockTables == Spec => [](BaseInv /\ LockInv)
<1>1. Init => LockInv
  BY LockInit
<1>2. BaseInv /\ LockInv /\ [Next]_vars => LockInv'
  BY LockStep
<1> QED
  BY <1>1, <1>2, BaseSafety, PTL DEF Spec

LEMMA TablesMatch ==
  ASSUME LockInv
  PROVE  LocksMatchHandlers
<1>1. ASSUME NEW r \in Replicas
      PROVE  locks[r] = UNION {IF Running(c) /\ req[c].rep = r THEN Held(c) ELSE {} : c \in Calls}
  BY DEF LockInv, TableInv
<1>2. ASSUME NEW c \in Calls, NEW d \in Calls, Running(c), Running(d),
             req[c].rep = req[d].rep, Name(req[c].claim) = Name(req[d].claim)
      PROVE  c = d
  <2>1. Name(req[c].claim) \in Held(c) \cap Held(d)
    BY <1>2 DEF Held
  <2> QED
    BY <1>2, <2>1 DEF LockInv, HeldOnce
<1> QED
  BY <1>1, <1>2 DEF LocksMatchHandlers, Held

\* The lock table of every replica holds exactly what its running CreateVolume
\* handlers acquired, each id once: no return path, not even the one on which
\* the snapshot is busy, releases what another handler holds or keeps what it
\* acquired.
THEOREM HandlerLockSafety == Spec => []LocksMatchHandlers
<1>1. LockInv => LocksMatchHandlers
  BY TablesMatch
<1> QED
  BY <1>1, LockTables, PTL

-----------------------------------------------------------------------------
(* One disk for a name, in one replica.                                    *)

\* Where there is no namesake none appears unless a disk is created.
LEMMA AbsentStays ==
  ASSUME DiskEvolves, NoNewDisk, NEW k, Namesakes(k) = {}
  PROVE  Namesakes(k)' = {}
BY DEF DiskEvolves, NoNewDisk, Namesakes, Live

\* Two disks that are alike were alike before.
LEMMA AlikeStays ==
  ASSUME DiskEvolves, NoNewDisk, OneDiskPerName
  PROVE  OneDiskPerName'
BY DEF DiskEvolves, NoNewDisk, OneDiskPerName, Live

\* A step of the handler that creates no disk.
LEMMA FruitlessAbsent ==
  ASSUME BaseInv, AbsentInv, OneDiskPerName, NEW c \in Calls, Outcome(c), disk' = disk
  PROVE  AbsentInv' /\ OneDiskPerName'
<1>1. DiskEvolves /\ NoNewDisk
  BY SameEvolves
<1>2. req' = req /\ \A d \in Calls \ {c} : pc'[d] = pc[d]
  BY DEF Outcome, Frame
<1>3. ASSUME NEW d \in Calls, pc'[d] \in {"findSnapshot", "create"}
      PROVE  Namesakes(req[d].claim) = {}
  <2>1. CASE d = c
    BY <1>3, <2>1 DEF Outcome, GoesOn, Returns, AbsentInv
  <2>2. CASE d # c
    BY <1>2, <1>3, <2>2 DEF AbsentInv
  <2> QED
    BY <2>1, <2>2
<1>4. \A d \in Calls : pc'[d] \in {"findSnapshot", "create"} => Namesakes(req[d].claim)' = {}
  BY <1>1, <1>2, <1>3, AbsentStays
<1> QED
  BY <1>1, <1>4, AlikeStays DEF AbsentInv

\* A disk is created: there was none like it, and no other handler of the
\* process is about to create one of its name.
LEMMA CreationAlone ==
  ASSUME OneReplica, BaseInv, LockInv, AbsentInv, OneDiskPerName,
         NEW c \in Calls, Outcome(c), pc[c] = "create", pc'[c] \notin {"findSnapshot", "create"},
         NEW d \in Disks, disk[d] = Unused,
         disk' = [disk EXCEPT ![d] = DiskOf(req[c].claim, "CREATING")]
  PROVE  AbsentInv' /\ OneDiskPerName'
<1> DEFINE k == req[c].claim
<1>1. /\ req' = req /\ \A e \in Calls \ {c} : pc'[e] = pc[e]
      /\ Running(c) /\ k \in ServedClaims /\ req[c].rep \in Replicas
  BY RequestTypes DEF Outcome, Frame, Running, Labels
<1>2. /\ \A e \in Disks \ {d} : disk'[e] = disk[e]
      /\ disk[d].status = "UNUSED" /\ disk'[d] = DiskOf(k, "CREATING")
  BY <1>1, Creation DEF BaseInv
<1>3. /\ disk'[d].name = Name(k) /\ disk'[d].zone = place[k].zone
      /\ disk'[d].type = place[k].type /\ disk'[d].group = place[k].group
  BY <1>2, DiskOfFields
<1>4. Namesakes(k) = {}
  BY DEF AbsentInv
<1>5. OneDiskPerName'
  <2> SUFFICES ASSUME NEW e \in Live', NEW f \in Live',
                      disk'[e].status # "RECYCLED", disk'[f].status # "RECYCLED",
                      disk'[e].name = disk'[f].name, disk'[e].zone = disk'[f].zone,
                      disk'[e].type = disk'[f].type, disk'[e].group = disk'[f].group,
                      e # f
               PROVE  FALSE
    BY DEF OneDiskPerName
  <2>1. ASSUME NEW g \in Live', g # d, disk'[g].status # "RECYCLED",
               disk'[g].name = Name(k), disk'[g].zone = place[k].zone,
               disk'[g].type = place[k].type, disk'[g].group = place[k].group
        PROVE  FALSE
    <3>1. g \in Namesakes(k)
      BY <1>2, <2>1 DEF Namesakes, Live
    <3> QED
      BY <1>4, <3>1
  <2>2. CASE e = d \/ f = d
    BY <1>3, <2>1, <2>2
  <2>3. CASE e # d /\ f # d
    BY <1>2, <2>3 DEF OneDiskPerName, Live
  <2> QED
    BY <2>2, <2>3
<1>6. ASSUME NEW e \in Calls, pc'[e] \in {"findSnapshot", "create"}
      PROVE  Namesakes(req[e].claim)' = {}
  <2>1. /\ e # c /\ pc[e] \in {"findSnapshot", "create"} /\ Running(e) /\ req'[e] = req[e]
        /\ req[e].rep \in Replicas
    BY <1>1, <1>6, RequestTypes DEF Running, Labels
  <2>2. Namesakes(req[e].claim) = {}
    BY <2>1 DEF AbsentInv
  <2>3. req[e].rep = req[c].rep
    BY <1>1, <2>1 DEF OneReplica
  <2>4. Name(req[e].claim) # Name(k)
    <3>1. Name(req[e].claim) \in Held(e) /\ Name(k) \in Held(c)
      BY DEF Held
    <3> QED
      BY <1>1, <2>1, <2>3, <3>1 DEF LockInv, HeldOnce
  <2> DEFINE j == req[e].claim
  <2>5. \A g \in Disks : g \in Namesakes(j)' => g \in Namesakes(j)
    <3> SUFFICES ASSUME NEW g \in Disks, g \in Namesakes(j)'
                 PROVE  g \in Namesakes(j)
      OBVIOUS
    <3>1. /\ disk'[g].status \notin {"UNUSED", "RECYCLED"} /\ disk'[g].name = Name(j)
          /\ disk'[g].zone = place[j].zone /\ disk'[g].group = place[j].group
          /\ disk'[g].type = place[j].type
      BY <1>1 DEF Namesakes, Live
    <3>2. g # d
      BY <1>3, <2>4, <3>1
    <3> QED
      BY <1>2, <3>1, <3>2 DEF Namesakes, Live
  <2>6. \A g : g \in Namesakes(j)' => g \in Disks
    BY DEF Namesakes, Live
  <2> QED
    BY <2>2, <2>5, <2>6
<1> QED
  BY <1>5, <1>6 DEF AbsentInv

LEMMA SingleStep ==
  ASSUME OneReplica, SingleInv, [Next]_vars
  PROVE  SingleInv'
<1>1. BaseInv /\ LockInv /\ AbsentInv /\ OneDiskPerName
  BY DEF SingleInv
<1>2. BaseInv' /\ LockInv'
  BY <1>1, BaseStep, LockStep
<1>3. ASSUME DiskEvolves, NoNewDisk,
             \A c \in Calls : pc'[c] \in {"findSnapshot", "create"} =>
                                pc'[c] = pc[c] /\ req'[c] = req[c]
      PROVE  AbsentInv' /\ OneDiskPerName'
  <2>1. \A c \in Calls : pc'[c] \in {"findSnapshot", "create"} => Namesakes(req[c].claim)' = {}
    BY <1>1, <1>3, AbsentStays DEF AbsentInv
  <2> QED
    BY <1>1, <1>3, <2>1, AlikeStays DEF AbsentInv
<1>4. AbsentInv' /\ OneDiskPerName'
  <2>1. CASE \E c \in Calls, k \in Claims : Received(c, k)
    BY <1>1, <1>3, <2>1, SameEvolves DEF Received, BaseInv, CallInv
  <2>2. CASE \E c \in Calls : Outcome(c)
    BY <1>1, <2>2, FruitlessAbsent, CreationAlone DEF Outcome, DiskEffect
  <2>3. CASE \E c \in Calls : Answer(c)
    BY <1>1, <1>3, <2>3, SameEvolves DEF Answer, cloudVars, BaseInv, TypeOK, CallInv
  <2>4. CASE DiskEvolves /\ NoNewDisk /\ Shedding
    BY <1>3, <2>4 DEF Shedding
  <2> QED
    BY <1>1, <2>1, <2>2, <2>3, <2>4, StepKinds, CrashSheds
<1> QED
  BY <1>2, <1>4 DEF SingleInv

LEMMA SingleInit ==
  ASSUME Init
  PROVE  SingleInv
<1>1. AbsentInv
  BY DEF Init, AbsentInv
<1>2. \A d \in Disks : disk[d].status = "UNUSED"
  BY UnusedStatus DEF Init
<1>3. OneDiskPerName
  BY <1>2 DEF OneDiskPerName, Live
<1> QED
  BY <1>1, <1>3, BaseInit, LockInit DEF SingleInv

\* In one process, retries, late handlers, lost answers, crashes and a second
\* claim of the same name never make a second disk of one name, zone, group and
\* type: a handler that found none still holds the lock of the name when it
\* creates one.
THEOREM OneDiskSafety ==
  ASSUME OneReplica
  PROVE  Spec => []OneDiskPerName
<1>1. Init => SingleInv
  BY SingleInit
<1>2. SingleInv /\ [Next]_vars => SingleInv'
  BY SingleStep
<1>3. SingleInv => OneDiskPerName
  BY DEF SingleInv
<1> QED
  BY <1>1, <1>2, <1>3, PTL DEF Spec
=============================================================================
