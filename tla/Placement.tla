----------------------------- MODULE Placement -----------------------------
(***************************************************************************)
(* Where and as what CreateVolume puts a volume: the parameters of the     *)
(* storage class (pkg/disk/driver/storageclass.go), the access modes       *)
(* (driver.go) and the accessibility requirements (PickTopology,           *)
(* IsValidTopology and GetVolumeTopology of controllerserver.go).          *)
(*                                                                         *)
(* Parameters are functions from the names of the parameters, which are    *)
(* compared without regard to case, to values.  A topology is a function   *)
(* from topology keys to values, not necessarily with all keys in it.      *)
(***************************************************************************)
EXTENDS Integers, Sequences

CONSTANTS
  DefaultZone,          \* from the environment; "" when it is not set
  DefaultResourceGroup

-----------------------------------------------------------------------------
(* Disk types and access modes                                             *)

VolumeTypes == {1, 2}     \* "Basic NVMe SSD" and "Standard NVMe SSD"
DefaultVolumeType == 2

VolumeCap == {"SINGLE_NODE_WRITER", "SINGLE_NODE_SINGLE_WRITER"}

ValidateVolumeCapabilities(modes) == modes \subseteq VolumeCap

(* Storage class *)

Get(params, key, default) == IF key \in DOMAIN params THEN params[key] ELSE default

BadClass == [ok |-> FALSE]

\* A zone or a group that is missing makes both the default ones.
NewZecStorageClassFromMap(params) ==
  LET zone  == Get(params, "zoneID", "")
      group == Get(params, "placeGroupID", "")
      given == zone # "" /\ group # ""
      type  == Get(params, "type", DefaultVolumeType)
      fs    == Get(params, "fsType", "ext4")
  IN
  IF \/ ~given /\ "" \in {DefaultZone, DefaultResourceGroup}
     \/ type \notin VolumeTypes
     \/ fs \notin {"", "ext3", "ext4", "xfs"}
  THEN BadClass
  ELSE [ok |-> TRUE, type |-> type,
        zone  |-> IF given THEN zone ELSE DefaultZone,
        group |-> IF given THEN group ELSE DefaultResourceGroup]

-----------------------------------------------------------------------------
(* Topology *)

ZoneKey   == "zone"       \* GetTopologyZoneKey
VmTypeKey == "vmType"     \* GetTopologyVmTypeKey
VmTypes   == {"BasicVm"}

NoRequirement == [nil |-> TRUE, preferred |-> <<>>, requisite |-> <<>>]

\* Broken form: the first requisite topology, whatever is preferred.
PickTopologyRequisite(requirement) ==
  IF requirement.requisite = <<>> THEN [ok |-> FALSE]
  ELSE [ok |-> TRUE, zone |-> Get(Head(requirement.requisite), ZoneKey, "")]

\* The first topology decides: nothing is picked when there is none, when it
\* has a key that is not one of the two or a type of instance that is unknown.
PickTopology(requirement) ==
  LET first == Head(requirement.preferred \o requirement.requisite) IN
  IF \/ requirement.preferred \o requirement.requisite = <<>>
     \/ ~(DOMAIN first \subseteq {ZoneKey, VmTypeKey})
     \/ Get(first, VmTypeKey, "BasicVm") \notin VmTypes
  THEN [ok |-> FALSE]
  ELSE [ok |-> TRUE, zone |-> Get(first, ZoneKey, "")]

\* Disks of either type go to instances of the one type there is.
GetVolumeTopology(type, zone) ==
  IF type \in VolumeTypes
  THEN {[zone |-> zone, vmType |-> vm] : vm \in VmTypes}
  ELSE {}

\* Broken form: a disk has to be in the first of the requisite topologies.
IsValidTopologyFirst(type, zone, requirement) ==
  \/ requirement.nil \/ requirement.requisite = <<>>
  \/ \E i \in DOMAIN requirement.requisite :
       i = 1 /\ requirement.requisite[i] \in GetVolumeTopology(type, zone)

\* An existing disk will do when its topology is equal to a requisite one.
IsValidTopology(type, zone, requirement) ==
  \/ requirement.nil \/ requirement.requisite = <<>>
  \/ \E i \in DOMAIN requirement.requisite :
       requirement.requisite[i] \in GetVolumeTopology(type, zone)
=============================================================================
