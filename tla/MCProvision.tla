---------------------------- MODULE MCProvision ----------------------------
(* Model-checking definitions for Provision.                               *)
EXTENDS Provision

\* A topology as the nodes report it, and with the zone only, as a storage
\* class may list it.
Full(z)     == [zone |-> z, vmType |-> "BasicVm"]
ZoneOnly(z) == [zone |-> z]

Require(preferred, requisite) ==
  [nil |-> FALSE, preferred |-> preferred, requisite |-> requisite]

Claim(name, modes, type, requirement, gib, src) ==
  [name |-> name, modes |-> modes, params |-> [type |-> type],
   req |-> requirement, gib |-> gib, src |-> src]

RWO == {"SINGLE_NODE_WRITER"}
RWX == {"MULTI_NODE_MULTI_WRITER"}

\* Two claims restored from one snapshot, the second in a zone the scheduler
\* chose; an empty volume that wants the name of the first with another size;
\* a claim for many writers.
Restores ==
  [a |-> Claim("p", RWO, 1, NoRequirement, 1, "snap"),
   b |-> Claim("q", RWO, 1, Require(<<Full("y")>>, <<Full("z"), Full("y")>>), 1, "snap"),
   c |-> Claim("p", RWO, 1, NoRequirement, 2, NoSnap),
   m |-> Claim("m", RWX, 1, NoRequirement, 1, NoSnap)]

\* One empty volume.
OneClaim == [a |-> Claim("p", RWO, 1, NoRequirement, 1, NoSnap)]

\* One empty volume, of a class that allows two zones.
OneZoneOnly ==
  [a |-> Claim("p", RWO, 1, Require(<<ZoneOnly("y")>>, <<ZoneOnly("z"), ZoneOnly("y")>>),
               1, NoSnap)]
=============================================================================
