------------------------------ MODULE Capacity ------------------------------
(***************************************************************************)
(* The arithmetic between the capacity range of a request, in bytes, and   *)
(* the size of a disk, in GiB: pkg/common/calculator.go and                *)
(* GetRequiredVolumeSizeByte of pkg/disk/driver/storageclass.go, as        *)
(* CreateVolume and ControllerExpandVolume use them on one volume name.    *)
(*                                                                         *)
(* The code computes in int64.  Half stands for 2^63 and Gib for 2^30, so  *)
(* that a model can be small enough to try every request and still have    *)
(* the edge of the word in it.                                             *)
(***************************************************************************)
EXTENDS Integers

CONSTANTS
  Gib,       \* bytes in a GiB
  Half,      \* an int64 is in -Half .. Half - 1
  MinSize,   \* ZEC_MIN_DISK_SIZE_BYTES
  MaxSize,   \* ZEC_MAX_DISK_SIZE_BYTES
  Requests   \* the values tried for required_bytes and limit_bytes

ASSUME CapacityAssumption ==
  /\ Gib \in Nat \ {0}
  /\ {Half, MinSize, MaxSize} \subseteq Nat \ {0}
  /\ Half % Gib = 0 /\ MinSize % Gib = 0 /\ MaxSize % Gib = 0
  /\ MinSize <= MaxSize /\ MaxSize < Half
  /\ Requests \subseteq -Half .. Half - 1

VARIABLES
  size,  \* GiB of the disk with the volume's name, 0 when there is none
  ans    \* the last answer: to which operation and range, and what

vars == <<size, ans>>

NilRange == [nil |-> TRUE, required |-> 0, limit |-> 0]
Ranges == {NilRange} \union [nil : {FALSE}, required : Requests, limit : Requests]

-----------------------------------------------------------------------------
(* int64 arithmetic *)
Wrap(x) == ((x + Half) % (2 * Half)) - Half

GibToByte(nGib) == Wrap(nGib * Gib)

\* Broken form: the remainder is dropped.
ByteFloorToGib(nByte) == IF nByte <= 0 THEN 0 ELSE nByte \div Gib

ByteCeilToGib(nByte) ==
  LET res == nByte \div Gib IN
  IF nByte <= 0 THEN 0 ELSE IF res * Gib < nByte THEN res + 1 ELSE res

\* Broken form: limit_bytes = 0 is taken for a limit.
IsValidCapacityZeroLimit(cur, capRange) ==
  capRange.nil \/ (cur >= capRange.required /\ cur <= capRange.limit)

IsValidCapacityBytes(cur, capRange) ==
  \/ capRange.nil
  \/ /\ capRange.required > 0 => cur >= capRange.required
     /\ capRange.limit > 0 => cur <= capRange.limit

(* GetRequiredVolumeSizeByte: bytes to create, or OutOfRange.              *)
Size(bytes) == [ok |-> TRUE, bytes |-> bytes]
OutOfRange == [ok |-> FALSE, bytes |-> -1]

\* The size before the range is compared with it again: raised to the
\* smallest disk, then to a whole number of GiB.
Rounded(required) ==
  GibToByte(ByteCeilToGib(IF required < MinSize THEN MinSize ELSE required))

\* Broken form: a request below the smallest disk is refused.
RequiredSizeStrictMin(capRange) ==
  IF capRange.nil THEN Size(MinSize)
  ELSE IF \/ capRange.required < MinSize \/ capRange.limit < 0
          \/ capRange.limit > 0 /\ capRange.required > capRange.limit
          \/ Rounded(capRange.required) > MaxSize
          \/ capRange.limit > 0 /\ Rounded(capRange.required) > capRange.limit
       THEN OutOfRange
       ELSE Size(Rounded(capRange.required))

\* Broken form: the largest disk is forgotten.
RequiredSizeNoMax(capRange) ==
  IF capRange.nil THEN Size(MinSize)
  ELSE IF \/ capRange.required < 0 \/ capRange.limit < 0
          \/ capRange.limit > 0 /\ Rounded(capRange.required) > capRange.limit
       THEN OutOfRange
       ELSE Size(Rounded(capRange.required))

GetRequiredVolumeSizeByte(capRange) ==
  IF capRange.nil THEN Size(MinSize)
  ELSE IF \/ capRange.required < 0 \/ capRange.limit < 0
          \/ capRange.limit > 0 /\ capRange.required > capRange.limit
          \/ Rounded(capRange.required) > MaxSize
          \/ capRange.limit > 0 /\ Rounded(capRange.required) > capRange.limit
       THEN OutOfRange
       ELSE Size(Rounded(capRange.required))

-----------------------------------------------------------------------------
(* The two RPCs, as far as sizes go.                                       *)

Answered(op, capRange, code, bytes) ==
  ans' = [op |-> op, range |-> capRange, code |-> code, bytes |-> bytes]

\* FindVolumeByName finds the disk of that name, if any, and compares its size;
\* the cloud's CreateVolume refuses a size of 0.
CreateVolume(capRange) ==
  LET need == GetRequiredVolumeSizeByte(capRange)
      gib  == ByteCeilToGib(need.bytes)
  IN
  \/ ~need.ok /\ Answered("Create", capRange, "OutOfRange", 0) /\ UNCHANGED size
  \/ /\ need.ok /\ size = 0 /\ gib = 0
     /\ Answered("Create", capRange, "Internal", 0) /\ UNCHANGED size
  \/ /\ need.ok /\ size = 0 /\ gib # 0
     /\ size' = gib
     /\ Answered("Create", capRange, "OK", GibToByte(gib))
  \/ /\ need.ok /\ size # 0
     /\ size = gib /\ IsValidCapacityBytes(GibToByte(size), capRange)
     /\ Answered("Create", capRange, "OK", GibToByte(size)) /\ UNCHANGED size
  \/ /\ need.ok /\ size # 0
     /\ ~(size = gib /\ IsValidCapacityBytes(GibToByte(size), capRange))
     /\ Answered("Create", capRange, "AlreadyExists", 0) /\ UNCHANGED size

\* Broken form: the disk is resized to whatever is asked.
ExpandAlwaysResizes(capRange) ==
  LET need == GetRequiredVolumeSizeByte(capRange)
      gib  == ByteCeilToGib(need.bytes)
  IN
  /\ size # 0 /\ need.ok
  /\ size' = gib
  /\ Answered("Expand", capRange, "OK", GibToByte(gib))

ControllerExpandVolume(capRange) ==
  LET need == GetRequiredVolumeSizeByte(capRange)
      gib  == ByteCeilToGib(need.bytes)
  IN
  /\ size # 0
  /\ \/ ~need.ok /\ Answered("Expand", capRange, "OutOfRange", 0) /\ UNCHANGED size
     \/ /\ need.ok /\ GibToByte(size) >= GibToByte(gib)
        /\ Answered("Expand", capRange, "OK", GibToByte(size)) /\ UNCHANGED size
     \/ /\ need.ok /\ GibToByte(size) < GibToByte(gib)
        /\ size' = gib
        /\ Answered("Expand", capRange, "OK", GibToByte(gib))

Init == size = 0 /\ ans = [op |-> "none", range |-> NilRange, code |-> "none", bytes |-> 0]

Next == \E capRange \in Ranges : CreateVolume(capRange) \/ ControllerExpandVolume(capRange)

Spec == Init /\ [][Next]_vars

-----------------------------------------------------------------------------
(* Properties *)

TypeOK ==
  /\ size \in 0 .. MaxSize \div Gib
  /\ ans.op \in {"none", "Create", "Expand"}
  /\ ans.code \in {"none", "OK", "OutOfRange", "Internal", "AlreadyExists"}
  /\ ans.range \in Ranges
  /\ ans.bytes \in 0 .. MaxSize

\* CapacityAnswered: the bytes answered are those of the disk, computed
\* without wrapping; a created disk respects its limit, and they are enough
\* for the request unless that lies in the last GiB of the word.
CapacityAnswered ==
  ans.code = "OK" =>
    /\ ans.bytes = size * Gib
    /\ ans.bytes >= MinSize /\ ans.bytes <= MaxSize
    /\ ans.range.required <= Half - Gib => ans.bytes >= ans.range.required
    /\ ans.op = "Create" /\ ans.range.limit > 0 => ans.bytes <= ans.range.limit

\* RequiredIsMet: an answer of OK gives at least the bytes required: a request
\* above the largest disk is an error, as the comment of
\* GetRequiredVolumeSizeByte says.
RequiredIsMet == ans.code = "OK" => ans.bytes >= ans.range.required

\* RefusalIsJustified: OutOfRange is answered only if no disk the cloud can
\* make satisfies the request, as the comment of GetRequiredVolumeSizeByte says.
RefusalIsJustified ==
  ans.code = "OutOfRange" =>
    \/ ans.range.required < 0 \/ ans.range.limit < 0
    \/ \A gib \in MinSize \div Gib .. MaxSize \div Gib :
         ~IsValidCapacityBytes(gib * Gib, ans.range)

\* CreateIsIdempotent: a CreateVolume that was answered OK would be answered
\* so again, with the same capacity: the size searched by name is the size
\* that was created, and it passes the range check on the second path.
CreateIsIdempotent ==
  ans.op = "Create" /\ ans.code = "OK" =>
    /\ size = ByteCeilToGib(GetRequiredVolumeSizeByte(ans.range).bytes)
    /\ IsValidCapacityBytes(GibToByte(size), ans.range)

\* NeverShrinks: no request makes an existing disk smaller.
NeverShrinks == [][size' >= size]_vars
=============================================================================
