--------------------------- MODULE CapacityProofs ---------------------------
(***************************************************************************)
(* Theorems about Capacity, for any word, any GiB and any smallest and     *)
(* largest disk.                                                           *)
(***************************************************************************)
EXTENDS Capacity, TLAPS

LEMMA Division ==
  ASSUME NEW a \in Int, NEW b \in Nat \ {0}
  PROVE  /\ a \div b \in Int /\ a % b \in 0 .. b - 1
         /\ a = (a \div b) * b + (a % b)
  <1>1. a \div b \in Int
    OBVIOUS
  <1>2. a % b \in 0 .. b - 1
    OBVIOUS
  <1>3. a = (a \div b) * b + (a % b)
    OBVIOUS
  <1> QED BY <1>1, <1>2, <1>3

LEMMA Whole ==
  ASSUME NEW a \in Int, NEW b \in Nat \ {0}, a % b = 0
  PROVE  a \div b \in Int /\ a = (a \div b) * b
  <1>1. a \div b \in Int /\ a = (a \div b) * b + (a % b)
    BY Division
  <1>2. (a \div b) * b \in Int
    BY <1>1
  <1> QED BY <1>1, <1>2

LEMMA Multiples ==
  ASSUME NEW m \in Int, NEW n \in Int, NEW b \in Nat \ {0}, m * b < n * b
  PROVE  m + 1 <= n /\ (m + 1) * b <= n * b
  <1>1. m < n
    <2>1. SUFFICES ASSUME n <= m PROVE FALSE
      OBVIOUS
    <2>2. (m - n) * b >= 0
      BY <2>1
    <2> QED BY <2>2
  <1>2. (n - (m + 1)) * b >= 0
    BY <1>1
  <1> QED BY <1>1, <1>2

LEMMA WrapInside ==
  ASSUME NEW x \in Int, -Half <= x, x < Half
  PROVE  Wrap(x) = x
  <1>1. Half \in Nat \ {0}
    BY CapacityAssumption
  <1>2. x + Half \in 0 .. 2 * Half - 1
    BY <1>1
  <1>3. (x + Half) % (2 * Half) = x + Half
    BY <1>1, <1>2
  <1> QED BY <1>1, <1>3 DEF Wrap

LEMMA CeilBounds ==
  ASSUME NEW b \in Nat \ {0}
  PROVE  /\ ByteCeilToGib(b) \in Nat
         /\ ByteCeilToGib(b) * Gib >= b
         /\ ByteCeilToGib(b) * Gib < b + Gib
  <1>1. Gib \in Nat \ {0}
    BY CapacityAssumption
  <1> DEFINE q == b \div Gib
  <1>2. q \in Int /\ b % Gib \in 0 .. Gib - 1 /\ b = q * Gib + (b % Gib)
    BY <1>1, Division
  <1>3. q >= 0
    BY <1>1, <1>2
  <1>4. ByteCeilToGib(b) = IF q * Gib < b THEN q + 1 ELSE q
    BY DEF ByteCeilToGib
  <1>5. (q + 1) * Gib = q * Gib + Gib
    BY <1>1, <1>2
  <1>6. q * Gib \in Int /\ q * Gib <= b /\ b < q * Gib + Gib
    BY <1>1, <1>2
  <1> HIDE DEF q
  <1>7. CASE q * Gib < b
    <2>1. ByteCeilToGib(b) = q + 1
      BY <1>4, <1>7
    <2> QED BY <1>1, <1>3, <1>2, <1>5, <1>6, <1>7, <2>1
  <1>8. CASE ~(q * Gib < b)
    <2>1. ByteCeilToGib(b) = q
      BY <1>4, <1>8
    <2> QED BY <1>1, <1>3, <1>2, <1>6, <1>8, <2>1
  <1> QED BY <1>7, <1>8

LEMMA CeilExact ==
  ASSUME NEW n \in Nat \ {0}
  PROVE  ByteCeilToGib(n * Gib) = n
  <1>1. Gib \in Nat \ {0} /\ n * Gib \in Nat \ {0}
    BY CapacityAssumption
  <1> DEFINE g == ByteCeilToGib(n * Gib)
  <1>2. g \in Nat /\ g * Gib >= n * Gib /\ g * Gib < n * Gib + Gib
    BY <1>1, CeilBounds
  <1> HIDE DEF g
  <1>3. ~(g < n)
    <2>1. SUFFICES ASSUME g < n PROVE FALSE
      OBVIOUS
    <2>2. (n - g) * Gib > 0
      BY <1>1, <1>2, <2>1
    <2> QED BY <1>1, <1>2, <2>2
  <1>4. ~(g >= n + 1)
    <2>1. SUFFICES ASSUME g >= n + 1 PROVE FALSE
      OBVIOUS
    <2>2. (g - (n + 1)) * Gib >= 0
      BY <1>1, <1>2, <2>1
    <2>3. g * Gib >= n * Gib + Gib
      BY <1>1, <1>2, <2>2
    <2> QED BY <1>1, <1>2, <2>3
  <1> QED BY <1>2, <1>3, <1>4 DEF g

\* The largest disk, and so every disk, leaves a GiB of the word free.
LEMMA RoomAboveDisks ==
  /\ Gib \in Nat \ {0} /\ Half \in Nat \ {0}
  /\ MinSize \in Nat \ {0} /\ MaxSize \in Nat \ {0}
  /\ MinSize <= MaxSize /\ MaxSize <= Half - Gib
  <1>1. /\ {Gib, Half, MinSize, MaxSize} \subseteq Nat \ {0}
        /\ MinSize <= MaxSize /\ MaxSize < Half
        /\ Half % Gib = 0 /\ MaxSize % Gib = 0
    BY CapacityAssumption
  <1> DEFINE h == Half \div Gib  m == MaxSize \div Gib
  <1>2. h \in Int /\ Half = h * Gib
    <2>1. Half \in Int /\ Gib \in Nat \ {0} /\ Half % Gib = 0
      BY <1>1
    <2> QED BY <2>1, Whole
  <1>3. m \in Int /\ MaxSize = m * Gib
    <2>1. MaxSize \in Int /\ Gib \in Nat \ {0} /\ MaxSize % Gib = 0
      BY <1>1
    <2> QED BY <2>1, Whole
  <1> HIDE DEF h, m
  <1>4. (m + 1) * Gib <= h * Gib
    BY <1>1, <1>2, <1>3, Multiples
  <1>5. (m + 1) * Gib = m * Gib + Gib
    BY <1>1, <1>3
  <1> QED BY <1>1, <1>2, <1>3, <1>4, <1>5

-----------------------------------------------------------------------------
(* What GetRequiredVolumeSizeByte returns for a request below the edge.    *)

LEMMA RoundedBounds ==
  ASSUME NEW x \in Int, x <= Half - Gib
  PROVE  /\ \E g \in Nat \ {0} : Rounded(x) = g * Gib
         /\ Rounded(x) \in Int /\ Rounded(x) >= x /\ Rounded(x) >= MinSize
  <1> DEFINE b == IF x < MinSize THEN MinSize ELSE x
             g == ByteCeilToGib(b)
  <1>1. b \in Nat \ {0} /\ b >= x /\ b >= MinSize /\ b <= Half - Gib
    BY RoomAboveDisks
  <1>2. g \in Nat /\ g * Gib >= b /\ g * Gib < b + Gib
    BY <1>1, CeilBounds
  <1>3. Rounded(x) = Wrap(g * Gib)
    BY DEF Rounded, GibToByte
  <1> HIDE DEF b, g
  <1>4. g * Gib \in Int /\ -Half <= g * Gib /\ g * Gib < Half
    BY <1>1, <1>2, RoomAboveDisks
  <1>5. Rounded(x) = g * Gib
    BY <1>3, <1>4, WrapInside
  <1>6. g # 0
    BY <1>1, <1>2, RoomAboveDisks
  <1> QED BY <1>1, <1>2, <1>4, <1>5, <1>6, RoomAboveDisks

\* In the last GiB of the word the rounded size wraps and is negative.
LEMMA WrapOutside ==
  ASSUME NEW x \in Int, Half <= x, x < 2 * Half
  PROVE  Wrap(x) \in Int /\ Wrap(x) < 0
  <1>1. Half \in Nat \ {0}
    BY CapacityAssumption
  <1> DEFINE y == x + Half
  <1>2. y \in Int /\ 2 * Half <= y /\ y < 3 * Half
    BY <1>1
  <1>3. y % (2 * Half) = y - 2 * Half
    BY <1>1, <1>2
  <1> QED BY <1>1, <1>2, <1>3 DEF Wrap

LEMMA RoundedBeyond ==
  ASSUME NEW x \in Int, x > Half - Gib, x < Half
  PROVE  Rounded(x) \in Int /\ Rounded(x) < 0
  <1>1. x \in Nat \ {0} /\ ~(x < MinSize)
    BY RoomAboveDisks
  <1> DEFINE g == ByteCeilToGib(x)  h == Half \div Gib
  <1>2. g \in Nat /\ g * Gib >= x /\ g * Gib < x + Gib
    BY <1>1, CeilBounds
  <1>3. Rounded(x) = Wrap(g * Gib)
    BY <1>1 DEF Rounded, GibToByte
  <1>4. h \in Int /\ Half = h * Gib
    <2>1. Half % Gib = 0
      BY CapacityAssumption
    <2> QED BY <2>1, RoomAboveDisks, Whole
  <1> HIDE DEF g, h
  <1>5. (h - 1) * Gib = h * Gib - Gib
    BY <1>4, RoomAboveDisks
  <1>6. (h - 1) * Gib < g * Gib
    BY <1>2, <1>4, <1>5, RoomAboveDisks
  <1>7. ((h - 1) + 1) * Gib <= g * Gib
    BY <1>2, <1>4, <1>6, RoomAboveDisks, Multiples
  <1>8. (h - 1) + 1 = h
    BY <1>4
  <1>9. g * Gib \in Int /\ Half <= g * Gib /\ g * Gib < 2 * Half
    BY <1>2, <1>4, <1>7, <1>8, RoomAboveDisks
  <1> QED BY <1>3, <1>9, WrapOutside

LEMMA RangeFields ==
  ASSUME NEW capRange \in Ranges
  PROVE  /\ capRange.required \in Int /\ capRange.limit \in Int
         /\ ~capRange.nil => capRange.required \in Requests /\ capRange.limit \in Requests
         /\ capRange.nil => capRange = NilRange
  <1>1. \A x \in Requests : x \in Int
    <2>1. Half \in Int
      BY RoomAboveDisks
    <2>2. Requests \subseteq -Half .. Half - 1
      BY CapacityAssumption
    <2> QED BY <2>1, <2>2
  <1>2. CASE capRange = NilRange
    BY <1>2 DEF NilRange
  <1>3. CASE capRange \in [nil : {FALSE}, required : Requests, limit : Requests]
    BY <1>1, <1>3
  <1> QED BY <1>2, <1>3 DEF Ranges

\* An accepted size is a disk the cloud can make and fits the request.
Fits(bytes, capRange) ==
  /\ bytes >= MinSize /\ bytes <= MaxSize
  /\ bytes >= capRange.required
  /\ capRange.limit > 0 => bytes <= capRange.limit

LEMMA RequiredSizeFits ==
  ASSUME NEW capRange \in Ranges, capRange.required <= Half - Gib,
         GetRequiredVolumeSizeByte(capRange).ok
  PROVE  LET need == GetRequiredVolumeSizeByte(capRange)
             gib  == ByteCeilToGib(need.bytes)
         IN  /\ gib \in Nat \ {0} /\ need.bytes = gib * Gib
             /\ Fits(need.bytes, capRange)
  <1> DEFINE need == GetRequiredVolumeSizeByte(capRange)
             gib  == ByteCeilToGib(need.bytes)
  <1>1. (\E g \in Nat \ {0} : need.bytes = g * Gib) /\ Fits(need.bytes, capRange)
    <2>1. CASE capRange.nil
      <3>1. need.bytes = MinSize /\ capRange = NilRange
        BY <2>1, RangeFields DEF GetRequiredVolumeSizeByte, Size
      <3>2. MinSize % Gib = 0
        BY CapacityAssumption
      <3>3. MinSize \div Gib \in Int /\ MinSize = (MinSize \div Gib) * Gib
        BY <3>2, RoomAboveDisks, Whole
      <3>4. MinSize \div Gib \in Nat \ {0}
        BY <3>3, RoomAboveDisks
      <3> QED BY <3>1, <3>3, <3>4, RoomAboveDisks DEF Fits, NilRange
    <2>2. CASE ~capRange.nil
      <3> DEFINE x == capRange.required  lim == capRange.limit
      <3>1. x \in Requests /\ lim \in Requests
        BY <2>2, RangeFields
      <3>2. x \in Int /\ lim \in Int /\ x <= Half - Gib
        BY RangeFields
      <3>3. /\ need.bytes = Rounded(x) /\ ~(Rounded(x) > MaxSize)
            /\ ~(lim > 0 /\ Rounded(x) > lim)
        BY <2>2 DEF GetRequiredVolumeSizeByte, Size, OutOfRange
      <3>4. /\ \E g \in Nat \ {0} : Rounded(x) = g * Gib
            /\ Rounded(x) \in Int /\ Rounded(x) >= x /\ Rounded(x) >= MinSize
        BY <3>2, RoundedBounds
      <3> QED BY <3>2, <3>3, <3>4, RoomAboveDisks DEF Fits
    <2> QED BY <2>1, <2>2
  <1>2. PICK g \in Nat \ {0} : need.bytes = g * Gib
    BY <1>1
  <1>3. gib = g
    BY <1>2, CeilExact
  <1> QED BY <1>1, <1>2, <1>3

\* Beyond the edge what is accepted rounds to no disk at all.
LEMMA RequiredSizeBeyond ==
  ASSUME NEW capRange \in Ranges, capRange.required > Half - Gib,
         GetRequiredVolumeSizeByte(capRange).ok
  PROVE  ByteCeilToGib(GetRequiredVolumeSizeByte(capRange).bytes) = 0
  <1> DEFINE x == capRange.required
  <1>1. ~capRange.nil
    BY RangeFields, RoomAboveDisks DEF NilRange
  <1>2. x \in Int /\ x < Half
    <2>1. x \in Requests
      BY <1>1, RangeFields
    <2>2. Half \in Int /\ Requests \subseteq -Half .. Half - 1
      BY CapacityAssumption
    <2>3. x \in -Half .. Half - 1
      BY <2>1, <2>2
    <2> HIDE DEF x
    <2> QED BY <2>2, <2>3
  <1>3. Rounded(x) \in Int /\ Rounded(x) < 0
    BY <1>2, RoundedBeyond
  <1>4. GetRequiredVolumeSizeByte(capRange).bytes = Rounded(x)
    BY <1>1 DEF GetRequiredVolumeSizeByte, Size, OutOfRange
  <1> QED BY <1>3, <1>4 DEF ByteCeilToGib

-----------------------------------------------------------------------------
\* A disk there is has a size the cloud can make; the product does not wrap.
SizeInv ==
  /\ size \in Nat
  /\ size # 0 => size * Gib >= MinSize /\ size * Gib <= MaxSize

LEMMA DiskBytes ==
  ASSUME NEW gib \in Nat, gib * Gib <= MaxSize
  PROVE  GibToByte(gib) = gib * Gib
  <1>1. gib * Gib \in Int /\ -Half <= gib * Gib /\ gib * Gib < Half
    BY RoomAboveDisks
  <1> QED BY <1>1, WrapInside DEF GibToByte

LEMMA CapacityStep ==
  ASSUME SizeInv, NEW capRange \in Ranges,
         CreateVolume(capRange) \/ ControllerExpandVolume(capRange)
  PROVE  SizeInv' /\ CapacityAnswered'
  <1> DEFINE need == GetRequiredVolumeSizeByte(capRange)
             gib  == ByteCeilToGib(need.bytes)
             near == capRange.required <= Half - Gib
  <1>1. ASSUME need.ok, near
        PROVE  /\ gib \in Nat \ {0} /\ need.bytes = gib * Gib
               /\ Fits(gib * Gib, capRange) /\ GibToByte(gib) = gib * Gib
    <2>1. gib \in Nat \ {0} /\ need.bytes = gib * Gib /\ Fits(need.bytes, capRange)
      BY <1>1, RequiredSizeFits
    <2> HIDE DEF gib, need
    <2>2. Fits(gib * Gib, capRange)
      BY <2>1
    <2>3. gib * Gib <= MaxSize
      BY <2>2 DEF Fits
    <2> QED BY <2>1, <2>2, <2>3, DiskBytes
  <1>2. size # 0 => GibToByte(size) = size * Gib
    BY DiskBytes DEF SizeInv
  <1>3. capRange.required \in Int /\ capRange.limit \in Int
    BY RangeFields
  <1>4. ASSUME need.ok, ~near
        PROVE  gib = 0 /\ GibToByte(gib) = 0
    <2>1. capRange.required > Half - Gib
      BY <1>3, <1>4, RoomAboveDisks
    <2>2. gib = 0
      BY <1>4, <2>1, RequiredSizeBeyond
    <2>3. 0 * Gib = 0 /\ 0 <= MaxSize
      BY RoomAboveDisks
    <2> QED BY <2>2, <2>3, DiskBytes
  <1>5. \/ ans'.code # "OK" /\ size' = size
        \/ /\ need.ok /\ gib # 0 /\ size' = gib /\ ans'.code = "OK"
           /\ ans'.bytes = GibToByte(gib) /\ ans'.range = capRange
        \/ /\ need.ok /\ size # 0 /\ size' = gib /\ ans'.code = "OK"
           /\ GibToByte(size) < GibToByte(gib)
           /\ ans'.bytes = GibToByte(gib) /\ ans'.range = capRange
        \/ /\ need.ok /\ size # 0 /\ size' = size /\ GibToByte(size) >= GibToByte(gib)
           /\ ans'.op = "Expand" /\ ans'.code = "OK"
           /\ ans'.bytes = GibToByte(size) /\ ans'.range = capRange
    <2>1. CASE CreateVolume(capRange)
      BY <2>1 DEF CreateVolume, Answered
    <2>2. CASE ControllerExpandVolume(capRange)
      BY <2>2 DEF ControllerExpandVolume, Answered
    <2> QED BY <2>1, <2>2
  <1>6. size # 0 => size * Gib \in Int /\ size * Gib > 0
    BY RoomAboveDisks DEF SizeInv
  <1> HIDE DEF need, gib, near
  <1>7. CASE ans'.code # "OK" /\ size' = size
    BY <1>7 DEF SizeInv, CapacityAnswered
  <1>8. CASE /\ need.ok /\ size' = gib /\ ans'.code = "OK"
             /\ ans'.bytes = GibToByte(gib) /\ ans'.range = capRange
             /\ gib # 0 \/ (size # 0 /\ GibToByte(size) < GibToByte(gib))
    <2>1. near
      BY <1>2, <1>4, <1>6, <1>8
    <2> QED BY <1>1, <1>8, <2>1 DEF SizeInv, CapacityAnswered, Fits
  <1>9. CASE /\ need.ok /\ size # 0 /\ size' = size /\ GibToByte(size) >= GibToByte(gib)
             /\ ans'.op = "Expand" /\ ans'.code = "OK"
             /\ ans'.bytes = GibToByte(size) /\ ans'.range = capRange
    <2>1. near => size * Gib >= capRange.required
      <3>1. SUFFICES ASSUME near PROVE size * Gib >= capRange.required
        OBVIOUS
      <3>2. gib * Gib \in Int /\ size * Gib >= gib * Gib
        BY <1>1, <1>2, <1>9, <3>1, RoomAboveDisks DEF SizeInv
      <3> QED BY <1>1, <1>3, <1>6, <1>9, <3>1, <3>2 DEF Fits
    <2> QED BY <1>2, <1>9, <2>1 DEF SizeInv, CapacityAnswered, near
  <1> QED BY <1>5, <1>7, <1>8, <1>9

\* CapacityAnswered holds for every word, unit, disk size and request.
THEOREM CapacitySafety == Spec => []CapacityAnswered
  <1>1. Init => SizeInv /\ CapacityAnswered
    BY DEF Init, SizeInv, CapacityAnswered
  <1>2. SizeInv /\ CapacityAnswered /\ [Next]_vars => (SizeInv /\ CapacityAnswered)'
    <2>1. ASSUME SizeInv, Next PROVE (SizeInv /\ CapacityAnswered)'
      BY <2>1, CapacityStep DEF Next
    <2>2. ASSUME SizeInv, CapacityAnswered, UNCHANGED vars
          PROVE  (SizeInv /\ CapacityAnswered)'
      BY <2>2 DEF vars, SizeInv, CapacityAnswered
    <2> QED BY <2>1, <2>2
  <1> QED BY <1>1, <1>2, PTL DEF Spec

-----------------------------------------------------------------------------
(* The other properties, from what one call may do to the disk.            *)

\* What a call on a range leaves behind; need and gib are the size the code
\* computes from the range, in bytes and in GiB.
Refused(code) == ans'.code = code /\ ans'.bytes = 0 /\ size' = size
Created(gib)  == ans'.op = "Create" /\ ans'.code = "OK" /\ ans'.bytes = GibToByte(gib) /\ size' = gib
Kept          == ans'.op = "Expand" /\ ans'.code = "OK" /\ ans'.bytes = GibToByte(size) /\ size' = size
Grown(gib)    == ans'.op = "Expand" /\ ans'.code = "OK" /\ ans'.bytes = GibToByte(gib) /\ size' = gib

LEMMA CallOutcome ==
  ASSUME NEW capRange \in Ranges,
         CreateVolume(capRange) \/ ControllerExpandVolume(capRange)
  PROVE  LET need == GetRequiredVolumeSizeByte(capRange)
             gib  == ByteCeilToGib(need.bytes)
         IN  /\ ans'.range = capRange /\ ans'.op \in {"Create", "Expand"}
             /\ \/ ~need.ok /\ Refused("OutOfRange")
                \/ Refused("Internal") \/ Refused("AlreadyExists")
                \/ need.ok /\ size = 0 /\ gib # 0 /\ Created(gib)
                \/ /\ need.ok /\ size # 0 /\ size = gib /\ Created(gib)
                   /\ IsValidCapacityBytes(GibToByte(gib), capRange)
                \/ need.ok /\ size # 0 /\ Kept
                \/ need.ok /\ size # 0 /\ GibToByte(size) < GibToByte(gib) /\ Grown(gib)
  <1>1. CASE CreateVolume(capRange)
    BY <1>1 DEF CreateVolume, Answered, Refused, Created
  <1>2. CASE ControllerExpandVolume(capRange)
    BY <1>2 DEF ControllerExpandVolume, Answered, Refused, Kept, Grown
  <1> QED BY <1>1, <1>2

\* A size that is computed, and not zero, is that of a disk which fits.
LEMMA ComputedSize ==
  ASSUME NEW capRange \in Ranges, GetRequiredVolumeSizeByte(capRange).ok
  PROVE  LET gib == ByteCeilToGib(GetRequiredVolumeSizeByte(capRange).bytes)
         IN  /\ gib \in Nat
             /\ gib = 0 => GibToByte(gib) = 0
             /\ gib # 0 => /\ GibToByte(gib) = gib * Gib
                           /\ Fits(gib * Gib, capRange)
  <1> DEFINE gib == ByteCeilToGib(GetRequiredVolumeSizeByte(capRange).bytes)
  <1>1. CASE capRange.required <= Half - Gib
    <2>1. /\ gib \in Nat \ {0} /\ GetRequiredVolumeSizeByte(capRange).bytes = gib * Gib
          /\ Fits(GetRequiredVolumeSizeByte(capRange).bytes, capRange)
      BY <1>1, RequiredSizeFits
    <2> HIDE DEF gib
    <2>2. Fits(gib * Gib, capRange)
      BY <2>1
    <2>3. gib * Gib <= MaxSize
      BY <2>2 DEF Fits
    <2>4. gib \in Nat \ {0} /\ GibToByte(gib) = gib * Gib
      BY <2>1, <2>3, DiskBytes
    <2> QED BY <2>2, <2>4 DEF gib
  <1>2. CASE ~(capRange.required <= Half - Gib)
    <2>1. capRange.required > Half - Gib
      BY <1>2, RangeFields, RoomAboveDisks
    <2>2. gib = 0
      BY <2>1, RequiredSizeBeyond
    <2>3. 0 * Gib = 0 /\ 0 <= MaxSize
      BY RoomAboveDisks
    <2> QED BY <2>2, <2>3, DiskBytes
  <1> QED BY <1>1, <1>2

\* Multiples of Gib are ordered as their factors are.
LEMMA MultiplesOrder ==
  ASSUME NEW m \in Int, NEW n \in Int, m * Gib <= n * Gib
  PROVE  m <= n
  <1>1. SUFFICES ASSUME n < m PROVE FALSE
    OBVIOUS
  <1>2. Gib \in Nat \ {0}
    BY RoomAboveDisks
  <1>3. (m - n) * Gib > 0
    BY <1>1, <1>2
  <1> QED BY <1>2, <1>3

\* No smaller disk than the rounded one holds what is required.
LEMMA RoundedLeast ==
  ASSUME NEW x \in Int, x <= Half - Gib,
         NEW n \in Int, n * Gib >= MinSize, n * Gib >= x
  PROVE  Rounded(x) \in Int /\ Rounded(x) <= n * Gib
  <1> DEFINE b == IF x < MinSize THEN MinSize ELSE x
             g == ByteCeilToGib(b)
  <1>1. b \in Nat \ {0} /\ b <= n * Gib /\ b <= Half - Gib
    BY RoomAboveDisks
  <1>2. g \in Nat /\ g * Gib >= b /\ g * Gib < b + Gib
    BY <1>1, CeilBounds
  <1>3. Rounded(x) = Wrap(g * Gib)
    BY DEF Rounded, GibToByte
  <1> HIDE DEF b, g
  <1>4. g * Gib \in Int /\ -Half <= g * Gib /\ g * Gib < Half
    BY <1>1, <1>2, RoomAboveDisks
  <1>5. Rounded(x) = g * Gib
    BY <1>3, <1>4, WrapInside
  <1>6. (n + 1) * Gib = n * Gib + Gib /\ n * Gib \in Int
    BY RoomAboveDisks
  <1>7. g * Gib < (n + 1) * Gib
    BY <1>1, <1>2, <1>4, <1>6, RoomAboveDisks
  <1>8. (g + 1) * Gib <= (n + 1) * Gib
    BY <1>2, <1>7, RoomAboveDisks, Multiples
  <1>9. (g + 1) * Gib = g * Gib + Gib
    BY <1>2, RoomAboveDisks
  <1> QED BY <1>4, <1>5, <1>6, <1>8, <1>9, RoomAboveDisks

\* A range is only refused if no disk fits it.
LEMMA RefusedFitsNothing ==
  ASSUME NEW capRange \in Ranges, ~GetRequiredVolumeSizeByte(capRange).ok
  PROVE  \/ capRange.required < 0 \/ capRange.limit < 0
         \/ \A gib \in MinSize \div Gib .. MaxSize \div Gib :
              ~IsValidCapacityBytes(gib * Gib, capRange)
  <1> DEFINE x == capRange.required  lim == capRange.limit
             lo == MinSize \div Gib  hi == MaxSize \div Gib
  <1>1. ~capRange.nil
    BY DEF GetRequiredVolumeSizeByte, Size
  <1>2. x \in Int /\ lim \in Int /\ x < Half
    <2>1. x \in Requests
      BY <1>1, RangeFields
    <2>2. Half \in Int /\ Requests \subseteq -Half .. Half - 1
      BY CapacityAssumption
    <2>3. x \in -Half .. Half - 1
      BY <2>1, <2>2
    <2> QED BY <2>2, <2>3, RangeFields
  <1>3. \/ x < 0 \/ lim < 0
        \/ lim > 0 /\ x > lim
        \/ Rounded(x) > MaxSize
        \/ lim > 0 /\ Rounded(x) > lim
    BY <1>1 DEF GetRequiredVolumeSizeByte, Size
  <1>4. lo \in Int /\ MinSize = lo * Gib
    <2>1. MinSize % Gib = 0
      BY CapacityAssumption
    <2> QED BY <2>1, RoomAboveDisks, Whole
  <1>5. hi \in Int /\ MaxSize = hi * Gib
    <2>1. MaxSize % Gib = 0
      BY CapacityAssumption
    <2> QED BY <2>1, RoomAboveDisks, Whole
  <1>6. SUFFICES ASSUME x >= 0, lim >= 0, NEW n \in lo .. hi,
                        IsValidCapacityBytes(n * Gib, capRange)
                 PROVE  FALSE
    BY <1>2
  <1>7. (x > 0 => n * Gib >= x) /\ (lim > 0 => n * Gib <= lim)
    BY <1>1, <1>6 DEF IsValidCapacityBytes
  <1> HIDE DEF x, lim, lo, hi
  <1>8. n \in Int /\ n * Gib \in Int /\ n * Gib >= MinSize /\ n * Gib <= MaxSize
    <2>1. n \in Int /\ n >= lo /\ n <= hi
      BY <1>4, <1>5, <1>6
    <2>2. (n - lo) * Gib >= 0 /\ (hi - n) * Gib >= 0
      BY <1>4, <1>5, <2>1, RoomAboveDisks
    <2>3. (n - lo) * Gib = n * Gib - lo * Gib /\ (hi - n) * Gib = hi * Gib - n * Gib
      BY <1>4, <1>5, <2>1, RoomAboveDisks
    <2>4. n * Gib \in Int
      BY <2>1, RoomAboveDisks
    <2> QED BY <1>4, <1>5, <2>1, <2>2, <2>3, <2>4, RoomAboveDisks
  <1>9. n * Gib >= x
    BY <1>2, <1>6, <1>7, <1>8, RoomAboveDisks
  <1>10. CASE x <= Half - Gib
    <2>1. Rounded(x) \in Int /\ Rounded(x) <= n * Gib
      BY <1>2, <1>8, <1>9, <1>10, RoundedLeast
    <2> QED BY <1>2, <1>3, <1>6, <1>7, <1>8, <1>9, <2>1, RoomAboveDisks
  <1>11. CASE ~(x <= Half - Gib)
    BY <1>2, <1>8, <1>9, <1>11, RoomAboveDisks
  <1> QED BY <1>10, <1>11

\* What a call does to a disk of a legal size.
LEMMA CallEffect ==
  ASSUME SizeInv, NEW capRange \in Ranges,
         CreateVolume(capRange) \/ ControllerExpandVolume(capRange)
  PROVE  /\ size' >= size
         /\ ans'.range \in Ranges /\ ans'.op \in {"Create", "Expand"}
         /\ ans'.code \in {"OK", "OutOfRange", "Internal", "AlreadyExists"}
         /\ ans'.bytes \in {0, size' * Gib}
         /\ RefusalIsJustified' /\ CreateIsIdempotent'
  <1> DEFINE need == GetRequiredVolumeSizeByte(capRange)
             gib  == ByteCeilToGib(need.bytes)
  <1>1. /\ ans'.range = capRange /\ ans'.op \in {"Create", "Expand"}
        /\ \/ ~need.ok /\ Refused("OutOfRange")
           \/ Refused("Internal") \/ Refused("AlreadyExists")
           \/ need.ok /\ size = 0 /\ gib # 0 /\ Created(gib)
           \/ /\ need.ok /\ size # 0 /\ size = gib /\ Created(gib)
              /\ IsValidCapacityBytes(GibToByte(gib), capRange)
           \/ need.ok /\ size # 0 /\ Kept
           \/ need.ok /\ size # 0 /\ GibToByte(size) < GibToByte(gib) /\ Grown(gib)
    BY CallOutcome
  <1>2. need.ok => /\ gib \in Nat
                   /\ gib = 0 => GibToByte(gib) = 0
                   /\ gib # 0 => GibToByte(gib) = gib * Gib /\ Fits(gib * Gib, capRange)
    BY ComputedSize
  <1>3. size \in Nat /\ (size # 0 => /\ GibToByte(size) = size * Gib
                                     /\ size * Gib \in Int /\ size * Gib > 0)
    BY DiskBytes, RoomAboveDisks DEF SizeInv
  <1>4. capRange.required \in Int /\ capRange.limit \in Int
    BY RangeFields
  <1>5. CreateIsIdempotent' <=>
          (ans'.op = "Create" /\ ans'.code = "OK" =>
             size' = gib /\ IsValidCapacityBytes(GibToByte(size'), capRange))
    BY <1>1 DEF CreateIsIdempotent
  <1>6. ans'.code # "OutOfRange" => RefusalIsJustified'
    BY DEF RefusalIsJustified
  <1>7. CASE ~need.ok /\ Refused("OutOfRange")
    <2>1. RefusalIsJustified'
      BY <1>1, <1>7, RefusedFitsNothing DEF RefusalIsJustified
    <2> HIDE DEF need, gib
    <2> QED BY <1>1, <1>3, <1>5, <1>7, <2>1 DEF Refused
  <1> HIDE DEF need, gib
  <1>8. CASE Refused("Internal") \/ Refused("AlreadyExists")
    BY <1>1, <1>3, <1>5, <1>6, <1>8 DEF Refused
  <1>9. CASE need.ok /\ size = 0 /\ gib # 0 /\ Created(gib)
    <2>1. gib * Gib \in Int
      BY <1>2, <1>9, RoomAboveDisks
    <2>2. IsValidCapacityBytes(GibToByte(gib), capRange)
      BY <1>2, <1>4, <1>9, <2>1 DEF IsValidCapacityBytes, Fits
    <2> QED BY <1>1, <1>2, <1>5, <1>6, <1>9, <2>2 DEF Created
  <1>10. CASE /\ need.ok /\ size # 0 /\ size = gib /\ Created(gib)
              /\ IsValidCapacityBytes(GibToByte(gib), capRange)
    BY <1>1, <1>3, <1>5, <1>6, <1>10 DEF Created
  <1>11. CASE need.ok /\ size # 0 /\ Kept
    BY <1>1, <1>3, <1>5, <1>6, <1>11 DEF Kept
  <1>12. CASE need.ok /\ size # 0 /\ GibToByte(size) < GibToByte(gib) /\ Grown(gib)
    <2>1. gib # 0 /\ gib \in Nat /\ GibToByte(gib) = gib * Gib
      BY <1>2, <1>3, <1>12
    <2>2. size * Gib <= gib * Gib
      BY <1>3, <1>12, <2>1, RoomAboveDisks
    <2>3. size <= gib
      BY <1>3, <2>1, <2>2, MultiplesOrder
    <2> QED BY <1>1, <1>3, <1>5, <1>6, <1>12, <2>1, <2>3 DEF Grown
  <1> QED BY <1>1, <1>7, <1>8, <1>9, <1>10, <1>11, <1>12

CapacityInv ==
  SizeInv /\ TypeOK /\ CapacityAnswered /\ RefusalIsJustified /\ CreateIsIdempotent

LEMMA CapacityInvStep == CapacityInv /\ [Next]_vars => CapacityInv' /\ size' >= size
  <1>1. SUFFICES ASSUME CapacityInv, [Next]_vars PROVE CapacityInv' /\ size' >= size
    OBVIOUS
  <1>2. SizeInv
    BY <1>1 DEF CapacityInv
  <1>3. CASE UNCHANGED vars
    <2>1. size' = size /\ ans' = ans
      BY <1>3 DEF vars
    <2>2. CapacityInv'
      BY <1>1, <2>1 DEF CapacityInv, SizeInv, TypeOK, CapacityAnswered,
                        RefusalIsJustified, CreateIsIdempotent
    <2> QED BY <1>2, <2>1, <2>2 DEF SizeInv
  <1>4. CASE Next
    <2>1. PICK capRange \in Ranges :
            CreateVolume(capRange) \/ ControllerExpandVolume(capRange)
      BY <1>4 DEF Next
    <2>2. SizeInv' /\ CapacityAnswered'
      BY <1>2, <2>1, CapacityStep
    <2>3. /\ size' >= size
          /\ ans'.range \in Ranges /\ ans'.op \in {"Create", "Expand"}
          /\ ans'.code \in {"OK", "OutOfRange", "Internal", "AlreadyExists"}
          /\ ans'.bytes \in {0, size' * Gib}
          /\ RefusalIsJustified' /\ CreateIsIdempotent'
      BY <1>2, <2>1, CallEffect
    <2>4. size' \in Nat /\ size' * Gib \in Nat /\ size' * Gib <= MaxSize
      <3>1. size' = 0 => size' * Gib = 0
        BY RoomAboveDisks
      <3>2. size' \in Nat /\ (size' # 0 => size' * Gib <= MaxSize)
        BY <2>2 DEF SizeInv
      <3>3. \A n \in Nat : n * Gib \in Nat
        BY RoomAboveDisks
      <3>4. size' * Gib \in Nat
        BY <3>2, <3>3
      <3>5. MaxSize \in Nat
        BY RoomAboveDisks
      <3> QED BY <3>1, <3>2, <3>4, <3>5
    <2>5. size' \in 0 .. MaxSize \div Gib
      <3>1. MaxSize % Gib = 0
        BY CapacityAssumption
      <3>2. MaxSize \div Gib \in Int /\ MaxSize = (MaxSize \div Gib) * Gib
        BY <3>1, RoomAboveDisks, Whole
      <3>3. size' <= MaxSize \div Gib
        BY <2>4, <3>2, MultiplesOrder
      <3> QED BY <2>4, <3>2, <3>3
    <2>6. ans'.bytes \in 0 .. MaxSize
      <3>1. \A b \in Nat : b <= MaxSize => b \in 0 .. MaxSize
        BY RoomAboveDisks
      <3>2. 0 \in Nat /\ 0 <= MaxSize
        BY RoomAboveDisks
      <3> QED BY <2>3, <2>4, <3>1, <3>2
    <2>7. TypeOK'
      BY <2>3, <2>5, <2>6 DEF TypeOK
    <2> QED BY <2>2, <2>3, <2>7 DEF CapacityInv
  <1> QED BY <1>1, <1>3, <1>4

LEMMA CapacityInvInit == Init => CapacityInv
  <1>1. 0 \in 0 .. MaxSize \div Gib /\ 0 \in 0 .. MaxSize
    <2>1. MaxSize % Gib = 0
      BY CapacityAssumption
    <2>2. MaxSize \div Gib \in Int /\ MaxSize = (MaxSize \div Gib) * Gib
      BY <2>1, RoomAboveDisks, Whole
    <2>3. 0 * Gib <= (MaxSize \div Gib) * Gib
      BY <2>2, RoomAboveDisks
    <2>4. 0 <= MaxSize \div Gib
      BY <2>2, <2>3, MultiplesOrder
    <2> QED BY <2>2, <2>4, RoomAboveDisks
  <1> QED BY <1>1 DEF Init, CapacityInv, SizeInv, TypeOK, CapacityAnswered,
                      RefusalIsJustified, CreateIsIdempotent, Ranges

\* Disk sizes stay within what the cloud makes, and answers are well formed.
THEOREM CapacityTypeCorrect == Spec => []TypeOK
  <1>1. CapacityInv => TypeOK
    BY DEF CapacityInv
  <1> QED BY <1>1, CapacityInvInit, CapacityInvStep, PTL DEF Spec

\* GetRequiredVolumeSizeByte refuses a range only if no disk between the
\* smallest and the largest satisfies it, for every word, unit and limits.
THEOREM RefusalSafety == Spec => []RefusalIsJustified
  <1>1. CapacityInv => RefusalIsJustified
    BY DEF CapacityInv
  <1> QED BY <1>1, CapacityInvInit, CapacityInvStep, PTL DEF Spec

\* A CreateVolume answered OK computes the same size when it is repeated, and
\* the disk found by name passes the second check of the range.
THEOREM IdempotenceSafety == Spec => []CreateIsIdempotent
  <1>1. CapacityInv => CreateIsIdempotent
    BY DEF CapacityInv
  <1> QED BY <1>1, CapacityInvInit, CapacityInvStep, PTL DEF Spec

\* No request makes an existing disk smaller, a size that wraps included.
THEOREM ShrinkSafety == Spec => NeverShrinks
  <1>1. CapacityInv /\ [Next]_vars => [size' >= size]_vars
    BY CapacityInvStep
  <1> QED BY <1>1, CapacityInvInit, CapacityInvStep, PTL DEF Spec, NeverShrinks
=============================================================================
