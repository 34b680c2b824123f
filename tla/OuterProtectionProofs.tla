------------------------ MODULE OuterProtectionProofs ------------------------
(***************************************************************************)
(* Proofs about OuterProtection, for containers of any size: types, that   *)
(* the two volumes keep what TwoVolumes promises, that the header groups   *)
(* stay, and what is on the volumes when creation ends.  The promise needs *)
(* the volumes to meet at a boundary between cipher blocks; the last needs *)
(* a margin, and a run of the module shows that it fails without.          *)
(***************************************************************************)
EXTENDS OuterProtection, TLAPS

USE SizesAssumption, ValuesAssumption

-----------------------------------------------------------------------------
(* Arithmetic of blocks *)

(* A number of blocks below a boundary stays below it, and so above. *)
LEMMA BlockBelow ==
    ASSUME NEW B \in Nat \ {0}, NEW k \in Nat, NEW b \in Nat, b < k * B
    PROVE  b \div B < k
BY Z3
LEMMA BlockAbove ==
    ASSUME NEW B \in Nat \ {0}, NEW k \in Nat, NEW b \in Nat, b >= k * B
    PROVE  b \div B >= k
BY Z3
LEMMA Multiple ==
    ASSUME NEW B \in Nat \ {0}, NEW s \in Nat, s % B = 0
    PROVE  /\ s \div B \in Nat
           /\ s = (s \div B) * B
BY Z3
LEMMA MultipleOf ==
    ASSUME NEW B \in Nat \ {0}, NEW q \in Int
    PROVE  (q * B) % B = 0
BY Z3
LEMMA Products ==
    ASSUME NEW B \in Int, NEW p \in Int, NEW q \in Int
    PROVE  p * B - q * B = (p - q) * B /\ (p * q) * B = p * (q * B)
BY Z3

(* The ends of the container and its units fall between blocks. *)
Aligned == Size % Block = 0 /\ Group % Block = 0 /\ Unit % Block = 0

(* A boundary that is a multiple of the block size separates the blocks. *)
LEMMA Separated ==
    ASSUME NEW e \in Nat, e % Block = 0, NEW b \in Nat, NEW c \in Nat, b < e, e <= c
    PROVE  b \div Block # c \div Block
<1> DEFINE k == e \div Block
<1>1. k \in Nat /\ e = k * Block
  BY Multiple
<1> HIDE DEF k
<1>2. b \div Block < k
  BY <1>1, BlockBelow
<1>3. c \div Block >= k
  BY <1>1, BlockAbove
<1>4. b \div Block \in Int /\ c \div Block \in Int
  BY Z3
<1> QED BY <1>1, <1>2, <1>3, <1>4

-----------------------------------------------------------------------------
(* Types *)

(* What Encrypted puts into the image is a byte again. *)
LEMMA EncryptedTyped ==
    ASSUME TypeOK, NEW v \in Volumes, NEW span, NEW x \in Values \cup {Boot}, NEW done
    PROVE  Encrypted(v, span, x, done) \in
               [Bytes -> [key : {"none", "header"} \cup Volumes,
                          val : Values \cup {Boot, Scrambled}]]
<1> DEFINE Byte == [key : {"none", "header"} \cup Volumes, val : Values \cup {Boot, Scrambled}]
<1>1. ASSUME NEW b \in Bytes
      PROVE  [key |-> v, val |-> Plain(v, span, b, x)] \in Byte
  <2>1. image[b] \in Byte
    BY DEF TypeOK
  <2>2. Plain(v, span, b, x) \in Values \cup {Boot, Scrambled}
    BY <2>1 DEF Plain, Read
  <2> QED BY <2>2
<1>2. image \in [Bytes -> Byte]
  BY DEF TypeOK
<1> HIDE DEF Byte
<1>3. Encrypted(v, span, x, done) \in [Bytes -> Byte]
  BY <1>1, <1>2 DEF Encrypted
<1> QED BY <1>3 DEF Byte

LEMMA HiddenInside ==
    ASSUME NEW n \in HiddenSizes, ValidHiddenSize(n)
    PROVE  /\ n \in Nat /\ n # 0 /\ n >= Unit /\ n % Unit = 0
           /\ HiddenBytes(n) \subseteq OuterBytes
BY DEF ValidHiddenSize, HiddenBytes, HiddenStart, HiddenEnd, OuterBytes, OuterStart, OuterEnd

LEMMA TypeInit == Init => TypeOK
<1> SUFFICES ASSUME Init PROVE TypeOK
  OBVIOUS
<1>1. image \in [Bytes -> [key : {"none", "header"} \cup Volumes,
                          val : Values \cup {Boot, Scrambled}]]
  BY DEF Init
<1>2. writes \in 0 .. MaxWrites
  BY DEF Init
<1> QED BY <1>1, <1>2 DEF Init, TypeOK

LEMMA TypeStep == TypeOK /\ [Next]_vars => TypeOK'
<1> SUFFICES ASSUME TypeOK, [Next]_vars PROVE TypeOK'
  OBVIOUS
<1>1. CASE UNCHANGED vars
  BY <1>1 DEF vars, TypeOK
<1>2. ASSUME NEW n \in HiddenSizes, CreateHidden(n) PROVE TypeOK'
  BY <1>2, HiddenInside DEF CreateHidden, TypeOK
<1>3. CASE FormatOuter
  BY <1>3, EncryptedTyped DEF FormatOuter, Format, TypeOK, Volumes
<1>4. CASE FormatHidden
  BY <1>4, EncryptedTyped DEF FormatHidden, Format, TypeOK, Volumes
<1>5. ASSUME NEW v \in Volumes, Unlock(v) PROVE TypeOK'
  BY <1>5 DEF Unlock, TypeOK, Volumes
<1>6. CASE UnlockProtected
  <2>1. ProtectedStart + hiddenSize = HiddenEnd - OuterStart
    BY DEF ProtectedStart, HiddenStart, HiddenEnd, OuterStart, TypeOK
  <2> QED BY <1>6, <2>1 DEF UnlockProtected, TypeOK, ProtectedStart
<1>7. CASE Lock
  BY <1>7 DEF Lock, TypeOK
<1>8. ASSUME NEW off, NEW len, RefuseWrite(off, len) PROVE TypeOK'
  BY <1>8 DEF RefuseWrite, TypeOK
<1>9. ASSUME NEW v \in Volumes, NEW off, NEW len, NEW x \in Values, WriteAt(v, off, len, x)
      PROVE  TypeOK'
  <2>1. writes' \in 0 .. MaxWrites
    BY <1>9 DEF WriteAt, TypeOK
  <2> QED BY <1>9, <2>1, EncryptedTyped DEF WriteAt, TypeOK
<1>10. ASSUME NEW v \in Volumes, NEW off, NEW len, NEW x \in Values, WriteCut(v, off, len, x)
       PROVE  TypeOK'
  <2>1. writes' \in 0 .. MaxWrites
    BY <1>10 DEF WriteCut, TypeOK
  <2>2. PICK done : image' = Encrypted(v, Span(v, off, len), x, done)
    BY <1>10 DEF WriteCut
  <2>3. image' \in [Bytes -> [key : {"none", "header"} \cup Volumes,
                             val : Values \cup {Boot, Scrambled}]]
    BY <2>2, EncryptedTyped
  <2> QED BY <1>10, <2>1, <2>3 DEF WriteCut, TypeOK
<1> QED
  BY <1>1, <1>2, <1>3, <1>4, <1>5, <1>6, <1>7, <1>8, <1>9, <1>10 DEF Next

(* Every variable keeps its type; in particular a protected session always
   shields exactly the hidden volume (unlock_outer_protected_device). *)
THEOREM TypeCorrect == Spec => []TypeOK
BY TypeInit, TypeStep, PTL DEF Spec

-----------------------------------------------------------------------------
(* What a write does to the bytes the volumes read *)

LEMMA ReadsOfWriter ==
    ASSUME NEW v \in Volumes, NEW span, NEW x, NEW done,
           image' = Encrypted(v, span, x, done), NEW b \in Bytes
    PROVE  /\ b \notin span => Read(v, b)' = Read(v, b)
           /\ b \in span => Read(v, b)' \in {x, Read(v, b)}
           /\ b \in span /\ b \div Unit \in done => Read(v, b)' = x
<1>1. CASE image'[b] = image[b] /\ Plain(v, span, b, x) = Read(v, b)
  BY <1>1 DEF Read, Plain
<1>2. CASE image'[b] = image[b] /\ b \div Unit \notin done
  BY <1>2 DEF Read
<1>3. CASE image'[b] = [key |-> v, val |-> Plain(v, span, b, x)]
  BY <1>3 DEF Read, Plain
<1> QED
  BY <1>1, <1>2, <1>3 DEF Encrypted

LEMMA ReadsOfOther ==
    ASSUME NEW v \in Volumes, NEW w \in Volumes, NEW span, NEW x, NEW done,
           image' = Encrypted(v, span, x, done),
           NEW b \in Bytes, \A c \in span : b \div Block # c \div Block
    PROVE  Read(w, b)' = Read(w, b)
<1>1. b \div Block \notin {c \div Block : c \in {d \in Bytes : Plain(v, span, d, x) # Read(v, d)}}
  BY DEF Plain
<1>2. image'[b] = image[b]
  BY <1>1 DEF Encrypted
<1> QED BY <1>2 DEF Read

-----------------------------------------------------------------------------
(* Where the hidden volume lies *)

(* Its two ends fall between cipher blocks. *)
LEMMA HiddenAligned ==
    ASSUME Aligned, NEW n \in Nat, n % Unit = 0, HiddenStart(n) \in Nat
    PROVE  /\ HiddenStart(n) % Block = 0
           /\ HiddenEnd % Block = 0 /\ HiddenEnd \in Nat
<1> DEFINE s == Size \div Block
           g == Group \div Block
           u == Unit \div Block
           q == n \div Unit
<1>1. /\ s \in Nat /\ Size = s * Block
      /\ g \in Nat /\ Group = g * Block
      /\ u \in Nat /\ Unit = u * Block
      /\ q \in Nat /\ n = q * Unit
  BY Multiple DEF Aligned
<1> HIDE DEF s, g, u, q
<1>2. HiddenEnd = (s - 2 * g) * Block
  <2>1. 2 * Group = (2 * g) * Block
    BY <1>1, Products
  <2> QED BY <1>1, <2>1, Products DEF HiddenEnd
<1>3. n = (q * u) * Block
  BY <1>1, Products
<1>4. s - 2 * g \in Int /\ q * u \in Int
  BY <1>1
<1>5. HiddenStart(n) = (s - 2 * g - q * u) * Block
  BY <1>2, <1>3, <1>4, Products DEF HiddenStart
<1> QED BY <1>2, <1>4, <1>5, MultipleOf DEF HiddenEnd

(* No cipher block lies across either end of the hidden volume. *)
LEMMA BlocksApart ==
    ASSUME TypeOK, Aligned, hiddenSize # 0,
           NEW b \in Bytes, NEW c \in Bytes,
           b \in HiddenBytes(hiddenSize), c \notin HiddenBytes(hiddenSize)
    PROVE  b \div Block # c \div Block
<1>1. hiddenSize \in Nat /\ hiddenSize % Unit = 0 /\ HiddenBytes(hiddenSize) \subseteq OuterBytes
  BY DEF TypeOK
<1>2. HiddenStart(hiddenSize) \in Nat
  <2>1. HiddenStart(hiddenSize) \in HiddenBytes(hiddenSize)
    BY DEF HiddenBytes, HiddenStart, HiddenEnd, TypeOK
  <2> QED BY <1>1, <2>1 DEF OuterBytes, OuterStart
<1>3. HiddenStart(hiddenSize) % Block = 0 /\ HiddenEnd % Block = 0 /\ HiddenEnd \in Nat
  BY <1>1, <1>2, HiddenAligned
<1>4. HiddenStart(hiddenSize) <= b /\ b < HiddenEnd /\ b \in Nat /\ c \in Nat
  BY <1>3 DEF HiddenBytes, Bytes
<1>5. c < HiddenStart(hiddenSize) \/ c >= HiddenEnd
  BY <1>2, <1>3, <1>4 DEF HiddenBytes
<1>6. CASE c < HiddenStart(hiddenSize)
  BY <1>2, <1>3, <1>4, <1>6, Separated
<1>7. CASE c >= HiddenEnd
  BY <1>3, <1>4, <1>7, Separated
<1> QED BY <1>5, <1>6, <1>7

(* The bytes of a write lie in its volume, one after another. *)
LEMMA SpanInside ==
    ASSUME TypeOK, NEW v \in Volumes, NEW off \in Offsets, NEW len \in Lengths,
           InBounds(v, off, len), phase = "ready"
    PROVE  /\ Span(v, off, len) \subseteq Promise!Area(v)
           /\ Span(v, off, len) \subseteq OuterBytes
           /\ \E b, c \in OuterBytes : Span(v, off, len) = Promise!Span(b, c)
<1>1. hiddenSize \in Nat /\ hiddenSize # 0 /\ HiddenBytes(hiddenSize) \subseteq OuterBytes
  BY DEF TypeOK
<1>2. off \in Nat /\ len \in Nat /\ len # 0
  BY DEF Offsets, Lengths
<1>3. CASE v = "outer"
  <2>1. Span(v, off, len) \subseteq OuterBytes
    BY <1>2, <1>3 DEF Span, InBounds, DataStart, DataSize, OuterBytes, OuterStart, OuterEnd
  <2>2. /\ DataStart(v) + off \in OuterBytes
        /\ DataStart(v) + off + len - 1 \in OuterBytes
    BY <1>2, <1>3 DEF InBounds, DataStart, DataSize, OuterBytes, OuterStart, OuterEnd
  <2>3. Span(v, off, len) = Promise!Span(DataStart(v) + off, DataStart(v) + off + len - 1)
    BY <2>1, <2>2, <1>2, <1>3 DEF Span, Promise!Span, OuterBytes, OuterStart, OuterEnd
  <2> QED BY <1>3, <2>1, <2>2, <2>3 DEF Promise!Area
<1>4. CASE v = "hidden"
  <2>1. HiddenStart(hiddenSize) \in Int /\ HiddenEnd \in Int
        /\ HiddenEnd = HiddenStart(hiddenSize) + hiddenSize
    BY <1>1 DEF HiddenStart, HiddenEnd
  <2>2. Span(v, off, len) \subseteq HiddenBytes(hiddenSize)
    BY <1>1, <1>2, <1>4, <2>1 DEF Span, InBounds, DataStart, DataSize, HiddenBytes
  <2>3. /\ DataStart(v) + off \in HiddenBytes(hiddenSize)
        /\ DataStart(v) + off + len - 1 \in HiddenBytes(hiddenSize)
    BY <1>1, <1>2, <1>4, <2>1 DEF InBounds, DataStart, DataSize, HiddenBytes
  <2>4. Span(v, off, len) = Promise!Span(DataStart(v) + off, DataStart(v) + off + len - 1)
    BY <1>1, <2>2, <2>3, <2>1, <1>2, <1>4
       DEF Span, Promise!Span, OuterBytes, OuterStart, OuterEnd, DataStart
  <2> QED BY <1>1, <1>4, <2>2, <2>3, <2>4 DEF Promise!Area, Region
<1> QED BY <1>3, <1>4 DEF Volumes

(* A write let through by the shield touches no byte of the hidden volume. *)
LEMMA ShieldedSpan ==
    ASSUME TypeOK, NEW off \in Offsets, NEW len \in Lengths,
           mount = "protected", LetsThrough(off, len)
    PROVE  Span("outer", off, len) \cap HiddenBytes(hiddenSize) = {}
<1>1. hiddenSize \in Nat /\ off \in Nat /\ len \in Nat
  BY DEF TypeOK, Offsets, Lengths
<1>2. /\ shield.start = HiddenStart(hiddenSize) - OuterStart
      /\ shield.end = HiddenEnd - OuterStart
  BY DEF TypeOK
<1>3. ~(off < HiddenEnd - OuterStart /\ off + len > HiddenStart(hiddenSize) - OuterStart)
  BY <1>2 DEF LetsThrough, IntersectsProtected
<1> QED
  BY <1>1, <1>3 DEF Span, DataStart, HiddenBytes, HiddenStart, HiddenEnd, OuterStart

-----------------------------------------------------------------------------
(* The steps of the promise *)

(* What a write leaves of the other volume. *)
LEMMA OtherSpared ==
    ASSUME TypeOK, Aligned, phase = "ready",
           NEW v \in Volumes, NEW off \in Offsets, NEW len \in Lengths,
           NEW x \in Values, NEW done, InBounds(v, off, len),
           image' = Encrypted(v, Span(v, off, len), x, done)
    PROVE  Promise!Keeps(Promise!Other(v), Promise!Spared(v, Span(v, off, len)))
<1> DEFINE span == Span(v, off, len)
           w == Promise!Other(v)
<1>1. span \subseteq OuterBytes /\ span \subseteq Promise!Area(v)
  BY SpanInside
<1>2. Region = HiddenBytes(hiddenSize) /\ Region \subseteq OuterBytes /\ hiddenSize # 0
  BY DEF Region, TypeOK
<1>3. OuterBytes \subseteq Bytes
  BY DEF OuterBytes, OuterStart, OuterEnd, Bytes
<1>4. w \in Volumes
  BY DEF Promise!Other, Volumes
<1>5. ASSUME NEW b \in Promise!Spared(v, span)
      PROVE  b \in Bytes /\ \A c \in span : b \div Block # c \div Block
  <2>1. CASE v = "hidden"
    <3>1. b \in OuterBytes \ Region /\ span \subseteq Region
      BY <1>1, <1>5, <2>1 DEF Promise!Spared, Promise!Area
    <3> QED BY <1>2, <1>3, <3>1, BlocksApart
  <2>2. CASE v = "outer"
    <3>1. b \in Region /\ span \cap Region = {}
      BY <1>5, <2>2 DEF Promise!Spared
    <3> QED BY <1>1, <1>2, <1>3, <3>1, BlocksApart
  <2> QED BY <2>1, <2>2 DEF Volumes
<1> HIDE DEF span, w
<1>6. ASSUME NEW b \in Promise!Spared(v, span)
      PROVE  View'[w][b] = View[w][b]
  <2>1. b \in Bytes /\ Read(w, b)' = Read(w, b)
    BY <1>4, <1>5, ReadsOfOther DEF span
  <2> QED BY <1>4, <2>1 DEF View
<1> QED BY <1>6 DEF Promise!Keeps, span, w

LEMMA WriteStep ==
    ASSUME TypeOK, Aligned,
           NEW v \in Volumes, NEW off \in Offsets, NEW len \in Lengths, NEW x \in Values,
           WriteAt(v, off, len, x) \/ WriteCut(v, off, len, x)
    PROVE  Promise!Next
<1> DEFINE span == Span(v, off, len)
<1>1. Mounted(v) /\ LetsThrough(off, len) /\ InBounds(v, off, len)
  BY DEF WriteAt, WriteCut
<1>2. phase = "ready"
  BY <1>1 DEF Mounted, TypeOK
<1>3. /\ span \subseteq Promise!Area(v) /\ span \subseteq OuterBytes
      /\ \E b, c \in OuterBytes : span = Promise!Span(b, c)
  BY <1>1, <1>2, SpanInside
<1>4. Promise!Mounted(v)
  BY <1>1 DEF Mounted, Promise!Mounted
<1>5. mount = "protected" => ~readOnly /\ span \cap Region = {}
  <2> SUFFICES ASSUME mount = "protected" PROVE ~readOnly /\ span \cap Region = {}
    OBVIOUS
  <2>1. v = "outer"
    BY <1>1 DEF Mounted, Volumes
  <2>2. span \cap HiddenBytes(hiddenSize) = {}
    BY <1>1, <2>1, ShieldedSpan
  <2> QED BY <1>1, <1>2, <2>2 DEF LetsThrough, Region
<1>6. PICK done : /\ image' = Encrypted(v, span, x, done)
                  /\ WriteAt(v, off, len, x) => done = UnitsOf(span)
  BY DEF WriteAt, WriteCut
<1>7. OuterBytes \subseteq Bytes /\ Promise!Area(v) \subseteq Bytes
  BY DEF OuterBytes, OuterStart, OuterEnd, Bytes, Promise!Area, Region, TypeOK
<1>8. Promise!Keeps(v, Promise!Area(v) \ span)
  <2> SUFFICES ASSUME NEW b \in Promise!Area(v) \ span PROVE View'[v][b] = View[v][b]
    BY DEF Promise!Keeps
  <2>1. Read(v, b)' = Read(v, b)
    BY <1>6, <1>7, ReadsOfWriter
  <2> QED BY <1>7, <2>1 DEF View
<1>9. Promise!Keeps(Promise!Other(v), Promise!Spared(v, span))
  BY <1>1, <1>2, <1>6, OtherSpared
<1>10. ASSUME NEW b \in span
       PROVE  /\ View'[v][b] \in {x, View[v][b]}
              /\ WriteAt(v, off, len, x) => View'[v][b] = x
  <2>1. b \in Bytes
    BY <1>3, <1>7
  <2>2. Read(v, b)' \in {x, Read(v, b)}
    BY <1>6, <2>1, ReadsOfWriter
  <2>3. WriteAt(v, off, len, x) => Read(v, b)' = x
    BY <1>6, <2>1, ReadsOfWriter DEF UnitsOf
  <2> QED BY <2>1, <2>2, <2>3 DEF View
<1>11. PICK b, c \in OuterBytes : span = Promise!Span(b, c)
  BY <1>3
<1> HIDE DEF span
<1>12. CASE WriteAt(v, off, len, x)
  <2>1. Region' = Region /\ mount' = mount /\ readOnly' = readOnly
    BY <1>12 DEF WriteAt, Region, HiddenBytes, HiddenStart
  <2>2. Promise!Write(v, span, x)
    BY <1>3, <1>4, <1>5, <1>8, <1>9, <1>10, <1>12, <2>1 DEF Promise!Write
  <2> QED BY <1>11, <2>2 DEF Promise!Next, Volumes, Promise!Volumes
<1>13. CASE WriteCut(v, off, len, x)
  <2>1. Region' = Region /\ mount' = "none" /\ readOnly' = FALSE
    BY <1>13 DEF WriteCut, Region, HiddenBytes, HiddenStart
  <2>2. Promise!Interrupted(v, span, x)
    BY <1>3, <1>4, <1>5, <1>8, <1>9, <1>10, <2>1 DEF Promise!Interrupted
  <2> QED BY <1>11, <2>2 DEF Promise!Next, Volumes, Promise!Volumes
<1> QED BY <1>12, <1>13

(* A step that leaves the image alone leaves what the volumes read alone. *)
LEMMA ViewKept == image' = image => View' = View
BY DEF View, Read

LEMMA InitMaps == Init => Promise!Init
BY DEF Init, Promise!Init, Region

LEMMA StepMaps == TypeOK /\ TypeOK' /\ Aligned /\ [Next]_vars => [Promise!Next]_(Promise!vars)
<1> SUFFICES ASSUME TypeOK, TypeOK', Aligned, [Next]_vars
             PROVE  [Promise!Next]_(Promise!vars)
  OBVIOUS
<1>1. CASE UNCHANGED vars
  <2>1. UNCHANGED <<View, Region, mount, readOnly>>
    BY <1>1, ViewKept DEF vars, Region, HiddenBytes, HiddenStart
  <2> QED BY <2>1 DEF Promise!vars
<1>2. ASSUME phase # "ready", mount' = mount, readOnly' = readOnly PROVE Promise!Next
  <2>1. Region = {} /\ mount = "none"
    BY <1>2 DEF Region, TypeOK
  <2>2. Region' \subseteq OuterBytes
    BY DEF Region, TypeOK
  <2>3. Promise!Create
    BY <1>2, <2>1, <2>2 DEF Promise!Create
  <2> QED BY <2>3 DEF Promise!Next
<1>3. ASSUME NEW n \in HiddenSizes, CreateHidden(n) PROVE Promise!Next
  BY <1>2, <1>3 DEF CreateHidden
<1>4. CASE FormatOuter
  BY <1>2, <1>4 DEF FormatOuter
<1>5. CASE FormatHidden
  BY <1>2, <1>5 DEF FormatHidden
<1>6. ASSUME (\E v \in Volumes : Unlock(v)) \/ UnlockProtected PROVE Promise!Next
  <2>1. phase = "ready" /\ phase' = "ready" /\ mount = "none"
        /\ mount' \in {"outer", "protected", "hidden"}
        /\ image' = image /\ hiddenSize' = hiddenSize /\ readOnly' = readOnly
    BY <1>6 DEF Unlock, UnlockProtected, Volumes
  <2>2. Region # {}
    <3>1. hiddenSize \in Nat /\ hiddenSize # 0
      BY <2>1 DEF TypeOK
    <3>2. HiddenEnd - 1 \in HiddenBytes(hiddenSize)
      BY <3>1 DEF HiddenBytes, HiddenStart, HiddenEnd
    <3> QED BY <2>1, <3>2 DEF Region
  <2>3. Region' = Region /\ View' = View
    BY <2>1, ViewKept DEF Region, HiddenBytes, HiddenStart
  <2>4. Promise!Mount
    BY <2>1, <2>2, <2>3 DEF Promise!Mount
  <2> QED BY <2>4 DEF Promise!Next
<1>7. CASE Lock
  <2>1. Region' = Region /\ View' = View /\ mount' = "none" /\ readOnly' = FALSE
    BY <1>7, ViewKept DEF Lock, Region, HiddenBytes, HiddenStart
  <2> QED BY <2>1 DEF Promise!Next, Promise!Unmount
<1>8. ASSUME NEW off, NEW len, RefuseWrite(off, len) PROVE Promise!Next
  <2>1. Region' = Region /\ View' = View
    BY <1>8, ViewKept DEF RefuseWrite, Region, HiddenBytes, HiddenStart
  <2> QED BY <1>8, <2>1 DEF RefuseWrite, Promise!Next, Promise!Refuse
<1>9. ASSUME NEW v \in Volumes, NEW off \in Offsets, NEW len \in Lengths, NEW x \in Values,
             WriteAt(v, off, len, x) \/ WriteCut(v, off, len, x)
      PROVE  Promise!Next
  BY <1>9, WriteStep
<1> QED
  BY <1>1, <1>3, <1>4, <1>5, <1>6, <1>7, <1>8, <1>9 DEF Next

(* When the ends of the container fall between cipher blocks, the outer and
   the hidden volume are two arrays of bytes that disturb each other only
   where the outer one is written unprotected: DecryptedDevice writes what
   it is told to and nothing else, and ProtectedDevice keeps every byte of
   the hidden volume, also when the power fails during a write. *)
THEOREM VolumesKeepTheirBytes == ASSUME Aligned PROVE Spec => KeepsTwoVolumes
<1>1. Init => Promise!Init
  BY InitMaps
<1>2. TypeOK /\ TypeOK' /\ [Next]_vars => [Promise!Next]_(Promise!vars)
  BY StepMaps
<1>3. Spec => []TypeOK
  BY TypeCorrect
<1> QED BY <1>1, <1>2, <1>3, PTL DEF Spec, KeepsTwoVolumes, Promise!Spec

-----------------------------------------------------------------------------
(* The header groups *)

(* Both ends of the outer area fall between units. *)
UnitAligned == Size % Unit = 0 /\ Group % Unit = 0

LEMMA EndsBetweenUnits ==
    ASSUME UnitAligned, NEW b \in Bytes \ OuterBytes, NEW c \in OuterBytes
    PROVE  b \div Unit # c \div Unit
<1> DEFINE g == Group \div Unit
           s == Size \div Unit
<1>1. g \in Nat /\ Group = g * Unit BY SizesAssumption, Multiple DEF UnitAligned
<1>2. s \in Nat /\ Size = s * Unit BY SizesAssumption, Multiple DEF UnitAligned
<1>3. b \in Nat /\ c \in Nat BY SizesAssumption DEF Bytes, OuterBytes, OuterStart, OuterEnd
<1> HIDE DEF g, s
<1>4. OuterEnd = (s - g) * Unit BY <1>1, <1>2, SizesAssumption, Products DEF OuterEnd
<1>5. s - g \in Nat
    <2>1. (s - g) * Unit >= 0 /\ (s - g) * Unit >= Unit
        BY <1>4, SizesAssumption DEF OuterEnd
    <2>2. s - g >= 0 BY <1>1, <1>2, <2>1, SizesAssumption, Z3
    <2>3. QED BY <1>1, <1>2, <2>2
<1>6. CASE b < Group
    <2>1. b \div Unit < g BY <1>1, <1>3, <1>6, SizesAssumption, BlockBelow
    <2>2. c >= Group BY <1>3 DEF OuterBytes, OuterStart
    <2>3. c \div Unit >= g BY <1>1, <1>3, <2>2, SizesAssumption, BlockAbove
    <2>4. QED BY <1>1, <1>3, <2>1, <2>3, SizesAssumption
<1>7. CASE b >= OuterEnd
    <2>1. b \div Unit >= s - g BY <1>3, <1>4, <1>5, <1>7, SizesAssumption, BlockAbove
    <2>2. c < OuterEnd BY <1>3, SizesAssumption DEF OuterBytes, OuterEnd
    <2>3. c \div Unit < s - g BY <1>3, <1>4, <1>5, <2>2, SizesAssumption, BlockBelow
    <2>4. QED BY <1>1, <1>2, <1>3, <2>1, <2>3, SizesAssumption
<1>8. QED BY <1>3, <1>6, <1>7, SizesAssumption DEF OuterBytes, OuterStart, OuterEnd

(* Units that hold a byte of the outer area hold nothing else. *)
LEMMA EndsKept ==
    ASSUME UnitAligned, HeadersUntouched, NEW v, NEW span \in SUBSET OuterBytes, NEW x,
           NEW done \in SUBSET UnitsOf(span), image' = Encrypted(v, span, x, done)
    PROVE  HeadersUntouched'
<1> SUFFICES ASSUME NEW b \in Bytes \ OuterBytes PROVE image'[b].key = "header"
    BY DEF HeadersUntouched, Bytes, OuterBytes, OuterStart, OuterEnd
<1>1. b \div Unit \notin done BY EndsBetweenUnits DEF UnitsOf
<1>2. image'[b] = image[b] BY <1>1 DEF Encrypted
<1>3. QED BY <1>2 DEF HeadersUntouched

LEMMA BootSectorInside ==
    ASSUME TypeOK, phase # "volume", NEW v \in Volumes
    PROVE  Span(v, 0, Unit) \subseteq OuterBytes
<1>1. hiddenSize \in Nat /\ hiddenSize >= Unit /\ HiddenBytes(hiddenSize) \subseteq OuterBytes
    BY SizesAssumption DEF TypeOK
<1>2. CASE v = "outer"
    BY <1>2, SizesAssumption DEF Span, DataStart, OuterBytes, OuterStart, OuterEnd
<1>3. CASE v = "hidden"
    <2>1. Span(v, 0, Unit) \subseteq HiddenBytes(hiddenSize)
        BY <1>1, <1>3, SizesAssumption DEF Span, DataStart, HiddenBytes, HiddenStart, HiddenEnd
    <2>2. QED BY <1>1, <2>1
<1>4. QED BY <1>2, <1>3 DEF Volumes

LEMMA HeadersStep == UnitAligned /\ TypeOK /\ HeadersUntouched /\ [Next]_vars => HeadersUntouched'
<1> SUFFICES ASSUME UnitAligned, TypeOK, HeadersUntouched, [Next]_vars
             PROVE  HeadersUntouched'
    OBVIOUS
<1>1. CASE image' = image
    BY <1>1 DEF HeadersUntouched, Bytes, OuterBytes, OuterStart, OuterEnd
<1>2. CASE FormatOuter
    BY <1>2, BootSectorInside, EndsKept DEF FormatOuter, Format, Volumes
<1>3. CASE FormatHidden
    BY <1>3, BootSectorInside, EndsKept DEF FormatHidden, Format, Volumes
<1>4. ASSUME NEW v \in Volumes, NEW off \in Offsets, NEW len \in Lengths, NEW x \in Values,
             WriteAt(v, off, len, x) \/ WriteCut(v, off, len, x)
      PROVE  HeadersUntouched'
    <2>1. phase = "ready" /\ InBounds(v, off, len)
        BY <1>4 DEF WriteAt, WriteCut, Mounted, TypeOK
    <2>2. Span(v, off, len) \subseteq OuterBytes BY <2>1, SpanInside
    <2>3. PICK done \in SUBSET UnitsOf(Span(v, off, len)) :
              image' = Encrypted(v, Span(v, off, len), x, done)
        BY <1>4 DEF WriteAt, WriteCut
    <2>4. QED BY <2>2, <2>3, EndsKept
<1>5. QED
    BY <1>1, <1>2, <1>3, <1>4
    DEF Next, vars, CreateHidden, Unlock, UnlockProtected, Lock, RefuseWrite

(* When the container and the header groups are whole numbers of units, no
   write through a volume, none cut short and no formatting reaches the
   header groups, whatever is written where. *)
THEOREM HeadersStay == ASSUME UnitAligned PROVE Spec => []HeadersUntouched
<1>1. Init => HeadersUntouched
    BY DEF Init, HeadersUntouched
<1>2. TypeOK /\ HeadersUntouched /\ [Next]_vars => HeadersUntouched'
    BY HeadersStep
<1>3. QED BY <1>1, <1>2, TypeCorrect, PTL DEF Spec

-----------------------------------------------------------------------------
(* Creation *)

(* Every hidden volume that is accepted leaves the outer one its boot sector. *)
Margin == \A n \in HiddenSizes : ValidHiddenSize(n) => OuterStart + Unit <= HiddenStart(n)

(* Between the two formattings nothing is mounted. *)
OuterFormatted ==
    phase = "outer" => \A b \in BootSector("outer") : Read("outer", b) = Boot

LEMMA BootSectorRead ==
    ASSUME TypeOK, phase # "volume", NEW v \in Volumes, Format(v),
           NEW b \in BootSector(v)
    PROVE  Read(v, b)' = Boot
<1> DEFINE span == Span(v, 0, Unit)
<1>1. b \in span /\ image' = Encrypted(v, span, Boot, UnitsOf(span)) BY DEF BootSector, Format
<1>2. b \in Bytes
    BY <1>1, BootSectorInside DEF OuterBytes, OuterStart, OuterEnd, Bytes
<1>3. b \div Unit \in UnitsOf(span) BY <1>1 DEF UnitsOf
<1> HIDE DEF span
<1>4. QED BY <1>1, <1>2, <1>3, ReadsOfWriter

(* The outer boot sector ends at or before the first cipher block of the
   hidden volume. *)
LEMMA BootSectorsApart ==
    ASSUME TypeOK, Aligned, Margin, phase # "volume",
           NEW b \in BootSector("outer"), NEW c \in BootSector("hidden")
    PROVE  b \in Bytes /\ b \div Block # c \div Block
<1>1. hiddenSize \in Nat /\ hiddenSize \in HiddenSizes /\ hiddenSize >= Unit
      /\ hiddenSize % Unit = 0 /\ HiddenBytes(hiddenSize) \subseteq OuterBytes
    BY DEF TypeOK
<1>2. HiddenStart(hiddenSize) \in HiddenBytes(hiddenSize)
    BY <1>1 DEF HiddenBytes, HiddenStart, HiddenEnd
<1>3. HiddenStart(hiddenSize) \in Nat /\ hiddenSize + Group <= HiddenEnd
    BY <1>1, <1>2 DEF OuterBytes, OuterStart, OuterEnd, HiddenStart, HiddenEnd
<1>4. ValidHiddenSize(hiddenSize) BY <1>1, <1>3 DEF ValidHiddenSize
<1>5. OuterStart + Unit <= HiddenStart(hiddenSize) BY <1>1, <1>4 DEF Margin
<1>6. HiddenStart(hiddenSize) % Block = 0 BY <1>1, <1>3, HiddenAligned
<1>7. b \in Nat /\ b < OuterStart + Unit
    BY DEF BootSector, Span, DataStart, OuterStart
<1>8. c \in Nat /\ c >= HiddenStart(hiddenSize)
    BY <1>3 DEF BootSector, Span, DataStart
<1>9. b < HiddenStart(hiddenSize) BY <1>3, <1>5, <1>7 DEF OuterStart
<1>10. b \in Bytes
    BY <1>1, <1>3, <1>7, <1>9 DEF Bytes, HiddenStart, HiddenEnd
<1>11. QED BY <1>3, <1>6, <1>7, <1>8, <1>9, <1>10, Separated

LEMMA FormattedStep == TypeOK /\ OuterFormatted /\ [Next]_vars => OuterFormatted'
<1> SUFFICES ASSUME TypeOK, OuterFormatted, [Next]_vars PROVE OuterFormatted'
    OBVIOUS
<1>1. CASE FormatOuter
    <2>1. phase # "volume" /\ Format("outer") /\ hiddenSize' = hiddenSize
        BY <1>1 DEF FormatOuter
    <2>2. BootSector("outer")' = BootSector("outer") BY DEF BootSector, Span, DataStart
    <2>3. QED BY <2>1, <2>2, BootSectorRead DEF OuterFormatted, Volumes
<1>2. CASE phase' # "outer"
    BY <1>2 DEF OuterFormatted
<1>3. CASE phase' = phase /\ image' = image
    BY <1>3 DEF OuterFormatted, Read, BootSector, Span, DataStart
<1>4. ASSUME NEW v \in Volumes, NEW off, NEW len, NEW x,
             WriteAt(v, off, len, x) \/ WriteCut(v, off, len, x)
      PROVE  phase' # "outer"
    BY <1>4 DEF WriteAt, WriteCut, Mounted, TypeOK
<1>5. QED
    BY <1>1, <1>2, <1>3, <1>4
    DEF Next, vars, CreateHidden, FormatHidden, Unlock, UnlockProtected, Lock, RefuseWrite

LEMMA CreationStep ==
    ASSUME TypeOK, Aligned, Margin, OuterFormatted, Next, phase' = "ready", phase # "ready",
           NEW v \in Volumes, NEW b \in BootSector(v)
    PROVE  Read(v, b)' = Boot
<1>1. FormatHidden
    <2>1. \A u \in Volumes : \A off, len, x : ~WriteAt(u, off, len, x) /\ ~WriteCut(u, off, len, x)
        BY DEF WriteAt, WriteCut
    <2>2. QED
        BY <2>1 DEF Next, CreateHidden, FormatOuter, Unlock, UnlockProtected, Lock, RefuseWrite
<1>2. phase = "outer" /\ Format("hidden") BY <1>1 DEF FormatHidden
<1>3. CASE v = "hidden" BY <1>2, <1>3, BootSectorRead DEF Volumes
<1>4. CASE v = "outer"
    <2>1. Read("outer", b) = Boot BY <1>2, <1>4 DEF OuterFormatted
    <2>2. b \in Bytes /\ \A c \in BootSector("hidden") : b \div Block # c \div Block
        <3>1. BootSector("hidden") # {}
            <4>1. DataStart("hidden") \in Int
                BY <1>2 DEF DataStart, HiddenStart, HiddenEnd, TypeOK
            <4>2. DataStart("hidden") \in BootSector("hidden")
                BY <4>1 DEF BootSector, Span
            <4>3. QED BY <4>2
        <3>2. QED BY <1>2, <1>4, <3>1, BootSectorsApart
    <2>3. image' = Encrypted("hidden", BootSector("hidden"), Boot, UnitsOf(BootSector("hidden")))
        BY <1>2 DEF Format, BootSector
    <2> DEFINE span == BootSector("hidden")
    <2> HIDE DEF span
    <2>4. Read("outer", b)' = Read("outer", b)
        <3>1. "hidden" \in Volumes /\ "outer" \in Volumes BY DEF Volumes
        <3>2. image' = Encrypted("hidden", span, Boot, UnitsOf(span)) BY <2>3 DEF span
        <3>3. \A c \in span : b \div Block # c \div Block BY <2>2 DEF span
        <3>4. QED BY <2>2, <3>1, <3>2, <3>3, ReadsOfOther
    <2>5. QED BY <1>4, <2>1, <2>4
<1>5. QED BY <1>3, <1>4 DEF Volumes

(* When the ends of the container fall between cipher blocks and no accepted
   hidden volume takes the outer one's first sector, which create_hidden does
   not see to, both volumes have their boot sector at the end of a creation:
   formatting the hidden one leaves every byte of the outer one's alone. *)
THEOREM CreationKeepsBothBootSectors ==
    ASSUME Aligned, Margin PROVE Spec => CreatedVolumesOpen
<1> DEFINE A == phase' = "ready" /\ phase # "ready" =>
                    \A v \in Volumes : \A b \in BootSector(v) : Read(v, b)' = Boot
<1>1. Init => OuterFormatted BY DEF Init, OuterFormatted
<1>2. TypeOK /\ OuterFormatted /\ [Next]_vars => OuterFormatted' BY FormattedStep
<1>3. TypeOK /\ OuterFormatted /\ [Next]_vars => [A]_vars BY CreationStep
<1>4. QED BY <1>1, <1>2, <1>3, TypeCorrect, PTL DEF Spec, CreatedVolumesOpen
=============================================================================
