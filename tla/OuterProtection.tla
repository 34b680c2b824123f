--------------------------- MODULE OuterProtection ---------------------------
(***************************************************************************)
(* The bytes of a container with a hidden volume (core/vc-format:          *)
(* create.rs, decrypted.rs, protect.rs; core/vault-core/src/session.rs):   *)
(* where the two volumes lie, how a write is widened to whole encrypted    *)
(* units, and the device that refuses outer writes into the hidden volume. *)
(*                                                                         *)
(* A byte of the container is the volume key its cipher block was last     *)
(* encrypted under and the plaintext it then had.  Under another key a     *)
(* block decrypts to noise (Scrambled), and encrypting unchanged plaintext *)
(* again, noise included, restores the same ciphertext.                    *)
(***************************************************************************)
EXTENDS Integers

CONSTANTS
    Size,           \* bytes in the container
    Group,          \* bytes of one header group (128 KiB), at either end
    Unit,           \* bytes in an XTS data unit, which is also a sector
    Block,          \* bytes in a cipher block
    HiddenSizes,    \* the sizes tried for the hidden volume
    Values,         \* what is written into files
    Boot,           \* what formatting writes into the boot sector
    Scrambled,      \* the plaintext seen under the wrong key
    MaxWrites       \* bound on the writes of mounted volumes

ASSUME SizesAssumption ==
    /\ Block \in Nat \ {0} /\ Unit \in Nat \ {0} /\ Group \in Nat \ {0}
    /\ Size \in Nat /\ Size >= 2 * Group + Unit
    /\ HiddenSizes \subseteq Nat /\ MaxWrites \in Nat
ASSUME ValuesAssumption == Scrambled \notin Values \cup {Boot}

Bytes == 0 .. Size - 1
Volumes == {"outer", "hidden"}

(* create_volume and create_hidden: where the data areas lie. *)
OuterStart == Group
OuterEnd == Size - Group
OuterBytes == OuterStart .. OuterEnd - 1
HiddenEnd == Size - 2 * Group
(* Fault: the hidden volume is laid at the front of the outer one. *)
HiddenStartFront(n) == OuterStart
HiddenStart(n) == HiddenEnd - n
HiddenBytes(n) == HiddenStart(n) .. HiddenEnd - 1
(* Fault: the size is not compared with the outer volume. *)
ValidSizeAnywhere(n) == n >= Unit /\ n % Unit = 0
ValidHiddenSize(n) == n >= Unit /\ n % Unit = 0 /\ n + Group <= HiddenEnd

VARIABLES
    image,      \* image[b]: the key and plaintext of byte b of the container
    hiddenSize, \* the size in the hidden header; 0 while there is none
    phase,      \* how far creation is: "volume", "headers", "outer", "ready"
    mount,      \* the session: "none", "outer", "protected" or "hidden"
    shield,     \* the range refused, in offsets of the outer volume
    readOnly,   \* ProtectedDevice.read_only
    writes      \* how many writes so far

vars == <<image, hiddenSize, phase, mount, shield, readOnly, writes>>

NoShield == [start |-> 0, end |-> 0]

(* create_volume: random bytes in the header groups, zeros in between. *)
Init ==
    /\ image = [b \in Bytes |-> [key |-> IF b \in OuterBytes THEN "none" ELSE "header",
                                 val |-> Boot]]
    /\ hiddenSize = 0 /\ phase = "volume"
    /\ mount = "none" /\ shield = NoShield /\ readOnly = FALSE
    /\ writes = 0

-----------------------------------------------------------------------------
(* DecryptedDevice *)

DataStart(v) == IF v = "outer" THEN OuterStart ELSE HiddenStart(hiddenSize)
DataSize(v) == IF v = "outer" THEN OuterEnd - OuterStart ELSE hiddenSize

(* decrypt_units *)
Read(v, b) == IF image[b].key = v THEN image[b].val ELSE Scrambled

Span(v, off, len) == DataStart(v) + off .. DataStart(v) + off + len - 1
UnitsOf(span) == {b \div Unit : b \in span}

(* Fault: only a partial first unit is read before it is written back. *)
PlainHeadOnly(v, span, b, x) ==
    IF b \in span THEN x
    ELSE IF \A c \in span : c > b THEN Read(v, b) ELSE Boot
(* The buffer that is encrypted: the old plaintext with the write over it. *)
Plain(v, span, b, x) == IF b \in span THEN x ELSE Read(v, b)

(* encrypt_units over the units done; blocks that did not change stay. *)
Encrypted(v, span, x, done) ==
    LET changed == {c \div Block : c \in {b \in Bytes : Plain(v, span, b, x) # Read(v, b)}}
    IN  [b \in Bytes |->
            IF b \div Unit \in done /\ b \div Block \in changed
            THEN [key |-> v, val |-> Plain(v, span, b, x)]
            ELSE image[b]]

(* Fault: only the start of the write is compared with the data size. *)
InBoundsStart(v, off, len) == off <= DataSize(v)
InBounds(v, off, len) == off + len <= DataSize(v)

-----------------------------------------------------------------------------
(* Creation *)

CreateHidden(n) ==
    /\ phase = "volume" /\ mount = "none"
    /\ ValidHiddenSize(n)
    /\ hiddenSize' = n /\ phase' = "headers"
    /\ UNCHANGED <<image, mount, shield, readOnly, writes>>

(* format_data: the boot sector of the volume's new file system. *)
Format(v) ==
    LET span == Span(v, 0, Unit) IN image' = Encrypted(v, span, Boot, UnitsOf(span))

FormatOuter ==
    /\ phase = "headers"
    /\ Format("outer")
    /\ phase' = "outer"
    /\ UNCHANGED <<hiddenSize, mount, shield, readOnly, writes>>

FormatHidden ==
    /\ phase = "outer"
    /\ Format("hidden")
    /\ phase' = "ready"
    /\ UNCHANGED <<hiddenSize, mount, shield, readOnly, writes>>

-----------------------------------------------------------------------------
(* Sessions *)

(* unlock_device: the secret decides which volume. *)
Unlock(v) ==
    /\ phase = "ready" /\ mount = "none"
    /\ mount' = v
    /\ UNCHANGED <<image, hiddenSize, phase, shield, readOnly, writes>>

(* Fault: the protected range starts where the hidden volume does in the
   container, not in the outer volume. *)
ProtectedStartAbsolute == HiddenStart(hiddenSize)
(* unlock_outer_protected_device: the hidden area in outer offsets. *)
ProtectedStart == HiddenStart(hiddenSize) - OuterStart
UnlockProtected ==
    /\ phase = "ready" /\ mount = "none"
    /\ ProtectedStart >= 0
    /\ ProtectedStart + hiddenSize <= DataSize("outer")
    /\ mount' = "protected"
    /\ shield' = [start |-> ProtectedStart, end |-> ProtectedStart + hiddenSize]
    /\ UNCHANGED <<image, hiddenSize, phase, readOnly, writes>>

Lock ==
    /\ mount # "none"
    /\ mount' = "none" /\ shield' = NoShield /\ readOnly' = FALSE
    /\ UNCHANGED <<image, hiddenSize, phase, writes>>

Mounted(v) == IF v = "outer" THEN mount \in {"outer", "protected"} ELSE mount = "hidden"

(* Fault: a write is taken to miss the region when it starts before it. *)
IntersectsAtStart(off, len) == off < shield.end /\ off >= shield.start
IntersectsProtected(off, len) == off < shield.end /\ off + len > shield.start

(* ProtectedDevice::write_at, refused *)
RefuseWrite(off, len) ==
    /\ mount = "protected" /\ ~readOnly
    /\ IntersectsProtected(off, len)
    /\ readOnly' = TRUE
    /\ UNCHANGED <<image, hiddenSize, phase, mount, shield, writes>>

LetsThrough(off, len) ==
    mount = "protected" => ~readOnly /\ ~IntersectsProtected(off, len)

(* write_at through ProtectedDevice, if any, and DecryptedDevice *)
WriteAt(v, off, len, x) ==
    /\ Mounted(v) /\ writes < MaxWrites
    /\ LetsThrough(off, len)
    /\ InBounds(v, off, len)
    /\ LET span == Span(v, off, len) IN image' = Encrypted(v, span, x, UnitsOf(span))
    /\ writes' = writes + 1
    /\ UNCHANGED <<hiddenSize, phase, mount, shield, readOnly>>

(* The power fails during the write: some of its sectors are on the medium. *)
WriteCut(v, off, len, x) ==
    /\ Mounted(v) /\ writes < MaxWrites
    /\ LetsThrough(off, len)
    /\ InBounds(v, off, len)
    /\ LET span == Span(v, off, len) IN
           \E done \in SUBSET UnitsOf(span) : image' = Encrypted(v, span, x, done)
    /\ writes' = writes + 1
    /\ mount' = "none" /\ shield' = NoShield /\ readOnly' = FALSE
    /\ UNCHANGED <<hiddenSize, phase>>

-----------------------------------------------------------------------------
Offsets == 0 .. OuterEnd - OuterStart
Lengths == 1 .. OuterEnd - OuterStart

Next ==
    \/ \E n \in HiddenSizes : CreateHidden(n)
    \/ FormatOuter \/ FormatHidden
    \/ \E v \in Volumes : Unlock(v)
    \/ UnlockProtected \/ Lock
    \/ \E off \in Offsets, len \in Lengths : RefuseWrite(off, len)
    \/ \E v \in Volumes, off \in Offsets, len \in Lengths, x \in Values :
          WriteAt(v, off, len, x) \/ WriteCut(v, off, len, x)

Spec == Init /\ [][Next]_vars
-----------------------------------------------------------------------------
(* Properties *)

TypeOK ==
    /\ image \in [Bytes -> [key : {"none", "header"} \cup Volumes,
                            val : Values \cup {Boot, Scrambled}]]
    /\ hiddenSize \in {0} \cup {n \in HiddenSizes : n >= Unit /\ n % Unit = 0 /\ HiddenBytes(n) \subseteq OuterBytes}
    /\ phase \in {"volume", "headers", "outer", "ready"}
    /\ phase # "volume" => hiddenSize # 0
    /\ mount \in {"none", "outer", "protected", "hidden"}
    /\ mount # "none" => phase = "ready"
    /\ shield = IF mount = "protected"
                THEN [start |-> HiddenStart(hiddenSize) - OuterStart,
                      end |-> HiddenEnd - OuterStart]
                ELSE NoShield
    /\ readOnly \in BOOLEAN
    /\ readOnly => mount = "protected"
    /\ writes \in 0 .. MaxWrites

(* The header groups at both ends are never written through a volume. *)
HeadersUntouched ==
    \A b \in Bytes \ OuterBytes : image[b].key = "header"

(* What the two volumes show: writes change exactly the bytes they name,
   and no write under protection changes what the hidden volume holds:
   "the hidden tree survives byte-identical" (THREAT_MODEL.md). *)
View == [v \in Volumes |-> [b \in Bytes |-> Read(v, b)]]
Region == IF phase = "ready" THEN HiddenBytes(hiddenSize) ELSE {}
Promise == INSTANCE TwoVolumes WITH view <- View, region <- Region, stopped <- readOnly
KeepsTwoVolumes == Promise!Spec

(* Both volumes have their boot sector when creation has succeeded; the
   hidden one "must leave the outer with a usable margin". *)
BootSector(v) == Span(v, 0, Unit)
CreatedVolumesOpen ==
    [][phase' = "ready" /\ phase # "ready" =>
          \A v \in Volumes : \A b \in BootSector(v) : Read(v, b)' = Boot]_vars

=============================================================================
