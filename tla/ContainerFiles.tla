--------------------------- MODULE ContainerFiles ---------------------------
(***************************************************************************)
(* Making a container in a file of the host: create_container and          *)
(* create_hidden_container of core/vault-ffi/src/lib.rs, the commands      *)
(* create and create-hidden of core/vaultpony-cli/src/main.rs, and what    *)
(* they call in vault-core, vc-format, vc-fs and norse-exfat.              *)
(*                                                                         *)
(* A call is a list of steps, one per system call or device write, that    *)
(* may fail at each and be killed between any two.  The headers are those  *)
(* of HeaderSearch, sealed and found as there, at offsets into a file that *)
(* has the length it really has; the file systems are the parts of         *)
(* ExfatFormat at their sectors.  Next to the call another thread of the   *)
(* process opens and closes a descriptor.                                  *)
(***************************************************************************)
EXTENDS HeaderSearch, ExfatFormat

CONSTANTS
    Requests,       \* the calls asked for
    Desktop,        \* containers that another program has made
    Fds,            \* descriptor numbers, of which any free one is taken
    Memory,         \* bytes that no vector can have
    MaxDamage       \* bound: parts of headers spoilt after the call

(* "wrong" stands for every password that was not used. *)
ASSUME RequestsAssumption ==
    /\ \A c \in Requests \cup Desktop :
        /\ c.hidden \in BOOLEAN /\ c.size \in 0 .. LongWord - 1
        /\ c.prf \in {Prfs[i] : i \in DOMAIN Prfs} /\ c.scheme \in DOMAIN Schemes
        /\ c.pass # "wrong" /\ c.hiddenPass # "wrong" /\ c.keyfiles \in Seq(Range(c.keyfiles))
    /\ \A c \in Requests :
        /\ c.via \in {"ffi", "cli"} /\ c.named \in BOOLEAN
        /\ c.hiddenSize \in 0 .. LongWord - 1 /\ c.fs \in {"exFAT", "FAT"}
    /\ \A d \in Desktop :
        /\ d.via = "desktop" /\ ~d.hidden
        /\ d.size >= BACKUP_FROM_END /\ d.plain.volume = "outer"
    /\ MaxDamage \in Nat

(* The FAT of a volume that is almost as long as a u64 can say does not fit
   into memory, and its sectors do not fit into a u32. *)
ASSUME MemoryAssumption ==
    /\ Memory \in Nat
    /\ \A b \in LongWord - BACKUP_FROM_END .. LongWord - 1 :
            FatLength(b) * BPS >= Memory /\ TotalSectors(b) >= Word

VARIABLES
    len, at,        \* the file: its length and the header copies, by offset
    laid,           \* the parts of file systems that are intact in it
    unsynced,       \* whether something written is not synced
    fds,            \* descriptor table: who has which number
    call,           \* what was asked for
    todo,           \* the steps the call has left
    handles,        \* the descriptors it will close, the next one last
    target,         \* header of the volume being formatted
    result, damage, stray

file == <<len, at, laid, unsynced>>
vars == <<len, at, laid, unsynced, fds, call, todo, handles, target, result, damage, stray>>

-----------------------------------------------------------------------------
(* Headers *)

GROUP == BACKUP_FROM_END        \* the header group at either end

(* The header of a volume whose data area is of that size. *)
Header(volume, start, size) ==
    [volume |-> volume, start |-> start, size |-> size,
     version |-> 5, minVersion |-> 267, system |-> FALSE, sector |-> 512]
OuterHeader(c) == Header("outer", GROUP, c.size - 2 * GROUP)
HiddenHeader(c) == Header("hidden", AsU64(c.size - 2 * GROUP - c.hiddenSize), c.hiddenSize)

NoHeader == [volume |-> "none"]
NoCall == [via |-> "none"]

Volumes(c) == IF c.hidden THEN {"outer", "hidden"} ELSE {"outer"}
SecretOf(c, v) == IF v = "outer" THEN Secret(c.pass, c.keyfiles) ELSE Secret(c.hiddenPass, <<>>)

-----------------------------------------------------------------------------
(* Scripts *)

Step(op) == <<[op |-> op]>>
Require(condition) == <<[op |-> "require", holds |-> condition]>>
Noise(o) == [op |-> "noise", at |-> o]
Copy(c, v, plain, o) ==
    [op |-> "copy", at |-> o,
     copy |-> Sealed(plain, c.prf, Schemes[c.scheme], SecretOf(c, v), c.pim, o)]
Find(v) == <<[op |-> "find", volume |-> v]>>

(* Fault: any length will do. *)
SizeFitsAny(c) == TRUE
SizeFits(c) == c.size >= 2 * GROUP + 512

(* create_volume: noise into all four places, then the two copies. *)
CreateVolume(c) ==
    LET places == <<0, HIDDEN_OFFSET, c.size - GROUP, c.size - HIDDEN_OFFSET>>
    IN  Require(SizeFits(c))
        \o [i \in 1 .. 4 |-> Noise(places[i])]
        \o [i \in 1 .. 2 |-> Copy(c, "outer", OuterHeader(c), places[2 * i - 1])]
        \o Step("flush")

(* Fault: the whole outer area counts as room for the hidden volume. *)
HiddenFitsOuter(c) == c.hiddenSize >= 512 /\ c.hiddenSize % 512 = 0 /\ c.hiddenSize <= c.size - 2 * GROUP
(* The sum wraps, so that a size just below 2^64 passes too. *)
HiddenFits(c) ==
    c.hiddenSize >= 512 /\ c.hiddenSize % 512 = 0
    /\ AsU64(c.hiddenSize + GROUP) <= c.size - 2 * GROUP

CreateHidden(c) ==
    LET places == <<HIDDEN_OFFSET, c.size - HIDDEN_OFFSET>>
    IN  Require(HiddenFits(c))
        \o [i \in 1 .. 2 |-> Copy(c, "hidden", HiddenHeader(c), places[i])]
        \o Step("flush")

(* The vendored FAT formatter writes its boot sector first, on FAT32 with an
   information sector and a copy; then the tables, then the root directory. *)
FatOrder == <<"fat boot", "fat tables", "fat root">>

(* Sectors per cluster, for what is taken for FAT12, FAT16 and FAT32. *)
FatCluster(b) ==
    LET s == TotalSectors(b)
    IN  IF s < 8192 THEN IF s <= 2048 THEN 1 ELSE IF s <= 4096 THEN 2 ELSE 4
        ELSE IF s < 1048576
        THEN IF s <= 32768 THEN 2 ELSE IF s <= 262144 THEN 4 ELSE IF s <= 524288 THEN 8 ELSE 16
        ELSE IF s <= 16777216 THEN 8 ELSE IF s <= 33554432 THEN 16 ELSE IF s <= 67108864 THEN 32 ELSE 64

(* kind is the number of bits of a FAT entry. *)
Reserved(kind) == IF kind = 32 THEN 8 ELSE 1
RootSectors(kind) == IF kind = 32 THEN 0 ELSE 32
FatRoom(kind, b) == TotalSectors(b) - Reserved(kind) - RootSectors(kind)
FatTables(kind, b) ==
    2 * CeilDiv(FatRoom(kind, b) + 2 * FatCluster(b), ((4096 * FatCluster(b)) \div kind) + 2)
FatClusters(kind, b) == (FatRoom(kind, b) - FatTables(kind, b)) \div FatCluster(b)
KindOf(clusters) == IF clusters < 4085 THEN 12 ELSE IF clusters < 65525 THEN 16 ELSE 32

(* try_fs_geometry, and the first kind it accepts. *)
KindFits(kind, b) ==
    /\ FatRoom(kind, b) > 8
    /\ KindOf(FatClusters(kind, b)) = kind /\ FatClusters(kind, b) <= 268435444
FatKind(b) == IF KindFits(32, b) THEN 32 ELSE IF KindFits(16, b) THEN 16 ELSE 12
FatFits(b) == TotalSectors(b) < Word /\ KindFits(FatKind(b), b)

(* The root directory of FAT32 is the first cluster. *)
FatExtent(part, b) ==
    LET kind == FatKind(b)
        tables == Reserved(kind) + FatTables(kind, b)
    IN  CASE part = "fat boot"   -> Sectors(0, Reserved(kind))
          [] part = "fat tables" -> Sectors(Reserved(kind), tables)
          [] part = "fat root"   ->
                Sectors(tables, tables + (IF kind = 32 THEN FatCluster(b) ELSE RootSectors(kind)))

Format(c) ==
    LET order == IF c.fs = "exFAT" THEN WriteOrder ELSE FatOrder
    IN  Step("fit")
        \o [i \in DOMAIN order |-> [op |-> "lay", part |-> order[i]]]
        \o Step("flush")

(* format_data finds the volume by its secret. *)
FormatData(c, v) == Find(v) \o Format(c)

(* Every pass of a creation with a hidden volume has a device of its own. *)
CreateContainer(c) ==
    IF c.hidden
    THEN Step("device") \o CreateVolume(c) \o CreateHidden(c) \o Step("drop")
         \o Step("device") \o FormatData(c, "outer") \o Step("drop")
         \o Step("device") \o FormatData(c, "hidden") \o Step("drop")
    ELSE CreateVolume(c) \o FormatData(c, "outer")

(* The command line empties the file it is given; for the library the
   document is new, and a refused ftruncate is ignored. *)
Script(c) ==
    IF c.via = "ffi" THEN Step("try set_len") \o CreateContainer(c)
    ELSE Step("truncate") \o Step("set_len")
         \o (IF c.hidden THEN <<>> ELSE Step("device")) \o CreateContainer(c)

-----------------------------------------------------------------------------
(* Descriptors *)

Free == {f \in Fds : fds[f] = "free"}
Running == todo # <<>> \/ handles # <<>>

(* Fault: the number is taken over by the device, and the File still has it. *)
OwnedTwice(f) == <<f, f>>
(* into_raw_fd gives the number up, so that one owner closes it. *)
Owned(f) == <<f>>

-----------------------------------------------------------------------------
(* Steps *)

Init ==
    /\ fds = [f \in Fds |-> "free"]
    /\ todo = <<>> /\ handles = <<>> /\ target = NoHeader
    /\ laid = {} /\ unsynced = FALSE
    /\ damage = 0 /\ stray = FALSE
    /\ \/ call = NoCall /\ result = "none" /\ len = 0 /\ at = [o \in {} |-> 0]
       \/ \E d \in Desktop :
            /\ call = d /\ result = "desktop" /\ len = d.size
            /\ at = [o \in {0, d.size - GROUP} |->
                        Sealed(d.plain, d.prf, Schemes[d.scheme], SecretOf(d, "outer"), d.pim, o)]

(* Names are looked up first.  create_hidden_container returns before it owns
   the descriptor; the command line also refuses equal passwords. *)
Refused(c) == ~c.named \/ (c.via = "cli" /\ c.hidden /\ c.pass = c.hiddenPass)

Begin ==
    /\ call = NoCall
    /\ \E c \in Requests, f \in Free :
        /\ call' = c
        /\ todo' = IF Refused(c) THEN <<>> ELSE Script(c)
        /\ result' = IF Refused(c) THEN "failed" ELSE "ok"
        /\ IF c.via = "cli" THEN UNCHANGED <<fds, handles>>
           ELSE /\ fds' = [fds EXCEPT ![f] = "call"]
                /\ handles' = IF Refused(c) /\ c.hidden THEN <<>> ELSE Owned(f)
    /\ UNCHANGED <<file, target, damage, stray>>

(* The next step of the call is one of these. *)
At(ops) == todo # <<>> /\ Head(todo).op \in ops
Continue == todo' = Tail(todo) /\ UNCHANGED <<call, result, damage, stray>>

TruncateFile ==
    /\ At({"truncate"}) /\ Continue
    /\ len' = 0 /\ at' = [o \in {} |-> 0] /\ laid' = {}
    /\ UNCHANGED <<unsynced, fds, handles, target>>

SetLen ==
    /\ At({"set_len", "try set_len"}) /\ Continue
    /\ len' = call.size
    /\ UNCHANGED <<at, laid, unsynced, fds, handles, target>>

SetLenRefused ==
    /\ At({"try set_len"}) /\ Continue
    /\ UNCHANGED <<file, fds, handles, target>>

RequireHolds ==
    /\ At({"require"}) /\ Head(todo).holds /\ Continue
    /\ UNCHANGED <<file, fds, handles, target>>

WriteNoise ==
    /\ At({"noise"}) /\ Continue
    /\ at' = [o \in DOMAIN at \ {Head(todo).at} |-> at[o]]
    /\ len' = Max({len, Head(todo).at + REGION}) /\ unsynced' = TRUE
    /\ UNCHANGED <<laid, fds, handles, target>>

WriteCopy ==
    /\ At({"copy"}) /\ Continue
    /\ at' = [o \in DOMAIN at \cup {Head(todo).at} |->
                IF o = Head(todo).at THEN Head(todo).copy ELSE at[o]]
    /\ len' = Max({len, Head(todo).at + REGION}) /\ unsynced' = TRUE
    /\ UNCHANGED <<laid, fds, handles, target>>

Flush ==
    /\ At({"flush"}) /\ Continue
    /\ unsynced' = FALSE
    /\ UNCHANGED <<len, at, laid, fds, handles, target>>

Search(c, v) == FindHeader(at, len, SecretOf(c, v), c.pim)

FindVolume ==
    /\ At({"find"}) /\ Search(call, Head(todo).volume).out = "found" /\ Continue
    /\ target' = Search(call, Head(todo).volume).header
    /\ UNCHANGED <<file, fds, handles>>

(* What the formatter accepts and has the memory for: an allocation that is
   refused aborts the process. *)
FsFits(c, h) ==
    IF c.fs = "exFAT" THEN Fits(h.size) /\ FatLength(h.size) * BPS < Memory ELSE FatFits(h.size)
FitsTarget ==
    /\ At({"fit"}) /\ Continue
    /\ FsFits(call, target)
    /\ UNCHANGED <<file, fds, handles, target>>

(* Where a part of a file system lies in the file. *)
Laid(part, h) ==
    LET e == IF part \in Parts THEN Extent(part, h.size) ELSE FatExtent(part, h.size)
    IN  [part |-> part, header |-> h, lo |-> h.start + BPS * e.lo, hi |-> h.start + BPS * e.hi]

(* What another volume had in its place is gone. *)
Lay ==
    /\ At({"lay"}) /\ Continue
    /\ LET new == Laid(Head(todo).part, target)
       IN  /\ laid' = {p \in laid : p.header = target \/ Apart(p, new)} \cup {new}
           /\ len' = Max({len, new.hi})
    /\ unsynced' = TRUE
    /\ UNCHANGED <<at, fds, handles, target>>

(* A dup'd or newly opened descriptor, for a pass. *)
OpenDevice ==
    /\ At({"device"}) /\ Continue
    /\ \E f \in Free :
        /\ fds' = [fds EXCEPT ![f] = "call"]
        /\ handles' = handles \o Owned(f)
    /\ UNCHANGED <<file, target>>

Close(f) ==
    /\ fds' = [fds EXCEPT ![f] = "free"]
    /\ stray' = (stray \/ fds[f] # "call")
    /\ handles' = Front(handles)

DropDevice ==
    /\ At({"drop"}) /\ handles # <<>> /\ Close(Last(handles))
    /\ todo' = Tail(todo)
    /\ UNCHANGED <<file, call, target, result, damage>>

(* What the call still has is dropped when it returns. *)
DropLast ==
    /\ todo = <<>> /\ handles # <<>> /\ Close(Last(handles))
    /\ UNCHANGED <<file, call, todo, target, result, damage>>

Advance ==
    \/ TruncateFile \/ SetLen \/ SetLenRefused \/ RequireHolds \/ WriteNoise \/ WriteCopy
    \/ Flush \/ FindVolume \/ FitsTarget \/ Lay \/ OpenDevice \/ DropDevice \/ DropLast

(* A check that does not hold, or an error of the device or the formatter:
   the call returns it. *)
Fail ==
    /\ todo # <<>> /\ Head(todo).op \notin {"try set_len", "drop"}
    /\ Head(todo).op = "require" => ~Head(todo).holds
    /\ todo' = <<>> /\ result' = "failed"
    /\ UNCHANGED <<file, fds, call, handles, target, damage, stray>>

(* The process is killed, its descriptors are closed. *)
Kill ==
    /\ Running
    /\ todo' = <<>> /\ handles' = <<>> /\ fds' = [f \in Fds |-> "free"]
    /\ result' = "killed"
    /\ UNCHANGED <<file, call, target, damage, stray>>

OtherOpens ==
    /\ Running /\ \A f \in Fds : fds[f] # "other"
    /\ \E f \in Free : fds' = [fds EXCEPT ![f] = "other"]
    /\ UNCHANGED <<file, call, todo, handles, target, result, damage, stray>>

OtherCloses ==
    /\ \E f \in Fds : fds[f] = "other" /\ fds' = [fds EXCEPT ![f] = "free"]
    /\ UNCHANGED <<file, call, todo, handles, target, result, damage, stray>>

(* A part of a header copy of a finished container is spoilt. *)
Damage ==
    /\ result \in {"ok", "desktop"} /\ ~Running /\ damage < MaxDamage
    /\ \E o \in DOMAIN at : \E p \in {"salt", "magic", "fields", "keys"} \ at[o].spoilt :
            at' = [at EXCEPT ![o].spoilt = @ \cup {p}]
    /\ damage' = damage + 1
    /\ UNCHANGED <<len, laid, unsynced, fds, call, todo, handles, target, result, stray>>

Next == Begin \/ Advance \/ Fail \/ Kill \/ OtherOpens \/ OtherCloses \/ Damage

Spec == Init /\ [][Next]_vars

-----------------------------------------------------------------------------
(* Properties *)

TypeOK ==
    /\ len \in Nat /\ DOMAIN at \subseteq Nat /\ damage \in 0 .. MaxDamage /\ unsynced \in BOOLEAN /\ stray \in BOOLEAN
    /\ fds \in [Fds -> {"free", "call", "other"}]
    /\ call \in Requests \cup Desktop \cup {NoCall}
    /\ result \in {"none", "desktop", "ok", "failed", "killed"}
    /\ \A i \in DOMAIN handles : handles[i] \in Fds

Done == call # NoCall /\ ~Running

(* The offsets the search reaches that hold a header under that secret. *)
CopiesUnder(secret) ==
    {o \in DOMAIN at : /\ \E i \in DOMAIN Places(len) : Places(len)[i] = o
                       /\ SecretOf(call, at[o].plain.volume) = secret}

Overlaid(p) == call.hidden /\ p.header.volume = "outer" /\ p.hi > HiddenHeader(call).start

(* When a creation reports success everything it wrote is synced and each
   volume opens under its own secret, whatever the order of its keyfiles,
   from any one of its copies that the length of the file lets the search
   reach (both of them if the file got its length), with the scheme and the
   PRF asked for; its file system is complete, except what of an outer one
   lies where the hidden volume was put (create_container,
   create_container_with_hidden of core/vault-core/src/session.rs). *)
CreatedOpens ==
    (result = "ok" /\ Done /\ damage = 0) =>
        /\ ~unsynced
        /\ len = call.size => Cardinality(DOMAIN at) = 2 * Cardinality(Volumes(call))
        /\ \A v \in Volumes(call) :
            (call.hidden => SecretOf(call, "outer") # SecretOf(call, "hidden")) =>
                LET h == IF v = "outer" THEN OuterHeader(call) ELSE HiddenHeader(call)
                    opened == Outcome("found", h, call.scheme, call.prf)
                    parts == IF call.fs = "exFAT" THEN Parts ELSE Range(FatOrder)
                IN  /\ Search(call, v) = opened
                    /\ v = "outer" => \A p \in Bijection(DOMAIN call.keyfiles, DOMAIN call.keyfiles) :
                            LET other == [i \in DOMAIN call.keyfiles |-> call.keyfiles[p[i]]]
                            IN  FindHeader(at, len, Secret(call.pass, other), call.pim) = opened
                    /\ \A o \in CopiesUnder(SecretOf(call, v)) :
                            FindHeader([q \in {o} |-> at[o]], len, SecretOf(call, v), call.pim) = opened
                    /\ CopiesUnder(SecretOf(call, v)) # {}
                    /\ \A q \in parts : Laid(q, h) \in laid \/ Overlaid(Laid(q, h))

(* An exFAT boot region is never on the medium before the tables it points
   to, wherever the formatting fails or is killed, so that a volume that
   mounts is whole (format of core/norse-exfat/src/format.rs). *)
BootMeansComplete ==
    \A p \in laid : p.part = "boot" =>
        \A q \in {"fat", "bitmap", "upcase", "root"} :
            Laid(q, p.header) \in laid \/ Overlaid(Laid(q, p.header))

(* The search finds a header exactly when an acceptable copy under the secret
   is intact, wherever it is and whatever the others say, and then one of
   those; it says "not found or wrong password" exactly when no copy shows
   its magic; a wrong secret finds nothing (find_header of core/vc-format). *)
VerdictsAreHonest ==
    (Done /\ ~Unreadable(len)) =>
        /\ \A v \in Volumes(call) :
            LET mine == CopiesUnder(SecretOf(call, v))
                shows(o) == at[o].spoilt \cap {"salt", "magic"} = {}
                good == {o \in mine : at[o].spoilt = {} /\ Parse(at[o].plain, <<>>, {}) = "found"}
                verdict == Search(call, v)
            IN  /\ verdict.out = "found" <=> good # {}
                /\ verdict.out = "found" =>
                        \E o \in good : verdict = Outcome("found", at[o].plain, call.scheme, call.prf)
                /\ verdict.out = Miss <=> \A o \in mine : ~shows(o)
        /\ FindHeader(at, len, Secret("wrong", call.keyfiles), call.pim).out = Miss

(* The call closes every descriptor it opened or was given and never one that
   is not its own, however it ends; only create_hidden_container asked for a
   name it does not know leaves its descriptor open
   (core/vault-ffi/src/lib.rs). *)
Leaks == call.via = "ffi" /\ call.hidden /\ ~call.named
DescriptorsSettled == ~stray /\ (Done /\ ~Leaks => \A f \in Fds : fds[f] # "call")

(* Every part of a file system lies in the data area of its volume and clear
   of both header groups, and a hidden volume's is in the outer area, without
   its last 128 KiB (create_hidden of core/vc-format/src/create.rs). *)
VolumesKeepToTheirAreas ==
    \A p \in laid :
        /\ p.header.start <= p.lo /\ p.hi <= p.header.start + p.header.size
        /\ GROUP <= p.lo /\ p.hi <= call.size - GROUP
        /\ p.header.volume = "hidden" => p.hi <= call.size - 2 * GROUP

(* Of the exFAT volumes that get formatted exactly those whose cluster numbers
   fit into 32 bits, which holds below 512 TiB, have a layout the reader and
   the allocator can rely on (format of core/norse-exfat/src/format.rs, which
   does not check this, and read_boot_region of boot.rs, which refuses the
   others or takes a shorter heap from them). *)
LayoutsAreSound ==
    \A p \in laid : p.part \in Parts =>
        (SoundLayout(p.header.size) <=> Addressable(p.header.size))
=============================================================================
