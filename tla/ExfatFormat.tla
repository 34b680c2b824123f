----------------------------- MODULE ExfatFormat -----------------------------
(***************************************************************************)
(* The layout of a freshly formatted exFAT volume                          *)
(* (core/norse-exfat/src/format.rs), and what the reader of such a volume  *)
(* demands of it (core/norse-exfat/src/boot.rs).                           *)
(*                                                                         *)
(* b is the length of the volume in bytes.  Places are counted in sectors  *)
(* of 512 bytes; clusters are numbered from 2.                             *)
(***************************************************************************)
EXTENDS MachineWords

BPS == 512              \* bytes per sector
BOOT_SECTORS == 24      \* two boot regions of twelve sectors
UPCASE_LEN == 5836      \* bytes of the up-case table

CeilDiv(x, y) == (x + y - 1) \div y
RoundUp(x, m) == CeilDiv(x, m) * m

-----------------------------------------------------------------------------
(* Geometry *)

(* The length in MiB, rounded up. *)
MiB(b) == CeilDiv(b, 1048576)

(* choose_spc_shift: clusters of 4 KiB, 32 KiB or 128 KiB. *)
Spc(b) == IF MiB(b) <= 256 THEN 8 ELSE IF MiB(b) <= 32 * 1024 THEN 64 ELSE 256
ClusterLen(b) == BPS * Spc(b)

TotalSectors(b) == b \div BPS
FatOffset(b) == RoundUp(BOOT_SECTORS, Spc(b))
MaxClusters(b) == (TotalSectors(b) - FatOffset(b)) \div Spc(b)

(* Fault: the two reserved FAT entries are forgotten. *)
FatLengthNoReserved(b) == RoundUp(CeilDiv(MaxClusters(b) * 4, BPS), Spc(b))
(* Sized for more clusters than there will be. *)
FatLength(b) == RoundUp(CeilDiv((MaxClusters(b) + 2) * 4, BPS), Spc(b))

HeapOffset(b) == FatOffset(b) + FatLength(b)
Count(b) == (TotalSectors(b) - HeapOffset(b)) \div Spc(b)

BitmapLen(b) == CeilDiv(Count(b), 8)
BitmapClusters(b) == CeilDiv(BitmapLen(b), ClusterLen(b))
UpcaseClusters(b) == CeilDiv(UPCASE_LEN, ClusterLen(b))
UpcaseFirst(b) == 2 + BitmapClusters(b)
RootFirst(b) == UpcaseFirst(b) + UpcaseClusters(b)
UsedClusters(b) == BitmapClusters(b) + UpcaseClusters(b) + 1

(* What format refuses is too small; the FAT and the heap are only computed
   where there is room for them. *)
Fits(b) ==
    /\ TotalSectors(b) > FatOffset(b)
    /\ TotalSectors(b) > HeapOffset(b)
    /\ Count(b) >= UsedClusters(b)
    /\ RootFirst(b) + 1 <= Count(b) + 2

-----------------------------------------------------------------------------
(* What is written, and in which order *)

ClusterStart(c, b) == HeapOffset(b) + (c - 2) * Spc(b)

(* The sectors from lo up to hi. *)
Sectors(lo, hi) == [lo |-> lo, hi |-> hi]
Extent(part, b) ==
    CASE part = "fat"    -> Sectors(FatOffset(b), HeapOffset(b))
      [] part = "bitmap" -> Sectors(ClusterStart(2, b), ClusterStart(UpcaseFirst(b), b))
      [] part = "upcase" -> Sectors(ClusterStart(UpcaseFirst(b), b), ClusterStart(RootFirst(b), b))
      [] part = "root"   -> Sectors(ClusterStart(RootFirst(b), b), ClusterStart(RootFirst(b) + 1, b))
      [] part = "boot"   -> Sectors(0, 12)
      [] part = "boot copy" -> Sectors(12, 24)

(* Fault: the boot region first, as the FAT formatter has it. *)
WriteOrderBootFirst == <<"boot", "boot copy", "fat", "bitmap", "upcase", "root">>
WriteOrder == <<"fat", "bitmap", "upcase", "root", "boot", "boot copy">>

Parts == {"fat", "bitmap", "upcase", "root", "boot", "boot copy"}

-----------------------------------------------------------------------------
(* What a reader relies on *)

(* Where things are, and what the 32-bit fields of the boot region say of it
   (build_boot_region). *)
Geometry(b) ==
    [fatOffset |-> FatOffset(b), fatLength |-> FatLength(b), heapOffset |-> HeapOffset(b),
     count |-> Count(b), rootFirst |-> RootFirst(b)]
Stored(b) ==
    [fatOffset |-> AsU32(FatOffset(b)), fatLength |-> AsU32(FatLength(b)),
     heapOffset |-> AsU32(HeapOffset(b)), count |-> AsU32(Count(b)),
     rootFirst |-> AsU32(RootFirst(b))]

(* read_boot_region accepts the fields; the root cluster is one of the heap. *)
BootAccepted(b) ==
    /\ Stored(b).fatOffset >= 24
    /\ 2 <= Stored(b).rootFirst /\ Stored(b).rootFirst < AsU32(Stored(b).count + 2)
    /\ Spc(b) <= 65536

(* The numbers of its clusters fit into a word. *)
Addressable(b) == Count(b) + 2 < Word

Inside(e, b) == 0 <= e.lo /\ e.lo < e.hi /\ e.hi <= TotalSectors(b)
Apart(e, f) == e.hi <= f.lo \/ f.hi <= e.lo

(* Nothing overlaps and nothing is outside; the FAT has an entry and the
   bitmap a bit for every cluster, the up-case table has room, and the whole
   heap is on the volume; the reader accepts the boot region and takes from it
   the layout that was made. *)
SoundLayout(b) ==
    /\ \A p \in Parts : Inside(Extent(p, b), b)
    /\ \A p, q \in Parts : p # q => Apart(Extent(p, b), Extent(q, b))
    /\ (Count(b) + 2) * 4 <= FatLength(b) * BPS
    /\ Count(b) <= 8 * BitmapLen(b) /\ BitmapLen(b) <= BitmapClusters(b) * ClusterLen(b)
    /\ UPCASE_LEN <= UpcaseClusters(b) * ClusterLen(b)
    /\ HeapOffset(b) + Count(b) * Spc(b) <= TotalSectors(b)
    /\ BootAccepted(b) /\ Stored(b) = Geometry(b)
=============================================================================
