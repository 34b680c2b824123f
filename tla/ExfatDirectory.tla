--------------------------- MODULE ExfatDirectory ---------------------------
(***************************************************************************)
(* Directories of the exFAT driver, slot by slot (core/norse-exfat/src/    *)
(* write.rs and dir.rs): a directory is a chain of clusters of 32-byte     *)
(* slots, a name is a run of slots (a file entry, a stream entry and the   *)
(* name entries), and every slot is a device write of its own.             *)
(*                                                                         *)
(* Two readers look at these slots.  The write path finds a name with      *)
(* locate, which trusts what it meets; listings and reads go through       *)
(* read_directory, which checks every entry set.                           *)
(*                                                                         *)
(* A call reads the disk and decides; nothing runs between its reads and   *)
(* its writes, so it starts by turning what it read into the script of the *)
(* writes it will make, which then happen one by one, in order, until the  *)
(* call returns or the power fails.  What a file's clusters hold is in     *)
(* ExfatVolume: here a file is its entry, and a write to it is the update  *)
(* of that entry.                                                          *)
(***************************************************************************)
EXTENDS Naturals, Sequences, FiniteSets, Functions

CONSTANTS
    Files,          \* names given to files
    Dirs,           \* names given to directories, all of them in the root
    LongNames,      \* the names that fill two name entries
    Root,           \* stands for the root directory in a path
    None,           \* no node, no entry, no request, no second path
    ClusterCount,   \* clusters of the heap that directories may take
    PerCluster,     \* slots in a cluster
    SystemSlots,    \* system entries at the start of the root
    END_OF_CHAIN,   \* the FAT value that ends a chain (0xFFFFFFFF)
    Lens,           \* the lengths a file can have
    Fresh,          \* whether the free clusters of the volume start as zeros
    Ops,            \* the calls the environment makes
    MaxCuts         \* bound on the number of power cuts

Names == Files \cup Dirs
Kinds == {"create", "mkdir", "update", "remove", "rename"}

ASSUME NamesAssumption ==
    /\ Files \cap Dirs = {} /\ LongNames \subseteq Names
    /\ Root \notin Names /\ None \notin Names \cup {Root}
ASSUME SizesAssumption ==
    /\ ClusterCount \in Nat \ {0}
    /\ END_OF_CHAIN \in Nat /\ END_OF_CHAIN > ClusterCount + 1
    /\ PerCluster \in Nat /\ PerCluster >= (IF LongNames = {} THEN 3 ELSE 4)
    /\ SystemSlots \in 0 .. PerCluster
    /\ Lens \subseteq Nat /\ 0 \in Lens
ASSUME OpsAssumption == Ops \subseteq Kinds /\ Fresh \in BOOLEAN /\ MaxCuts \in Nat

VARIABLES
    slot,       \* slot[c][i]: the i-th slot of cluster c
    fat,        \* fat[c]: the FAT entry of cluster c
    bitmap,     \* bitmap[c]: the allocation bit of cluster c
    todo,       \* the device writes the call in progress has still to make
    call,       \* that call
    mishap,     \* history: some call was cut short after it had written
    cuts        \* number of power cuts so far

disk == <<slot, fat, bitmap>>
vars == <<disk, todo, call, mishap, cuts>>

-----------------------------------------------------------------------------
(* Slots.  `live` is the in-use bit of the entry type; the end mark (type  *)
(* 0) has none.  A checksum is what it was computed over.                  *)

Clusters == 2 .. (ClusterCount + 1)
RootCluster == 2
Index == 1 .. PerCluster
Addresses == Clusters \X Index

EndSlot == [type |-> "end", live |-> FALSE]
SystemSlot == [type |-> "system", live |-> TRUE]
FileSlot(dir, rest) ==
    [type |-> "file", live |-> TRUE, secondary |-> Len(rest), dir |-> dir, sum |-> rest]
StreamSlot(n, first, len) ==
    [type |-> "stream", live |-> TRUE, name_len |-> n, first |-> first, len |-> len]
NameSlot(n, i) == [type |-> "name", live |-> TRUE, name |-> n, part |-> i]
(* What a free cluster may hold: bytes that look like the start of an entry
   set. *)
StaleSlot ==
    [type |-> "file", live |-> TRUE, secondary |-> 2, dir |-> FALSE, sum |-> << >>]

NameEntries(n) == IF n \in LongNames THEN 2 ELSE 1
MaxSet == 4     \* slots of the longest entry set
NameRun(n) == [i \in 1 .. NameEntries(n) |-> NameSlot(n, i)]

NameSlots == [type : {"name"}, live : BOOLEAN, name : Names, part : 1 .. 2]
StreamSlots ==
    [type : {"stream"}, live : BOOLEAN, name_len : 1 .. 2,
     first : Clusters \cup {0}, len : Nat]
FileSlots ==
    [type : {"file"}, live : BOOLEAN, secondary : 2 .. 3, dir : BOOLEAN,
     sum : Seq(NameSlots \cup StreamSlots)]
Slots == {EndSlot, SystemSlot} \cup FileSlots \cup StreamSlots \cup NameSlots

(* The entry set of name n: the checksum in its file entry covers the rest. *)
EntrySet(n, dir, first, len) ==
    LET rest == <<StreamSlot(NameEntries(n), first, len)>> \o NameRun(n)
    IN  <<FileSlot(dir, rest)>> \o rest

-----------------------------------------------------------------------------
(* Reading *)

(* read_chain: the clusters from `first` on. *)
Extended[chain \in Seq(Clusters)] ==
    LET next == fat[chain[Len(chain)]]
    IN  IF next \in Clusters THEN Append(chain, next) ELSE chain
Chain(first) ==
    LET upTo[k \in 1 .. ClusterCount] ==
            IF k = 1 THEN <<first>> ELSE Extended[upTo[k - 1]]
    IN  upTo[ClusterCount]

(* dir_slots: the addresses of a directory's slots, in chain order. *)
SlotsOf[chain \in Seq(Clusters)] ==
    [i \in 1 .. Len(chain) * PerCluster |->
        <<chain[(i - 1) \div PerCluster + 1], ((i - 1) % PerCluster) + 1>>]
DirSlots(first) == SlotsOf[Chain(first)]

(* In what follows d is a sequence of addresses.  What is there: *)
At(a) == slot[a[1]][a[2]]
Read(d) == [i \in DOMAIN d |-> At(d[i])]

(* Both readers step over an entry set as a whole and over any other slot
   one at a time.  Scanned[d]: the indices of d they stop at, up to the first
   end mark they meet; SetsOf[d]: those where a whole entry set starts. *)
IsFile(s) == s.live /\ s.type = "file"
After(d, i) == IF IsFile(At(d[i])) THEN i + 1 + At(d[i]).secondary ELSE i + 1
Further(d) == [stops \in Seq(Nat) |->
    LET last == stops[Len(stops)]
    IN  IF At(d[last]).type = "end" \/ After(d, last) > Len(d) THEN stops
        ELSE Append(stops, After(d, last))]
Members[s \in Seq(Nat)] == Range(s)
Scanned[d \in Seq(Addresses)] ==
    LET upTo[k \in 1 .. Len(d)] == IF k = 1 THEN <<1>> ELSE Further(d)[upTo[k - 1]]
    IN  IF d = << >> THEN {} ELSE Members[upTo[Len(d)]]

Fits(d, i) == i + At(d[i]).secondary <= Len(d)
SetsOf[d \in Seq(Addresses)] == {i \in Scanned[d] : IsFile(At(d[i])) /\ Fits(d, i)}

(* The name entries of the set at index i spell name n. *)
Spells(d, i, n) ==
    /\ At(d[i]).secondary = 1 + NameEntries(n)
    /\ At(d[i + 1]).type = "stream" /\ At(d[i + 1]).name_len = NameEntries(n)
    /\ \A k \in 1 .. NameEntries(n) : At(d[i + 1 + k]) = NameSlot(n, k)
Hits(n) == [d \in Seq(Addresses) |-> {i \in SetsOf[d] : Spells(d, i, n)}]

(* locate: the first entry set that spells the name; no checksum is looked at. *)
Least[S \in SUBSET Nat] == CHOOSE i \in S : \A j \in S : i <= j
Located(d) == [i \in Nat |->
    [at |-> SubSeq(d, i, i + At(d[i]).secondary), dir |-> At(d[i]).dir,
     first |-> At(d[i + 1]).first, len |-> At(d[i + 1]).len]]
FirstHit(d) == [hits \in SUBSET Nat |->
    IF hits = {} THEN None ELSE Located(d)[Least[hits]]]
LocateIn(n) == [d \in Seq(Addresses) |-> FirstHit(d)[Hits(n)[d]]]
Locate(first, n) == LocateIn(n)[DirSlots(first)]

(* walk_raw_entries: the slots before the first end mark and within the
   length that the directory's own entry records. *)
Leading(len) == [d \in Seq(Addresses) |->
    LET Open(k) == k <= len /\ \A i \in 1 .. k : At(d[i]).type # "end"
        n == CHOOSE k \in 0 .. Len(d) : Open(k) /\ (k < Len(d) => ~Open(k + 1))
    IN  SubSeq(d, 1, n)]
RawEntries(first, len) == Leading(len)[DirSlots(first)]

(* read_directory accepts a set that is whole and whose checksum matches. *)
SetOK(d, i) ==
    /\ At(d[i]).secondary >= 2 /\ Fits(d, i)
    /\ At(d[i]).sum = Read(SubSeq(d, i + 1, i + At(d[i]).secondary))
ListFails(d) == \E i \in Scanned[d] : IsFile(At(d[i])) /\ ~SetOK(d, i)

(* The whole chain, as for the root and for the emptiness test of remove. *)
Unbounded == ClusterCount * PerCluster
Empty(first) ==
    LET d == RawEntries(first, Unbounded)
    IN  \A i \in Scanned[d] : ~IsFile(At(d[i]))

(* EntryLoc and DirHandle: where an entry set is and what it says; the
   directory a path names, with its own entry (the root has none). *)
EntryLocs ==
    [at : Seq(Addresses), dir : BOOLEAN, first : Clusters \cup {0}, len : Nat]
Handles == [first : Clusters, entry : EntryLocs \cup {None}]
HandleOf[e \in EntryLocs \cup {None}] ==
    IF e # None /\ e.dir THEN [first |-> e.first, entry |-> e] ELSE None

(* resolve_dir, and locate in the directory it found. *)
DirHandle(m) ==
    IF m = Root THEN [first |-> RootCluster, entry |-> None]
    ELSE HandleOf[Locate(RootCluster, m)]
FindIn(n) == [h \in Handles \cup {None} |->
    IF h = None THEN None ELSE Locate(h.first, n)]
Find(p) == FindIn(p[2])[DirHandle(p[1])]

-----------------------------------------------------------------------------
(* Device writes *)

WriteSlot(a, s) == [op |-> "slot", at |-> a, val |-> s]
ClearSlot(a) == [op |-> "clear", at |-> a]
SetBit(c, on) == [op |-> "bit", cluster |-> c, val |-> on]
SetFat(c, next) == [op |-> "fat", cluster |-> c, val |-> next]
ZeroCluster(c) == [op |-> "zero", cluster |-> c]
Flush == [op |-> "flush"]

(* find_free from cluster 2 on, leaving out what the call has taken. *)
FreeClusters(taken) == {c \in Clusters : ~bitmap[c] /\ c \notin taken}
FirstFree(taken) ==
    CHOOSE c \in FreeClusters(taken) : \A d \in FreeClusters(taken) : c <= d

(* rewrite_stream: the file entry with the new checksum, then the stream. *)
RewriteStream(e, len) ==
    LET stream == [At(e.at[2]) EXCEPT !.len = len]
        rest == [k \in 1 .. (Len(e.at) - 1) |-> IF k = 1 THEN stream ELSE At(e.at[k + 1])]
    IN  << WriteSlot(e.at[1], [At(e.at[1]) EXCEPT !.sum = rest]), WriteSlot(e.at[2], stream) >>

Usable(s) == ~s.live

(* find_or_make_slot_run: the first k free slots in a row inside a cluster. *)
Runs(first, k) ==
    LET d == DirSlots(first)
    IN  {i \in DOMAIN d :
            /\ ((i - 1) % PerCluster) + k <= PerCluster
            /\ \A j \in i .. (i + k - 1) : Usable(At(d[j]))}
FirstRun(first, k) ==
    LET i == Least[Runs(first, k)] IN SubSeq(DirSlots(first), i, i + k - 1)

(* Fault: the directory's own entry keeps the old length. *)
RecordGrowthNot(h) == << >>
(* A subdirectory that grew gets its new length; the root has no entry. *)
RecordGrowth(h) ==
    IF h.entry = None THEN << >>
    ELSE Append(RewriteStream(h.entry, h.entry.len + PerCluster), Flush)

(* Fault: the old tail is not linked to the new cluster. *)
GrowUnlinked(h, c) ==
    << SetBit(c, TRUE), SetFat(c, END_OF_CHAIN), ZeroCluster(c), Flush >> \o RecordGrowth(h)
(* extend_chain by one cluster, zeroed after it is linked. *)
Grow(h, c) ==
    LET chain == Chain(h.first)
    IN  << SetBit(c, TRUE), SetFat(c, END_OF_CHAIN), SetFat(chain[Len(chain)], c),
           ZeroCluster(c), Flush >>
            \o RecordGrowth(h)

(* place_entry_set: the slots are written one by one, then flushed. *)
Fill(at, set) == [k \in 1 .. Len(set) |-> WriteSlot(at[k], set[k])] \o << Flush >>
Room(h, set, taken) == Runs(h.first, Len(set)) # {} \/ FreeClusters(taken) # {}
Place(h, set, taken) ==
    IF Runs(h.first, Len(set)) # {} THEN Fill(FirstRun(h.first, Len(set)), set)
    ELSE LET c == FirstFree(taken)
         IN  Grow(h, c) \o Fill([k \in 1 .. Len(set) |-> <<c, k>>], set)

(* remove and rename clear the in-use bit of every slot of the set. *)
Clear(e) == [k \in 1 .. Len(e.at) |-> ClearSlot(e.at[k])] \o << Flush >>

(* Fault: only the first cluster is freed. *)
FreeChainFirst(first) == << SetBit(first, FALSE), SetFat(first, 0), Flush >>
(* Fault: the bit of the next cluster is cleared. *)
FreeChainNext(first) ==
    LET chain == Chain(first)
    IN  [k \in 1 .. 2 * Len(chain) |->
            IF k % 2 = 1 THEN SetBit(fat[chain[(k + 1) \div 2]], FALSE)
            ELSE SetFat(chain[k \div 2], 0)] \o << Flush >>
(* free_chain of the whole chain of a directory. *)
FreeChain(first) ==
    LET chain == Chain(first)
    IN  [k \in 1 .. 2 * Len(chain) |->
            IF k % 2 = 1 THEN SetBit(chain[(k + 1) \div 2], FALSE)
            ELSE SetFat(chain[k \div 2], 0)] \o << Flush >>

-----------------------------------------------------------------------------
(* Calls.  A call that is refused writes nothing and is not a step.        *)

NoCall == [kind |-> "none", path |-> None, to |-> None, len |-> 0, ok |-> TRUE, slots |-> 0]
Idle == call.kind = "none"
Begin(kind, p, to, len, ok, script) ==
    /\ kind \in Ops
    /\ call' = [kind |-> kind, path |-> p, to |-> to, len |-> len, ok |-> ok,
                slots |-> Cardinality({k \in DOMAIN script : script[k].op = "clear"})]
    /\ todo' = script
    /\ UNCHANGED <<disk, mishap, cuts>>

(* In what follows, h is the directory a path leads to and e the entry
   found there, or None. *)
(* Fault: a name that is taken is created again. *)
VacantAlways(e) == TRUE
Vacant(e) == e = None

(* create_file *)
Create(p, h, e) ==
    LET set == EntrySet(p[2], FALSE, 0, 0)
    IN  /\ Vacant(e) /\ Room(h, set, {})
        /\ Begin("create", p, None, 0, TRUE, Place(h, set, {}))

(* make_dir: one zeroed cluster first.  When the parent then finds no room
   the cluster stays taken. *)
FirstCluster(c) == << SetBit(c, TRUE), SetFat(c, END_OF_CHAIN), ZeroCluster(c), Flush >>
MakeDir(p, h, e) ==
    LET c == FirstFree({})
        set == EntrySet(p[2], TRUE, c, PerCluster)
        room == Room(h, set, {c})
    IN  /\ Vacant(e) /\ FreeClusters({}) # {}
        /\ Begin("mkdir", p, None, 0, room,
                 FirstCluster(c) \o (IF room THEN Place(h, set, {c}) ELSE << >>))

(* write_file and truncate_file, seen from the directory *)
Update(p, e, len) ==
    /\ e # None /\ ~e.dir
    /\ Begin("update", p, None, len, TRUE, RewriteStream(e, len) \o << Flush >>)

(* Fault: a directory is removed whatever it holds. *)
RemovableAlways(e) == TRUE
Removable(e) == e.dir => Empty(e.first)
(* Fault: the clusters are freed before the entry set is cleared. *)
RemoveFreeFirst(p, e) ==
    /\ e # None /\ Removable(e)
    /\ Begin("remove", p, None, 0, TRUE,
             (IF e.dir THEN FreeChain(e.first) ELSE << >>) \o Clear(e))
Remove(p, e) ==
    /\ e # None /\ Removable(e)
    /\ Begin("remove", p, None, 0, TRUE,
             Clear(e) \o (IF e.dir THEN FreeChain(e.first) ELSE << >>))

(* Fault: the old entry set is cleared first. *)
RenameClearFirst(p, e, q) ==
    LET h == DirHandle(q[1])
        set == EntrySet(q[2], e.dir, e.first, e.len)
    IN  /\ e # None /\ h # None /\ Vacant(FindIn(q[2])[h])
        /\ Room(h, set, {})
        /\ Begin("rename", p, q, 0, TRUE, Clear(e) \o Place(h, set, {}))
(* rename: a second entry set at the same clusters, then the first is
   cleared. *)
Rename(p, e, q) ==
    LET h == DirHandle(q[1])
        set == EntrySet(q[2], e.dir, e.first, e.len)
    IN  /\ e # None /\ h # None /\ Vacant(FindIn(q[2])[h])
        /\ Room(h, set, {})
        /\ Begin("rename", p, q, 0, TRUE, Place(h, set, {}) \o Clear(e))

-----------------------------------------------------------------------------
(* One device write; the call returns with the last one. *)

Return(m) == call' = NoCall /\ todo' = << >> /\ mishap' = m
Proceed ==
    /\ IF Len(todo) > 1
       THEN todo' = Tail(todo) /\ UNCHANGED <<call, mishap>>
       ELSE Return(mishap \/ ~call.ok)
    /\ UNCHANGED cuts

Doing(op) == todo # << >> /\ Head(todo).op = op

DoSlot ==
    /\ Doing("slot")
    /\ LET w == Head(todo) IN slot' = [slot EXCEPT ![w.at[1]][w.at[2]] = w.val]
    /\ UNCHANGED <<fat, bitmap>>
    /\ Proceed

DoClear ==
    /\ Doing("clear")
    /\ LET w == Head(todo) IN slot' = [slot EXCEPT ![w.at[1]][w.at[2]].live = FALSE]
    /\ UNCHANGED <<fat, bitmap>>
    /\ Proceed

DoZero ==
    /\ Doing("zero")
    /\ slot' = [slot EXCEPT ![Head(todo).cluster] = [i \in Index |-> EndSlot]]
    /\ UNCHANGED <<fat, bitmap>>
    /\ Proceed

DoFat ==
    /\ Doing("fat")
    /\ fat' = [fat EXCEPT ![Head(todo).cluster] = Head(todo).val]
    /\ UNCHANGED <<slot, bitmap>>
    /\ Proceed

DoBit ==
    /\ Doing("bit")
    /\ bitmap' = [bitmap EXCEPT ![Head(todo).cluster] = Head(todo).val]
    /\ UNCHANGED <<slot, fat>>
    /\ Proceed

DoFlush == Doing("flush") /\ UNCHANGED disk /\ Proceed

(* The power fails, or the process is killed, during a call. *)
PowerCut ==
    /\ ~Idle /\ cuts < MaxCuts
    /\ Return(TRUE)
    /\ cuts' = cuts + 1
    /\ UNCHANGED disk

-----------------------------------------------------------------------------
Paths == ({Root} \X Names) \cup (Dirs \X Files)

(* A formatted volume. *)
Init ==
    /\ \E s \in (IF Fresh THEN {EndSlot} ELSE {EndSlot, StaleSlot}) :
          slot = [c \in Clusters |-> [i \in Index |->
                     IF c # RootCluster THEN s
                     ELSE IF i <= SystemSlots THEN SystemSlot ELSE EndSlot]]
    /\ fat = [c \in Clusters |-> IF c = RootCluster THEN END_OF_CHAIN ELSE 0]
    /\ bitmap = [c \in Clusters |-> c = RootCluster]
    /\ todo = << >> /\ call = NoCall
    /\ mishap = FALSE /\ cuts = 0

(* Directories stay in the root. *)
Call ==
    \E p \in Paths :
        LET h == DirHandle(p[1])
            e == FindIn(p[2])[h]
        IN  /\ Idle /\ h # None
            /\ \/ p[2] \in Files /\ Create(p, h, e)
               \/ p[2] \in Dirs /\ MakeDir(p, h, e)
               \/ \E len \in Lens : Update(p, e, len)
               \/ Remove(p, e)
               \/ \E q \in Paths \ {p} :
                     (p[2] \in Dirs <=> q[2] \in Dirs) /\ Rename(p, e, q)

Next == Call \/ DoSlot \/ DoClear \/ DoZero \/ DoFat \/ DoBit \/ DoFlush \/ PowerCut

Spec == Init /\ [][Next]_vars

-----------------------------------------------------------------------------
(* Properties *)

TypeOK ==
    /\ slot \in [Clusters -> [Index -> Slots]]
    /\ fat \in [Clusters -> Clusters \cup {0, END_OF_CHAIN}]
    /\ bitmap \in [Clusters -> BOOLEAN]
    /\ \A k \in 1 .. Len(todo) :
          LET w == todo[k]
          IN  CASE w.op = "slot" -> w.at \in Addresses /\ w.val \in Slots
                [] w.op = "clear" -> w.at \in Addresses
                [] w.op = "bit" -> w.cluster \in Clusters /\ w.val \in BOOLEAN
                [] w.op = "fat" -> w.cluster \in Clusters
                                   /\ w.val \in Clusters \cup {0, END_OF_CHAIN}
                [] w.op = "zero" -> w.cluster \in Clusters
                [] OTHER -> w.op = "flush"
    /\ call \in [kind : Kinds \cup {"none"}, path : Paths \cup {None},
                 to : Paths \cup {None}, len : Lens, ok : BOOLEAN, slots : 0 .. MaxSet]
    /\ mishap \in BOOLEAN /\ cuts \in Nat

(* The directories a caller can reach: their first clusters, and the length
   their own entry records. *)
Listings ==
    {<<RootCluster, Unbounded>>} \cup
    {<<e.first, e.len>> : e \in {f \in {Find(<<Root, m>>) : m \in Dirs} : f # None}}

(* No directory has two entries of one name, however often names are made,
   removed and renamed and wherever a call is cut short, also when a new set is
   placed across what a cut call has left of another one: none that is out of
   sight comes back. *)
NamesUnique ==
    \A l \in Listings : \A n \in Names :
        \A i, j \in Hits(n)[DirSlots(l[1])] : i = j

(* As long as no call was cut short, the checked reader and the unchecked
   one agree: every listing succeeds and shows the names that locate finds,
   also in the clusters by which a directory grew. *)
ReadersAgree ==
    Idle /\ ~mishap =>
        \A l \in Listings :
            LET raw == RawEntries(l[1], l[2])
            IN  /\ ~ListFails(raw)
                /\ \A n \in Names :
                      Hits(n)[DirSlots(l[1])] = Hits(n)[raw]

(* The clusters of the directories a caller can reach are marked, end in an
   end mark of the FAT and belong to one directory each, after any power
   cut; two names of one directory count as one, as in a rename. *)
DirectoriesSound ==
    /\ \A l \in Listings :
          LET chain == Chain(l[1])
          IN  /\ \A k \in DOMAIN chain : bitmap[chain[k]]
              /\ fat[chain[Len(chain)]] = END_OF_CHAIN
    /\ \A l, k \in Listings : l[1] # k[1] =>
          {Chain(l[1])[i] : i \in DOMAIN Chain(l[1])}
              \cap {Chain(k[1])[i] : i \in DOMAIN Chain(k[1])} = {}

(* As long as no call was cut short or failed for lack of room, every
   cluster taken belongs to a directory once the driver is idle. *)
NoLostDirectoryClusters ==
    Idle /\ ~mishap =>
        \A c \in Clusters : bitmap[c] =>
            \E l \in Listings : \E i \in DOMAIN Chain(l[1]) : Chain(l[1])[i] = c

(* create_file and make_dir return success only when the name can be found
   from then on: "Create an entry set ... named `leaf` in `parent`". *)
CreatedIsFound ==
    call.kind \in {"create", "mkdir"} /\ call.ok /\ todo = << Flush >> =>
        Find(call.path) # None

(* The tree a caller of the write path sees. *)
Node[e \in EntryLocs \cup {None}] ==
    IF e = None THEN None ELSE [dir |-> e.dir, len |-> IF e.dir THEN 0 ELSE e.len]
TreeView == [p \in Paths |-> Node[Find(p)]]

(* The effects of the call so far: a name appears with the last slot of its
   entry set and goes with the first slot cleared. *)
Left(op) == {k \in DOMAIN todo : todo[k].op = op}
Written == IF call.ok /\ Left("slot") = {} THEN 1 ELSE 0
Cleared == IF Cardinality(Left("clear")) < call.slots THEN 1 ELSE 0
Effects ==
    CASE call.kind = "rename" -> Written + Cleared
      [] call.kind = "remove" -> Cleared
      [] OTHER -> Written
RequestView ==
    IF Idle THEN None
    ELSE [kind |-> call.kind, path |-> call.path, to |-> call.to, len |-> call.len,
          step |-> Effects]

(* The slots implement a tree of names: every device write either changes
   nothing that a caller can find or is one whole effect of the request, and
   a power cut never leaves half of one. *)
Abstract == INSTANCE DirectoryTree WITH tree <- TreeView, request <- RequestView
ImplementsTree == Abstract!Spec

(* A new entry set that starts inside what a cut call has left of another one,
   or behind an end mark, is stepped over: the call goes on without an effect. *)
PlacedUnseen ==
    /\ ~Idle /\ call.kind \in {"create", "mkdir", "rename"} /\ cuts > 0
    /\ RequestView' = [RequestView EXCEPT !.step = @ + 1]
    /\ TreeView' = TreeView

(* After a power cut, too, a call changes nothing but what it names, no cut
   leaves half of an effect, and no later call brings back a torn or an unseen
   entry set or hides another name behind one. *)
TreeStep == Abstract!Next
KeepsTree == [][TreeStep \/ PlacedUnseen]_<<TreeView, RequestView>>
=============================================================================
