---------------------------- MODULE ExfatVolume ----------------------------
(***************************************************************************)
(* The write side of the exFAT driver (core/norse-exfat/src/write.rs,      *)
(* alloc.rs, fat.rs): files of one directory over an allocation bitmap, a  *)
(* file allocation table and data clusters.                                *)
(*                                                                         *)
(* A call of the driver is a sequence of device writes, one action each,   *)
(* with the loops that read the FAT taken one iteration at a time.  The    *)
(* local variables of the call in progress are lost when the power fails.  *)
(* The device here keeps every write in the order it was issued, as the    *)
(* driver's own power-loss test does.                                      *)
(*                                                                         *)
(* An entry set is one unit here: it is placed, rewritten and cleared by   *)
(* one step.                                                               *)
(***************************************************************************)
EXTENDS Naturals, Sequences

CONSTANTS
    Names,          \* file names of the directory (distinct after up-casing)
    NoName,         \* not a name
    ClusterCount,   \* clusters of the heap that files may take
    ClusterBytes,   \* bytes in a cluster
    END_OF_CHAIN,   \* the FAT value that ends a chain (0xFFFFFFFF)
    MaxLen,         \* bound on the length of a file
    Bytes,          \* byte values a caller writes
    Zero,           \* the zero byte
    BitsPerByte,    \* bits in one byte of the bitmap (8)
    Noise,          \* what a cluster holds before anything is written to it
    Ops,            \* the calls the environment makes
    MaxCuts,        \* bound on the number of power cuts
    CutKinds        \* the kinds of call a power cut hits (see Kinds)

AllOps == {"create", "write", "extend", "shrink", "empty", "remove", "rename"}

ASSUME SizesAssumption ==
    /\ ClusterCount \in Nat \ {0}
    /\ END_OF_CHAIN \in Nat /\ END_OF_CHAIN > ClusterCount + 1
    /\ ClusterBytes \in Nat \ {0}
    /\ BitsPerByte \in Nat \ {0}
    /\ MaxLen \in Nat
ASSUME NamesAssumption == NoName \notin Names
ASSUME BytesAssumption == Zero \in Bytes /\ Noise \notin Bytes
ASSUME OpsAssumption == Ops \subseteq AllOps /\ MaxCuts \in Nat

VARIABLES
    bitmap,     \* bitmap[c]: the allocation bit of cluster c
    fat,        \* fat[c]: the FAT entry of cluster c
    dir,        \* dir[n]: the entry set of name n
    data,       \* data[c]: the bytes of cluster c
    pc,         \* the statement the call in progress is at, or "idle"
    call,       \* that call: its kind, its arguments and what it computed first
    pos,        \* zero_range, write_range: offset of the next byte to write
    cur,        \* read_chain, free_chain: the cluster the loop is at
    chain,      \* the clusters of the file, as far as they are read
    got,        \* alloc_chain: the clusters taken so far
    linked,     \* alloc_chain: the number of them whose FAT entry is written
    todo,       \* free_chain: the clusters still to free
    mishap,     \* history: some call was cut short after it had written
    cuts        \* number of power cuts so far

disk == <<bitmap, fat, dir, data>>
locals == <<call, pos, cur, chain, got, linked, todo>>
vars == <<disk, pc, locals, mishap, cuts>>

-----------------------------------------------------------------------------
(* Values *)

Clusters == 2 .. (ClusterCount + 1)
FatValues == Clusters \cup {0, END_OF_CHAIN}
ClusterIndex == 0 .. (ClusterBytes - 1)

(* A file entry: the first cluster and the data length of its stream. *)
Entry == [used : BOOLEAN, first : Clusters \cup {0}, len : Nat]
NoEntry == [used |-> FALSE, first |-> 0, len |-> 0]
NewEntry(first, len) == [used |-> TRUE, first |-> first, len |-> len]

CeilDiv(a, b) == (a + b - 1) \div b
ClustersFor(len) == CeilDiv(len, ClusterBytes)

(* The bits the bitmap has room for; those past the heap are slack. *)
BitmapBits == BitsPerByte * CeilDiv(ClusterCount, BitsPerByte)

(* A call that only works on entry sets, and one that resizes or rewrites a
   file: `first` and `len` are what it will publish, `old` the number of
   clusters the file has, `count` the number to add or to keep. *)
NameCall(kind, name, to) ==
    [kind |-> kind, name |-> name, to |-> to, off |-> 0, cnt |-> 0, val |-> Zero,
     first |-> 0, len |-> 0, old |-> 0, count |-> 0]
SizeCall(kind, name, off, cnt, val, first, len, old, count) ==
    [kind |-> kind, name |-> name, to |-> NoName, off |-> off, cnt |-> cnt, val |-> val,
     first |-> first, len |-> len, old |-> old, count |-> count]
NoCall == NameCall("none", NoName, NoName)

Kinds == {"none", "create", "write", "shrink", "remove", "rename"}
ASSUME CutsAssumption == CutKinds \subseteq Kinds

PCs == {"idle", "read", "alloc", "link", "tail", "data", "data flush",
        "cut", "free bit", "free fat", "publish", "clear", "clear flush",
        "walk", "flush"}

CallType ==
    [kind : Kinds, name : Names \cup {NoName}, to : Names \cup {NoName},
     off : Nat, cnt : Nat, val : Bytes,
     first : Clusters \cup {0}, len : Nat, old : Nat, count : Nat]

TypeOK ==
    /\ bitmap \in [Clusters -> BOOLEAN]
    /\ fat \in [Clusters -> FatValues]
    /\ dir \in [Names -> Entry]
    /\ data \in [Clusters -> [ClusterIndex -> Bytes \cup {Noise}]]
    /\ pc \in PCs
    /\ call \in CallType
    /\ pos \in Nat /\ cur \in Nat /\ linked \in Nat
    /\ chain \in Seq(Clusters) /\ got \in Seq(Clusters) /\ todo \in Seq(Nat)
    /\ mishap \in BOOLEAN
    /\ cuts \in Nat

Init ==
    /\ bitmap = [c \in Clusters |-> FALSE]
    /\ fat = [c \in Clusters |-> 0]
    /\ dir = [n \in Names |-> NoEntry]
    /\ data = [c \in Clusters |-> [b \in ClusterIndex |-> Noise]]
    /\ pc = "idle" /\ call = NoCall
    /\ pos = 0 /\ cur = 0 /\ linked = 0
    /\ chain = << >> /\ got = << >> /\ todo = << >>
    /\ mishap = FALSE
    /\ cuts = 0

Idle == pc = "idle"

(* The call ends and its locals are gone. *)
Ended ==
    /\ pc' = "idle" /\ call' = NoCall
    /\ pos' = 0 /\ cur' = 0 /\ linked' = 0
    /\ chain' = << >> /\ got' = << >> /\ todo' = << >>
Return == Ended /\ UNCHANGED mishap
(* The call fails, or the process dies, with the writes made so far kept. *)
Abandon == Ended /\ mishap' = TRUE

-----------------------------------------------------------------------------
(* Calls.  A call that is refused (no such name, name taken, empty buffer) *)
(* writes nothing and is not a step.                                       *)

(* create_file: place an entry without clusters, then flush. *)
Create(n) ==
    /\ Idle /\ "create" \in Ops
    /\ ~dir[n].used
    /\ dir' = [dir EXCEPT ![n] = NewEntry(0, 0)]
    /\ pc' = "flush" /\ call' = NameCall("create", n, NoName)
    /\ UNCHANGED <<bitmap, fat, data, pos, cur, chain, got, linked, todo, mishap>>

(* Fault: the gap is left as the clusters were. *)
FillStartNoGap(len, off) == off
(* Bytes from the old end up to the write offset are zeroed first. *)
FillStart(len, off) == IF off > len THEN len ELSE off

(* write_file(n, off, cnt bytes v) up to its first loop. *)
StartWrite(n, off, cnt, v) ==
    LET e == dir[n]
        size == IF off + cnt > e.len THEN off + cnt ELSE e.len
        old == ClustersFor(e.len)
        new == ClustersFor(size)
        need == IF new > old THEN new - old ELSE 0
    IN  /\ call' = SizeCall("write", n, off, cnt, v, e.first, size, old, need)
        /\ pc' = IF e.len = 0 THEN "alloc" ELSE "read"
        /\ pos' = FillStart(e.len, off)
        /\ cur' = e.first
        /\ UNCHANGED <<disk, chain, got, linked, todo, mishap>>

WriteFile(n, off, cnt, v) ==
    /\ Idle /\ "write" \in Ops
    /\ dir[n].used
    /\ cnt > 0 /\ off + cnt <= MaxLen
    /\ StartWrite(n, off, cnt, v)

(* truncate_file past the end: a write of the last zero bytes. *)
Extend(n, len) ==
    /\ Idle /\ "extend" \in Ops
    /\ dir[n].used /\ len > dir[n].len
    /\ LET pad == len - dir[n].len
           filler == IF pad < ClusterBytes THEN pad ELSE ClusterBytes
       IN  StartWrite(n, len - filler, filler, Zero)

(* truncate_file within the file; `count` is the number of clusters kept. *)
Shrink(n, len) ==
    /\ Idle /\ (IF len = 0 THEN "empty" ELSE "shrink") \in Ops
    /\ dir[n].used /\ len <= dir[n].len /\ dir[n].len > 0
    /\ call' = SizeCall("shrink", n, 0, 0, Zero, dir[n].first, len,
                        ClustersFor(dir[n].len), ClustersFor(len))
    /\ pc' = "read" /\ cur' = dir[n].first
    /\ UNCHANGED <<disk, pos, chain, got, linked, todo, mishap>>

(* remove: clear the in-use bits of the entry set first. *)
Remove(n) ==
    /\ Idle /\ "remove" \in Ops
    /\ dir[n].used
    /\ dir' = [dir EXCEPT ![n] = NoEntry]
    /\ call' = NameCall("remove", n, NoName)
    /\ pc' = IF dir[n].first = 0 THEN "flush" ELSE "clear flush"
    /\ cur' = dir[n].first
    /\ UNCHANGED <<bitmap, fat, data, pos, chain, got, linked, todo, mishap>>

(* rename: a second entry set at the same clusters, then flush. *)
Rename(m, n) ==
    /\ Idle /\ "rename" \in Ops
    /\ dir[m].used /\ ~dir[n].used
    /\ dir' = [dir EXCEPT ![n] = NewEntry(dir[m].first, dir[m].len)]
    /\ pc' = "clear flush" /\ call' = NameCall("rename", m, n)
    /\ UNCHANGED <<bitmap, fat, data, pos, cur, chain, got, linked, todo, mishap>>

-----------------------------------------------------------------------------
(* read_chain, one iteration: at most `old` clusters, ending early at      *)
(* END_OF_CHAIN, failing on an index outside the FAT.                      *)

ReadChain ==
    /\ pc = "read"
    /\ cur \in Clusters
    /\ chain' = Append(chain, cur)
    /\ IF fat[cur] = END_OF_CHAIN \/ Len(chain) + 1 = call.old
       THEN /\ cur' = 0
            /\ pc' = IF call.kind = "shrink" THEN "cut"
                     ELSE IF call.count > 0 THEN "alloc" ELSE "data"
       ELSE cur' = fat[cur] /\ UNCHANGED pc
    /\ UNCHANGED <<disk, call, pos, got, linked, todo, mishap>>

ReadChainFails ==
    /\ pc = "read"
    /\ cur \notin Clusters
    /\ Return
    /\ UNCHANGED disk

-----------------------------------------------------------------------------
(* alloc_chain and extend_chain *)

(* find_free tries the clusters in this order, wrapping once. *)
Distance(hint, c) == IF c >= hint THEN c - hint ELSE c + ClusterCount - hint

(* Fault: takes the cluster at the hint without looking at its bit. *)
FirstFreeAtHint(hint, c) == c = 2 + ((hint - 2) % ClusterCount)
FirstFree(hint, c) ==
    /\ ~bitmap[c]
    /\ \A d \in Clusters : ~bitmap[d] => Distance(hint, c) <= Distance(hint, d)

Hint == IF got = << >> THEN 2 ELSE got[Len(got)] + 1

AllocCluster(c) ==
    /\ pc = "alloc"
    /\ FirstFree(Hint, c)
    /\ bitmap' = [bitmap EXCEPT ![c] = TRUE]
    /\ got' = Append(got, c)
    /\ pc' = IF Len(got) + 1 = call.count THEN "link" ELSE "alloc"
    /\ UNCHANGED <<fat, dir, data, call, pos, cur, chain, linked, todo, mishap>>

(* Fault: a full volume is tried again for ever. *)
AllocWaits ==
    /\ pc = "alloc"
    /\ \A c \in Clusters : bitmap[c]
    /\ UNCHANGED <<disk, pc, locals, mishap>>

(* "no free clusters": the bits already set stay set. *)
AllocFails ==
    /\ pc = "alloc"
    /\ \A c \in Clusters : bitmap[c]
    /\ IF got = << >> THEN Return ELSE Abandon
    /\ UNCHANGED disk

(* The FAT entry of the i-th new cluster. *)
Successor(i) == IF i < Len(got) THEN got[i + 1] ELSE END_OF_CHAIN

LinkCluster ==
    /\ pc = "link"
    /\ fat' = [fat EXCEPT ![got[linked + 1]] = Successor(linked + 1)]
    /\ linked' = linked + 1
    /\ pc' = IF linked + 1 < Len(got) THEN "link" ELSE "tail"
    /\ UNCHANGED <<bitmap, dir, data, call, pos, cur, chain, got, todo, mishap>>

(* A file that had no cluster will get its first one with the entry. *)
StartChain ==
    /\ pc = "tail" /\ chain = << >>
    /\ call' = [call EXCEPT !.first = got[1]]
    /\ chain' = got /\ got' = << >> /\ linked' = 0
    /\ pc' = "data"
    /\ UNCHANGED <<disk, pos, cur, todo, mishap>>

(* extend_chain hooks the new clusters to the old tail. *)
LinkTail ==
    /\ pc = "tail" /\ chain # << >>
    /\ fat' = [fat EXCEPT ![chain[Len(chain)]] = got[1]]
    /\ chain' = chain \o got /\ got' = << >> /\ linked' = 0
    /\ pc' = "data"
    /\ UNCHANGED <<bitmap, dir, data, call, pos, cur, todo, mishap>>

-----------------------------------------------------------------------------
(* zero_range then write_range: one device write per cluster touched *)

PieceEnd ==
    LET boundary == (pos \div ClusterBytes + 1) * ClusterBytes
        limit == IF pos < call.off THEN call.off ELSE call.off + call.cnt
    IN  IF boundary < limit THEN boundary ELSE limit

(* Fault: the payload is written over the gap. *)
PieceBytePayload == call.val
PieceByte == IF pos < call.off THEN Zero ELSE call.val

WriteData ==
    LET ci == pos \div ClusterBytes + 1
        base == (pos \div ClusterBytes) * ClusterBytes
    IN  /\ pc = "data"
        /\ ci <= Len(chain)
        /\ data' = [data EXCEPT ![chain[ci]] =
                       [b \in ClusterIndex |->
                           IF base + b >= pos /\ base + b < PieceEnd
                           THEN PieceByte ELSE @[b]]]
        /\ pos' = PieceEnd
        /\ pc' = IF PieceEnd = call.off + call.cnt THEN "data flush" ELSE "data"
        /\ UNCHANGED <<bitmap, fat, dir, call, cur, chain, got, linked, todo, mishap>>

(* "write past chain": the chain is shorter than the entry says. *)
WritePastChain ==
    /\ pc = "data"
    /\ pos \div ClusterBytes + 1 > Len(chain)
    /\ Abandon
    /\ UNCHANGED disk

-----------------------------------------------------------------------------
(* truncate_file after the chain is read *)

(* free_chain(first, Some(n)): the n clusters numbered from first on, which
   are the file's own only when its chain happens to be contiguous. *)
FreeFrom(first, n) ==
    [i \in 1 .. (IF n < ClusterCount THEN n ELSE ClusterCount) |-> first + i - 1]

CutToNothing ==
    /\ pc = "cut" /\ call.count = 0
    /\ todo' = FreeFrom(call.first, call.old)
    /\ call' = [call EXCEPT !.first = 0]
    /\ chain' = << >>
    /\ pc' = "free bit"
    /\ UNCHANGED <<disk, pos, cur, got, linked, mishap>>

(* Fault: also frees the last cluster kept. *)
SuffixFromTail(s, keep) == SubSeq(s, keep, Len(s))
(* Fault: forgets the first cluster cut off. *)
SuffixAfterNext(s, keep) ==
    IF keep + 1 < Len(s) THEN SubSeq(s, keep + 2, Len(s)) ELSE << >>
Suffix(s, keep) == SubSeq(s, keep + 1, Len(s))

CutChain ==
    /\ pc = "cut" /\ call.count > 0
    /\ call.count <= Len(chain)
    /\ fat' = [fat EXCEPT ![chain[call.count]] = END_OF_CHAIN]
    /\ todo' = Suffix(chain, call.count)
    /\ chain' = << >>
    /\ pc' = IF todo' # << >> THEN "free bit" ELSE "publish"
    /\ UNCHANGED <<bitmap, dir, data, call, pos, cur, got, linked, mishap>>

(* chain[keep - 1] is out of bounds: the release build aborts. *)
CutPanics ==
    /\ pc = "cut" /\ call.count > Len(chain)
    /\ Abandon
    /\ UNCHANGED disk

-----------------------------------------------------------------------------
(* free_chain *)

FreeBit ==
    /\ pc = "free bit"
    /\ Head(todo) < BitmapBits + 2
    /\ bitmap' = [c \in Clusters |-> bitmap[c] /\ c # Head(todo)]
    /\ pc' = "free fat"
    /\ UNCHANGED <<fat, dir, data, locals, mishap>>

(* "bitmap index out of range" *)
FreeBitFails ==
    /\ pc = "free bit"
    /\ Head(todo) >= BitmapBits + 2
    /\ Abandon
    /\ UNCHANGED disk

(* A FAT index outside the heap is refused and the error dropped. *)
FreeFat ==
    /\ pc = "free fat"
    /\ fat' = [c \in Clusters |-> IF c = Head(todo) THEN 0 ELSE fat[c]]
    /\ todo' = Tail(todo)
    /\ pc' = IF Tail(todo) # << >> THEN "free bit"
             ELSE IF call.kind = "shrink" THEN "publish" ELSE "flush"
    /\ UNCHANGED <<bitmap, dir, data, call, pos, cur, chain, got, linked, mishap>>

(* free_chain(first, None), one iteration: the whole chain, however long. *)
WalkChain ==
    /\ pc = "walk"
    /\ cur \in Clusters /\ Len(todo) < ClusterCount
    /\ todo' = Append(todo, cur)
    /\ IF fat[cur] \in Clusters
       THEN cur' = fat[cur] /\ UNCHANGED pc
       ELSE cur' = 0 /\ pc' = "free bit"
    /\ UNCHANGED <<disk, call, pos, chain, got, linked, mishap>>

(* "free: chain loop": nothing is freed. *)
WalkFails ==
    /\ pc = "walk"
    /\ Len(todo) >= ClusterCount
    /\ Abandon
    /\ UNCHANGED disk

-----------------------------------------------------------------------------
(* Entry updates and flushes *)

(* rewrite_stream *)
Publish ==
    /\ pc = "publish"
    /\ dir' = [dir EXCEPT ![call.name] = NewEntry(call.first, call.len)]
    /\ pc' = "flush"
    /\ UNCHANGED <<bitmap, fat, data, locals, mishap>>

(* rename clears the old entry set. *)
ClearOld ==
    /\ pc = "clear"
    /\ dir' = [dir EXCEPT ![call.name] = NoEntry]
    /\ pc' = "flush"
    /\ UNCHANGED <<bitmap, fat, data, locals, mishap>>

(* The flushes in the middle of a call, and the one before it returns. *)
FlushPCs == {"data flush", "clear flush"}
FlushAndGoOn ==
    /\ pc \in FlushPCs
    /\ pc' = IF pc = "data flush" THEN "publish"
             ELSE IF call.kind = "rename" THEN "clear" ELSE "walk"
    /\ UNCHANGED <<disk, locals, mishap>>
FlushAndReturn ==
    /\ pc = "flush"
    /\ Return
    /\ UNCHANGED disk

(* The power fails, or the process is killed, during a call. *)
PowerCut ==
    /\ cuts < MaxCuts /\ ~Idle /\ call.kind \in CutKinds
    /\ Abandon
    /\ cuts' = cuts + 1
    /\ UNCHANGED disk

-----------------------------------------------------------------------------
Call(n) ==
    \/ Create(n)
    \/ Remove(n)
    \/ \E m \in Names \ {n} : Rename(m, n)
    \/ \E len \in 0 .. MaxLen : Extend(n, len) \/ Shrink(n, len)
    \/ \E off \in 0 .. MaxLen, cnt \in 0 .. MaxLen, v \in Bytes : WriteFile(n, off, cnt, v)

Step ==
    \/ ReadChain \/ ReadChainFails
    \/ \E c \in Clusters : AllocCluster(c)
    \/ AllocFails \/ LinkCluster \/ StartChain \/ LinkTail
    \/ WriteData \/ WritePastChain
    \/ CutToNothing \/ CutChain \/ CutPanics
    \/ FreeBit \/ FreeBitFails \/ FreeFat \/ WalkChain \/ WalkFails
    \/ Publish \/ ClearOld \/ FlushAndGoOn \/ FlushAndReturn

Begin == (\E n \in Names : Call(n)) /\ UNCHANGED cuts
Advance == Step /\ UNCHANGED cuts

Next == Begin \/ Advance \/ PowerCut

(* A call runs on the caller's thread until it returns. *)
Spec == Init /\ [][Next]_vars /\ WF_vars(Advance)

-----------------------------------------------------------------------------
(* Properties *)

(* The clusters a walk of the table f from cluster c can visit: the least
   set that holds c and every successor of its members. *)
Closed(f, S) == \A c \in S : f[c] \in Clusters => f[c] \in S
Tree(f, c) ==
    {d \in Clusters :
        /\ c \in Clusters
        /\ \A S \in SUBSET Clusters : c \in S /\ Closed(f, S) => d \in S}

Reach(n) == IF dir[n].used THEN Tree(fat, dir[n].first) ELSE {}

(* While rename runs, the file has its old and its new name. *)
BeingRenamed(m, n) == call.kind = "rename" /\ {m, n} = {call.name, call.to}

(* No cluster belongs to the chains of two files, whatever the order in
   which files grow, shrink, move and disappear and wherever a call is cut
   short: alloc_chain, free_chain and rename keep chains apart. *)
NoSharedClusters ==
    \A m, n \in Names : m # n /\ ~BeingRenamed(m, n) => Reach(m) \cap Reach(n) = {}

(* Every cluster a directory entry leads to is marked in the bitmap, so the
   allocator cannot hand it out again: "never a directory pointing at
   garbage" (write.rs). *)
LiveClustersAllocated ==
    \A n \in Names : \A c \in Reach(n) : bitmap[c]

(* The first k clusters of the chain that starts at h in the table f. *)
ChainFrom(f, h, k) ==
    LET w[i \in 1 .. k] ==
            IF i = 1 THEN h ELSE IF w[i - 1] \in Clusters THEN f[w[i - 1]] ELSE 0
    IN  w

(* FileChain(n)[i] is the i-th cluster of file n as read_chain finds it. *)
FileChain(n) == ChainFrom(fat, dir[n].first, ClustersFor(dir[n].len))

(* The chain of every file is as long as its data length asks, so that a
   committed file can be read back whole after any power cut. *)
CommittedFilesReadable ==
    \A n \in Names :
        dir[n].used /\ ~(call.kind = "shrink" /\ call.name = n) =>
            \A i \in DOMAIN FileChain(n) : FileChain(n)[i] \in Clusters

(* As long as no call was cut short, every allocated cluster belongs to a
   file once the driver is idle: removing, shrinking and renaming give back
   exactly what growing took. *)
NoLostClusters ==
    Idle /\ ~mishap =>
        \A c \in Clusters : bitmap[c] => \E n \in Names : c \in Reach(n)

(* A call always returns: no loop over the FAT runs forever, even on a
   volume whose chains are damaged. *)
EveryCallReturns == ~Idle ~> Idle

Contents(n) ==
    [i \in 1 .. dir[n].len |->
        LET c == FileChain(n)[(i - 1) \div ClusterBytes + 1]
        IN  IF c \in Clusters THEN data[c][(i - 1) % ClusterBytes] ELSE Noise]

(* The store a caller sees.  A shrink takes effect when the chain is cut, a
   rename when the old entry set is cleared. *)
StoreView ==
    [n \in Names |->
        IF ~dir[n].used \/ (call.kind = "rename" /\ n = call.to /\ dir[call.name].used)
        THEN NoName
        ELSE IF /\ call.kind = "shrink" /\ n = call.name
                /\ pc \in {"free bit", "free fat", "publish"}
        THEN SubSeq([i \in 1 .. call.len |-> Contents(n)[i]], 1, call.len)
        ELSE Contents(n)]

(* The request a caller has made, and whether the view has its effect. *)
Applied ==
    \/ pc = "flush"
    \/ call.kind = "remove"
    \/ call.kind = "shrink" /\ pc \in {"free bit", "free fat", "publish"}
RequestView ==
    IF Idle THEN NoName
    ELSE [kind |-> call.kind, name |-> call.name, to |-> call.to,
          off |-> call.off, cnt |-> call.cnt, val |-> call.val,
          len |-> IF call.kind = "shrink" THEN call.len ELSE 0,
          done |-> Applied]

(* What a caller does not have is neither contents nor a request. *)
ASSUME NothingAssumption ==
    /\ NoName \notin Seq(Bytes \cup {Noise})
    /\ NoName \notin [kind : Kinds, name : Names \cup {NoName}, to : Names \cup {NoName},
                      off : Nat, cnt : Nat, val : Bytes, len : Nat, done : BOOLEAN]

(* The volume is a file store: every device write either changes nothing a
   caller can read, or writes some of the bytes the caller asked for over
   bytes the file has, or is the whole effect of the request. *)
Abstract == INSTANCE FileStore WITH store <- StoreView, request <- RequestView, None <- NoName
ImplementsFileStore == Abstract!Spec
=============================================================================
