----------------------------- MODULE ExfatCache -----------------------------
(***************************************************************************)
(* The driver of ExfatVolume over a device with a write cache              *)
(* (core/norse-exfat/src/write.rs with the `flush` of its Disk): between   *)
(* two flushes the medium takes the writes in any order.                   *)
(*                                                                         *)
(* A power failure leaves each FAT entry, bitmap bit, entry set and data   *)
(* cluster with any value it was given since the last flush, or with the   *)
(* one it had then.  The clusters of the volume are so far apart that no   *)
(* two of their bits and FAT entries share a sector.  A process that is    *)
(* killed loses nothing it has written.                                    *)
(***************************************************************************)
EXTENDS ExfatVolume

VARIABLES
    flight,     \* for each location, the values a power failure may leave there
    writer,     \* history: writer[c][b], the file whose call wrote byte b of cluster c
    harmed      \* history: a step after which committed data may be lost

cacheVars == <<vars, flight, writer, harmed>>

-----------------------------------------------------------------------------
(* The cache *)

(* Nothing is under way: every location holds what was written last. *)
Settled(b, f, d, x, w) ==
    [bitmap |-> [c \in Clusters |-> {b[c]}],
     fat |-> [c \in Clusters |-> {f[c]}],
     dir |-> [n \in Names |-> {d[n]}],
     data |-> [c \in Clusters |-> {x[c]}],
     writer |-> [c \in Clusters |-> {w[c]}]]

(* A step of the allocator takes cluster c: no byte of it, and none that is
   still under way to it, was written by the file that gets it. *)
Taken(c) == pc = "alloc" /\ bitmap'[c] # bitmap[c]
(* With the old entry set gone the bytes are those of the new name. *)
Renamed == pc = "clear" /\ dir' # dir
(* The history is kept as long as no committed data may be lost. *)
Relabelled(c, w) ==
    [b \in ClusterIndex |->
        IF harmed \/ Taken(c) THEN NoName
        ELSE IF Renamed /\ w[b] = call.name THEN call.to ELSE w[b]]
(* The bytes write_range and zero_range put into cluster c now. *)
Written(c, b) ==
    LET base == (pos \div ClusterBytes) * ClusterBytes
        ci == pos \div ClusterBytes + 1
    IN  /\ pc = "data" /\ ci <= Len(chain) /\ chain[ci] = c
        /\ base + b >= pos /\ base + b < PieceEnd

(* What is written joins what may be there. *)
Joined(b, f, d, x, w) ==
    [bitmap |-> [c \in Clusters |-> flight.bitmap[c] \cup {b[c]}],
     fat |-> [c \in Clusters |-> flight.fat[c] \cup {f[c]}],
     dir |-> [n \in Names |-> flight.dir[n] \cup {d[n]}],
     data |-> [c \in Clusters |-> flight.data[c] \cup {x[c]}],
     writer |-> [c \in Clusters |-> {Relabelled(c, v) : v \in flight.writer[c]} \cup {w[c]}]]

AllWritten == flight = Settled(bitmap, fat, dir, data, writer)

(* Fault: the entry is published before its clusters are flushed. *)
BarriersNoData == {"clear flush", "flush"}
(* Fault: a call returns before its last writes are flushed. *)
BarriersNoLast == {"clear flush", "data flush"}
(* The statements at which the driver waits for the device. *)
Barriers == FlushPCs \cup {"flush"}

(* The cache is followed as long as a failure may come. *)
CacheAfter(flushed) ==
    flight' = IF flushed \/ cuts' = MaxCuts
              THEN Settled(bitmap', fat', dir', data', writer')
              ELSE Joined(bitmap', fat', dir', data', writer')

(* One value of each location. *)
Picks(m) == {f \in [DOMAIN m -> UNION {m[i] : i \in DOMAIN m}] : \A i \in DOMAIN m : f[i] \in m[i]}

-----------------------------------------------------------------------------
(* Steps *)

CacheInit ==
    /\ Init
    /\ writer = [c \in Clusters |-> [b \in ClusterIndex |-> NoName]]
    /\ flight = Settled(bitmap, fat, dir, data, writer)
    /\ harmed = FALSE

(* Another file's cluster hangs behind the chain of n. *)
Tangled(n) == \E m \in Names \ {n} : Reach(n) \cap Reach(m) # {}

(* The calls that may cost committed data: truncation to nothing, which
   frees clusters by position, and the removal of a file behind which a lost
   growth has left another file's cluster. *)
CacheBegin ==
    /\ Begin
    /\ UNCHANGED writer
    /\ CacheAfter(FALSE)
    /\ harmed' = \/ harmed
                 \/ call'.kind = "shrink" /\ call'.len = 0
                 \/ call'.kind = "remove" /\ Tangled(call'.name)

CacheAdvance ==
    /\ Advance
    /\ writer' = [c \in Clusters |->
                     [b \in ClusterIndex |->
                         IF ~harmed /\ Written(c, b) THEN call.name ELSE Relabelled(c, writer[c])[b]]]
    /\ CacheAfter(pc \in Barriers)
    /\ UNCHANGED harmed

(* A shrink or a rename cut short leaves an entry longer than its chain, or
   two names on one chain. *)
HalfDone == call.kind \in {"shrink", "rename"}

(* A power failure.  What it leaves of a cluster's bytes and of their history
   is chosen apart: the pairs that were written together are among these. *)
Lose ==
    /\ cuts < MaxCuts /\ ~(Idle /\ AllWritten)
    /\ bitmap' \in Picks(flight.bitmap) /\ fat' \in Picks(flight.fat)
    /\ dir' \in Picks(flight.dir) /\ data' \in Picks(flight.data)
    /\ writer' \in Picks(flight.writer)
    /\ Abandon
    /\ cuts' = cuts + 1

(* A kill, or a power failure that has taken nothing back, leaves the cache
   with what is in it. *)
Failure ==
    /\ (PowerCut /\ UNCHANGED writer) \/ Lose
    /\ CacheAfter(disk' # disk)
    /\ harmed' = (harmed \/ HalfDone)

CacheNext == CacheBegin \/ CacheAdvance \/ Failure

CacheSpec == CacheInit /\ [][CacheNext]_cacheVars /\ WF_cacheVars(CacheAdvance)

-----------------------------------------------------------------------------
(* Properties *)

(* The clusters a reader of file n visits. *)
Committed(n) ==
    IF dir[n].used THEN {FileChain(n)[i] : i \in DOMAIN FileChain(n)} ELSE {}

(* Whatever order the device writes in and wherever the power fails, the
   clusters two files are read from are disjoint and marked, although a lost
   growth may leave unmarked clusters behind a chain. *)
CommittedChainsApart ==
    ~harmed =>
        /\ \A n \in Names : \A c \in Committed(n) \cap Clusters : bitmap[c]
        /\ \A m, n \in Names :
              m # n /\ ~BeingRenamed(m, n) => Committed(m) \cap Committed(n) = {}

(* The files whose calls may have written the bytes of file n: itself, and
   under its old name while it gets a new one. *)
Authors(n) ==
    IF call.kind = "rename" /\ n \in {call.name, call.to} THEN {call.name, call.to} ELSE {n}

(* Every committed file can be read whole, and each of its bytes was written
   by a call on that file after the file took the cluster the byte is in: the
   flush before the entry is published (write.rs:461) and the zeroing of gaps
   (write.rs:455-458) keep what a deleted file left in a reused cluster out of
   it, also when the power fails. *)
OnlyWrittenBytes ==
    ~harmed =>
        \A n \in Names :
            dir[n].used /\ ~(call.kind = "shrink" /\ call.name = n) =>
                \A p \in 0 .. dir[n].len - 1 :
                    LET c == FileChain(n)[p \div ClusterBytes + 1]
                    IN  c \in Clusters /\ writer[c][p % ClusterBytes] \in Authors(n)

(* A power failure changes no file but that of the call in progress: a call
   that has returned is on the medium. *)
LossHitsOnlyTheCall ==
    [][cuts' # cuts /\ ~harmed =>
          \A n \in Names \ {call.name, call.to} : StoreView[n] = StoreView'[n]]_cacheVars

(* But for what a power failure takes back, the volume is a file store, also
   while it is used on after the failure. *)
StoreStep == Abstract!Next
KeepsFileStore ==
    [][harmed' \/ cuts' # cuts \/ StoreStep]_<<StoreView, RequestView>>
=============================================================================
