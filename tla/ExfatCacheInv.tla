--------------------------- MODULE ExfatCacheInv ---------------------------
(***************************************************************************)
(* Why no order of the writes in the cache costs committed data: what a    *)
(* power failure may leave of the entries, of the chains they lead to and  *)
(* of the bytes in these, at every point of a call.                        *)
(***************************************************************************)
EXTENDS ExfatCache, ExfatStoreInv

(* The author of a byte is a file or nobody. *)
Labels == [ClusterIndex -> Names \cup {NoName}]

(* Every location holds a value of its type that a failure may leave. *)
FlightInv ==
    /\ flight.bitmap \in [Clusters -> SUBSET BOOLEAN]
    /\ flight.fat \in [Clusters -> SUBSET FatValues]
    /\ flight.data \in [Clusters -> SUBSET [ClusterIndex -> Bytes \cup {Noise}]]
    /\ flight.dir \in [Names -> SUBSET Entry]
    /\ writer \in [Clusters -> Labels]
    /\ flight.writer \in [Clusters -> SUBSET Labels]
    /\ \A c \in Clusters :
        /\ bitmap[c] \in flight.bitmap[c] /\ fat[c] \in flight.fat[c]
        /\ data[c] \in flight.data[c] /\ writer[c] \in flight.writer[c]
    /\ \A n \in Names : dir[n] \in flight.dir[n]

(* The clusters an entry of n has a claim to: while a truncation frees the
   others, those it keeps. *)
Shortened(n) ==
    /\ call.kind = "shrink" /\ call.name = n
    /\ pc \in {"free bit", "free fat", "publish", "flush"}
Owed(n, e) ==
    IF Shortened(n) /\ call.count < ClustersFor(e.len) THEN call.count ELSE ClustersFor(e.len)
Line(n, e) == ChainFrom(fat, e.first, Owed(n, e))

(* The entries a failure may leave of name n. *)
Entries(n) == {e \in flight.dir[n] : e.used}

(* A failure leaves these clusters as they are: marked, and each one linked to
   the next. *)
Pinned(fl, w, k) ==
    /\ \A i \in 1 .. k : w[i] \in Clusters /\ fl.bitmap[w[i]] \subseteq {TRUE}
    /\ \A i \in 1 .. k - 1 : fl.fat[w[i]] \subseteq {w[i + 1]}
    /\ \A i, j \in 1 .. k : w[i] = w[j] => i = j

PinnedInv == \A n \in Names : \A e \in Entries(n) : Pinned(flight, Line(n, e), Owed(n, e))

(* The entries of two names lead to different clusters. *)
Distinct(w, k, v, l) == \A i \in 1 .. k, j \in 1 .. l : w[i] # v[j]
ApartInv ==
    \A m, n \in Names : m # n /\ ~BeingRenamed(m, n) =>
        \A e \in Entries(m), g \in Entries(n) :
            Distinct(Line(m, e), Owed(m, e), Line(n, g), Owed(n, g))

(* What is in flight of one name are lengths of one file, the last one the
   longest, but for a name that is being given to another file. *)
Renaming(n) == call.kind = "rename" /\ call.to = n
SameInv ==
    \A n \in Names : ~Renaming(n) =>
        /\ \A e, g \in Entries(n) : e.len > 0 /\ g.len > 0 => e.first = g.first
        /\ dir[n].used /\ dir[n].len > 0 /\ ~Shortened(n) =>
              \A e \in Entries(n) : e.len <= dir[n].len

(* Their bytes are those of the file's own writes. *)
BytesInv ==
    \A n \in Names : \A e \in Entries(n) : \A p \in 0 .. e.len - 1 :
        p \div ClusterBytes + 1 <= Owed(n, e) =>
            \A x \in flight.writer[Line(n, e)[p \div ClusterBytes + 1]] :
                x[p % ClusterBytes] \in Authors(n)

(* Clusters that no entry leads to, whatever a failure leaves. *)
Unclaimed(c) ==
    \A n \in Names : \A e \in Entries(n) : \A i \in 1 .. Owed(n, e) : Line(n, e)[i] # c

(* What the call in progress has taken, is about to publish, or frees. *)
TakenInv ==
    pc \in {"alloc", "link", "tail"} =>
        /\ \A i \in 1 .. Len(got) : bitmap[got[i]] /\ Unclaimed(got[i])
        /\ \A i, j \in 1 .. Len(got) : got[i] = got[j] => i = j
        /\ pc = "link" => linked < Len(got)
        /\ pc = "tail" => linked = Len(got) /\ linked > 0
        /\ pc \in {"link", "tail"} => \A j \in 1 .. linked : fat[got[j]] = Successor(j)

GrownInv ==
    Filling =>
        /\ \A i \in 1 .. Len(chain) : bitmap[chain[i]]
        /\ \A i, j \in 1 .. Len(chain) : chain[i] = chain[j] => i = j
        /\ \A n \in Names \ {call.name} : \A e \in Entries(n) :
              Distinct(Line(n, e), Owed(n, e), chain, Len(chain))
        /\ \A p \in 0 .. Len(chain) * ClusterBytes - 1 : p < pos \/ p < dir[call.name].len =>
              writer[chain[p \div ClusterBytes + 1]][p % ClusterBytes] = call.name

FreedInv ==
    /\ pc \in {"walk", "free bit", "free fat"} =>
          \A i \in 1 .. Len(todo) : todo[i] \in Clusters /\ Unclaimed(todo[i])
    /\ pc = "walk" => \A c \in Tree(fat, cur) : Unclaimed(c)
    /\ pc = "clear flush" /\ call.kind = "remove" =>
          \A n \in Names : dir[n].used =>
              \A i \in 1 .. ClustersFor(dir[n].len) :
                  ChainFrom(fat, dir[n].first, ClustersFor(dir[n].len))[i] \notin Tree(fat, cur)
    /\ call.kind = "shrink" /\ pc \in {"free bit", "free fat", "publish"} =>
          fat[ChainFrom(fat, call.first, call.count)[call.count]] = END_OF_CHAIN

(* After which flush nothing else is in flight. *)
FlushedInv ==
    /\ pc = "clear" \/ (pc = "publish" /\ call.kind = "write") => AllWritten
    /\ pc = "walk" \/ (pc \in {"free bit", "free fat"} /\ call.kind = "remove") =>
          \A n \in Names : flight.dir[n] = {dir[n]}

(* Sizes and positions of the call, see ExfatStoreInv. *)
CountsInv ==
    /\ call.kind \in {"write", "shrink"} =>
          call.name \in Names /\ dir[call.name].used
    /\ call.kind = "shrink" => call.count > 0 /\ call.count = ClustersFor(call.len)
    /\ call.kind = "shrink" /\ pc = "flush" => dir[call.name].len = call.len
    /\ call.kind = "write" /\ pc \in {"read", "alloc", "link", "tail"} => pos = Start
    /\ pc \in {"data flush", "publish"} /\ Filling => pos = call.off + call.cnt
    /\ pc \in {"read", "alloc", "link", "tail", "cut"} => call.first = dir[call.name].first
    /\ pc = "alloc" => call.count > 0
RenamesInv ==
    call.kind = "rename" =>
        /\ call.name \in Names
        /\ pc = "flush" =>
              /\ ~dir[call.name].used
              /\ \A c \in Clusters, b \in ClusterIndex : writer[c][b] # call.name

SafeInv ==
    /\ PinnedInv /\ ApartInv /\ SameInv /\ BytesInv
    /\ TakenInv /\ GrownInv /\ FreedInv /\ FlushedInv
    /\ SizesInv /\ VectorInv /\ CountsInv /\ TwoNamesInv /\ RenamesInv

CacheInv ==
    /\ TypeOK /\ LoopsInv /\ KindInv /\ LocalsInv /\ FlightInv
    /\ ~harmed => SafeInv

(* Before the first failure nothing is in flight but what the call in progress
   has written to its own file and entry. *)
Mine(c) == pc \in {"data", "data flush"} /\ \E i \in 1 .. Len(chain) : chain[i] = c
CalmInv ==
    /\ \A c \in Clusters : flight.data[c] = {data[c]} \/ Mine(c)
    /\ \A n \in Names : \/ flight.dir[n] = {dir[n]}
                        \/ n \in {call.name, call.to} /\ pc \in {"clear flush", "flush"}

(* What the call has filled, and what it alone has in flight. *)
ProgressInv == ~harmed => FillInv /\ (cuts = 0 => CalmInv)
=============================================================================
