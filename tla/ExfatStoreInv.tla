--------------------------- MODULE ExfatStoreInv ---------------------------
(***************************************************************************)
(* What the theorems of ExfatStoreProofs rest on, next to ExfatVolumeInv:  *)
(* how long the chains are, where they end, what the call in progress has  *)
(* computed and written, and who owns the clusters that are marked.        *)
(***************************************************************************)
EXTENDS ExfatVolumeInv

(* A power cut may hit no shrink: it leaves an entry longer than its chain. *)
ShrinksComplete == MaxCuts > 0 => "shrink" \notin CutKinds

(* No call has left a chain shorter than its entry says. *)
Healthy == ~mishap \/ ShrinksComplete

(* truncate_file has cut the chain, and the entry still has the old length. *)
Cutting(n) ==
    call.kind = "shrink" /\ call.name = n /\ pc \in {"free bit", "free fat", "publish"}
Kept(n) == IF Cutting(n) THEN call.count ELSE ClustersFor(dir[n].len)

(* write_file has its clusters and its entry is not published. *)
Filling == call.kind = "write" /\ pc \in {"data", "data flush", "publish"}

(* The chain from h in the table f has k clusters at least. *)
Chained(f, h, k) == \A i \in 1 .. k : ChainFrom(f, h, k)[i] \in Clusters

(* Every file has the clusters its length asks for. *)
WholeInv == \A n \in Names : dir[n].used => Chained(fat, dir[n].first, Kept(n))

(* The sizes computed at the start of the call are those of its file. *)
SizesInv ==
    /\ call.kind = "write" /\ pc # "flush" =>
          /\ call.cnt > 0
          /\ call.len = IF call.off + call.cnt > dir[call.name].len
                        THEN call.off + call.cnt ELSE dir[call.name].len
          /\ call.old = ClustersFor(dir[call.name].len)
          /\ call.count = ClustersFor(call.len) - call.old
    /\ call.kind = "shrink" /\ pc # "flush" =>
          /\ call.first = dir[call.name].first
          /\ call.len > 0 /\ call.len <= dir[call.name].len
          /\ call.old = ClustersFor(dir[call.name].len)
          /\ call.count = ClustersFor(call.len)

(* The vector of the call is the chain of its file, and then of its new one. *)
VectorInv ==
    /\ pc = "read" =>
          /\ Len(chain) < call.old
          /\ cur = ChainFrom(fat, call.first, call.old)[Len(chain) + 1]
    /\ pc \in {"alloc", "link", "tail", "cut"} => Len(chain) = call.old
    /\ pc \in {"read", "alloc", "link", "tail", "cut"} =>
          \A i \in 1 .. Len(chain) : chain[i] = ChainFrom(fat, call.first, call.old)[i]
    /\ pc = "alloc" => Len(got) < call.count
    /\ pc \in {"link", "tail"} => Len(got) = call.count
    /\ Filling =>
          /\ Len(chain) = ClustersFor(call.len)
          /\ \A i \in 1 .. Len(chain) : chain[i] = ChainFrom(fat, call.first, Len(chain))[i]
          /\ call.old > 0 => call.first = dir[call.name].first

(* Where zero_range and write_range are, and the bytes behind them. *)
Start == FillStart(dir[call.name].len, call.off)
FillInv ==
    /\ pc \in {"read", "alloc", "link", "tail"} /\ call.kind = "write" => pos = Start
    /\ pc = "data" => pos < call.off + call.cnt
    /\ pc \in {"data flush", "publish"} /\ Filling => pos = call.off + call.cnt
    /\ Filling =>
          /\ Start <= pos
          /\ \A p \in Start .. pos - 1 :
                data[chain[p \div ClusterBytes + 1]][p % ClusterBytes] =
                    IF p < call.off THEN Zero ELSE call.val

(* Between the two halves of a rename both names have the same entry. *)
TwoNamesInv ==
    call.kind = "rename" /\ pc # "flush" =>
        /\ call.to \in Names /\ call.to # call.name
        /\ dir[call.to] = dir[call.name] /\ dir[call.name].used

(* What is being freed are clusters of the heap. *)
TodoInv == \A i \in 1 .. Len(todo) : todo[i] \in Clusters

StoreInv == WholeInv /\ SizesInv /\ VectorInv /\ FillInv /\ TwoNamesInv /\ TodoInv

(* Every chain ends where the length of its file says. *)
Ends(f, h, k) == f[ChainFrom(f, h, k)[k]] \notin Clusters
ExactFiles ==
    \A n \in Names : dir[n].used =>
        /\ dir[n].len = 0 => dir[n].first = 0
        /\ dir[n].len > 0 /\ ~(Filling /\ call.name = n) => Ends(fat, dir[n].first, Kept(n))
ExactVector == Filling => Ends(fat, call.first, Len(chain))
ExactInv == ExactFiles /\ ExactVector

(* The clusters the call in progress has and no entry leads to. *)
Elements(s) == {s[i] : i \in DOMAIN s}
Held ==
    CASE pc \in {"alloc", "link", "tail"} -> Elements(got)
      [] Filling -> Tree(fat, call.first)
      [] pc \in {"clear flush", "walk"} /\ call.kind = "remove" -> Tree(fat, cur) \cup Elements(todo)
      [] pc = "free bit" -> Elements(todo)
      [] pc = "free fat" -> Elements(Tail(todo))
      [] OTHER -> {}

(* Every marked cluster is a file's or the call's. *)
OwnedInv == \A c \in Clusters : bitmap[c] => c \in Held \/ \E n \in Names : c \in Reach(n)

StoreIInv ==
    /\ IInv
    /\ Healthy => StoreInv
    /\ ~mishap => ExactInv /\ OwnedInv

-----------------------------------------------------------------------------
(* What a caller sees of a file, without the cases of StoreView. *)

(* What this rests on: the chains are long enough, the call in progress knows
   where it is, and it fills no cluster twice. *)
FrameInv ==
    /\ TypeOK /\ LoopsInv /\ KindInv /\ RenameInv
    /\ WholeInv /\ SizesInv /\ VectorInv /\ FillInv /\ TwoNamesInv
    /\ Filling => \A i, j \in 1 .. Len(chain) : chain[i] = chain[j] => i = j

(* A step leaves the clusters that n keeps linked as they are, and their
   bytes. *)
Steady(n) ==
    \A i \in 1 .. Kept(n) :
        LET c == ChainFrom(fat, dir[n].first, Kept(n))[i]
        IN  (i < Kept(n) => fat'[c] = fat[c]) /\ data'[c] = data[c]

(* The bytes of a file of that length whose chain starts at h. *)
Seen(f, d, h, len) ==
    [i \in 1 .. len |->
        LET c == ChainFrom(f, h, ClustersFor(len))[(i - 1) \div ClusterBytes + 1]
        IN  IF c \in Clusters THEN d[c][(i - 1) % ClusterBytes] ELSE Noise]

Shown(n) == dir[n].used /\ ~(call.kind = "rename" /\ n = call.to /\ dir[call.name].used)
ShownLen(n) == IF Cutting(n) THEN call.len ELSE dir[n].len
Views ==
    \A n \in Names :
        /\ dir[n].used => /\ ShownLen(n) \in Nat /\ ShownLen(n) <= dir[n].len
                          /\ Kept(n) = ClustersFor(ShownLen(n))
        /\ Shown(n) => StoreView[n] = Seen(fat, data, dir[n].first, ShownLen(n))
        /\ ~Shown(n) => StoreView[n] = NoName
=============================================================================
