-------------------------- MODULE ExfatVolumeInv --------------------------
(***************************************************************************)
(* The inductive invariant behind the theorems of ExfatVolumeProofs: what  *)
(* the calls in progress know about the chains they are working on.        *)
(***************************************************************************)
EXTENDS ExfatVolume

(* The calls that keep chains apart: truncating to nothing frees by         *)
(* position instead of by chain, and a rename must not be cut in half.      *)
SoundOps ==
    /\ "empty" \notin Ops
    /\ MaxCuts > 0 => "rename" \notin CutKinds

(* What the types of the locals rest on: the vectors a loop indexes are not
   empty, whatever the calls. *)
LoopsInv ==
    /\ pc \in {"link", "tail"} => got # << >>
    /\ pc \in {"free bit", "free fat"} => todo # << >>
    /\ pc = "cut" => call.kind = "shrink"
    /\ call.kind = "shrink" => call.old > 0

(* The chain that starts at cluster h in the table f is a path: two of its
   clusters never have the same successor, and none leads back to h. *)
Path(f, h) ==
    /\ \A c, d \in Tree(f, h) : f[c] = f[d] /\ f[c] \in Clusters => c = d
    /\ \A c \in Tree(f, h) : f[c] # h

Paths == \A n \in Names : dir[n].used => Path(fat, dir[n].first)

FilesInv == NoSharedClusters /\ LiveClustersAllocated /\ Paths

(* The set S meets no file's chain. *)
Apart(S) == \A n \in Names : S \cap Reach(n) = {}

KindInv ==
    /\ pc = "read" => call.kind \in {"write", "shrink"}
    /\ pc \in {"alloc", "link", "tail", "data", "data flush"} => call.kind = "write"
    /\ pc \in {"free bit", "free fat"} => call.kind \in {"shrink", "remove"}
    /\ pc = "publish" => call.kind \in {"write", "shrink"}
    /\ pc = "clear flush" => call.kind \in {"remove", "rename"}
    /\ pc = "clear" => call.kind = "rename"
    /\ pc = "walk" => call.kind = "remove"
    /\ pc = "idle" => call.kind = "none"
    /\ call.kind \in {"write", "shrink"} => call.name \in Names /\ dir[call.name].used

(* The vectors of a loop are empty outside it. *)
LocalsInv ==
    /\ pc = "idle" => chain = << >>
    /\ pc \notin {"alloc", "link", "tail"} => got = << >>
    /\ pc \notin {"link", "tail"} => linked = 0
    /\ pc \notin {"walk", "free bit", "free fat"} => todo = << >>

(* read_chain has followed the FAT from the first cluster. *)
ReadInv ==
    pc \in {"read", "alloc", "link", "tail", "cut"} =>
        /\ call.first = dir[call.name].first
        /\ \A i \in 1 .. Len(chain) : chain[i] \in Reach(call.name)
        /\ pc \in {"read", "cut"} =>
              /\ \A i \in 1 .. Len(chain) :
                    /\ i = 1 => chain[i] = call.first
                    /\ i < Len(chain) => fat[chain[i]] = chain[i + 1]
              /\ \A i, j \in 1 .. Len(chain) : chain[i] = chain[j] => i = j
        /\ pc = "read" =>
              /\ cur = IF chain = << >> THEN call.first
                       ELSE fat[chain[Len(chain)]]
              /\ cur \in Clusters => cur \in Reach(call.name)

(* The clusters just taken are marked, distinct and nobody's. *)
AllocInv ==
    pc \in {"alloc", "link", "tail"} =>
        /\ \A i \in 1 .. Len(got) :
              bitmap[got[i]] /\ \A n \in Names : got[i] \notin Reach(n)
        /\ \A i, j \in 1 .. Len(got) : got[i] = got[j] => i = j
        /\ pc = "link" => linked < Len(got)
        /\ pc = "tail" => linked = Len(got) /\ linked > 0
        /\ pc \in {"link", "tail"} =>
              \A j \in 1 .. linked : fat[got[j]] = Successor(j)

(* The chain about to be published is allocated, a path, and shares nothing
   with the other files. *)
PublishInv ==
    pc \in {"data", "data flush", "publish"} =>
        /\ \A c \in Tree(fat, call.first) : bitmap[c]
        /\ \A n \in Names \ {call.name} : Tree(fat, call.first) \cap Reach(n) = {}
        /\ Path(fat, call.first)

(* What is being freed belongs to no file any more. *)
FreeInv ==
    /\ call.kind = "shrink" => call.count > 0
    /\ pc \in {"free bit", "free fat"} /\ call.kind = "shrink" =>
          call.first = dir[call.name].first
    /\ pc \in {"walk", "free bit", "free fat"} =>
          \A i \in 1 .. Len(todo) : \A n \in Names : todo[i] \notin Reach(n)
    /\ call.kind = "remove" /\ pc \in {"clear flush", "walk"} => Apart(Tree(fat, cur))

(* A rename ends with one name. *)
RenameInv ==
    call.kind = "rename" =>
        /\ call.name \in Names
        /\ pc = "flush" => ~dir[call.name].used
        /\ pc \in {"clear flush", "clear", "flush"}

(* What the call in progress knows. *)
CallInv ==
    KindInv /\ LocalsInv /\ ReadInv /\ AllocInv /\ PublishInv /\ FreeInv /\ RenameInv

IInv == TypeOK /\ LoopsInv /\ FilesInv /\ CallInv
=============================================================================
