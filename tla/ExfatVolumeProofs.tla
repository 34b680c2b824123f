------------------------- MODULE ExfatVolumeProofs -------------------------
(***************************************************************************)
(* Theorems about ExfatVolume, for any number of names, clusters, bytes    *)
(* and power cuts.                                                         *)
(***************************************************************************)
EXTENDS ExfatVolumeInv, SequenceTheorems, TLAPS

-----------------------------------------------------------------------------
(* Arithmetic *)

(* Rounding up gives a number of clusters, at least one unless the length
   is zero. *)
LEMMA CeilDivType ==
    ASSUME NEW a \in Nat, NEW b \in Nat \ {0}
    PROVE  CeilDiv(a, b) \in Nat /\ (a > 0 => CeilDiv(a, b) > 0)
  BY DEF CeilDiv

(* Dividing an offset by a size gives an index. *)
LEMMA DivType ==
    ASSUME NEW a \in Nat, NEW b \in Nat \ {0}
    PROVE  a \div b \in Nat
  OBVIOUS

(* A file has a cluster unless its length is zero. *)
LEMMA ClustersForType ==
    ASSUME NEW len \in Nat
    PROVE  ClustersFor(len) \in Nat /\ (len > 0 => ClustersFor(len) > 0)
  BY CeilDivType, SizesAssumption DEF ClustersFor

-----------------------------------------------------------------------------
(* Chains in a table *)

(* A cluster's chain holds the cluster and the successors of its members. *)
LEMMA TreeClosed ==
    ASSUME NEW f, NEW c \in Clusters
    PROVE  c \in Tree(f, c) /\ Closed(f, Tree(f, c)) /\ Tree(f, c) \subseteq Clusters
  BY DEF Tree, Closed

(* It is contained in every closed set around the cluster. *)
LEMMA TreeLeast ==
    ASSUME NEW f, NEW c, NEW S \in SUBSET Clusters, c \in S, Closed(f, S)
    PROVE  Tree(f, c) \subseteq S
  BY DEF Tree

(* Cutting links, or changing the table elsewhere, makes no chain longer
   and keeps every path a path. *)
LEMMA TreeShrinks ==
    ASSUME NEW f, NEW g, NEW c,
           \A d \in Tree(f, c) : g[d] = f[d] \/ g[d] \notin Clusters
    PROVE  /\ Tree(g, c) \subseteq Tree(f, c)
           /\ Path(f, c) => Path(g, c)
  <1>1. CASE c \notin Clusters
    BY <1>1 DEF Tree, Path
  <1>2. CASE c \in Clusters
    <2>1. Tree(f, c) \in SUBSET Clusters /\ c \in Tree(f, c) /\ Closed(f, Tree(f, c))
      BY <1>2, TreeClosed
    <2>2. Closed(g, Tree(f, c))
      BY <2>1 DEF Closed
    <2>3. Tree(g, c) \subseteq Tree(f, c)
      BY <2>1, <2>2, TreeLeast
    <2>4. Path(f, c) => Path(g, c)
      BY <1>2, <2>1, <2>3 DEF Path
    <2>5. QED BY <2>3, <2>4
  <1>3. QED BY <1>1, <1>2

-----------------------------------------------------------------------------
(* Type correctness *)

(* The records the calls build have the types of an entry and of a call. *)
LEMMA CallTypes ==
    /\ NoEntry \in Entry
    /\ \A first \in Clusters \cup {0}, len \in Nat : NewEntry(first, len) \in Entry
    /\ \A kind \in Kinds, name, to \in Names \cup {NoName} :
          NameCall(kind, name, to) \in CallType
    /\ \A kind \in Kinds, name \in Names, off, cnt, len, old, count \in Nat, val \in Bytes,
          first \in Clusters \cup {0} :
          SizeCall(kind, name, off, cnt, val, first, len, old, count) \in CallType
    /\ NoCall \in CallType
  BY BytesAssumption DEF NoEntry, NewEntry, Entry, NameCall, SizeCall, CallType, NoCall, Kinds

LEMMA TypeInit == Init => TypeOK
  <1> SUFFICES ASSUME Init PROVE TypeOK
    OBVIOUS
  <1>1. bitmap \in [Clusters -> BOOLEAN]
    BY DEF Init
  <1>2. fat \in [Clusters -> FatValues]
    BY DEF Init, FatValues
  <1>3. dir \in [Names -> Entry]
    BY CallTypes DEF Init
  <1>4. data \in [Clusters -> [ClusterIndex -> Bytes \cup {Noise}]]
    BY DEF Init
  <1>5. pc \in PCs /\ call \in CallType
    BY CallTypes DEF Init, PCs
  <1>6. pos \in Nat /\ cur \in Nat /\ linked \in Nat /\ mishap \in BOOLEAN /\ cuts \in Nat
    BY DEF Init
  <1>7. chain \in Seq(Clusters) /\ got \in Seq(Clusters) /\ todo \in Seq(Nat)
    BY DEF Init
  <1>8. QED BY <1>1, <1>2, <1>3, <1>4, <1>5, <1>6, <1>7 DEF TypeOK

(* A call that ends keeps the types. *)
LEMMA TypeEnded ==
    ASSUME TypeOK, Ended, UNCHANGED disk, mishap' \in BOOLEAN, cuts' \in Nat
    PROVE  TypeOK'
  <1>1. pc' \in PCs /\ call' \in CallType
    BY CallTypes DEF Ended, PCs
  <1>2. /\ pos' \in Nat /\ cur' \in Nat /\ linked' \in Nat
        /\ chain' \in Seq(Clusters) /\ got' \in Seq(Clusters) /\ todo' \in Seq(Nat)
    BY DEF Ended
  <1>3. QED BY <1>1, <1>2 DEF TypeOK, disk

(* So does the beginning of a write. *)
LEMMA TypeStartWrite ==
    ASSUME TypeOK, NEW n \in Names, NEW off \in Nat, NEW cnt \in Nat, NEW v \in Bytes,
           StartWrite(n, off, cnt, v), UNCHANGED cuts
    PROVE  TypeOK'
  <1> DEFINE e == dir[n]
             size == IF off + cnt > e.len THEN off + cnt ELSE e.len
             old == ClustersFor(e.len)
             new == ClustersFor(size)
             need == IF new > old THEN new - old ELSE 0
  <1>1. e.first \in Clusters \cup {0} /\ e.len \in Nat /\ size \in Nat /\ e.first \in Nat
    BY SizesAssumption DEF TypeOK, Entry, Clusters
  <1>2. old \in Nat /\ new \in Nat /\ need \in Nat
    BY <1>1, ClustersForType
  <1>3. pos' \in Nat /\ cur' \in Nat
    BY <1>1 DEF FillStart, StartWrite
  <1>4. call' = SizeCall("write", n, off, cnt, v, e.first, size, old, need)
    BY DEF StartWrite
  <1> HIDE DEF e, size, old, new, need
  <1>5. call' \in CallType
    BY <1>1, <1>2, <1>4, CallTypes DEF Kinds
  <1>6. pc' \in PCs
    BY DEF StartWrite, PCs
  <1>7. QED
    BY <1>3, <1>5, <1>6 DEF TypeOK, StartWrite, disk

(* Every call that begins keeps the types. *)
LEMMA TypeBegin == TypeOK /\ Begin => TypeOK'
  <1> SUFFICES ASSUME TypeOK, NEW n \in Names, Call(n), UNCHANGED cuts PROVE TypeOK'
    BY DEF Begin
  <1>0. /\ dir[n].first \in Clusters \cup {0} /\ dir[n].first \in Nat /\ dir[n].len \in Nat
        /\ dir \in [Names -> Entry]
    BY SizesAssumption DEF TypeOK, Entry, Clusters
  <1>1. CASE Create(n)
    <2>1. dir' \in [Names -> Entry] /\ call' \in CallType /\ pc' \in PCs
      BY <1>0, <1>1, CallTypes DEF Create, Kinds, PCs
    <2>2. QED BY <1>1, <2>1 DEF Create, TypeOK
  <1>2. CASE Remove(n)
    <2>1. dir' \in [Names -> Entry] /\ call' \in CallType /\ pc' \in PCs
      BY <1>0, <1>2, CallTypes DEF Remove, Kinds, PCs
    <2>2. QED BY <1>0, <1>2, <2>1 DEF Remove, TypeOK
  <1>3. ASSUME NEW m \in Names, Rename(m, n) PROVE TypeOK'
    <2>1. dir[m].first \in Clusters \cup {0} /\ dir[m].len \in Nat
      BY <1>0 DEF Entry
    <2>2. dir' \in [Names -> Entry] /\ call' \in CallType /\ pc' \in PCs
      BY <1>0, <1>3, <2>1, CallTypes DEF Rename, Kinds, PCs
    <2>3. QED BY <1>3, <2>2 DEF Rename, TypeOK
  <1>4. ASSUME NEW len \in 0 .. MaxLen, Extend(n, len) PROVE TypeOK'
    <2> DEFINE pad == len - dir[n].len
               filler == IF pad < ClusterBytes THEN pad ELSE ClusterBytes
    <2>1. filler \in Nat /\ len - filler \in Nat
      BY <1>0, <1>4, SizesAssumption DEF Extend
    <2>2. StartWrite(n, len - filler, filler, Zero)
      BY <1>4 DEF Extend
    <2> HIDE DEF filler
    <2>3. QED BY <2>1, <2>2, TypeStartWrite, BytesAssumption
  <1>5. ASSUME NEW len \in 0 .. MaxLen, Shrink(n, len) PROVE TypeOK'
    <2>1. ClustersFor(dir[n].len) \in Nat /\ ClustersFor(len) \in Nat
      BY <1>0, ClustersForType
    <2>2. call' \in CallType /\ pc' \in PCs
      BY <1>0, <1>5, <2>1, CallTypes, BytesAssumption DEF Shrink, Kinds, PCs
    <2>3. QED BY <1>0, <1>5, <2>2 DEF Shrink, TypeOK, disk
  <1>6. ASSUME NEW off \in 0 .. MaxLen, NEW cnt \in 0 .. MaxLen, NEW v \in Bytes,
               WriteFile(n, off, cnt, v)
        PROVE  TypeOK'
    BY <1>6, TypeStartWrite DEF WriteFile
  <1>7. QED
    BY <1>1, <1>2, <1>3, <1>4, <1>5, <1>6 DEF Call

(* What the type invariant says of each variable and of the clusters. *)
LEMMA Types ==
    ASSUME TypeOK
    PROVE  /\ bitmap \in [Clusters -> BOOLEAN]
           /\ fat \in [Clusters -> FatValues]
           /\ \A c \in Clusters : fat[c] \in Nat
           /\ dir \in [Names -> Entry]
           /\ pc \in PCs /\ call \in CallType
           /\ call.first \in Nat /\ call.old \in Nat /\ call.count \in Nat
           /\ pos \in Nat /\ cur \in Nat /\ linked \in Nat
           /\ chain \in Seq(Clusters) /\ Len(chain) \in Nat
           /\ got \in Seq(Clusters) /\ Len(got) \in Nat
           /\ todo \in Seq(Nat) /\ Len(todo) \in Nat
           /\ Clusters \subseteq Nat
  <1>1. Clusters \subseteq Nat /\ Clusters \cup {0} \subseteq Nat /\ FatValues \subseteq Nat
    BY SizesAssumption DEF Clusters, FatValues
  <1>2. call.first \in Nat /\ call.old \in Nat /\ call.count \in Nat
    <2>1. call.first \in Clusters \cup {0} /\ call.old \in Nat /\ call.count \in Nat
      BY DEF TypeOK, CallType
    <2>2. QED BY <1>1, <2>1
  <1>3. \A c \in Clusters : fat[c] \in Nat
    BY <1>1 DEF TypeOK
  <1>4. Len(chain) \in Nat /\ Len(got) \in Nat /\ Len(todo) \in Nat
    BY DEF TypeOK
  <1>5. QED BY <1>1, <1>2, <1>3, <1>4 DEF TypeOK

(* The conditions of LoopsInv hold when a call begins. *)
LEMMA LoopsBegin == TypeOK /\ LoopsInv /\ Begin => LoopsInv'
  <1> SUFFICES ASSUME TypeOK, LoopsInv, NEW n \in Names, Call(n) PROVE LoopsInv'
    BY DEF Begin
  <1>1. CASE Create(n)
    BY <1>1 DEF Create, LoopsInv, NameCall
  <1>2. CASE Remove(n)
    BY <1>2 DEF Remove, LoopsInv, NameCall
  <1>3. ASSUME NEW m \in Names, Rename(m, n) PROVE LoopsInv'
    BY <1>3 DEF Rename, LoopsInv, NameCall
  <1>4. ASSUME NEW off, NEW cnt, NEW v, StartWrite(n, off, cnt, v) PROVE LoopsInv'
    BY <1>4 DEF StartWrite, LoopsInv, SizeCall
  <1>5. ASSUME NEW len \in 0 .. MaxLen, Shrink(n, len) PROVE LoopsInv'
    <2>1. ClustersFor(dir[n].len) > 0
      BY <1>5, ClustersForType DEF TypeOK, Entry, Shrink
    <2>2. call'.old = ClustersFor(dir[n].len) /\ pc' = "read"
      BY <1>5 DEF Shrink, SizeCall
    <2>3. QED BY <2>1, <2>2 DEF LoopsInv
  <1>6. QED
    BY <1>1, <1>2, <1>3, <1>4, <1>5 DEF Call, Extend, WriteFile

(* The end of a call, in any way, keeps both. *)
LEMMA TypeEnds ==
    ASSUME TypeOK, Return \/ Abandon, UNCHANGED disk, cuts' \in Nat
    PROVE  TypeOK' /\ LoopsInv'
  <1>1. Ended /\ mishap' \in BOOLEAN
    BY DEF Return, Abandon, TypeOK
  <1>2. TypeOK'
    BY <1>1, TypeEnded
  <1>3. LoopsInv'
    BY <1>1 DEF Ended, LoopsInv, NoCall, NameCall
  <1>4. QED BY <1>2, <1>3

(* So does every iteration of read_chain. *)
LEMMA TypeReadChain ==
    ASSUME TypeOK, LoopsInv, ReadChain, UNCHANGED cuts
    PROVE  TypeOK' /\ LoopsInv'
  <1>1. fat[cur] \in Nat
    <2>1. cur \in Clusters
      BY DEF ReadChain
    <2>2. QED BY <2>1, Types
  <1>2. cur' \in Nat
    BY <1>1 DEF ReadChain
  <1>a. pc' \in {"read", "cut", "alloc", "data"}
    BY DEF ReadChain
  <1>3. chain' \in Seq(Clusters)
    BY DEF ReadChain, TypeOK
  <1>4. TypeOK'
    BY <1>2, <1>a, <1>3 DEF TypeOK, ReadChain, disk, PCs
  <1>5. LoopsInv'
    BY <1>a DEF LoopsInv, ReadChain
  <1>6. QED BY <1>4, <1>5

(* Taking a cluster. *)
LEMMA TypeAllocCluster ==
    ASSUME TypeOK, LoopsInv, NEW c \in Clusters, AllocCluster(c), UNCHANGED cuts
    PROVE  TypeOK' /\ LoopsInv'
  <1>1. got' \in Seq(Clusters) /\ got' # << >>
    BY DEF AllocCluster, TypeOK
  <1>2. bitmap' \in [Clusters -> BOOLEAN] /\ pc' \in PCs
    BY DEF AllocCluster, TypeOK, PCs
  <1>3. TypeOK'
    BY <1>1, <1>2 DEF TypeOK, AllocCluster
  <1>4. LoopsInv'
    BY <1>1 DEF LoopsInv, AllocCluster
  <1>5. QED BY <1>3, <1>4

(* Writing the FAT entry of a new cluster. *)
LEMMA TypeLinkCluster ==
    ASSUME TypeOK, LoopsInv, LinkCluster, UNCHANGED cuts
    PROVE  TypeOK' /\ LoopsInv'
  <1>1. linked' \in Nat
    BY DEF LinkCluster, TypeOK
  <1>2. Successor(linked + 1) \in FatValues
    BY DEF TypeOK, Successor, FatValues
  <1>3. fat' \in [Clusters -> FatValues] /\ pc' \in PCs
    BY <1>2 DEF LinkCluster, TypeOK, PCs
  <1>4. TypeOK'
    BY <1>1, <1>3 DEF TypeOK, LinkCluster
  <1>5. LoopsInv'
    BY DEF LoopsInv, LinkCluster
  <1>6. QED BY <1>4, <1>5

(* Handing the new clusters to the file, with or without a chain before. *)
LEMMA TypeTail ==
    ASSUME TypeOK, LoopsInv, StartChain \/ LinkTail, UNCHANGED cuts
    PROVE  TypeOK' /\ LoopsInv'
  <1>1. pc = "tail" /\ pc' = "data" /\ pc' \in PCs
    BY DEF StartChain, LinkTail, PCs
  <1>2. got[1] \in Clusters
    BY <1>1 DEF LoopsInv, TypeOK
  <1>a. chain \in Seq(Clusters) /\ got \in Seq(Clusters) /\ chain \o got \in Seq(Clusters)
    BY ConcatProperties DEF TypeOK
  <1>b. chain' \in {got, chain \o got} /\ got' = << >> /\ linked' = 0
    BY DEF StartChain, LinkTail
  <1>3. chain' \in Seq(Clusters) /\ got' \in Seq(Clusters) /\ linked' \in Nat
    BY <1>a, <1>b, EmptySeq
  <1>4. fat' \in [Clusters -> FatValues]
    BY <1>2 DEF StartChain, LinkTail, TypeOK, FatValues, disk
  <1>5. call' \in CallType /\ call'.kind = call.kind /\ call'.old = call.old
    BY <1>2 DEF StartChain, LinkTail, TypeOK, CallType
  <1>6. UNCHANGED <<bitmap, dir, data, pos, cur, todo, mishap>>
    BY DEF StartChain, LinkTail, disk
  <1>7. TypeOK'
    BY <1>1, <1>3, <1>4, <1>5, <1>6 DEF TypeOK
  <1>8. LoopsInv'
    BY <1>1, <1>5 DEF LoopsInv
  <1>9. QED BY <1>7, <1>8
(* Writing one piece of the data: it ends past where it starts. *)
LEMMA TypeWriteData ==
    ASSUME TypeOK, LoopsInv, WriteData, UNCHANGED cuts
    PROVE  TypeOK' /\ LoopsInv'
  <1>1. call.off \in Nat /\ call.cnt \in Nat /\ call.val \in Bytes
    BY DEF TypeOK, CallType
  <1>2. pos \div ClusterBytes \in Nat
    <2>1. pos \in Nat /\ ClusterBytes \in Nat \ {0}
      BY SizesAssumption, Types
    <2>2. QED BY <2>1, DivType
  <1>3. PieceEnd \in Nat
    BY <1>1, <1>2, SizesAssumption DEF PieceEnd
  <1>4. PieceByte \in Bytes
    BY <1>1, BytesAssumption DEF PieceByte
  <1> DEFINE ci == pos \div ClusterBytes + 1
             base == (pos \div ClusterBytes) * ClusterBytes
             piece(d) == [b \in ClusterIndex |->
                             IF base + b >= pos /\ base + b < PieceEnd
                             THEN PieceByte ELSE d[b]]
  <1>5. chain[ci] \in Clusters
    <2>1. chain \in Seq(Clusters) /\ ci \in 1 .. Len(chain)
      <3>1. chain \in Seq(Clusters) /\ Len(chain) \in Nat
        BY Types
      <3>2. ci <= Len(chain)
        BY DEF WriteData
      <3>3. ci \in Nat /\ ci >= 1
        BY <1>2
      <3> HIDE DEF ci
      <3>4. QED BY <3>1, <3>2, <3>3
    <2> HIDE DEF ci
    <2>2. QED BY <2>1, ElementOfSeq
  <1>6. data' = [data EXCEPT ![chain[ci]] = piece(data[chain[ci]])]
    BY DEF WriteData
  <1>7. data[chain[ci]] \in [ClusterIndex -> Bytes \cup {Noise}]
    BY <1>5 DEF TypeOK
  <1>8. piece(data[chain[ci]]) \in [ClusterIndex -> Bytes \cup {Noise}]
    BY <1>4, <1>7
  <1> HIDE DEF piece
  <1>9. data' \in [Clusters -> [ClusterIndex -> Bytes \cup {Noise}]]
    BY <1>6, <1>8 DEF TypeOK
  <1>10. pos' \in Nat /\ pc' \in {"data", "data flush"}
    BY <1>3 DEF WriteData
  <1>11. TypeOK'
    BY <1>9, <1>10 DEF TypeOK, WriteData, PCs
  <1>12. LoopsInv'
    BY <1>10 DEF LoopsInv, WriteData
  <1>13. QED BY <1>11, <1>12

(* Cutting a chain to nothing: the run of clusters to free is not empty. *)
LEMMA TypeCutToNothing ==
    ASSUME TypeOK, LoopsInv, CutToNothing, UNCHANGED cuts
    PROVE  TypeOK' /\ LoopsInv'
  <1>1. call.first \in Nat /\ call.old \in Nat /\ call.old > 0
    BY Types DEF LoopsInv, CutToNothing
  <1> DEFINE k == IF call.old < ClusterCount THEN call.old ELSE ClusterCount
  <1>2. k \in Nat /\ k > 0 /\ FreeFrom(call.first, call.old) \in [1 .. k -> Nat]
    BY <1>1, SizesAssumption DEF FreeFrom
  <1>a. todo' = FreeFrom(call.first, call.old)
    BY DEF CutToNothing
  <1> HIDE DEF k
  <1>b. todo' \in Seq(Nat) /\ DOMAIN todo' = 1 .. k
    BY <1>2, <1>a, SeqDef
  <1>3. todo' \in Seq(Nat) /\ todo' # << >>
    BY <1>2, <1>b
  <1>4. call' \in CallType /\ call'.kind = call.kind /\ call'.old = call.old
    BY DEF CutToNothing, TypeOK, CallType
  <1>5. chain' \in Seq(Clusters) /\ pc' \in PCs /\ pc' = "free bit"
    BY EmptySeq DEF CutToNothing, PCs
  <1>6. TypeOK'
    BY <1>3, <1>4, <1>5 DEF TypeOK, CutToNothing, disk
  <1>7. LoopsInv'
    BY <1>3, <1>4, <1>5 DEF LoopsInv
  <1>8. QED BY <1>6, <1>7

(* Cutting a chain after the clusters kept. *)
LEMMA TypeCutChain ==
    ASSUME TypeOK, LoopsInv, CutChain, UNCHANGED cuts
    PROVE  TypeOK' /\ LoopsInv'
  <1>1. call.count \in Nat /\ chain \in Seq(Clusters) /\ Len(chain) \in Nat
    BY Types
  <1>2. call.count + 1 \in Int /\ \A i \in call.count + 1 .. Len(chain) : chain[i] \in Nat
    BY <1>1, Types
  <1>a. SubSeq(chain, call.count + 1, Len(chain)) \in Seq(Nat)
    BY <1>1, <1>2, SubSeqProperties
  <1>3. todo' \in Seq(Nat)
    BY <1>a DEF CutChain, Suffix
  <1>4. fat' \in [Clusters -> FatValues]
    BY DEF CutChain, TypeOK, FatValues
  <1>5. chain' \in Seq(Clusters) /\ pc' \in PCs
    BY EmptySeq DEF CutChain, PCs
  <1>6. TypeOK'
    BY <1>3, <1>4, <1>5 DEF TypeOK, CutChain
  <1>7. LoopsInv'
    BY DEF LoopsInv, CutChain
  <1>8. QED BY <1>6, <1>7

(* Freeing: a bit, a FAT entry, and the walk that lists what to free. *)
LEMMA TypeFree ==
    ASSUME TypeOK, LoopsInv, FreeBit \/ FreeFat \/ WalkChain, UNCHANGED cuts
    PROVE  TypeOK' /\ LoopsInv'
  <1>1. CASE FreeBit
    <2>1. bitmap' \in [Clusters -> BOOLEAN] /\ pc' \in PCs
      BY <1>1 DEF FreeBit, TypeOK, PCs
    <2>2. TypeOK'
      BY <1>1, <2>1 DEF TypeOK, FreeBit, locals
    <2>3. LoopsInv'
      BY <1>1 DEF LoopsInv, FreeBit, locals
    <2>4. QED BY <2>2, <2>3
  <1>2. CASE FreeFat
    <2>1. todo' \in Seq(Nat)
      BY <1>2, HeadTailProperties DEF FreeFat, TypeOK, LoopsInv
    <2>2. fat' \in [Clusters -> FatValues]
      BY <1>2 DEF FreeFat, TypeOK, FatValues
    <2>3. pc' \in {"free bit", "publish", "flush"} /\ (pc' = "free bit" => todo' # << >>)
      BY <1>2 DEF FreeFat
    <2>4. TypeOK'
      BY <1>2, <2>1, <2>2, <2>3 DEF TypeOK, FreeFat, PCs
    <2>5. LoopsInv'
      BY <1>2, <2>3 DEF LoopsInv, FreeFat
    <2>6. QED BY <2>4, <2>5
  <1>3. CASE WalkChain
    <2>1. cur \in Nat /\ fat[cur] \in Nat
      BY <1>3, Types DEF WalkChain
    <2>2. todo' \in Seq(Nat) /\ todo' # << >>
      <3>1. todo \in Seq(Nat) /\ todo' = Append(todo, cur)
        BY <1>3, Types DEF WalkChain
      <3>2. QED BY <2>1, <3>1, AppendProperties
    <2>a. cur' \in Nat
      <3>1. CASE fat[cur] \in Clusters
        BY <1>3, <2>1, <3>1 DEF WalkChain
      <3>2. CASE fat[cur] \notin Clusters
        <4>1. cur' = 0
          BY <1>3, <3>2 DEF WalkChain
        <4>2. QED BY <4>1
      <3>3. QED BY <3>1, <3>2
    <2>3. cur' \in Nat /\ pc' \in {"walk", "free bit"}
      BY <1>3, <2>a DEF WalkChain
    <2>4. TypeOK'
      BY <1>3, <2>2, <2>3 DEF TypeOK, WalkChain, disk, PCs
    <2>5. LoopsInv'
      BY <1>3, <2>2, <2>3 DEF LoopsInv, WalkChain
    <2>6. QED BY <2>4, <2>5
  <1>4. QED BY <1>1, <1>2, <1>3
(* Updating the directory, and the flushes between a call's writes. *)
LEMMA TypeEntries ==
    ASSUME TypeOK, LoopsInv, Publish \/ ClearOld \/ FlushAndGoOn, UNCHANGED cuts
    PROVE  TypeOK' /\ LoopsInv'
  <1>1. dir' \in [Names -> Entry]
    <2>1. NewEntry(call.first, call.len) \in Entry /\ NoEntry \in Entry
      BY CallTypes DEF TypeOK, CallType
    <2>2. dir \in [Names -> Entry]
      BY Types
    <2>3. QED BY <2>1, <2>2 DEF Publish, ClearOld, FlushAndGoOn, disk
  <1>2. pc' \in {"publish", "flush", "clear", "walk"}
    BY DEF Publish, ClearOld, FlushAndGoOn
  <1>3. UNCHANGED <<bitmap, fat, data, locals, mishap>>
    BY DEF Publish, ClearOld, FlushAndGoOn, disk
  <1>4. TypeOK'
    BY <1>1, <1>2, <1>3 DEF TypeOK, locals, PCs
  <1>5. LoopsInv'
    BY <1>2, <1>3 DEF LoopsInv, locals
  <1>6. QED BY <1>4, <1>5

(* No step of the driver and no power cut breaks the types. *)
LEMMA TypeNext == TypeOK /\ LoopsInv /\ [Next]_vars => TypeOK' /\ LoopsInv'
  <1> SUFFICES ASSUME TypeOK, LoopsInv, [Next]_vars PROVE TypeOK' /\ LoopsInv'
    OBVIOUS
  <1>1. CASE Begin
    BY <1>1, TypeBegin, LoopsBegin
  <1>2. CASE Advance
    <2>1. Step /\ UNCHANGED cuts
      BY <1>2 DEF Advance
    <2>2. cuts' \in Nat
      BY <2>1 DEF TypeOK
    <2>3. CASE ReadChainFails \/ AllocFails \/ WritePastChain \/ CutPanics
               \/ FreeBitFails \/ WalkFails \/ FlushAndReturn
      <3>1. (Return \/ Abandon) /\ UNCHANGED disk
        BY <2>3 DEF ReadChainFails, AllocFails, WritePastChain, CutPanics, FreeBitFails,
                    WalkFails, FlushAndReturn
      <3>2. QED BY <2>2, <3>1, TypeEnds
    <2>4. CASE Publish \/ ClearOld \/ FlushAndGoOn
      BY <2>1, <2>4, TypeEntries
    <2>5. CASE FreeBit \/ FreeFat \/ WalkChain
      BY <2>1, <2>5, TypeFree
    <2>6. CASE StartChain \/ LinkTail
      BY <2>1, <2>6, TypeTail
    <2>7. QED
      BY <2>1, <2>3, <2>4, <2>5, <2>6, TypeReadChain, TypeAllocCluster, TypeLinkCluster,
         TypeWriteData, TypeCutToNothing, TypeCutChain DEF Step
  <1>3. CASE PowerCut
    <2>1. Abandon /\ UNCHANGED disk /\ cuts' \in Nat
      BY <1>3 DEF PowerCut, TypeOK
    <2>2. QED BY <2>1, TypeEnds
  <1>4. CASE UNCHANGED vars
    BY <1>4 DEF vars, disk, locals, TypeOK, LoopsInv
  <1>5. QED BY <1>1, <1>2, <1>3, <1>4 DEF Next

(* Every table entry, directory entry and local of every call keeps its
   type: no FAT entry ever names a cluster outside the heap, and no loop of
   the driver indexes an empty vector, on any volume, for any calls and any
   number of power cuts. *)
THEOREM TypeCorrect == Spec => []TypeOK
  <1>1. Init => TypeOK /\ LoopsInv
    <2>1. Init => LoopsInv
      BY DEF Init, LoopsInv, NoCall, NameCall
    <2>2. QED BY <2>1, TypeInit
  <1>2. TypeOK /\ LoopsInv /\ [Next]_vars => TypeOK' /\ LoopsInv'
    BY TypeNext
  <1>3. QED BY <1>1, <1>2, PTL DEF Spec
-----------------------------------------------------------------------------
(* Chains stay apart *)

(* A table that agrees with another on a chain has the same chain there. *)
LEMMA TreeSame ==
    ASSUME NEW f, NEW g, NEW c, \A d \in Tree(f, c) : g[d] = f[d]
    PROVE  /\ Tree(g, c) = Tree(f, c)
           /\ Path(f, c) => Path(g, c)
  <1>1. Tree(g, c) \subseteq Tree(f, c) /\ (Path(f, c) => Path(g, c))
    BY TreeShrinks
  <1>2. \A d \in Tree(g, c) : f[d] = g[d]
    BY <1>1
  <1>3. Tree(f, c) \subseteq Tree(g, c)
    BY <1>2, TreeShrinks
  <1>4. QED BY <1>1, <1>3

(* What is no cluster starts no chain. *)
LEMMA TreeEmpty ==
    ASSUME NEW f, NEW c, c \notin Clusters
    PROVE  Tree(f, c) = {} /\ Path(f, c)
  BY DEF Tree, Path

(* Neither the free mark nor the end mark is a cluster. *)
LEMMA MarksAreNotClusters == 0 \notin Clusters /\ END_OF_CHAIN \notin Clusters
  BY SizesAssumption DEF Clusters

(* The chain of a file is made of clusters and closed. *)
LEMMA ReachClosed ==
    ASSUME NEW n
    PROVE  Reach(n) \subseteq Clusters /\ Closed(fat, Reach(n))
  <1>1. CASE dir[n].used /\ dir[n].first \in Clusters
    BY <1>1, TreeClosed DEF Reach
  <1>2. CASE ~dir[n].used \/ dir[n].first \notin Clusters
    BY <1>2, TreeEmpty DEF Reach, Closed
  <1>3. QED BY <1>1, <1>2

(* A step that leaves the directory alone, changes the table outside the
   chains or cuts a link of one, and clears no bit of one, keeps the files
   sound, as long as no rename ends with both names in place. *)
LEMMA FilesKept ==
    ASSUME FilesInv, UNCHANGED dir,
           \A n \in Names : \A d \in Reach(n) : fat'[d] = fat[d] \/ fat'[d] \notin Clusters,
           \A n \in Names : \A d \in Reach(n) : bitmap'[d] = bitmap[d],
           \/ UNCHANGED call
           \/ call.kind # "rename"
           \/ ~dir[call.name].used
    PROVE  FilesInv' /\ \A n \in Names : Reach(n)' \subseteq Reach(n)
  <1>1. ASSUME NEW n \in Names
        PROVE  Reach(n)' \subseteq Reach(n) /\ (dir'[n].used => Path(fat', dir'[n].first))
    <2>1. CASE dir[n].used
      <3>1. \A d \in Tree(fat, dir[n].first) : fat'[d] = fat[d] \/ fat'[d] \notin Clusters
        BY <2>1 DEF Reach
      <3>2. Path(fat, dir[n].first)
        BY <2>1 DEF FilesInv, Paths
      <3>3. /\ Tree(fat', dir[n].first) \subseteq Tree(fat, dir[n].first)
            /\ Path(fat', dir[n].first)
        BY <3>1, <3>2, TreeShrinks
      <3>4. QED BY <2>1, <3>3 DEF Reach
    <2>2. CASE ~dir[n].used
      BY <2>2 DEF Reach
    <2>3. QED BY <2>1, <2>2
  <1>2. ASSUME NEW m \in Names, NEW n \in Names, m # n, ~BeingRenamed(m, n)'
        PROVE  Reach(m)' \cap Reach(n)' = {}
    <2>1. CASE ~BeingRenamed(m, n)
      BY <1>1, <1>2, <2>1 DEF FilesInv, NoSharedClusters
    <2>2. CASE BeingRenamed(m, n)
      <3>1. call.kind = "rename" /\ (m = call.name \/ n = call.name)
        BY <2>2 DEF BeingRenamed
      <3>2. ~UNCHANGED call
        BY <1>2, <2>2 DEF BeingRenamed
      <3>3. ~dir[m].used \/ ~dir[n].used
        BY <3>1, <3>2
      <3>4. Reach(m) = {} \/ Reach(n) = {}
        BY <3>3 DEF Reach
      <3>5. QED BY <1>1, <3>4
    <2>3. QED BY <2>1, <2>2
  <1>3. NoSharedClusters'
    BY <1>2 DEF NoSharedClusters
  <1>4. LiveClustersAllocated'
    BY <1>1 DEF LiveClustersAllocated, FilesInv
  <1>5. Paths'
    BY <1>1 DEF Paths
  <1>6. QED BY <1>1, <1>3, <1>4, <1>5 DEF FilesInv

(* Changes outside all chains leave every chain as it is. *)
LEMMA ReachKept ==
    ASSUME UNCHANGED dir,
           \A n \in Names : \A d \in Reach(n) : fat'[d] = fat[d]
    PROVE  \A n \in Names : Reach(n)' = Reach(n)
  <1>1. SUFFICES ASSUME NEW n \in Names PROVE Reach(n)' = Reach(n)
    OBVIOUS
  <1>2. CASE dir[n].used
    <2>1. \A d \in Tree(fat, dir[n].first) : fat'[d] = fat[d]
      BY <1>2 DEF Reach
    <2>2. QED BY <1>2, <2>1, TreeSame DEF Reach
  <1>3. CASE ~dir[n].used
    BY <1>3 DEF Reach
  <1>4. QED BY <1>2, <1>3

(* Between calls there is nothing to know about one. *)
LEMMA EndedKnowsNothing == Ended => CallInv'
  BY DEF Ended, CallInv, KindInv, LocalsInv, ReadInv, AllocInv, PublishInv, FreeInv, RenameInv,
         NoCall, NameCall

(* The end of a call, complete or not, keeps the files sound. *)
LEMMA KeepEnd ==
    ASSUME FilesInv, RenameInv, Ended, UNCHANGED disk,
           call.kind = "rename" => pc = "flush"
    PROVE  FilesInv' /\ CallInv'
  <1>1. call.kind # "rename" \/ ~dir[call.name].used
    BY DEF RenameInv
  <1>2. UNCHANGED dir /\ UNCHANGED fat /\ UNCHANGED bitmap
    BY DEF disk
  <1>3. FilesInv'
    BY <1>1, <1>2, FilesKept
  <1>4. QED BY <1>3, EndedKnowsNothing
-----------------------------------------------------------------------------
(* The beginning of a call *)

(* A new name, or one fewer, leaves the other chains alone. *)
LEMMA KeepCreate ==
    ASSUME IInv, NEW n \in Names, Create(n)
    PROVE  FilesInv' /\ CallInv'
  <1>1. pc = "idle" /\ fat' = fat /\ bitmap' = bitmap /\ pc' = "flush"
    BY DEF Create, Idle
  <1>2. call.kind = "none" /\ chain = << >> /\ got = << >> /\ linked = 0 /\ todo = << >>
    BY <1>1 DEF IInv, CallInv, KindInv, LocalsInv
  <1>3. \A m \in Names : dir'[m] = IF m = n THEN NewEntry(0, 0) ELSE dir[m]
    BY DEF Create, IInv, TypeOK
  <1>4. /\ \A m \in Names \ {n} : Reach(m)' = Reach(m)
        /\ Reach(n)' = {}
    BY <1>1, <1>3, TreeEmpty, MarksAreNotClusters DEF Reach, NewEntry
  <1>5. \A m \in Names : dir'[m].used => Path(fat', dir'[m].first)
    BY <1>1, <1>3, TreeEmpty, MarksAreNotClusters DEF NewEntry, IInv, FilesInv, Paths
  <1>6. NoSharedClusters'
    BY <1>2, <1>4 DEF NoSharedClusters, IInv, FilesInv, BeingRenamed
  <1>7. LiveClustersAllocated'
    BY <1>1, <1>4 DEF LiveClustersAllocated, IInv, FilesInv
  <1>8. FilesInv'
    BY <1>5, <1>6, <1>7 DEF FilesInv, Paths
  <1>9. call'.kind = "create"
    BY DEF Create, NameCall
  <1>10. CallInv'
    BY <1>1, <1>2, <1>9 DEF Create, CallInv, KindInv, LocalsInv, ReadInv, AllocInv, PublishInv,
       FreeInv, RenameInv
  <1>11. QED BY <1>8, <1>10

(* The chain of a removed file touches no other. *)
LEMMA KeepRemove ==
    ASSUME IInv, NEW n \in Names, Remove(n)
    PROVE  FilesInv' /\ CallInv'
  <1>1. /\ pc = "idle" /\ fat' = fat /\ bitmap' = bitmap /\ pc' \in {"flush", "clear flush"}
        /\ cur' = dir[n].first /\ dir[n].used
    BY DEF Remove, Idle
  <1>2. call.kind = "none" /\ chain = << >> /\ got = << >> /\ linked = 0 /\ todo = << >>
    BY <1>1 DEF IInv, CallInv, KindInv, LocalsInv
  <1>3. ~dir'[n].used /\ \A m \in Names \ {n} : dir'[m] = dir[m]
    BY DEF Remove, IInv, TypeOK, NoEntry
  <1>4. /\ \A m \in Names \ {n} : Reach(m)' = Reach(m)
        /\ Reach(n)' = {}
    BY <1>1, <1>3 DEF Reach
  <1>5. \A m \in Names : dir'[m].used => Path(fat', dir'[m].first)
    <2>1. \A m \in Names : dir[m].used => Path(fat, dir[m].first)
      BY DEF IInv, FilesInv, Paths
    <2>2. ASSUME NEW m \in Names, dir'[m].used PROVE Path(fat', dir'[m].first)
      <3>1. m # n
        BY <1>3, <2>2
      <3>2. dir'[m] = dir[m] /\ dir[m].used
        BY <1>3, <2>2, <3>1
      <3>3. QED BY <1>1, <2>1, <3>2
    <2>3. QED BY <2>2
  <1>6. NoSharedClusters'
    BY <1>2, <1>4 DEF NoSharedClusters, IInv, FilesInv, BeingRenamed
  <1>7. LiveClustersAllocated'
    BY <1>1, <1>4 DEF LiveClustersAllocated, IInv, FilesInv
  <1>8. FilesInv'
    BY <1>5, <1>6, <1>7 DEF FilesInv, Paths
  <1>9. call'.kind = "remove"
    BY DEF Remove, NameCall
  <1>10. Tree(fat, dir[n].first) = Reach(n)
    BY <1>1 DEF Reach
  <1>11. \A m \in Names \ {n} : Reach(n) \cap Reach(m) = {}
    BY <1>2 DEF IInv, FilesInv, NoSharedClusters, BeingRenamed
  <1>12. Apart(Tree(fat, cur))'
    BY <1>1, <1>4, <1>10, <1>11 DEF Apart
  <1>13. FreeInv'
    BY <1>1, <1>9, <1>12 DEF FreeInv
  <1>14. KindInv' /\ LocalsInv' /\ ReadInv' /\ AllocInv' /\ PublishInv' /\ RenameInv'
    BY <1>1, <1>2, <1>9 DEF Remove, KindInv, LocalsInv, ReadInv, AllocInv, PublishInv, RenameInv
  <1>15. QED BY <1>8, <1>13, <1>14 DEF CallInv

(* The second name of a file has the chain of the first. *)
LEMMA KeepRename ==
    ASSUME IInv, NEW m \in Names, NEW n \in Names, m # n, Rename(m, n)
    PROVE  FilesInv' /\ CallInv'
  <1>1. /\ pc = "idle" /\ fat' = fat /\ bitmap' = bitmap /\ pc' = "clear flush"
        /\ dir[m].used /\ "rename" \in Ops
    BY DEF Rename, Idle
  <1>2. call.kind = "none" /\ chain = << >> /\ got = << >> /\ linked = 0 /\ todo = << >>
    BY <1>1 DEF IInv, CallInv, KindInv, LocalsInv
  <1>3. /\ dir'[n].used /\ dir'[n].first = dir[m].first
        /\ \A k \in Names \ {n} : dir'[k] = dir[k]
    BY DEF Rename, IInv, TypeOK, NewEntry
  <1>4. /\ \A k \in Names \ {n} : Reach(k)' = Reach(k)
        /\ Reach(n)' = Reach(m)
    BY <1>1, <1>3 DEF Reach
  <1>5. \A k \in Names : dir'[k].used => Path(fat', dir'[k].first)
    BY <1>1, <1>3 DEF IInv, FilesInv, Paths
  <1>6. call'.kind = "rename" /\ call'.name = m /\ call'.to = n
    BY DEF Rename, NameCall
  <1>7. NoSharedClusters'
    <2>1. SUFFICES ASSUME NEW k \in Names, NEW l \in Names, k # l, {k, l} # {m, n}
                   PROVE  Reach(k)' \cap Reach(l)' = {}
      BY <1>6 DEF NoSharedClusters, BeingRenamed
    <2>2. \A i, j \in Names : i # j => Reach(i) \cap Reach(j) = {}
      BY <1>2 DEF IInv, FilesInv, NoSharedClusters, BeingRenamed
    <2>3. CASE k = n
      BY <1>4, <2>1, <2>2, <2>3
    <2>4. CASE l = n
      BY <1>4, <2>1, <2>2, <2>4
    <2>5. CASE k # n /\ l # n
      BY <1>4, <2>1, <2>2, <2>5
    <2>6. QED BY <2>3, <2>4, <2>5
  <1>8. LiveClustersAllocated'
    BY <1>1, <1>4 DEF LiveClustersAllocated, IInv, FilesInv
  <1>9. FilesInv'
    BY <1>5, <1>7, <1>8 DEF FilesInv, Paths
  <1>10. CallInv'
    BY <1>1, <1>2, <1>6 DEF Rename, CallInv, KindInv, LocalsInv, ReadInv, AllocInv, PublishInv,
       FreeInv, RenameInv
  <1>11. QED BY <1>9, <1>10

(* A call that starts at the first cluster of a file knows its chain. *)
LEMMA KeepStart ==
    ASSUME IInv, NEW n \in Names, pc = "idle", UNCHANGED <<disk, chain, got, linked, todo>>,
           dir[n].used, call'.name = n, call'.first = dir[n].first,
           cur' = dir[n].first,
           call'.kind \in {"write", "shrink"},
           call'.kind = "shrink" => call'.count > 0,
           pc' \in {"read", "alloc"}, pc' = "alloc" => call'.kind = "write"
    PROVE  FilesInv' /\ CallInv'
  <1>1. call.kind = "none" /\ chain' = << >> /\ got' = << >> /\ linked' = 0 /\ todo' = << >>
    BY DEF IInv, CallInv, KindInv, LocalsInv
  <1>2. fat' = fat /\ dir' = dir /\ bitmap' = bitmap
    BY DEF disk
  <1>3. FilesInv'
    BY <1>1, <1>2, FilesKept DEF IInv
  <1>4. cur' \in Clusters => cur' \in Reach(n)'
    BY <1>2, TreeClosed DEF Reach
  <1>5. ReadInv'
    BY <1>1, <1>2, <1>4 DEF ReadInv
  <1>6. KindInv' /\ LocalsInv' /\ PublishInv' /\ FreeInv' /\ RenameInv'
    BY <1>1, <1>2 DEF KindInv, LocalsInv, PublishInv, FreeInv, RenameInv
  <1>a. AllocInv'
    BY <1>1, EmptySeq DEF AllocInv
  <1>7. QED BY <1>3, <1>5, <1>6, <1>a DEF CallInv

(* Every call of SoundOps keeps the files sound when it begins. *)
LEMMA KeepBegin == SoundOps /\ IInv /\ Begin => FilesInv' /\ CallInv'
  <1> SUFFICES ASSUME SoundOps, IInv, NEW n \in Names, Call(n) PROVE FilesInv' /\ CallInv'
    BY DEF Begin
  <1>1. ASSUME NEW off, NEW cnt, NEW v, StartWrite(n, off, cnt, v), dir[n].used, Idle
        PROVE  FilesInv' /\ CallInv'
    <2>1. /\ call'.name = n /\ call'.first = dir[n].first /\ call'.kind = "write"
          /\ cur' = dir[n].first /\ pc' \in {"read", "alloc"}
          /\ UNCHANGED <<disk, chain, got, linked, todo>>
      BY <1>1 DEF StartWrite, SizeCall
    <2>2. QED BY <1>1, <2>1, KeepStart DEF Idle
  <1>2. ASSUME NEW len \in 0 .. MaxLen, Shrink(n, len)
        PROVE  FilesInv' /\ CallInv'
    <2>1. len > 0 /\ len \in Nat
      BY <1>2, SizesAssumption DEF Shrink, SoundOps
    <2>2. ClustersFor(len) > 0
      BY <2>1, ClustersForType
    <2>3. /\ call'.name = n /\ call'.first = dir[n].first /\ call'.kind = "shrink"
          /\ call'.count = ClustersFor(len)
          /\ cur' = dir[n].first /\ pc' = "read" /\ pc = "idle" /\ dir[n].used
          /\ UNCHANGED <<disk, chain, got, linked, todo>>
      BY <1>2 DEF Shrink, SizeCall, Idle
    <2>4. QED BY <2>2, <2>3, KeepStart
  <1>3. QED
    BY <1>1, <1>2, KeepCreate, KeepRemove, KeepRename DEF Call, Extend, WriteFile
-----------------------------------------------------------------------------
(* Reading and growing a chain *)

(* A sound file may be published as it is. *)
LEMMA FileIsPublishable ==
    ASSUME FilesInv, call.kind # "rename", call.name \in Names, dir[call.name].used,
           call.first = dir[call.name].first
    PROVE  /\ \A c \in Tree(fat, call.first) : bitmap[c]
           /\ \A n \in Names \ {call.name} : Tree(fat, call.first) \cap Reach(n) = {}
           /\ Path(fat, call.first)
  <1>1. Tree(fat, call.first) = Reach(call.name)
    BY DEF Reach
  <1>2. \A n \in Names \ {call.name} : Reach(call.name) \cap Reach(n) = {}
    BY DEF FilesInv, NoSharedClusters, BeingRenamed
  <1>3. \A c \in Reach(call.name) : bitmap[c]
    BY DEF FilesInv, LiveClustersAllocated
  <1>4. Path(fat, call.first)
    BY DEF FilesInv, Paths
  <1>5. QED BY <1>1, <1>2, <1>3, <1>4

(* read_chain never meets a cluster twice: on a path, the successor of the
   last cluster read is none of those before it. *)
LEMMA ReadFindsNew ==
    ASSUME IInv, pc = "read", cur \in Clusters
    PROVE  \A j \in 1 .. Len(chain) : chain[j] # cur
  <1> SUFFICES ASSUME NEW j \in 1 .. Len(chain), chain[j] = cur PROVE FALSE
    OBVIOUS
  <1> DEFINE last == chain[Len(chain)]
  <1>1. /\ Len(chain) \in Nat /\ Len(chain) >= 1
        /\ \A i \in 1 .. Len(chain) : chain[i] \in Clusters
    <2>1. chain \in Seq(Clusters) /\ Len(chain) \in Nat
      BY Types DEF IInv
    <2>2. Len(chain) >= 1
      BY <2>1
    <2>3. QED BY <2>1, <2>2, ElementOfSeq
  <1>2. /\ call.first = dir[call.name].first
        /\ \A i \in 1 .. Len(chain) : chain[i] \in Reach(call.name)
        /\ \A i \in 1 .. Len(chain) :
              /\ i = 1 => chain[i] = call.first
              /\ i < Len(chain) => fat[chain[i]] = chain[i + 1]
        /\ \A i, k \in 1 .. Len(chain) : chain[i] = chain[k] => i = k
        /\ cur = IF chain = << >> THEN call.first ELSE fat[last]
    BY DEF IInv, CallInv, ReadInv
  <1>3. chain # << >> /\ Len(chain) \in 1 .. Len(chain)
    BY <1>1
  <1>4. cur = fat[last] /\ last \in Reach(call.name)
    BY <1>2, <1>3
  <1>5. call.name \in Names /\ dir[call.name].used
    BY DEF IInv, CallInv, KindInv
  <1>6. Path(fat, call.first) /\ Reach(call.name) = Tree(fat, call.first)
    BY <1>2, <1>5 DEF IInv, FilesInv, Paths, Reach
  <1>7. j # 1
    BY <1>2, <1>4, <1>6 DEF Path
  <1>8. j - 1 \in 1 .. Len(chain) /\ j - 1 < Len(chain) /\ j - 1 + 1 = j
    BY <1>1, <1>7
  <1>9. fat[chain[j - 1]] = chain[j] /\ chain[j - 1] \in Reach(call.name)
    BY <1>2, <1>8
  <1>10. chain[j - 1] = last
    BY <1>4, <1>6, <1>9 DEF Path
  <1>11. j - 1 = Len(chain)
    BY <1>2, <1>3, <1>8, <1>10
  <1>12. QED BY <1>1, <1>11

(* One iteration of read_chain keeps what the call knows of the chain. *)
LEMMA KeepReadChain ==
    ASSUME IInv, ReadChain
    PROVE  FilesInv' /\ CallInv'
  <1>1. /\ pc = "read" /\ cur \in Clusters
        /\ fat' = fat /\ dir' = dir /\ bitmap' = bitmap /\ call' = call /\ got' = got
        /\ linked' = linked /\ todo' = todo
        /\ chain' = Append(chain, cur)
        /\ pc' \in {"read", "cut", "alloc", "data"}
        /\ pc' = "read" => cur' = fat[cur]
        /\ pc' = "cut" => call.kind = "shrink"
        /\ pc' \in {"alloc", "data"} => call.kind # "shrink"
    BY DEF ReadChain, disk
  <1>2. FilesInv'
    BY <1>1, FilesKept DEF IInv
  <1>3. /\ call.kind \in {"write", "shrink"} /\ call.name \in Names /\ dir[call.name].used
        /\ got = << >> /\ linked = 0 /\ todo = << >>
    BY <1>1 DEF IInv, CallInv, KindInv, LocalsInv
  <1>4. \A n \in Names : Reach(n)' = Reach(n)
    BY <1>1 DEF Reach
  <1>5. /\ call.first = dir[call.name].first
        /\ \A i \in 1 .. Len(chain) : chain[i] \in Reach(call.name)
        /\ \A i \in 1 .. Len(chain) :
              /\ i = 1 => chain[i] = call.first
              /\ i < Len(chain) => fat[chain[i]] = chain[i + 1]
        /\ \A i, j \in 1 .. Len(chain) : chain[i] = chain[j] => i = j
        /\ cur = IF chain = << >> THEN call.first ELSE fat[chain[Len(chain)]]
        /\ cur \in Reach(call.name)
    BY <1>1 DEF IInv, CallInv, ReadInv
  <1>6. /\ Len(chain) \in Nat
        /\ Len(chain') = Len(chain) + 1
        /\ chain'[Len(chain) + 1] = cur
        /\ \A i \in 1 .. Len(chain) : chain'[i] = chain[i]
        /\ chain' # << >>
        /\ chain = << >> <=> Len(chain) = 0
    <2>1. chain \in Seq(Clusters) /\ Len(chain) \in Nat
      BY Types DEF IInv
    <2>2. QED BY <1>1, <2>1, AppendProperties
  <1>7. ReadInv'
    <2>1. \A i \in 1 .. Len(chain') : chain'[i] \in Reach(call.name)
      BY <1>5, <1>6
    <2>2. ASSUME NEW i \in 1 .. Len(chain')
          PROVE  /\ i = 1 => chain'[i] = call.first
                 /\ i < Len(chain') => fat[chain'[i]] = chain'[i + 1]
      <3>1. CASE i <= Len(chain)
        <4>1. chain'[i] = chain[i] /\ i \in 1 .. Len(chain)
          BY <1>6, <3>1
        <4>2. CASE i < Len(chain)
          BY <1>5, <1>6, <4>1, <4>2
        <4>3. CASE i = Len(chain)
          BY <1>5, <1>6, <4>1, <4>3
        <4>4. QED BY <1>6, <3>1, <4>2, <4>3
      <3>2. CASE i = Len(chain) + 1
        BY <1>5, <1>6, <3>2
      <3>3. QED BY <1>6, <3>1, <3>2
    <2>3. \A i, j \in 1 .. Len(chain') : chain'[i] = chain'[j] => i = j
      <3>1. \A j \in 1 .. Len(chain) : chain[j] # cur
        BY <1>1, ReadFindsNew
      <3>2. QED BY <1>5, <1>6, <3>1
    <2>4. pc' = "read" => cur' = fat[chain'[Len(chain')]]
      BY <1>1, <1>6
    <2>5. pc' = "read" /\ cur' \in Clusters => cur' \in Reach(call.name)
      BY <1>1, <1>5, ReachClosed DEF Closed
    <2>6. QED BY <1>1, <1>3, <1>4, <1>5, <1>6, <2>1, <2>2, <2>3, <2>4, <2>5 DEF ReadInv
  <1>8. PublishInv'
    <2>1. /\ \A c \in Tree(fat, call.first) : bitmap[c]
          /\ \A n \in Names \ {call.name} : Tree(fat, call.first) \cap Reach(n) = {}
          /\ Path(fat, call.first)
      BY <1>3, <1>5, FileIsPublishable DEF IInv
    <2>2. QED BY <1>1, <1>4, <2>1 DEF PublishInv
  <1>9. AllocInv'
    BY <1>1, <1>3, EmptySeq DEF AllocInv
  <1>10. KindInv' /\ LocalsInv' /\ FreeInv' /\ RenameInv'
    BY <1>1, <1>3 DEF IInv, CallInv, KindInv, LocalsInv, FreeInv, RenameInv
  <1>11. QED BY <1>2, <1>7, <1>8, <1>9, <1>10 DEF CallInv
(* While clusters are taken and linked, the chain read stays the file's. *)
LEMMA ReadKept ==
    ASSUME IInv, pc \in {"alloc", "link"}, pc' \in {"alloc", "link", "tail"},
           call' = call, chain' = chain, dir' = dir,
           \A n \in Names : Reach(n)' = Reach(n)
    PROVE  ReadInv'
  <1>1. /\ call.first = dir[call.name].first
        /\ \A i \in 1 .. Len(chain) : chain[i] \in Reach(call.name)
    BY DEF IInv, CallInv, ReadInv
  <1>2. call.name \in Names
    BY DEF IInv, CallInv, KindInv
  <1>3. \A i \in 1 .. Len(chain') : chain'[i] \in Reach(call.name)'
    BY <1>1, <1>2
  <1>4. QED BY <1>1, <1>3 DEF ReadInv

(* The cluster taken is free, so it is nobody's and was not taken before. *)
LEMMA KeepAllocCluster ==
    ASSUME IInv, NEW c \in Clusters, AllocCluster(c)
    PROVE  FilesInv' /\ CallInv'
  <1>1. /\ pc = "alloc" /\ ~bitmap[c]
        /\ fat' = fat /\ dir' = dir /\ call' = call /\ chain' = chain /\ cur' = cur
        /\ linked' = linked /\ todo' = todo
        /\ got' = Append(got, c)
        /\ pc' \in {"link", "alloc"}
    BY DEF AllocCluster, FirstFree
  <1>2. bitmap'[c] /\ \A d \in Clusters : d # c => bitmap'[d] = bitmap[d]
    BY DEF AllocCluster, IInv, TypeOK
  <1>3. \A n \in Names : c \notin Reach(n)
    BY <1>1 DEF IInv, FilesInv, LiveClustersAllocated
  <1>4. \A n \in Names : \A d \in Reach(n) : bitmap'[d] = bitmap[d]
    BY <1>2, <1>3, ReachClosed
  <1>5. FilesInv'
    BY <1>1, <1>4, FilesKept DEF IInv
  <1>6. \A n \in Names : Reach(n)' = Reach(n)
    BY <1>1 DEF Reach
  <1>7. call.kind = "write" /\ linked = 0 /\ todo = << >>
    BY <1>1 DEF IInv, CallInv, KindInv, LocalsInv
  <1>8. /\ Len(got) \in Nat
        /\ Len(got') = Len(got) + 1
        /\ got'[Len(got) + 1] = c
        /\ \A i \in 1 .. Len(got) : got'[i] = got[i] /\ got[i] \in Clusters
    <2>1. got \in Seq(Clusters) /\ Len(got) \in Nat
      BY Types DEF IInv
    <2>2. QED BY <1>1, <2>1, AppendProperties, ElementOfSeq
  <1>9. /\ \A i \in 1 .. Len(got) :
              bitmap[got[i]] /\ \A n \in Names : got[i] \notin Reach(n)
        /\ \A i, j \in 1 .. Len(got) : got[i] = got[j] => i = j
    BY <1>1 DEF IInv, CallInv, AllocInv
  <1>10. \A i \in 1 .. Len(got) : got[i] # c
    BY <1>1, <1>9
  <1>11. AllocInv'
    <2>1. \A i \in 1 .. Len(got') :
              bitmap'[got'[i]] /\ \A n \in Names : got'[i] \notin Reach(n)'
      BY <1>2, <1>3, <1>6, <1>8, <1>9, <1>10
    <2>2. \A i, j \in 1 .. Len(got') : got'[i] = got'[j] => i = j
      BY <1>8, <1>9, <1>10
    <2>3. linked' < Len(got') /\ linked' = 0
      BY <1>1, <1>7, <1>8
    <2>4. QED BY <1>1, <2>1, <2>2, <2>3 DEF AllocInv
  <1>12. ReadInv'
    BY <1>1, <1>6, ReadKept
  <1>13. KindInv' /\ LocalsInv' /\ PublishInv' /\ FreeInv' /\ RenameInv'
    BY <1>1, <1>7 DEF IInv, CallInv, KindInv, LocalsInv, PublishInv, FreeInv, RenameInv
  <1>14. QED BY <1>5, <1>11, <1>12, <1>13 DEF CallInv

(* Linking a new cluster changes no file. *)
LEMMA KeepLinkCluster ==
    ASSUME IInv, LinkCluster
    PROVE  FilesInv' /\ CallInv'
  <1> DEFINE x == got[linked + 1]
  <1>1. /\ pc = "link"
        /\ bitmap' = bitmap /\ dir' = dir /\ call' = call /\ chain' = chain /\ cur' = cur
        /\ got' = got /\ todo' = todo
        /\ linked' = linked + 1
        /\ fat' = [fat EXCEPT ![x] = Successor(linked + 1)]
        /\ pc' = IF linked + 1 < Len(got) THEN "link" ELSE "tail"
    BY DEF LinkCluster
  <1>2. /\ \A i \in 1 .. Len(got) :
              bitmap[got[i]] /\ \A n \in Names : got[i] \notin Reach(n)
        /\ \A i, j \in 1 .. Len(got) : got[i] = got[j] => i = j
        /\ linked < Len(got)
        /\ \A j \in 1 .. linked : fat[got[j]] = Successor(j)
    BY <1>1 DEF IInv, CallInv, AllocInv
  <1>3. /\ linked \in Nat /\ Len(got) \in Nat
        /\ \A i \in 1 .. Len(got) : got[i] \in Clusters
    BY Types, ElementOfSeq DEF IInv
  <1>4. linked + 1 \in 1 .. Len(got)
    BY <1>2, <1>3
  <1>5. x \in Clusters /\ \A n \in Names : x \notin Reach(n)
    BY <1>2, <1>3, <1>4
  <1> HIDE DEF x
  <1>6. fat'[x] = Successor(linked + 1) /\ \A d \in Clusters : d # x => fat'[d] = fat[d]
    BY <1>1, <1>5 DEF IInv, TypeOK
  <1>7. \A n \in Names : \A d \in Reach(n) : fat'[d] = fat[d]
    BY <1>5, <1>6, ReachClosed
  <1>8. FilesInv'
    BY <1>1, <1>7, FilesKept DEF IInv
  <1>9. \A n \in Names : Reach(n)' = Reach(n)
    BY <1>1, <1>7, ReachKept
  <1>10. call.kind = "write" /\ todo = << >>
    BY <1>1 DEF IInv, CallInv, KindInv, LocalsInv
  <1>11. \A j \in 1 .. Len(got) : Successor(j)' = Successor(j)
    BY <1>1 DEF Successor
  <1>12. \A j \in 1 .. linked' : fat'[got[j]] = Successor(j)
    <2>1. ASSUME NEW j \in 1 .. linked PROVE fat'[got[j]] = Successor(j)
      <3>1. j \in 1 .. Len(got) /\ j # linked + 1
        BY <1>2, <1>3
      <3>2. got[j] # x
        BY <1>2, <1>4, <3>1 DEF x
      <3>3. QED BY <1>2, <1>3, <1>6, <3>1, <3>2
    <2>2. fat'[got[linked + 1]] = Successor(linked + 1)
      BY <1>6 DEF x
    <2>3. QED BY <1>1, <1>3, <2>1, <2>2
  <1>13. AllocInv'
    <2>1. pc' = "link" => linked' < Len(got')
      BY <1>1
    <2>2. pc' = "tail" => linked' = Len(got') /\ linked' > 0
      BY <1>1, <1>2, <1>3
    <2>3. \A j \in 1 .. linked' : j \in 1 .. Len(got)
      BY <1>1, <1>2, <1>3
    <2>4. \A j \in 1 .. linked' : fat'[got'[j]] = Successor(j)'
      BY <1>1, <1>11, <1>12, <2>3
    <2>5. /\ \A i \in 1 .. Len(got') :
                bitmap'[got'[i]] /\ \A n \in Names : got'[i] \notin Reach(n)'
          /\ \A i, j \in 1 .. Len(got') : got'[i] = got'[j] => i = j
      BY <1>1, <1>2, <1>9
    <2>6. QED BY <2>1, <2>2, <2>4, <2>5 DEF AllocInv
  <1>14. pc' \in {"link", "tail"}
    BY <1>1
  <1>15. ReadInv'
    BY <1>1, <1>9, <1>14, ReadKept
  <1>16. KindInv' /\ LocalsInv' /\ PublishInv' /\ FreeInv' /\ RenameInv'
    BY <1>1, <1>10, <1>14 DEF IInv, CallInv, KindInv, LocalsInv, PublishInv, FreeInv, RenameInv
  <1>17. QED BY <1>8, <1>13, <1>15, <1>16 DEF CallInv

(* The clusters a call has taken so far. *)
NewClusters == {got[i] : i \in 1 .. Len(got)}

(* The new clusters, all linked, are a closed path of their own. *)
LEMMA NewChain ==
    ASSUME IInv, pc = "tail"
    PROVE  /\ NewClusters \subseteq Clusters /\ got[1] \in NewClusters
           /\ Closed(fat, NewClusters)
           /\ \A c \in NewClusters : bitmap[c] /\ \A n \in Names : c \notin Reach(n)
           /\ \A c, d \in NewClusters : fat[c] = fat[d] /\ fat[c] \in Clusters => c = d
           /\ \A c \in NewClusters : fat[c] # got[1]
  <1>1. /\ \A i \in 1 .. Len(got) :
              bitmap[got[i]] /\ \A n \in Names : got[i] \notin Reach(n)
        /\ \A i, j \in 1 .. Len(got) : got[i] = got[j] => i = j
        /\ linked = Len(got) /\ Len(got) > 0
        /\ \A j \in 1 .. linked : fat[got[j]] = Successor(j)
    BY DEF IInv, CallInv, AllocInv
  <1>2. Len(got) \in Nat /\ \A i \in 1 .. Len(got) : got[i] \in Clusters
    BY Types, ElementOfSeq DEF IInv
  <1>3. \A i \in 1 .. Len(got) :
           fat[got[i]] = IF i < Len(got) THEN got[i + 1] ELSE END_OF_CHAIN
    BY <1>1 DEF Successor
  <1>4. \A i \in 1 .. Len(got) :
           fat[got[i]] \in Clusters =>
               i + 1 \in 1 .. Len(got) /\ fat[got[i]] = got[i + 1]
    BY <1>2, <1>3, MarksAreNotClusters
  <1>5. 1 \in 1 .. Len(got)
    BY <1>1, <1>2
  <1>6. NewClusters \subseteq Clusters /\ got[1] \in NewClusters
    BY <1>2, <1>5 DEF NewClusters
  <1>7. Closed(fat, NewClusters)
    BY <1>4 DEF Closed, NewClusters
  <1>8. \A c, d \in NewClusters : fat[c] = fat[d] /\ fat[c] \in Clusters => c = d
    <2>1. SUFFICES ASSUME NEW i \in 1 .. Len(got), NEW j \in 1 .. Len(got),
                          fat[got[i]] = fat[got[j]], fat[got[i]] \in Clusters
                   PROVE  got[i] = got[j]
      BY DEF NewClusters
    <2>2. i + 1 = j + 1
      BY <1>1, <1>4, <2>1
    <2>3. QED BY <2>2
  <1>9. \A c \in NewClusters : fat[c] # got[1]
    <2>1. SUFFICES ASSUME NEW i \in 1 .. Len(got), fat[got[i]] = got[1] PROVE FALSE
      BY DEF NewClusters
    <2>2. i + 1 = 1
      BY <1>1, <1>2, <1>4, <1>5, <2>1
    <2>3. QED BY <2>2
  <1>10. \A c \in NewClusters : bitmap[c] /\ \A n \in Names : c \notin Reach(n)
    BY <1>1 DEF NewClusters
  <1>11. QED BY <1>6, <1>7, <1>8, <1>9, <1>10
(* The first clusters of a file are published with its entry. *)
LEMMA KeepStartChain ==
    ASSUME IInv, StartChain
    PROVE  FilesInv' /\ CallInv'
  <1>1. /\ pc = "tail" /\ pc' = "data"
        /\ fat' = fat /\ bitmap' = bitmap /\ dir' = dir /\ todo' = todo /\ cur' = cur
        /\ got' = << >> /\ linked' = 0
        /\ call' = [call EXCEPT !.first = got[1]]
    BY DEF StartChain, disk
  <1>2. call'.first = got[1] /\ call'.kind = call.kind /\ call'.name = call.name
    BY <1>1 DEF IInv, TypeOK, CallType
  <1>3. call.kind = "write" /\ call.name \in Names /\ dir[call.name].used /\ todo = << >>
    BY <1>1 DEF IInv, CallInv, KindInv, LocalsInv
  <1>4. FilesInv'
    BY <1>1, <1>3, FilesKept DEF IInv
  <1>5. \A n \in Names : Reach(n)' = Reach(n)
    BY <1>1 DEF Reach
  <1>6. Tree(fat, got[1]) \subseteq NewClusters
    BY <1>1, NewChain, TreeLeast
  <1>7. Path(fat, got[1])
    BY <1>1, <1>6, NewChain DEF Path
  <1>8. \A c \in Tree(fat, got[1]) : bitmap[c] /\ \A n \in Names : c \notin Reach(n)
    BY <1>1, <1>6, NewChain
  <1>9. PublishInv'
    BY <1>1, <1>2, <1>5, <1>7, <1>8 DEF PublishInv
  <1>10. KindInv' /\ LocalsInv' /\ ReadInv' /\ AllocInv' /\ FreeInv' /\ RenameInv'
    BY <1>1, <1>2, <1>3 DEF KindInv, LocalsInv, ReadInv, AllocInv, FreeInv, RenameInv
  <1>11. QED BY <1>4, <1>9, <1>10 DEF CallInv

(* Hooking the new clusters to the tail lengthens one chain only, by
   clusters no other file has. *)
LEMMA KeepLinkTail ==
    ASSUME IInv, LinkTail
    PROVE  FilesInv' /\ CallInv'
  <1> DEFINE me == call.name
             head == call.first
             tail == chain[Len(chain)]
             mine == Reach(me)
             all == mine \cup NewClusters
  <1>1. /\ pc = "tail" /\ pc' = "data" /\ chain # << >>
        /\ bitmap' = bitmap /\ dir' = dir /\ todo' = todo /\ cur' = cur /\ call' = call
        /\ got' = << >> /\ linked' = 0
        /\ fat' = [fat EXCEPT ![tail] = got[1]]
    BY DEF LinkTail
  <1>2. call.kind = "write" /\ me \in Names /\ dir[me].used /\ todo = << >>
    BY <1>1 DEF IInv, CallInv, KindInv, LocalsInv
  <1>3. /\ head = dir[me].first
        /\ \A i \in 1 .. Len(chain) : chain[i] \in mine
    BY <1>1 DEF IInv, CallInv, ReadInv
  <1>4. Len(chain) \in 1 .. Len(chain)
    BY <1>1, Types DEF IInv
  <1>5. tail \in mine
    BY <1>3, <1>4
  <1>6. mine = Tree(fat, head) /\ Path(fat, head)
    BY <1>2, <1>3 DEF IInv, FilesInv, Paths, Reach
  <1>7. mine \subseteq Clusters /\ Closed(fat, mine)
    BY ReachClosed
  <1>8. head \in mine
    BY <1>5, <1>6, TreeEmpty, TreeClosed
  <1> HIDE DEF tail, mine
  <1>9. fat'[tail] = got[1] /\ \A d \in Clusters : d # tail => fat'[d] = fat[d]
    BY <1>1, <1>5, <1>7 DEF IInv, TypeOK
  <1>10. NewClusters \cap mine = {} /\ got[1] \in NewClusters /\ NewClusters \subseteq Clusters
    BY <1>1, <1>2, NewChain DEF mine
  <1>11. Closed(fat', all)
    BY <1>7, <1>9, <1>10, <1>1, NewChain DEF Closed
  <1>12. Tree(fat', head) \subseteq all
    <2>1. all \in SUBSET Clusters /\ head \in all
      BY <1>7, <1>8, <1>10
    <2>2. QED BY <1>11, <2>1, TreeLeast
  <1>13. Path(fat', head)
    <2>1. /\ \A c \in mine : c # tail => fat'[c] = fat[c]
          /\ \A c \in NewClusters : fat'[c] = fat[c] /\ c # tail
      BY <1>5, <1>7, <1>9, <1>10
    <2>2. ASSUME NEW c \in all, NEW d \in all, fat'[c] = fat'[d], fat'[c] \in Clusters
          PROVE  c = d
      <3>1. CASE c \in mine \ {tail} /\ d \in mine \ {tail}
        BY <1>6, <2>1, <2>2, <3>1 DEF Path
      <3>2. CASE c \in NewClusters /\ d \in NewClusters
        BY <1>1, <2>1, <2>2, <3>2, NewChain
      <3>3. \A e \in mine \ {tail} : fat'[e] \in Clusters => fat'[e] \in mine
        BY <1>7, <2>1 DEF Closed
      <3>4. \A e \in NewClusters : fat'[e] \in Clusters => fat'[e] \in NewClusters /\ fat'[e] # got[1]
        BY <1>1, <2>1, NewChain DEF Closed
      <3>5. QED BY <1>9, <1>10, <2>2, <3>1, <3>2, <3>3, <3>4
    <2>3. ASSUME NEW c \in all PROVE fat'[c] # head
      <3>1. CASE c \in mine \ {tail}
        BY <1>6, <2>1, <3>1 DEF Path
      <3>2. CASE c = tail
        BY <1>8, <1>9, <1>10, <3>2
      <3>3. CASE c \in NewClusters
        BY <1>1, <1>7, <1>8, <1>10, <2>1, <3>3, NewChain DEF Closed
      <3>4. QED BY <3>1, <3>2, <3>3
    <2>4. QED BY <1>12, <2>2, <2>3 DEF Path
  <1>14. Reach(me)' \subseteq all
    BY <1>1, <1>3, <1>12 DEF Reach
  <1>15. ASSUME NEW n \in Names \ {me}
         PROVE  Reach(n)' = Reach(n) /\ (dir'[n].used => Path(fat', dir'[n].first))
    <2>1. mine \cap Reach(n) = {}
      BY <1>2 DEF IInv, FilesInv, NoSharedClusters, BeingRenamed, mine
    <2>2. \A d \in Reach(n) : fat'[d] = fat[d]
      BY <1>5, <1>9, <2>1, ReachClosed
    <2>3. CASE dir[n].used
      <3>1. \A d \in Tree(fat, dir[n].first) : fat'[d] = fat[d]
        BY <2>2, <2>3 DEF Reach
      <3>2. Path(fat, dir[n].first)
        BY <2>3 DEF IInv, FilesInv, Paths
      <3>3. Tree(fat', dir[n].first) = Tree(fat, dir[n].first) /\ Path(fat', dir[n].first)
        BY <3>1, <3>2, TreeSame
      <3>4. QED BY <1>1, <2>3, <3>3 DEF Reach
    <2>4. CASE ~dir[n].used
      BY <1>1, <2>4 DEF Reach
    <2>5. QED BY <2>3, <2>4
  <1>16. \A n \in Names \ {me} : all \cap Reach(n) = {}
    BY <1>1, <1>2, NewChain DEF IInv, FilesInv, NoSharedClusters, BeingRenamed, mine
  <1>17. NoSharedClusters'
    <2>1. SUFFICES ASSUME NEW m \in Names, NEW n \in Names, m # n
                   PROVE  Reach(m)' \cap Reach(n)' = {}
      BY DEF NoSharedClusters
    <2>2. CASE m = me
      BY <1>1, <1>14, <1>15, <1>16, <2>1, <2>2
    <2>3. CASE n = me
      BY <1>1, <1>14, <1>15, <1>16, <2>1, <2>3
    <2>4. CASE m # me /\ n # me
      <3>1. Reach(m) \cap Reach(n) = {}
        BY <1>2, <2>1 DEF IInv, FilesInv, NoSharedClusters, BeingRenamed
      <3>2. QED BY <1>15, <2>4, <3>1
    <2>5. QED BY <2>2, <2>3, <2>4
  <1>18. LiveClustersAllocated'
    <2>1. \A c \in all : bitmap[c]
      BY <1>1, <1>2, NewChain DEF IInv, FilesInv, LiveClustersAllocated, mine
    <2>2. QED BY <1>1, <1>14, <1>15, <2>1 DEF IInv, FilesInv, LiveClustersAllocated
  <1>19. Paths'
    BY <1>1, <1>3, <1>13, <1>15 DEF Paths
  <1>20. FilesInv'
    BY <1>17, <1>18, <1>19 DEF FilesInv
  <1>21. PublishInv'
    <2>1. Tree(fat', head) = Reach(me)'
      BY <1>1, <1>2, <1>3 DEF Reach
    <2>2. \A n \in Names \ {me} : Reach(me)' \cap Reach(n)' = {}
      BY <1>14, <1>15, <1>16
    <2>3. \A c \in Reach(me)' : bitmap'[c]
      BY <1>1, <1>2, <1>18 DEF LiveClustersAllocated
    <2>4. QED BY <1>1, <1>13, <2>1, <2>2, <2>3 DEF PublishInv
  <1>22. KindInv' /\ LocalsInv' /\ ReadInv' /\ AllocInv' /\ FreeInv' /\ RenameInv'
    BY <1>1, <1>2 DEF KindInv, LocalsInv, ReadInv, AllocInv, FreeInv, RenameInv
  <1>23. QED BY <1>20, <1>21, <1>22 DEF CallInv
-----------------------------------------------------------------------------
(* Writing data, shortening a chain and freeing what is cut off *)

(* Cutting a chain leaves the clusters kept to the file and none of those
   cut off to anyone. *)
LEMMA KeepCutChain ==
    ASSUME IInv, CutChain
    PROVE  FilesInv' /\ CallInv'
  <1> DEFINE me == call.name
             k == call.count
             kept == {chain[i] : i \in 1 .. k}
  <1>1. /\ pc = "cut" /\ pc' \in {"free bit", "publish"}
        /\ k > 0 /\ k <= Len(chain)
        /\ bitmap' = bitmap /\ dir' = dir /\ cur' = cur /\ call' = call
        /\ got' = got /\ linked' = linked /\ chain' = << >>
        /\ fat' = [fat EXCEPT ![chain[k]] = END_OF_CHAIN]
        /\ todo' = Suffix(chain, k)
        /\ pc' = "publish" => todo' = << >>
    BY DEF CutChain
  <1>2. /\ call.kind = "shrink" /\ me \in Names /\ dir[me].used
        /\ got = << >> /\ linked = 0
    BY <1>1 DEF IInv, LoopsInv, CallInv, KindInv, LocalsInv
  <1>3. /\ call.first = dir[me].first
        /\ \A i \in 1 .. Len(chain) : chain[i] \in Reach(me)
        /\ \A i \in 1 .. Len(chain) :
              /\ i = 1 => chain[i] = call.first
              /\ i < Len(chain) => fat[chain[i]] = chain[i + 1]
        /\ \A i, j \in 1 .. Len(chain) : chain[i] = chain[j] => i = j
    BY <1>1 DEF IInv, CallInv, ReadInv
  <1>4. /\ Len(chain) \in Nat /\ k \in Nat
        /\ \A i \in 1 .. Len(chain) : chain[i] \in Clusters
        /\ chain \in Seq(Clusters)
    BY Types, ElementOfSeq DEF IInv
  <1>a. k > 0 /\ k <= Len(chain)
    BY <1>1
  <1> HIDE DEF k
  <1>5. k \in 1 .. Len(chain) /\ 1 \in 1 .. Len(chain) /\ 1 \in 1 .. k
    BY <1>a, <1>4
  <1>6. /\ fat'[chain[k]] = END_OF_CHAIN
        /\ \A d \in Clusters : d # chain[k] => fat'[d] = fat[d]
    BY <1>1, <1>4, <1>5 DEF IInv, TypeOK
  <1>7. FilesInv' /\ \A n \in Names : Reach(n)' \subseteq Reach(n)
    <2>1. \A n \in Names : \A d \in Reach(n) : fat'[d] = fat[d] \/ fat'[d] \notin Clusters
      BY <1>6, MarksAreNotClusters, ReachClosed
    <2>2. QED BY <1>1, <2>1, FilesKept DEF IInv
  <1>8. Closed(fat', kept)
    <2>1. SUFFICES ASSUME NEW i \in 1 .. k, fat'[chain[i]] \in Clusters
                   PROVE  fat'[chain[i]] \in kept
      BY DEF Closed
    <2>2. i \in 1 .. Len(chain)
      BY <1>a, <1>4
    <2>3. i # k
      BY <1>6, <2>1, MarksAreNotClusters
    <2>4. chain[i] # chain[k]
      BY <1>3, <1>5, <2>2, <2>3
    <2>5. i < Len(chain) /\ i + 1 \in 1 .. k
      BY <1>a, <1>4, <2>3
    <2>6. fat'[chain[i]] = chain[i + 1]
      BY <1>3, <1>4, <1>6, <2>2, <2>4, <2>5
    <2>7. QED BY <2>5, <2>6
  <1>9. Reach(me)' \subseteq kept
    <2>1. kept \in SUBSET Clusters
      BY <1>a, <1>4
    <2>2. call.first \in kept
      BY <1>3, <1>5
    <2>3. Tree(fat', call.first) \subseteq kept
      BY <1>8, <2>1, <2>2, TreeLeast
    <2>4. QED BY <1>1, <1>3, <2>3 DEF Reach
  <1>10. \A i \in 1 .. Len(chain) : i > k => \A n \in Names : chain[i] \notin Reach(n)'
    <2>1. SUFFICES ASSUME NEW i \in 1 .. Len(chain), i > k, NEW n \in Names
                   PROVE  chain[i] \notin Reach(n)'
      OBVIOUS
    <2>2. CASE n = me
      <3>1. \A j \in 1 .. k : j \in 1 .. Len(chain) /\ j # i
        BY <1>a, <1>4, <2>1
      <3>2. chain[i] \notin kept
        BY <1>3, <2>1, <3>1
      <3>3. QED BY <1>1, <1>9, <2>2, <3>2
    <2>3. CASE n # me
      <3>1. Reach(me) \cap Reach(n) = {}
        BY <1>2, <2>3 DEF IInv, FilesInv, NoSharedClusters, BeingRenamed
      <3>2. QED BY <1>3, <1>7, <2>1, <3>1
    <2>4. QED BY <2>2, <2>3
  <1>11. \A i \in 1 .. Len(todo') : todo'[i] = chain[k + i] /\ k + i \in 1 .. Len(chain)
    <2>1. k + 1 \in Int /\ Len(chain) \in Int
      BY <1>4
    <2>2. \A i \in k + 1 .. Len(chain) : chain[i] \in Clusters
      BY <1>4
    <2>3. /\ Len(SubSeq(chain, k + 1, Len(chain))) =
                IF k + 1 <= Len(chain) THEN Len(chain) - (k + 1) + 1 ELSE 0
          /\ \A i \in 1 .. Len(chain) - (k + 1) + 1 :
                SubSeq(chain, k + 1, Len(chain))[i] = chain[(k + 1) + i - 1]
      BY <2>1, <2>2, SubSeqProperties
    <2>4. todo' = SubSeq(chain, k + 1, Len(chain))
      BY <1>1 DEF Suffix
    <2>5. QED BY <1>4, <2>3, <2>4
  <1>12. \A i \in 1 .. Len(todo') : \A n \in Names : todo'[i] \notin Reach(n)'
    BY <1>4, <1>10, <1>11
  <1>13. FreeInv'
    BY <1>1, <1>2, <1>3, <1>12 DEF FreeInv, k
  <1>14. PublishInv'
    <2>1. call'.kind # "rename" /\ call'.name \in Names /\ dir'[call'.name].used
          /\ call'.first = dir'[call'.name].first
      BY <1>1, <1>2, <1>3
    <2>2. Tree(fat', call'.first) = Reach(me)'
      BY <1>1, <2>1 DEF Reach
    <2>3. \A n \in Names \ {me} : Reach(me)' \cap Reach(n)' = {}
      BY <1>1, <1>2, <1>7 DEF FilesInv, NoSharedClusters, BeingRenamed
    <2>4. \A c \in Reach(me)' : bitmap'[c]
      BY <1>1, <1>2, <1>7 DEF FilesInv, LiveClustersAllocated
    <2>5. Path(fat', call'.first)
      BY <1>7, <2>1 DEF FilesInv, Paths
    <2>6. QED BY <1>1, <2>2, <2>3, <2>4, <2>5 DEF PublishInv
  <1>15. KindInv' /\ LocalsInv' /\ ReadInv' /\ AllocInv' /\ RenameInv'
    BY <1>1, <1>2 DEF KindInv, LocalsInv, ReadInv, AllocInv, RenameInv
  <1>16. QED BY <1>7, <1>13, <1>14, <1>15 DEF CallInv

(* The tail of a sequence is what follows its first element. *)
LEMMA TailElements ==
    ASSUME NEW S, NEW s \in Seq(S), s # << >>
    PROVE  \A i \in 1 .. Len(Tail(s)) : Tail(s)[i] = s[i + 1] /\ i + 1 \in 1 .. Len(s)
  OBVIOUS

(* A bit is cleared only when no file's chain holds the cluster. *)
LEMMA KeepFreeBit ==
    ASSUME IInv, FreeBit
    PROVE  FilesInv' /\ CallInv'
  <1>1. /\ pc = "free bit" /\ pc' = "free fat"
        /\ fat' = fat /\ dir' = dir /\ UNCHANGED locals
        /\ bitmap' = [c \in Clusters |-> bitmap[c] /\ c # Head(todo)]
    BY DEF FreeBit
  <1>2. /\ call' = call /\ cur' = cur /\ chain' = chain /\ got' = got /\ linked' = linked
        /\ todo' = todo
    BY <1>1 DEF locals
  <1>3. /\ call.kind \in {"shrink", "remove"}
        /\ call.kind = "shrink" => call.name \in Names /\ dir[call.name].used
    BY <1>1 DEF IInv, CallInv, KindInv, LocalsInv
  <1>4. /\ \A i \in 1 .. Len(todo) : \A n \in Names : todo[i] \notin Reach(n)
        /\ todo # << >>
    BY <1>1 DEF IInv, LoopsInv, CallInv, FreeInv
  <1>5. Head(todo) = todo[1] /\ 1 \in 1 .. Len(todo)
    BY <1>4, Types DEF IInv
  <1>6. \A n \in Names : Head(todo) \notin Reach(n)
    BY <1>4, <1>5
  <1>7. \A n \in Names : \A d \in Reach(n) : bitmap'[d] = bitmap[d]
    <2>1. ASSUME NEW n \in Names, NEW d \in Reach(n) PROVE bitmap'[d] = bitmap[d]
      <3>1. d \in Clusters /\ d # Head(todo)
        BY <1>6, <2>1, ReachClosed
      <3>2. bitmap[d] \in BOOLEAN
        BY <3>1, Types DEF IInv
      <3>3. QED BY <1>1, <3>1, <3>2
    <2>2. QED BY <2>1
  <1>8. FilesInv'
    BY <1>1, <1>2, <1>7, FilesKept DEF IInv
  <1>9. \A n \in Names : Reach(n)' = Reach(n)
    BY <1>1 DEF Reach
  <1>10. FreeInv'
    BY <1>1, <1>2, <1>9 DEF IInv, CallInv, FreeInv
  <1>11. KindInv' /\ LocalsInv' /\ ReadInv' /\ AllocInv' /\ PublishInv' /\ RenameInv'
    BY <1>1, <1>2, <1>3 DEF IInv, CallInv, KindInv, LocalsInv, ReadInv, AllocInv, PublishInv,
       RenameInv
  <1>12. QED BY <1>8, <1>10, <1>11 DEF CallInv

(* So is a FAT entry; when the last is, a shortened file may be published. *)
LEMMA KeepFreeFat ==
    ASSUME IInv, FreeFat
    PROVE  FilesInv' /\ CallInv'
  <1>1. /\ pc = "free fat" /\ pc' \in {"free bit", "publish", "flush"}
        /\ bitmap' = bitmap /\ dir' = dir /\ call' = call /\ cur' = cur /\ chain' = chain
        /\ got' = got /\ linked' = linked
        /\ todo' = Tail(todo)
        /\ fat' = [c \in Clusters |-> IF c = Head(todo) THEN 0 ELSE fat[c]]
        /\ pc' = "publish" => call.kind = "shrink"
        /\ pc' # "free bit" => todo' = << >>
    BY DEF FreeFat
  <1>2. /\ call.kind \in {"shrink", "remove"}
        /\ call.kind = "shrink" => call.name \in Names /\ dir[call.name].used
    BY <1>1 DEF IInv, CallInv, KindInv
  <1>3. /\ \A i \in 1 .. Len(todo) : \A n \in Names : todo[i] \notin Reach(n)
        /\ todo # << >>
        /\ call.kind = "shrink" => call.first = dir[call.name].first
    BY <1>1 DEF IInv, LoopsInv, CallInv, FreeInv
  <1>4. /\ todo \in Seq(Nat) /\ Len(todo) \in Nat
        /\ Head(todo) = todo[1] /\ 1 \in 1 .. Len(todo)
    BY <1>3, Types DEF IInv
  <1>5. \A n \in Names : \A d \in Reach(n) : fat'[d] = fat[d]
    <2>1. ASSUME NEW n \in Names, NEW d \in Reach(n) PROVE fat'[d] = fat[d]
      <3>1. d \in Clusters /\ d # Head(todo)
        BY <1>3, <1>4, <2>1, ReachClosed
      <3>2. QED BY <1>1, <3>1
    <2>2. QED BY <2>1
  <1>6. FilesInv'
    BY <1>1, <1>5, FilesKept DEF IInv
  <1>7. \A n \in Names : Reach(n)' = Reach(n)
    BY <1>1, <1>5, ReachKept
  <1>8. \A i \in 1 .. Len(todo') : todo'[i] = todo[i + 1] /\ i + 1 \in 1 .. Len(todo)
    <2>1. todo' = Tail(todo)
      BY <1>1
    <2>2. QED BY <1>3, <1>4, <2>1, TailElements
  <1>9. FreeInv'
    <2>1. \A i \in 1 .. Len(todo') : \A n \in Names : todo'[i] \notin Reach(n)'
      BY <1>3, <1>7, <1>8
    <2>2. QED BY <1>1, <1>3, <2>1 DEF IInv, CallInv, FreeInv
  <1>10. PublishInv'
    <2>1. SUFFICES ASSUME pc' = "publish" PROVE PublishInv'
      BY <1>1 DEF PublishInv
    <2>2. /\ call.kind = "shrink" /\ call.name \in Names /\ dir[call.name].used
          /\ call.first = dir[call.name].first
      BY <1>1, <1>2, <1>3, <2>1
    <2>3. /\ \A c \in Tree(fat, call.first) : bitmap[c]
          /\ \A n \in Names \ {call.name} : Tree(fat, call.first) \cap Reach(n) = {}
      BY <2>2, FileIsPublishable DEF IInv
    <2>4. Tree(fat', call.first) = Tree(fat, call.first)
      BY <1>1, <1>7, <2>2 DEF Reach
    <2>5. Path(fat', call.first)
      BY <1>1, <1>6, <2>2 DEF FilesInv, Paths
    <2>6. QED BY <1>1, <1>7, <2>3, <2>4, <2>5 DEF PublishInv
  <1>11. KindInv' /\ LocalsInv' /\ ReadInv' /\ AllocInv' /\ RenameInv'
    BY <1>1, <1>2 DEF IInv, CallInv, KindInv, LocalsInv, ReadInv, AllocInv, RenameInv
  <1>12. QED BY <1>6, <1>9, <1>10, <1>11 DEF CallInv
(* The walk lists clusters of a removed file, which are nobody's. *)
LEMMA KeepWalkChain ==
    ASSUME IInv, WalkChain
    PROVE  FilesInv' /\ CallInv'
  <1>1. /\ pc = "walk" /\ pc' \in {"walk", "free bit"} /\ cur \in Clusters
        /\ fat' = fat /\ bitmap' = bitmap /\ dir' = dir /\ call' = call /\ chain' = chain
        /\ got' = got /\ linked' = linked
        /\ todo' = Append(todo, cur)
        /\ pc' = "walk" => cur' = fat[cur] /\ fat[cur] \in Clusters
    BY DEF WalkChain, disk
  <1>2. call.kind = "remove"
    BY <1>1 DEF IInv, CallInv, KindInv
  <1>3. FilesInv'
    BY <1>1, FilesKept DEF IInv
  <1>4. \A n \in Names : Reach(n)' = Reach(n)
    BY <1>1 DEF Reach
  <1>5. /\ \A i \in 1 .. Len(todo) : \A n \in Names : todo[i] \notin Reach(n)
        /\ \A n \in Names : Tree(fat, cur) \cap Reach(n) = {}
    BY <1>1, <1>2 DEF IInv, CallInv, FreeInv, Apart
  <1>6. cur \in Tree(fat, cur) /\ Closed(fat, Tree(fat, cur)) /\ Tree(fat, cur) \subseteq Clusters
    BY <1>1, TreeClosed
  <1>7. pc' = "walk" => Tree(fat, cur') \subseteq Tree(fat, cur)
    <2>1. pc' = "walk" => cur' \in Tree(fat, cur)
      BY <1>1, <1>6 DEF Closed
    <2>2. QED BY <1>6, <2>1, TreeLeast
  <1>8. \A i \in 1 .. Len(todo') : \A n \in Names : todo'[i] \notin Reach(n)
    <2>1. todo \in Seq(Nat) /\ cur \in Nat /\ Len(todo) \in Nat
      BY Types DEF IInv
    <2>2. /\ Len(todo') = Len(todo) + 1
          /\ todo'[Len(todo) + 1] = cur
          /\ \A i \in 1 .. Len(todo) : todo'[i] = todo[i]
      <3>1. todo' = Append(todo, cur)
        BY <1>1
      <3>2. QED BY <2>1, <3>1, AppendProperties
    <2>3. \A n \in Names : cur \notin Reach(n)
      BY <1>5, <1>6
    <2>4. QED BY <1>5, <2>1, <2>2, <2>3
  <1>9. FreeInv'
    <2>1. \A i \in 1 .. Len(todo') : \A n \in Names : todo'[i] \notin Reach(n)'
      BY <1>4, <1>8
    <2>2. pc' = "walk" => Apart(Tree(fat, cur))'
      BY <1>1, <1>4, <1>5, <1>7 DEF Apart
    <2>3. QED BY <1>1, <1>2, <2>1, <2>2 DEF FreeInv
  <1>10. KindInv' /\ LocalsInv' /\ ReadInv' /\ AllocInv' /\ PublishInv' /\ RenameInv'
    BY <1>1, <1>2 DEF IInv, CallInv, KindInv, LocalsInv, ReadInv, AllocInv, PublishInv, RenameInv
  <1>11. QED BY <1>3, <1>9, <1>10 DEF CallInv

(* Writing data and flushing change no chain. *)
LEMMA KeepQuiet ==
    ASSUME IInv, WriteData \/ FlushAndGoOn
    PROVE  FilesInv' /\ CallInv'
  <1>1. /\ fat' = fat /\ bitmap' = bitmap /\ dir' = dir /\ call' = call /\ chain' = chain
        /\ got' = got /\ linked' = linked /\ todo' = todo /\ cur' = cur
    BY DEF WriteData, FlushAndGoOn, disk, locals
  <1>2. \/ pc = "data" /\ pc' \in {"data", "data flush"}
        \/ pc = "data flush" /\ pc' = "publish"
        \/ pc = "clear flush" /\ pc' = IF call.kind = "rename" THEN "clear" ELSE "walk"
    BY DEF WriteData, FlushAndGoOn, FlushPCs
  <1>3. FilesInv'
    BY <1>1, FilesKept DEF IInv
  <1>4. \A n \in Names : Reach(n)' = Reach(n)
    BY <1>1 DEF Reach
  <1>5. /\ pc \in {"data", "data flush"} => call.kind = "write"
        /\ pc = "clear flush" => call.kind \in {"remove", "rename"}
        /\ pc \in {"data", "data flush", "clear flush"} => got = << >> /\ linked = 0 /\ todo = << >>
    BY DEF IInv, CallInv, KindInv, LocalsInv
  <1>6. PublishInv'
    BY <1>1, <1>2, <1>4, <1>5 DEF IInv, CallInv, PublishInv
  <1>7. FreeInv'
    <2>1. pc' = "walk" => call.kind = "remove" /\ Apart(Tree(fat, cur))'
      BY <1>1, <1>2, <1>4, <1>5 DEF IInv, CallInv, FreeInv, Apart
    <2>2. pc' = "walk" => \A i \in 1 .. Len(todo') : FALSE
      <3>1. pc' = "walk" => todo' = << >>
        BY <1>1, <1>2, <1>5
      <3>2. Len(<< >>) = 0
        BY EmptySeq
      <3>3. QED BY <3>1, <3>2
    <2>3. QED BY <1>1, <1>2, <1>5, <2>1, <2>2 DEF IInv, CallInv, FreeInv
  <1>8. KindInv' /\ LocalsInv' /\ ReadInv' /\ AllocInv' /\ RenameInv'
    BY <1>1, <1>2, <1>5 DEF IInv, CallInv, KindInv, LocalsInv, ReadInv, AllocInv, RenameInv
  <1>9. QED BY <1>3, <1>6, <1>7, <1>8 DEF CallInv

(* What rewrite_stream publishes is allocated, a path and nobody else's. *)
LEMMA KeepPublish ==
    ASSUME IInv, Publish
    PROVE  FilesInv' /\ CallInv'
  <1> DEFINE me == call.name
  <1>1. /\ pc = "publish" /\ pc' = "flush"
        /\ fat' = fat /\ bitmap' = bitmap /\ call' = call /\ UNCHANGED locals
        /\ dir' = [dir EXCEPT ![me] = NewEntry(call.first, call.len)]
    BY DEF Publish, locals
  <1>2. call.kind \in {"write", "shrink"} /\ me \in Names
    BY <1>1 DEF IInv, CallInv, KindInv
  <1>3. /\ dir'[me].used /\ dir'[me].first = call.first
        /\ \A n \in Names \ {me} : dir'[n] = dir[n]
    BY <1>1, <1>2 DEF IInv, TypeOK, NewEntry
  <1>4. /\ \A n \in Names \ {me} : Reach(n)' = Reach(n)
        /\ Reach(me)' = Tree(fat, call.first)
    BY <1>1, <1>3 DEF Reach
  <1>5. /\ \A c \in Tree(fat, call.first) : bitmap[c]
        /\ \A n \in Names \ {me} : Tree(fat, call.first) \cap Reach(n) = {}
        /\ Path(fat, call.first)
    BY <1>1 DEF IInv, CallInv, PublishInv
  <1>6. NoSharedClusters'
    <2>1. SUFFICES ASSUME NEW m \in Names, NEW n \in Names, m # n
                   PROVE  Reach(m)' \cap Reach(n)' = {}
      BY DEF NoSharedClusters
    <2>2. \A i, j \in Names : i # j => Reach(i) \cap Reach(j) = {}
      BY <1>2 DEF IInv, FilesInv, NoSharedClusters, BeingRenamed
    <2>3. CASE m = me
      BY <1>1, <1>4, <1>5, <2>1, <2>3
    <2>4. CASE n = me
      BY <1>1, <1>4, <1>5, <2>1, <2>4
    <2>5. CASE m # me /\ n # me
      BY <1>4, <2>1, <2>2, <2>5
    <2>6. QED BY <2>3, <2>4, <2>5
  <1>7. LiveClustersAllocated'
    <2>1. ASSUME NEW n \in Names, NEW c \in Reach(n)' PROVE bitmap'[c]
      <3>1. CASE n = me
        BY <1>1, <1>4, <1>5, <2>1, <3>1
      <3>2. CASE n # me
        BY <1>1, <1>4, <2>1, <3>2 DEF IInv, FilesInv, LiveClustersAllocated
      <3>3. QED BY <3>1, <3>2
    <2>2. QED BY <2>1 DEF LiveClustersAllocated
  <1>8. Paths'
    <2>1. ASSUME NEW n \in Names, dir'[n].used PROVE Path(fat', dir'[n].first)
      <3>1. CASE n = me
        BY <1>1, <1>3, <1>5, <3>1
      <3>2. CASE n # me
        BY <1>1, <1>3, <2>1, <3>2 DEF IInv, FilesInv, Paths
      <3>3. QED BY <3>1, <3>2
    <2>2. QED BY <2>1 DEF Paths
  <1>9. CallInv'
    BY <1>1, <1>2, <1>3 DEF IInv, CallInv, KindInv, LocalsInv, ReadInv, AllocInv, PublishInv,
       FreeInv, RenameInv, locals
  <1>10. QED BY <1>6, <1>7, <1>8, <1>9 DEF FilesInv

(* Clearing the old name of a renamed file leaves the new one. *)
LEMMA KeepClearOld ==
    ASSUME IInv, ClearOld
    PROVE  FilesInv' /\ CallInv'
  <1>1. /\ pc = "clear" /\ pc' = "flush"
        /\ fat' = fat /\ bitmap' = bitmap /\ call' = call /\ UNCHANGED locals
        /\ dir' = [dir EXCEPT ![call.name] = NoEntry]
    BY DEF ClearOld, locals
  <1>2. call.kind = "rename"
    BY <1>1 DEF IInv, CallInv, KindInv
  <1>3. \A n \in Names : dir'[n].used => dir'[n] = dir[n]
    BY <1>1 DEF IInv, TypeOK, NoEntry
  <1>4. \A n \in Names : Reach(n)' \subseteq Reach(n)
    <2>1. ASSUME NEW n \in Names PROVE Reach(n)' \subseteq Reach(n)
      <3>1. CASE dir'[n].used
        BY <1>1, <1>3, <3>1 DEF Reach
      <3>2. CASE ~dir'[n].used
        BY <3>2 DEF Reach
      <3>3. QED BY <3>1, <3>2
    <2>2. QED BY <2>1
  <1>5. NoSharedClusters'
    <2>1. SUFFICES ASSUME NEW m \in Names, NEW n \in Names, m # n, ~BeingRenamed(m, n)'
                   PROVE  Reach(m)' \cap Reach(n)' = {}
      BY DEF NoSharedClusters
    <2>2. ~BeingRenamed(m, n)
      BY <1>1, <2>1 DEF BeingRenamed
    <2>3. Reach(m) \cap Reach(n) = {}
      BY <2>1, <2>2 DEF IInv, FilesInv, NoSharedClusters
    <2>4. QED BY <1>4, <2>3
  <1>6. LiveClustersAllocated'
    BY <1>1, <1>4 DEF IInv, FilesInv, LiveClustersAllocated
  <1>7. Paths'
    <2>1. ASSUME NEW n \in Names, dir'[n].used PROVE Path(fat', dir'[n].first)
      <3>1. dir'[n] = dir[n] /\ dir[n].used
        BY <1>3, <2>1
      <3>2. QED BY <1>1, <3>1 DEF IInv, FilesInv, Paths
    <2>2. QED BY <2>1 DEF Paths
  <1>8. call.name \in Names /\ ~dir'[call.name].used
    BY <1>1, <1>2 DEF IInv, TypeOK, NoEntry, CallInv, RenameInv
  <1>9. CallInv'
    BY <1>1, <1>2, <1>8 DEF IInv, CallInv, KindInv, LocalsInv, ReadInv, AllocInv, PublishInv,
       FreeInv, RenameInv, locals
  <1>10. QED BY <1>5, <1>6, <1>7, <1>9 DEF FilesInv
-----------------------------------------------------------------------------
(* Every step of the calls of SoundOps keeps the invariant: the calls that
   truncate to nothing are not made, and a rename is not cut short. *)
LEMMA KeepNext == SoundOps /\ IInv /\ [Next]_vars => IInv'
  <1> SUFFICES ASSUME SoundOps, IInv, [Next]_vars PROVE FilesInv' /\ CallInv'
    BY TypeNext DEF IInv
  <1>1. CASE Begin
    BY <1>1, KeepBegin
  <1>2. CASE Advance
    <2>1. Step
      BY <1>2 DEF Advance
    <2>2. FilesInv /\ RenameInv /\ KindInv
      BY DEF IInv, CallInv
    <2>3. CASE ReadChainFails \/ AllocFails \/ WritePastChain \/ CutPanics
               \/ FreeBitFails \/ WalkFails \/ FlushAndReturn
      <3>1. Ended /\ UNCHANGED disk
        BY <2>3 DEF ReadChainFails, AllocFails, WritePastChain, CutPanics, FreeBitFails,
                    WalkFails, FlushAndReturn, Return, Abandon
      <3>2. pc \in {"read", "alloc", "data", "cut", "free bit", "walk", "flush"}
        BY <2>3 DEF ReadChainFails, AllocFails, WritePastChain, CutPanics, FreeBitFails,
                    WalkFails, FlushAndReturn
      <3>3. call.kind = "rename" => pc = "flush"
        BY <2>2, <3>2 DEF RenameInv
      <3>4. QED BY <2>2, <3>1, <3>3, KeepEnd
    <2>4. CASE CutToNothing
      <3>1. pc = "cut" /\ call.count = 0
        BY <2>4 DEF CutToNothing
      <3>2. call.kind = "shrink"
        BY <3>1 DEF IInv, LoopsInv
      <3>3. call.count > 0
        BY <3>2 DEF IInv, CallInv, FreeInv
      <3>4. QED BY <3>1, <3>3
    <2>5. QED
      BY <2>1, <2>3, <2>4, KeepReadChain, KeepAllocCluster, KeepLinkCluster, KeepStartChain,
         KeepLinkTail, KeepQuiet, KeepCutChain, KeepFreeBit, KeepFreeFat, KeepWalkChain,
         KeepPublish, KeepClearOld DEF Step
  <1>3. CASE PowerCut
    <2>1. Ended /\ UNCHANGED disk /\ cuts < MaxCuts /\ cuts \in Nat /\ call.kind \in CutKinds
      BY <1>3 DEF PowerCut, Abandon, IInv, TypeOK
    <2>2. MaxCuts > 0
      BY <2>1, OpsAssumption
    <2>3. call.kind # "rename"
      BY <2>1, <2>2 DEF SoundOps
    <2>4. QED BY <2>1, <2>3, KeepEnd DEF IInv, CallInv
  <1>4. CASE UNCHANGED vars
    <2>1. TypeOK' /\ LoopsInv'
      BY <1>4 DEF vars, disk, locals, IInv, TypeOK, LoopsInv
    <2>2. FilesInv'
      BY <1>4 DEF vars, disk, locals, IInv, FilesInv, NoSharedClusters, LiveClustersAllocated,
         Paths, Reach, BeingRenamed
    <2>3. KindInv' /\ LocalsInv' /\ ReadInv' /\ RenameInv'
      BY <1>4 DEF vars, disk, locals, IInv, CallInv, KindInv, LocalsInv, ReadInv, RenameInv, Reach,
         BeingRenamed
    <2>4. AllocInv' /\ PublishInv' /\ FreeInv'
      BY <1>4 DEF vars, disk, locals, IInv, CallInv, AllocInv, PublishInv, FreeInv, Reach, Apart,
         Successor, BeingRenamed
    <2>5. QED BY <2>1, <2>2, <2>3, <2>4 DEF IInv, CallInv
  <1>5. QED BY <1>1, <1>2, <1>3, <1>4 DEF Next

(* An empty volume satisfies it. *)
LEMMA KeepInit == Init => IInv
  <1> SUFFICES ASSUME Init PROVE IInv
    OBVIOUS
  <1>1. \A n \in Names : ~dir[n].used
    BY DEF Init, NoEntry
  <1>2. FilesInv
    BY <1>1 DEF FilesInv, NoSharedClusters, LiveClustersAllocated, Paths, Reach
  <1>3. CallInv
    BY DEF Init, CallInv, KindInv, LocalsInv, ReadInv, AllocInv, PublishInv, FreeInv, RenameInv,
       NoCall, NameCall
  <1>4. LoopsInv
    BY DEF Init, LoopsInv, NoCall, NameCall
  <1>5. QED BY <1>2, <1>3, <1>4, TypeInit DEF IInv

(* No cluster is ever in two files, and every cluster of a file is marked,
   for any volume and any sequence of creates, writes, extensions, shrinks,
   renames and removals, cut short anywhere but within a rename. *)
THEOREM ChainsStayApart ==
    ASSUME SoundOps
    PROVE  Spec => [](NoSharedClusters /\ LiveClustersAllocated)
  <1>1. Init => IInv
    BY KeepInit
  <1>2. IInv /\ [Next]_vars => IInv'
    BY KeepNext
  <1>3. IInv => NoSharedClusters /\ LiveClustersAllocated
    BY DEF IInv, FilesInv
  <1>4. QED BY <1>1, <1>2, <1>3, PTL DEF Spec

(* Every cluster a directory entry leads to stays marked in the bitmap, through
   the same calls and cuts. *)
THEOREM EntriesLeadToLiveClusters ==
    ASSUME SoundOps
    PROVE  Spec => []LiveClustersAllocated
  <1>1. IInv => LiveClustersAllocated
    BY DEF IInv, FilesInv
  <1>2. QED BY <1>1, KeepInit, KeepNext, PTL DEF Spec
=============================================================================
