-------------------------- MODULE ExfatCacheProofs --------------------------
(***************************************************************************)
(* No order in which the device writes its cache costs a committed file    *)
(* its clusters or its bytes: theorems about ExfatCache, for any number of *)
(* names, clusters, bytes and power failures.                              *)
(***************************************************************************)
EXTENDS ExfatCacheInv, ExfatStoreProofs

-----------------------------------------------------------------------------
(* The cache *)

(* After a step the cache holds what is written now, next to what it held
   before or without that. *)
Cached ==
    \/ flight' = Settled(bitmap', fat', dir', data', writer')
    \/ flight' = Joined(bitmap', fat', dir', data', writer')

(* So a step adds to what a failure may leave of a location at most what it
   has written there. *)
Grows ==
    /\ \A c \in Clusters :
        /\ flight'.bitmap[c] \subseteq flight.bitmap[c] \cup {bitmap'[c]}
        /\ flight'.fat[c] \subseteq flight.fat[c] \cup {fat'[c]}
        /\ flight'.data[c] \subseteq flight.data[c] \cup {data'[c]}
        /\ flight'.writer[c] \subseteq
               {Relabelled(c, v) : v \in flight.writer[c]} \cup {writer'[c]}
    /\ \A n \in Names : flight'.dir[n] \subseteq flight.dir[n] \cup {dir'[n]}

(* A step that relabels a byte gives it to a file or to nobody. *)
LEMMA RelabelledAre ==
    ASSUME TypeOK, NEW c, NEW v \in Labels
    PROVE  Relabelled(c, v) \in Labels
  <1>1. Renamed => call.to \in Names \cup {NoName}
    BY DEF TypeOK, CallType
  <1>2. \A b \in ClusterIndex :
           (IF harmed \/ Taken(c) THEN NoName
            ELSE IF Renamed /\ v[b] = call.name THEN call.to ELSE v[b])
               \in Names \cup {NoName}
    BY <1>1 DEF Labels
  <1>3. QED BY <1>2 DEF Relabelled, Labels

(* What is on the medium and in the cache has the right types. *)
LEMMA FlightStep ==
    ASSUME TypeOK, TypeOK', FlightInv, Cached, writer' \in [Clusters -> Labels]
    PROVE  Grows /\ FlightInv'
  <1>1. /\ \A c \in Clusters :
             /\ bitmap'[c] \in BOOLEAN /\ fat'[c] \in FatValues
             /\ data'[c] \in [ClusterIndex -> Bytes \cup {Noise}]
        /\ \A n \in Names : dir'[n] \in Entry
    BY DEF TypeOK
  <1>a. \A c \in Clusters : writer'[c] \in Labels
    OBVIOUS
  <1>b. \A c \in Clusters : {Relabelled(c, v) : v \in flight.writer[c]} \subseteq Labels
    BY RelabelledAre DEF FlightInv
  <1>2. CASE flight' = Settled(bitmap', fat', dir', data', writer')
    BY <1>1, <1>a, <1>2 DEF Settled, Grows, FlightInv
  <1>3. CASE flight' = Joined(bitmap', fat', dir', data', writer')
    <2>1. /\ flight'.bitmap = [c \in Clusters |-> flight.bitmap[c] \cup {bitmap'[c]}]
          /\ flight'.fat = [c \in Clusters |-> flight.fat[c] \cup {fat'[c]}]
          /\ flight'.dir = [n \in Names |-> flight.dir[n] \cup {dir'[n]}]
          /\ flight'.data = [c \in Clusters |-> flight.data[c] \cup {data'[c]}]
          /\ flight'.writer = [c \in Clusters |->
                 {Relabelled(c, v) : v \in flight.writer[c]} \cup {writer'[c]}]
      BY <1>3 DEF Joined
    <2>2. Grows
      BY <2>1 DEF Grows
    <2>3. FlightInv'
      BY <1>1, <1>a, <1>b, <2>1 DEF FlightInv
    <2>4. QED BY <2>2, <2>3
  <1>4. QED BY <1>2, <1>3 DEF Cached

(* After a flush nothing is in flight. *)
LEMMA FlushSettles ==
    ASSUME CacheAfter(TRUE)
    PROVE  flight' = Settled(bitmap', fat', dir', data', writer') /\ AllWritten'
  BY DEF CacheAfter, AllWritten, Settled

(* Every step leaves the cache so. *)
LEMMA StepsAreCached ==
    ASSUME CacheNext
    PROVE  Cached
  BY DEF CacheNext, CacheBegin, CacheAdvance, Failure, CacheAfter, Cached

-----------------------------------------------------------------------------
(* What the call in progress is and which of its vectors are empty holds
   whatever has been lost. *)
Ground == TypeOK /\ LoopsInv /\ KindInv /\ LocalsInv /\ FlightInv

(* No call is left after its end or a failure. *)
LEMMA KindEnds ==
    ASSUME Ended
    PROVE  LoopsInv' /\ KindInv' /\ LocalsInv'
  BY DEF Ended, NoCall, NameCall, KindInv, LocalsInv, LoopsInv

(* A write and a grow begin as a call of their kind. *)
LEMMA KindStartWrite ==
    ASSUME TypeOK, LoopsInv, KindInv, LocalsInv, pc = "idle", NEW n \in Names, NEW off, NEW cnt, NEW v,
           dir[n].used, StartWrite(n, off, cnt, v)
    PROVE  KindInv' /\ LocalsInv'
  <1>1. call'.kind = "write" /\ call'.name = n /\ pc' \in {"read", "alloc"}
    BY DEF StartWrite, SizeCall
  <1>2. dir' = dir /\ UNCHANGED <<chain, got, linked, todo>>
    BY DEF StartWrite, disk
  <1>3. QED BY <1>1, <1>2 DEF KindInv, LocalsInv

(* So does every call. *)
LEMMA KindBegin ==
    ASSUME TypeOK, LoopsInv, KindInv, LocalsInv, NEW n \in Names, Call(n)
    PROVE  KindInv' /\ LocalsInv'
  <1>0. pc = "idle"
    BY DEF Call, Create, Remove, Rename, Extend, Shrink, WriteFile, Idle
  <1>1. CASE Create(n)
    BY <1>0, <1>1 DEF Create, NameCall, KindInv, LocalsInv
  <1>2. CASE Remove(n)
    BY <1>0, <1>2 DEF Remove, NameCall, KindInv, LocalsInv
  <1>3. ASSUME NEW m \in Names, Rename(m, n) PROVE KindInv' /\ LocalsInv'
    BY <1>0, <1>3 DEF Rename, NameCall, KindInv, LocalsInv
  <1>4. ASSUME NEW len \in 0 .. MaxLen, Extend(n, len) PROVE KindInv' /\ LocalsInv'
    <2>1. dir[n].used /\ \E off, cnt : StartWrite(n, off, cnt, Zero)
      BY <1>4 DEF Extend
    <2>2. QED BY <1>0, <2>1, KindStartWrite
  <1>5. ASSUME NEW len \in 0 .. MaxLen, Shrink(n, len) PROVE KindInv' /\ LocalsInv'
    BY <1>0, <1>5 DEF Shrink, SizeCall, KindInv, LocalsInv, disk
  <1>6. ASSUME NEW off \in 0 .. MaxLen, NEW cnt \in 0 .. MaxLen, NEW v \in Bytes,
               WriteFile(n, off, cnt, v)
        PROVE  KindInv' /\ LocalsInv'
    BY <1>0, <1>6, KindStartWrite DEF WriteFile
  <1>7. QED
    BY <1>1, <1>2, <1>3, <1>4, <1>5, <1>6 DEF Call

(* And every step of a call keeps to what the call is. *)
LEMMA KindStep ==
    ASSUME TypeOK, LoopsInv, KindInv, LocalsInv, Step
    PROVE  KindInv' /\ LocalsInv'
  <1>1. CASE ReadChain
    <2>1. pc' \in {"read", "cut", "alloc", "data"} /\ (pc' = "cut" <=> pc' # "read" /\ call.kind = "shrink")
      BY <1>1 DEF ReadChain
    <2>2. QED BY <1>1, <2>1 DEF ReadChain, KindInv, LocalsInv, disk
  <1>2. ASSUME NEW c \in Clusters, AllocCluster(c) PROVE KindInv' /\ LocalsInv'
    BY <1>2 DEF AllocCluster, KindInv, LocalsInv
  <1>3. CASE LinkCluster
    BY <1>3 DEF LinkCluster, KindInv, LocalsInv
  <1>4. CASE StartChain
    BY <1>4 DEF StartChain, KindInv, LocalsInv, disk, TypeOK, CallType
  <1>5. CASE LinkTail
    BY <1>5 DEF LinkTail, KindInv, LocalsInv
  <1>6. CASE WriteData
    BY <1>6 DEF WriteData, KindInv, LocalsInv
  <1>7. CASE CutToNothing
    BY <1>7 DEF CutToNothing, KindInv, LocalsInv, LoopsInv, disk, TypeOK, CallType
  <1>8. CASE CutChain
    BY <1>8 DEF CutChain, KindInv, LocalsInv, LoopsInv
  <1>9. CASE FreeBit
    BY <1>9 DEF FreeBit, KindInv, LocalsInv, locals
  <1>10. CASE FreeFat
    BY <1>10 DEF FreeFat, KindInv, LocalsInv
  <1>11. CASE WalkChain
    BY <1>11 DEF WalkChain, KindInv, LocalsInv, disk
  <1>12. CASE Publish
    BY <1>12 DEF Publish, KindInv, LocalsInv, locals, TypeOK, NewEntry
  <1>13. CASE ClearOld
    BY <1>13 DEF ClearOld, KindInv, LocalsInv, locals
  <1>14. CASE FlushAndGoOn
    BY <1>14 DEF FlushAndGoOn, FlushPCs, KindInv, LocalsInv, locals, disk
  <1>15. CASE Ended
    BY <1>15, KindEnds
  <1>16. QED
    BY <1>1, <1>2, <1>3, <1>4, <1>5, <1>6, <1>7, <1>8, <1>9, <1>10, <1>11, <1>12, <1>13,
       <1>14, <1>15
    DEF Step, ReadChainFails, AllocFails, WritePastChain, CutPanics, FreeBitFails, WalkFails,
        FlushAndReturn, Return, Abandon

(* A failure picks values of the right types. *)
LEMMA PicksAre ==
    ASSUME NEW m, NEW f \in Picks(m)
    PROVE  \A i \in DOMAIN m : f[i] \in m[i]
  BY DEF Picks

(* What is on the medium afterwards is one of the values in flight. *)
LEMMA LosePicks ==
    ASSUME FlightInv, Lose
    PROVE  /\ bitmap' \in [Clusters -> BOOLEAN] /\ fat' \in [Clusters -> FatValues]
           /\ dir' \in [Names -> Entry]
           /\ data' \in [Clusters -> [ClusterIndex -> Bytes \cup {Noise}]]
           /\ writer' \in [Clusters -> Labels]
           /\ \A c \in Clusters :
                /\ bitmap'[c] \in flight.bitmap[c] /\ fat'[c] \in flight.fat[c]
                /\ data'[c] \in flight.data[c] /\ writer'[c] \in flight.writer[c]
           /\ \A n \in Names : dir'[n] \in flight.dir[n]
  <1>1. /\ DOMAIN flight.bitmap = Clusters /\ DOMAIN flight.fat = Clusters
        /\ DOMAIN flight.data = Clusters /\ DOMAIN flight.dir = Names
        /\ DOMAIN flight.writer = Clusters
    BY DEF FlightInv
  <1>2. bitmap' \in Picks(flight.bitmap) /\ fat' \in Picks(flight.fat)
        /\ dir' \in Picks(flight.dir) /\ data' \in Picks(flight.data)
        /\ writer' \in Picks(flight.writer)
    BY DEF Lose
  <1>3. bitmap' \in [Clusters -> BOOLEAN] /\ \A c \in Clusters : bitmap'[c] \in flight.bitmap[c]
    <2>1. \A c \in Clusters : bitmap'[c] \in flight.bitmap[c]
      BY <1>1, <1>2, PicksAre
    <2>2. \E S : bitmap' \in [Clusters -> S]
      BY <1>1, <1>2 DEF Picks
    <2>3. QED BY <2>1, <2>2 DEF FlightInv
  <1>4. fat' \in [Clusters -> FatValues] /\ \A c \in Clusters : fat'[c] \in flight.fat[c]
    <2>1. \A c \in Clusters : fat'[c] \in flight.fat[c]
      BY <1>1, <1>2, PicksAre
    <2>2. \E S : fat' \in [Clusters -> S]
      BY <1>1, <1>2 DEF Picks
    <2>3. QED BY <2>1, <2>2 DEF FlightInv
  <1>5. dir' \in [Names -> Entry] /\ \A n \in Names : dir'[n] \in flight.dir[n]
    <2>1. \A n \in Names : dir'[n] \in flight.dir[n]
      BY <1>1, <1>2, PicksAre
    <2>2. \E S : dir' \in [Names -> S]
      BY <1>1, <1>2 DEF Picks
    <2>3. QED BY <2>1, <2>2 DEF FlightInv
  <1>6. /\ data' \in [Clusters -> [ClusterIndex -> Bytes \cup {Noise}]]
        /\ \A c \in Clusters : data'[c] \in flight.data[c]
    <2>1. \A c \in Clusters : data'[c] \in flight.data[c]
      BY <1>1, <1>2, PicksAre
    <2>2. \E S : data' \in [Clusters -> S]
      BY <1>1, <1>2 DEF Picks
    <2> DEFINE B == [ClusterIndex -> Bytes \cup {Noise}]
    <2>3. flight.data \in [Clusters -> SUBSET B]
      BY DEF FlightInv
    <2> HIDE DEF B
    <2>4. data' \in [Clusters -> B]
      BY <2>1, <2>2, <2>3
    <2>5. QED BY <2>1, <2>4 DEF B
  <1>7. writer' \in [Clusters -> Labels] /\ \A c \in Clusters : writer'[c] \in flight.writer[c]
    <2>1. \A c \in Clusters : writer'[c] \in flight.writer[c]
      BY <1>1, <1>2, PicksAre
    <2>2. \E S : writer' \in [Clusters -> S]
      BY <1>1, <1>2 DEF Picks
    <2>3. QED BY <2>1, <2>2 DEF FlightInv
  <1>8. QED BY <1>3, <1>4, <1>5, <1>6, <1>7

(* Hence a failure keeps the types. *)
LEMMA TypeLose ==
    ASSUME TypeOK, FlightInv, Lose
    PROVE  TypeOK' /\ LoopsInv' /\ KindInv' /\ LocalsInv'
  <1>1. Ended /\ mishap' = TRUE /\ cuts' \in Nat
    BY DEF Lose, Abandon, TypeOK
  <1>2. LoopsInv' /\ KindInv' /\ LocalsInv'
    BY <1>1, KindEnds
  <1>3. pc' \in PCs /\ call' \in CallType
    BY <1>1, CallTypes DEF Ended, PCs
  <1>4. /\ pos' \in Nat /\ cur' \in Nat /\ linked' \in Nat
        /\ chain' \in Seq(Clusters) /\ got' \in Seq(Clusters) /\ todo' \in Seq(Nat)
    BY <1>1 DEF Ended
  <1>5. /\ bitmap' \in [Clusters -> BOOLEAN] /\ fat' \in [Clusters -> FatValues]
        /\ dir' \in [Names -> Entry]
        /\ data' \in [Clusters -> [ClusterIndex -> Bytes \cup {Noise}]]
    BY LosePicks
  <1>6. TypeOK'
    BY <1>1, <1>3, <1>4, <1>5 DEF TypeOK
  <1>7. QED BY <1>2, <1>6

(* And every step keeps those of the labels. *)
LEMMA LabelsStep ==
    ASSUME TypeOK, FlightInv, CacheNext
    PROVE  writer' \in [Clusters -> Labels]
  <1>1. CASE CacheBegin \/ UNCHANGED writer
    BY <1>1 DEF CacheBegin, FlightInv
  <1>2. CASE Lose
    BY <1>2, LosePicks
  <1>3. CASE CacheAdvance
    <2>1. \A c \in Clusters : writer[c] \in Labels
      BY DEF FlightInv
    <2>2. \A c \in Clusters : \A b \in ClusterIndex :
             Relabelled(c, writer[c])[b] \in Names \cup {NoName}
      BY <2>1, RelabelledAre DEF Labels
    <2>3. call.name \in Names \cup {NoName}
      BY DEF TypeOK, CallType
    <2>4. \A c \in Clusters : \A b \in ClusterIndex :
             (IF ~harmed /\ Written(c, b) THEN call.name ELSE Relabelled(c, writer[c])[b])
                 \in Names \cup {NoName}
      BY <2>2, <2>3
    <2>5. writer' = [c \in Clusters |->
                        [b \in ClusterIndex |->
                            IF ~harmed /\ Written(c, b) THEN call.name
                            ELSE Relabelled(c, writer[c])[b]]]
      BY <1>3 DEF CacheAdvance
    <2>6. QED
      BY <2>4, <2>5 DEF Labels
  <1>4. QED BY <1>1, <1>2, <1>3 DEF CacheNext, Failure

(* At the start nothing is in flight. *)
LEMMA GroundInit == CacheInit => Ground /\ ~harmed
  <1> SUFFICES ASSUME CacheInit PROVE Ground /\ ~harmed
    OBVIOUS
  <1>1. Init
    BY DEF CacheInit
  <1>2. TypeOK /\ LoopsInv /\ KindInv /\ LocalsInv
    BY <1>1, KeepInit DEF IInv, CallInv
  <1>3. /\ \A c \in Clusters :
             /\ bitmap[c] \in BOOLEAN /\ fat[c] \in FatValues
             /\ data[c] \in [ClusterIndex -> Bytes \cup {Noise}]
        /\ \A n \in Names : dir[n] \in Entry
    BY <1>2 DEF TypeOK
  <1>a. writer \in [Clusters -> Labels]
    BY DEF CacheInit, Labels
  <1>b. \A c \in Clusters : writer[c] \in Labels
    BY <1>a
  <1>4. FlightInv
    BY <1>3, <1>a, <1>b DEF CacheInit, Settled, FlightInv
  <1>5. QED BY <1>2, <1>4 DEF Ground, CacheInit

(* Every step, failures included, keeps the ground. *)
LEMMA GroundNext ==
    ASSUME Ground, CacheNext
    PROVE  Ground' /\ Grows
  <1>1. Cached /\ writer' \in [Clusters -> Labels]
    BY StepsAreCached, LabelsStep DEF Ground
  <1>2. CASE Lose
    BY <1>1, <1>2, TypeLose, FlightStep DEF Ground
  <1>3. CASE PowerCut
    <2>1. TypeOK' /\ LoopsInv'
      BY <1>3, TypeNext DEF Next, Ground
    <2>2. KindInv' /\ LocalsInv'
      BY <1>3, KindEnds DEF PowerCut, Abandon
    <2>3. QED BY <1>1, <2>1, <2>2, FlightStep DEF Ground
  <1>4. CASE CacheBegin
    <2>1. TypeOK' /\ LoopsInv'
      BY <1>4, TypeNext DEF Next, Ground, CacheBegin
    <2>2. KindInv' /\ LocalsInv'
      BY <1>4, KindBegin DEF CacheBegin, Begin, Ground
    <2>3. QED BY <1>1, <2>1, <2>2, FlightStep DEF Ground
  <1>5. CASE CacheAdvance
    <2>1. TypeOK' /\ LoopsInv'
      BY <1>5, TypeNext DEF Next, Ground, CacheAdvance
    <2>2. KindInv' /\ LocalsInv'
      BY <1>5, KindStep DEF CacheAdvance, Advance, Ground
    <2>3. QED BY <1>1, <2>1, <2>2, FlightStep DEF Ground
  <1>6. QED
    BY <1>2, <1>3, <1>4, <1>5 DEF CacheNext, Failure

-----------------------------------------------------------------------------
(* Who has written a byte *)

(* A step that writes no data makes nobody the author of anything. *)
Still == writer' = writer /\ \A c \in Clusters : flight'.writer[c] \subseteq flight.writer[c]

(* What a step of a call may do to the history, as long as it is kept: the old
   entry's removal renames the authors, a write makes the call's file the
   author of its piece, and only a cluster that is taken loses its authors. *)
Signed ==
    /\ \A c \in Clusters :
          ~Renamed /\ ~Taken(c) /\ (\A b \in ClusterIndex : ~Written(c, b)) =>
              writer'[c] = writer[c] /\ flight'.writer[c] \subseteq flight.writer[c]
    /\ pc = "data" =>
          \A c \in Clusters :
              /\ flight'.writer[c] \subseteq flight.writer[c] \cup {writer'[c]}
              /\ \A b \in ClusterIndex :
                    writer'[c][b] = IF Written(c, b) THEN call.name ELSE writer[c][b]
    /\ Renamed =>
          \A c \in Clusters : \A x \in flight'.writer[c] \cup {writer'[c]} :
              \E y \in flight.writer[c] : \A b \in ClusterIndex :
                  x[b] = IF y[b] = call.name THEN call.to ELSE y[b]

LEMMA SignedStep ==
    ASSUME Ground, Ground', Grows, ~harmed, CacheBegin \/ CacheAdvance
    PROVE  Signed
  <1>0. /\ writer \in [Clusters -> Labels] /\ writer' \in [Clusters -> Labels]
        /\ flight.writer \in [Clusters -> SUBSET Labels]
        /\ \A c \in Clusters : writer[c] \in flight.writer[c]
    BY DEF Ground, FlightInv
  <1>1. /\ \A c \in Clusters, v \in Labels : ~Renamed /\ ~Taken(c) => Relabelled(c, v) = v
        /\ \A c \in Clusters, v \in Labels, b \in ClusterIndex :
              Renamed => Relabelled(c, v)[b] = IF v[b] = call.name THEN call.to ELSE v[b]
    <2>1. ASSUME NEW c \in Clusters, NEW v \in Labels, ~Renamed, ~Taken(c)
          PROVE  Relabelled(c, v) = v
      <3>1. Relabelled(c, v) = [b \in ClusterIndex |-> v[b]]
        BY <2>1 DEF Relabelled
      <3>2. QED BY <3>1 DEF Labels
    <2>2. Renamed => pc = "clear"
      BY DEF Renamed
    <2>3. ASSUME NEW c \in Clusters, NEW v \in Labels, NEW b \in ClusterIndex, Renamed
          PROVE  Relabelled(c, v)[b] = IF v[b] = call.name THEN call.to ELSE v[b]
      <3>1. ~Taken(c)
        BY <2>2, <2>3 DEF Taken
      <3>2. QED BY <2>3, <3>1 DEF Relabelled
    <2>4. QED BY <2>1, <2>3
  <1>2. \A c \in Clusters : flight'.writer[c] \subseteq
            {Relabelled(c, v) : v \in flight.writer[c]} \cup {writer'[c]}
    BY DEF Grows
  <1>3. \A c \in Clusters : \A v \in flight.writer[c] : v \in Labels
    BY <1>0
  <1>4. ASSUME NEW c \in Clusters, NEW b \in ClusterIndex, CacheAdvance
        PROVE  writer'[c][b] = IF Written(c, b) THEN call.name ELSE Relabelled(c, writer[c])[b]
    BY <1>4 DEF CacheAdvance
  <1>5. CacheBegin => writer' = writer /\ pc = "idle"
    BY DEF CacheBegin, Begin, Call, Create, Remove, Rename, Extend, Shrink, WriteFile, Idle
  <1>6. /\ \A c \in Clusters, b \in ClusterIndex : Written(c, b) => pc = "data"
        /\ \A c \in Clusters : Taken(c) => pc = "alloc"
        /\ Renamed => pc = "clear"
    BY DEF Written, Taken, Renamed
  <1>7. ASSUME NEW c \in Clusters, ~Renamed, ~Taken(c)
        PROVE  flight'.writer[c] \subseteq flight.writer[c] \cup {writer'[c]}
    BY <1>0, <1>1, <1>2, <1>3, <1>7
  <1>8. ASSUME NEW c \in Clusters, ~Renamed, ~Taken(c), \A b \in ClusterIndex : ~Written(c, b)
        PROVE  writer'[c] = writer[c] /\ flight'.writer[c] \subseteq flight.writer[c]
    <2>1. writer'[c] = writer[c]
      <3>1. CASE CacheBegin
        BY <1>5, <3>1
      <3>2. CASE CacheAdvance
        <4>1. writer[c] \in Labels /\ writer'[c] \in Labels
          BY <1>0
        <4>2. \A b \in ClusterIndex : writer'[c][b] = writer[c][b]
          BY <1>1, <1>4, <1>8, <3>2, <4>1
        <4>3. QED BY <4>1, <4>2 DEF Labels
      <3>3. QED BY <3>1, <3>2
    <2>2. QED BY <1>0, <1>7, <1>8, <2>1
  <1>9. ASSUME pc = "data", NEW c \in Clusters
        PROVE  /\ flight'.writer[c] \subseteq flight.writer[c] \cup {writer'[c]}
               /\ \A b \in ClusterIndex :
                     writer'[c][b] = IF Written(c, b) THEN call.name ELSE writer[c][b]
    <2>1. CacheAdvance /\ ~Renamed /\ ~Taken(c) /\ writer[c] \in Labels
      BY <1>0, <1>5, <1>6, <1>9
    <2>2. QED BY <1>1, <1>4, <1>7, <2>1
  <1>10. ASSUME Renamed, NEW c \in Clusters, NEW x \in flight'.writer[c] \cup {writer'[c]}
         PROVE  \E y \in flight.writer[c] : \A b \in ClusterIndex :
                    x[b] = IF y[b] = call.name THEN call.to ELSE y[b]
    <2>1. CacheAdvance /\ \A b \in ClusterIndex : ~Written(c, b)
      BY <1>5, <1>6, <1>10
    <2>2. CASE x = writer'[c]
      <3>1. writer[c] \in flight.writer[c] /\ writer[c] \in Labels
        BY <1>0
      <3>2. \A b \in ClusterIndex :
               x[b] = IF writer[c][b] = call.name THEN call.to ELSE writer[c][b]
        BY <1>1, <1>4, <1>10, <2>1, <2>2, <3>1
      <3>3. QED BY <3>1, <3>2
    <2>3. CASE x # writer'[c]
      <3>1. PICK y \in flight.writer[c] : x = Relabelled(c, y)
        BY <1>2, <1>10, <2>3
      <3>2. \A b \in ClusterIndex : x[b] = IF y[b] = call.name THEN call.to ELSE y[b]
        BY <1>1, <1>3, <1>10, <3>1
      <3>3. QED BY <3>2
    <2>4. QED BY <2>2, <2>3
  <1>11. QED BY <1>8, <1>9, <1>10 DEF Signed

(* Steps other than those three make nobody an author. *)
LEMMA StillStep ==
    ASSUME Ground, Ground', Signed, ~Renamed,
           \A c \in Clusters : ~Taken(c) /\ \A b \in ClusterIndex : ~Written(c, b)
    PROVE  Still
  <1>1. writer \in [Clusters -> Labels] /\ writer' \in [Clusters -> Labels]
    BY DEF Ground, FlightInv
  <1>2. \A c \in Clusters : writer'[c] = writer[c] /\ flight'.writer[c] \subseteq flight.writer[c]
    BY DEF Signed
  <1>3. writer' = writer
    BY <1>1, <1>2
  <1>4. QED BY <1>2, <1>3 DEF Still

(* Most steps are told by their place, or by leaving the disk alone. *)
LEMMA StillPlace ==
    ASSUME Ground, Ground', Signed, pc \notin {"alloc", "data", "clear"}
    PROVE  Still
  BY StillStep DEF Taken, Renamed, Written

LEMMA StillDisk ==
    ASSUME Ground, Ground', Signed, UNCHANGED disk, pc # "data" \/ WritePastChain
    PROVE  Still
  <1>1. ~Renamed /\ \A c \in Clusters : ~Taken(c)
    BY DEF Renamed, Taken, disk
  <1>2. \A c \in Clusters, b \in ClusterIndex : ~Written(c, b)
    <2>1. pos \div ClusterBytes + 1 \in Int /\ Len(chain) \in Nat
      BY SizesAssumption, DivType DEF Ground, TypeOK
    <2> DEFINE ci == pos \div ClusterBytes + 1
    <2>2. \A k \in Int, m \in Nat : k > m => ~(k <= m)
      OBVIOUS
    <2>3. pc = "data" => ~(ci <= Len(chain))
      BY <2>1, <2>2 DEF WritePastChain
    <2>4. QED BY <2>3 DEF Written
  <1>3. QED BY <1>1, <1>2, StillStep

-----------------------------------------------------------------------------
(* Lines *)

(* A claim is a number of clusters, and none for an empty file. *)
LEMMA OwedIs ==
    ASSUME TypeOK, NEW n, NEW e \in Entry
    PROVE  /\ Owed(n, e) \in Nat /\ Owed(n, e) <= ClustersFor(e.len)
           /\ e.len \in Nat /\ ClustersFor(e.len) \in Nat
           /\ e.len = 0 => Owed(n, e) = 0
           /\ ~Shortened(n) => Owed(n, e) = ClustersFor(e.len)
           /\ Shortened(n) => Owed(n, e) <= call.count
           /\ Shortened(n) /\ call.count <= ClustersFor(e.len) => Owed(n, e) = call.count
           /\ Shortened(n) /\ ClustersFor(e.len) <= call.count
                  => Owed(n, e) = ClustersFor(e.len)
  <1>1. e.len \in Nat /\ ClustersFor(e.len) \in Nat /\ call.count \in Nat
    BY Types, ClustersForType DEF Entry
  <1>2. QED BY <1>1, ClustersForZero DEF Owed

(* An entry that is in flight is an entry. *)
LEMMA EntriesAre ==
    ASSUME FlightInv, NEW n \in Names
    PROVE  /\ Entries(n) \subseteq Entry
           /\ \A e \in Entries(n) : e.used
           /\ dir[n].used => dir[n] \in Entries(n)
  BY DEF FlightInv, Entries

(* A line that stays marked and linked in a step is the same line after it,
   and a failure leaves it as it is. *)
LEMMA LineKept ==
    ASSUME Ground, Ground', Grows, NEW h, NEW K \in Nat, NEW k \in Nat, k <= K,
           Pinned(flight, ChainFrom(fat, h, K), K),
           \A i \in 1 .. k : bitmap'[ChainFrom(fat, h, K)[i]],
           \A i \in 1 .. k - 1 : fat'[ChainFrom(fat, h, K)[i]] = fat[ChainFrom(fat, h, K)[i]]
    PROVE  /\ \A i \in 1 .. k : /\ ChainFrom(fat', h, k)[i] = ChainFrom(fat, h, K)[i]
                                /\ ChainFrom(fat, h, K)[i] \in Clusters
           /\ Pinned(flight', ChainFrom(fat', h, k), k)
  <1> DEFINE w == ChainFrom(fat, h, K)
             v == ChainFrom(fat', h, k)
  <1>1. \A i \in 1 .. k : i \in 1 .. K /\ w[i] \in Clusters /\ flight.bitmap[w[i]] \subseteq {TRUE}
    <2>1. \A i \in 1 .. K : w[i] \in Clusters /\ flight.bitmap[w[i]] \subseteq {TRUE}
      BY DEF Pinned
    <2>2. \A i \in 1 .. k : i \in 1 .. K
      OBVIOUS
    <2> HIDE DEF w
    <2>3. QED BY <2>1, <2>2
  <1>2. \A i \in 1 .. k - 1 : /\ i \in 1 .. k /\ i \in 1 .. K - 1
                             /\ flight.fat[w[i]] \subseteq {w[i + 1]}
    BY DEF Pinned
  <1>3. K > 0 => w[1] = h
    BY ChainSteps
  <1>4. \A i \in 1 .. k - 1 : w[i + 1] = fat[w[i]] /\ fat'[w[i]] = w[i + 1]
    <2>1. \A i \in 1 .. K - 1 : w[i + 1] = IF w[i] \in Clusters THEN fat[w[i]] ELSE 0
      BY ChainSteps
    <2>2. QED BY <1>1, <1>2, <2>1
  <1>5. \A i \in 1 .. k : v[i] = w[i]
    <2>1. k > 0 => w[1] = h
      BY <1>3
    <2>2. \A i \in 1 .. k - 1 : w[i + 1] = IF w[i] \in Clusters THEN fat'[w[i]] ELSE 0
      BY <1>1, <1>2, <1>4
    <2> HIDE DEF w
    <2>3. QED BY <2>1, <2>2, ChainUnique
  <1>6. \A i, j \in 1 .. k : w[i] = w[j] => i = j
    BY <1>1 DEF Pinned
  <1>7. \A i \in 1 .. k : flight'.bitmap[w[i]] \subseteq {TRUE}
    <2> TAKE i \in 1 .. k
    <2>1. w[i] \in Clusters /\ flight.bitmap[w[i]] \subseteq {TRUE} /\ bitmap'[w[i]]
      BY <1>1
    <2>2. bitmap'[w[i]] = TRUE
      BY <2>1 DEF Ground, TypeOK
    <2>3. flight'.bitmap[w[i]] \subseteq flight.bitmap[w[i]] \cup {bitmap'[w[i]]}
      BY <2>1 DEF Grows
    <2>4. QED BY <2>1, <2>2, <2>3
  <1>8. \A i \in 1 .. k - 1 : flight'.fat[w[i]] \subseteq {w[i + 1]}
    <2> TAKE i \in 1 .. k - 1
    <2>1. w[i] \in Clusters
      BY <1>1, <1>2
    <2>2. flight'.fat[w[i]] \subseteq flight.fat[w[i]] \cup {fat'[w[i]]}
      BY <2>1 DEF Grows
    <2>3. QED BY <1>2, <1>4, <2>2
  <1>9. \A i \in 1 .. k - 1 : i \in 1 .. k /\ i + 1 \in 1 .. k
    OBVIOUS
  <1> HIDE DEF w, v
  <1>10. \A i \in 1 .. k : v[i] \in Clusters /\ flight'.bitmap[v[i]] \subseteq {TRUE}
    BY <1>1, <1>5, <1>7
  <1>11. \A i \in 1 .. k - 1 : flight'.fat[v[i]] \subseteq {v[i + 1]}
    BY <1>5, <1>8, <1>9
  <1>12. \A i, j \in 1 .. k : v[i] = v[j] => i = j
    BY <1>5, <1>6
  <1>13. Pinned(flight', ChainFrom(fat', h, k), k)
    BY <1>10, <1>11, <1>12 DEF v, Pinned
  <1>14. QED BY <1>1, <1>5, <1>13 DEF v, w

(* Entry e of n after a step is no longer than entry g of it before the step,
   and the step keeps the line of g as far as e has a claim to it. *)
Traced(n, e, g) ==
    /\ g.first = e.first /\ e.len <= g.len /\ Owed(n, e)' <= Owed(n, g)
    /\ \A i \in 1 .. Owed(n, e)' : bitmap'[Line(n, g)[i]]
    /\ \A i \in 1 .. Owed(n, e)' - 1 : fat'[Line(n, g)[i]] = fat[Line(n, g)[i]]

(* Every entry after the step is empty or comes from one before it. *)
AllTraced ==
    \A n \in Names : \A e \in Entries(n)' : e.len = 0 \/ \E g \in Entries(n) : Traced(n, e, g)

(* Such an entry leads to the beginning of a line there was, still pinned. *)
LEMMA TracedLine ==
    ASSUME Ground, Ground', Grows, PinnedInv, NEW n \in Names,
           NEW e \in Entries(n)', NEW g \in Entries(n), Traced(n, e, g)
    PROVE  /\ \A i \in 1 .. Owed(n, e)' : /\ i \in 1 .. Owed(n, g)
                                          /\ Line(n, e)'[i] = Line(n, g)[i]
                                          /\ Line(n, g)[i] \in Clusters
           /\ Pinned(flight', Line(n, e)', Owed(n, e)')
  <1>1. e \in Entry /\ g \in Entry
    BY EntriesAre DEF Ground, Entries, FlightInv
  <1>2. Owed(n, e)' \in Nat
    <2>1. e.len \in Nat /\ ClustersFor(e.len) \in Nat /\ call'.count \in Nat
      BY <1>1, ClustersForType DEF Entry, Ground, TypeOK, CallType
    <2>2. QED BY <2>1 DEF Owed
  <1>3. Owed(n, g) \in Nat
    BY <1>1, OwedIs DEF Ground
  <1> DEFINE k == Owed(n, e)'
             K == Owed(n, g)
             w == ChainFrom(fat, g.first, K)
  <1>4. k \in Nat /\ K \in Nat /\ k <= K
    BY <1>2, <1>3 DEF Traced
  <1>5. Pinned(flight, w, K)
    BY DEF PinnedInv, Line
  <1>6. /\ \A i \in 1 .. k : bitmap'[w[i]]
        /\ \A i \in 1 .. k - 1 : fat'[w[i]] = fat[w[i]]
    BY DEF Traced, Line
  <1>7. /\ Line(n, g) = w
        /\ Line(n, e)' = ChainFrom(fat', e.first, k)
        /\ g.first = e.first
    BY DEF Line, Traced
  <1> HIDE DEF k, K
  <1>8. /\ \A i \in 1 .. k : ChainFrom(fat', g.first, k)[i] = w[i] /\ w[i] \in Clusters
        /\ Pinned(flight', ChainFrom(fat', g.first, k), k)
    BY <1>4, <1>5, <1>6, LineKept
  <1>9. \A i \in 1 .. k : i \in 1 .. K
    BY <1>4
  <1> HIDE DEF w
  <1>10. /\ \A i \in 1 .. k : i \in 1 .. K /\ Line(n, e)'[i] = Line(n, g)[i] /\ Line(n, g)[i] \in Clusters
         /\ Pinned(flight', Line(n, e)', k)
    BY <1>7, <1>8, <1>9
  <1>11. QED BY <1>10 DEF k, K

(* So every cluster of a line after the step was in a line of the same name,
   of a file at least as long, at the same place. *)
LinesComeFrom ==
    \A n \in Names : \A e \in Entries(n)' :
        /\ Owed(n, e)' \in Nat
        /\ \A i \in 1 .. Owed(n, e)' :
              \E g \in Entries(n) : /\ g.first = e.first /\ e.len <= g.len
                                   /\ i \in 1 .. Owed(n, g)
                                   /\ Line(n, e)'[i] = Line(n, g)[i]
                                   /\ Line(n, g)[i] \in Clusters

(* An empty file has no line. *)
LEMMA EmptyLine ==
    ASSUME Ground', NEW n \in Names, NEW e \in Entries(n)'
    PROVE  Owed(n, e)' \in Nat /\ e.len \in Nat /\ (e.len = 0 => Owed(n, e)' = 0)
  <1>1. e \in Entry
    BY DEF Ground, Entries, FlightInv
  <1>2. e.len \in Nat /\ ClustersFor(e.len) \in Nat /\ call'.count \in Nat
    BY <1>1, ClustersForType DEF Entry, Ground, TypeOK, CallType
  <1>3. QED BY <1>2, ClustersForZero DEF Owed

(* So every line after the step is pinned and comes from one before it. *)
LEMMA TracedLines ==
    ASSUME Ground, Ground', Grows, PinnedInv, AllTraced
    PROVE  LinesComeFrom /\ PinnedInv'
  <1>1. ASSUME NEW n \in Names, NEW e \in Entries(n)'
        PROVE  /\ Owed(n, e)' \in Nat
               /\ \A i \in 1 .. Owed(n, e)' :
                    \E g \in Entries(n) : /\ g.first = e.first /\ e.len <= g.len
                                         /\ i \in 1 .. Owed(n, g)
                                         /\ Line(n, e)'[i] = Line(n, g)[i]
                                         /\ Line(n, g)[i] \in Clusters
               /\ Pinned(flight', Line(n, e)', Owed(n, e)')
    <2>1. Owed(n, e)' \in Nat /\ (e.len = 0 => Owed(n, e)' = 0)
      BY EmptyLine
    <2>2. CASE e.len = 0
      <3>1. Owed(n, e)' = 0
        BY <2>1, <2>2
      <3>2. QED BY <3>1 DEF Pinned
    <2>3. CASE e.len # 0
      <3>1. PICK g \in Entries(n) : Traced(n, e, g)
        BY <2>3 DEF AllTraced
      <3>2. g.first = e.first /\ e.len <= g.len
        BY <3>1 DEF Traced
      <3>3. QED BY <2>1, <3>1, <3>2, TracedLine
    <2>4. QED BY <2>2, <2>3
  <1>2. LinesComeFrom
    BY <1>1 DEF LinesComeFrom
  <1>3. PinnedInv'
    BY <1>1 DEF PinnedInv
  <1>4. QED BY <1>2, <1>3

(* Lines that were apart stay apart. *)
LEMMA TracedApart ==
    ASSUME ApartInv, LinesComeFrom,
           \A m, n \in Names : m # n /\ BeingRenamed(m, n) /\ ~BeingRenamed(m, n)' =>
               Entries(m)' = {} \/ Entries(n)' = {}
    PROVE  ApartInv'
  <1> SUFFICES ASSUME NEW m \in Names, NEW n \in Names, m # n, ~BeingRenamed(m, n)',
                      NEW e \in Entries(m)', NEW g \in Entries(n)',
                      NEW i \in 1 .. Owed(m, e)', NEW j \in 1 .. Owed(n, g)'
               PROVE  Line(m, e)'[i] # Line(n, g)'[j]
    BY DEF ApartInv, Distinct
  <1>1. ~BeingRenamed(m, n)
    OBVIOUS
  <1>2. PICK a \in Entries(m) : i \in 1 .. Owed(m, a) /\ Line(m, e)'[i] = Line(m, a)[i]
    BY DEF LinesComeFrom
  <1>3. PICK b \in Entries(n) : j \in 1 .. Owed(n, b) /\ Line(n, g)'[j] = Line(n, b)[j]
    BY DEF LinesComeFrom
  <1>4. Line(m, a)[i] # Line(n, b)[j]
    BY <1>1, <1>2, <1>3 DEF ApartInv, Distinct
  <1>5. QED BY <1>2, <1>3, <1>4

(* A step that makes nobody else the author of a byte in a line of n. *)
CleanFor(n) ==
    \A g \in Entries(n) : \A i \in 1 .. Owed(n, g), b \in ClusterIndex :
        LET c == Line(n, g)[i]
        IN  c \in Clusters /\ (\A x \in flight.writer[c] : x[b] \in Authors(n)) =>
                \A x \in flight'.writer[c] : x[b] \in Authors(n)'
Clean == \A n \in Names : Entries(n)' # {} => CleanFor(n)

(* With the same bytes in it, all of them the file's own. *)
LEMMA TracedBytes ==
    ASSUME Ground, Ground', BytesInv, LinesComeFrom, Clean
    PROVE  BytesInv'
  <1> SUFFICES ASSUME NEW n \in Names, NEW e \in Entries(n)', NEW p \in 0 .. e.len - 1,
                      p \div ClusterBytes + 1 <= Owed(n, e)'
               PROVE  \A x \in flight'.writer[Line(n, e)'[p \div ClusterBytes + 1]] :
                          x[p % ClusterBytes] \in Authors(n)'
    BY DEF BytesInv
  <1> DEFINE q == p \div ClusterBytes + 1
             b == p % ClusterBytes
  <1>1. e.len \in Nat /\ Owed(n, e)' \in Nat
    BY EmptyLine
  <1>2. p \in Nat /\ p < e.len
    BY <1>1
  <1>3. q \in Nat /\ q >= 1 /\ b \in ClusterIndex
    BY <1>1, <1>2, ByteHasCluster
  <1>4. q <= Owed(n, e)'
    OBVIOUS
  <1> HIDE DEF q, b
  <1>5. q \in 1 .. Owed(n, e)'
    BY <1>1, <1>3, <1>4
  <1>6. PICK g \in Entries(n) : /\ e.len <= g.len /\ q \in 1 .. Owed(n, g)
                                /\ Line(n, e)'[q] = Line(n, g)[q] /\ Line(n, g)[q] \in Clusters
    BY <1>5 DEF LinesComeFrom
  <1>7. g.len \in Nat /\ p \in 0 .. g.len - 1
    <2>1. g.len \in Nat
      BY DEF Ground, Entries, FlightInv, Entry
    <2>2. QED BY <1>1, <1>2, <1>6, <2>1
  <1>8. Owed(n, g) \in Nat /\ q <= Owed(n, g)
    <2>1. g \in Entry
      BY DEF Ground, Entries, FlightInv
    <2>2. Owed(n, g) \in Nat
      BY <2>1, OwedIs DEF Ground
    <2>3. QED BY <1>6, <2>2
  <1>9. \A x \in flight.writer[Line(n, g)[q]] : x[b] \in Authors(n)
    BY <1>7, <1>8 DEF BytesInv, q, b
  <1>10. \A x \in flight'.writer[Line(n, g)[q]] : x[b] \in Authors(n)'
    <2>1. CleanFor(n)
      BY DEF Clean
    <2>2. QED BY <1>3, <1>6, <1>9, <2>1 DEF CleanFor
  <1>11. QED BY <1>6, <1>10 DEF q, b

(* And a cluster that nothing led to is still nobody's. *)
LEMMA TracedUnclaimed ==
    ASSUME LinesComeFrom
    PROVE  \A c : Unclaimed(c) => Unclaimed(c)'
  <1> SUFFICES ASSUME NEW c, Unclaimed(c), NEW n \in Names, NEW e \in Entries(n)',
                      NEW i \in 1 .. Owed(n, e)'
               PROVE  Line(n, e)'[i] # c
    BY DEF Unclaimed
  <1>1. PICK g \in Entries(n) : i \in 1 .. Owed(n, g) /\ Line(n, e)'[i] = Line(n, g)[i]
    BY DEF LinesComeFrom
  <1>2. QED BY <1>1 DEF Unclaimed

(* What is in flight of a name was so before the step or is written by it. *)
LEMMA EntriesFrom ==
    ASSUME Grows, NEW n \in Names
    PROVE  /\ \A e \in Entries(n)' : e \in Entries(n) \/ (e = dir'[n] /\ dir'[n].used)
           /\ ~dir'[n].used \/ dir'[n] \in flight.dir[n] => Entries(n)' \subseteq Entries(n)
  <1>1. flight'.dir[n] \subseteq flight.dir[n] \cup {dir'[n]}
    BY DEF Grows
  <1>2. \A e \in Entries(n)' : e \in flight'.dir[n] /\ e.used
    BY DEF Entries
  <1>3. \A e \in flight.dir[n] : e.used => e \in Entries(n)
    BY DEF Entries
  <1>4. QED BY <1>1, <1>2, <1>3

(* A step that gives nobody more clusters, and writes to those of a line
   nothing that a failure could not have left there. *)
LEMMA Undisturbed ==
    ASSUME Ground, Ground', Grows, PinnedInv,
           \A n \in Names : Entries(n)' \subseteq Entries(n),
           \A n \in Names : \A e \in Entries(n)' :
              /\ Owed(n, e)' <= Owed(n, e)
              /\ \A i \in 1 .. Owed(n, e)' :
                    bitmap'[Line(n, e)[i]] \/ bitmap'[Line(n, e)[i]] \in flight.bitmap[Line(n, e)[i]]
              /\ \A i \in 1 .. Owed(n, e)' - 1 :
                    fat'[Line(n, e)[i]] \in flight.fat[Line(n, e)[i]]
    PROVE  AllTraced
  <1> SUFFICES ASSUME NEW n \in Names, NEW e \in Entries(n)'
               PROVE  Traced(n, e, e) /\ e \in Entries(n)
    BY DEF AllTraced
  <1>1. e \in Entries(n) /\ Owed(n, e)' <= Owed(n, e)
    OBVIOUS
  <1>2. e \in Entry /\ e.len \in Nat
    BY DEF Ground, Entries, FlightInv, Entry
  <1>3. Owed(n, e) \in Nat /\ Owed(n, e)' \in Nat
    BY <1>2, OwedIs, EmptyLine DEF Ground
  <1> DEFINE w == Line(n, e)
             k == Owed(n, e)'
             K == Owed(n, e)
  <1>4. Pinned(flight, w, K)
    BY <1>1 DEF PinnedInv
  <1>5. /\ \A i \in 1 .. K : w[i] \in Clusters /\ flight.bitmap[w[i]] \subseteq {TRUE}
        /\ \A i \in 1 .. K - 1 : flight.fat[w[i]] \subseteq {w[i + 1]}
    BY <1>4 DEF Pinned
  <1>6. /\ \A i \in 1 .. k : bitmap'[w[i]] \/ bitmap'[w[i]] \in flight.bitmap[w[i]]
        /\ \A i \in 1 .. k - 1 : fat'[w[i]] \in flight.fat[w[i]]
    OBVIOUS
  <1>7. k \in Nat /\ K \in Nat /\ k <= K
    BY <1>1, <1>3
  <1> HIDE DEF w, k, K
  <1>8. \A i \in 1 .. k : i \in 1 .. K
    BY <1>7
  <1>9. \A i \in 1 .. k - 1 : i \in 1 .. K - 1 /\ i \in 1 .. K
    BY <1>7
  <1>10. \A i \in 1 .. k : bitmap'[w[i]]
    <2> TAKE i \in 1 .. k
    <2>1. flight.bitmap[w[i]] \subseteq {TRUE}
      BY <1>5, <1>8
    <2>2. CASE bitmap'[w[i]] \in flight.bitmap[w[i]]
      <3>1. bitmap'[w[i]] = TRUE
        BY <2>1, <2>2
      <3>2. QED BY <3>1
    <2>3. QED BY <1>6, <2>2
  <1>11. \A i \in 1 .. k - 1 : fat'[w[i]] = fat[w[i]]
    <2> TAKE i \in 1 .. k - 1
    <2>1. fat[w[i]] \in flight.fat[w[i]]
      BY <1>5, <1>9 DEF Ground, FlightInv
    <2>2. QED BY <1>5, <1>6, <1>9, <2>1
  <1>12. QED
    BY <1>1, <1>2, <1>10, <1>11 DEF Traced, w, k, K

(* The entries of a name stay lengths of one file. *)
LEMMA SameKept ==
    ASSUME Ground', SameInv,
           \A n \in Names : ~Renaming(n)' =>
              \/ Entries(n)' \subseteq {dir'[n]}
              \/ /\ ~Renaming(n) /\ Entries(n)' \subseteq Entries(n)
                 /\ dir'[n].used /\ dir'[n].len > 0 /\ ~Shortened(n)'
                       => dir'[n] = dir[n] /\ ~Shortened(n)
    PROVE  SameInv'
  <1> SUFFICES ASSUME NEW n \in Names, ~Renaming(n)'
               PROVE  /\ \A e, g \in Entries(n)' : e.len > 0 /\ g.len > 0 => e.first = g.first
                      /\ dir'[n].used /\ dir'[n].len > 0 /\ ~Shortened(n)' =>
                            \A e \in Entries(n)' : e.len <= dir'[n].len
    BY DEF SameInv
  <1>1. CASE Entries(n)' \subseteq {dir'[n]}
    <2>1. dir'[n].len \in Nat
      BY DEF Ground, TypeOK, Entry
    <2>2. QED BY <1>1, <2>1
  <1>2. CASE /\ ~Renaming(n) /\ Entries(n)' \subseteq Entries(n)
             /\ dir'[n].used /\ dir'[n].len > 0 /\ ~Shortened(n)'
                   => dir'[n] = dir[n] /\ ~Shortened(n)
    BY <1>2 DEF SameInv
  <1>3. QED BY <1>1, <1>2

LineInv == PinnedInv /\ ApartInv /\ SameInv /\ BytesInv

-----------------------------------------------------------------------------
(* The end of a call, with or without a failure *)

(* After a flush a name has at most its entry. *)
LEMMA SettledEntries ==
    ASSUME flight' = Settled(bitmap', fat', dir', data', writer'), NEW n \in Names
    PROVE  /\ Entries(n)' \subseteq {dir'[n]}
           /\ ~dir'[n].used => Entries(n)' = {}
  <1>1. flight'.dir[n] = {dir'[n]}
    BY DEF Settled
  <1>2. QED BY <1>1 DEF Entries

(* Where nobody becomes the author of anything, and no file loses one. *)
LEMMA CleanPicks ==
    ASSUME \A c \in Clusters : flight'.writer[c] \subseteq flight.writer[c],
           \A n \in Names : Entries(n)' # {} => Authors(n) \subseteq Authors(n)'
    PROVE  Clean
  <1> SUFFICES ASSUME NEW n \in Names, Authors(n) \subseteq Authors(n)'
               PROVE  CleanFor(n)
    BY DEF Clean
  <1>1. QED BY DEF CleanFor

(* A call that ends leaves the lines, unless a failure has cut a shrink or
   a rename in half. *)
LEMMA EndLines ==
    ASSUME Ground, Ground', Grows, LineInv, Ended,
           \A c \in Clusters : /\ bitmap'[c] \in flight.bitmap[c]
                               /\ fat'[c] \in flight.fat[c]
                               /\ flight'.writer[c] \subseteq flight.writer[c],
           \A n \in Names : dir'[n] \in flight.dir[n],
           flight' = Settled(bitmap', fat', dir', data', writer') \/ UNCHANGED dir,
           \/ call.kind # "rename" /\ \A n \in Names : ~Shortened(n)
           \/ /\ pc = "flush" /\ UNCHANGED <<dir, writer>> /\ CountsInv /\ RenamesInv
              /\ flight' = Settled(bitmap', fat', dir', data', writer')
    PROVE  LineInv'
  <1>1. call'.kind = "none"
    BY DEF Ended, NoCall, NameCall
  <1>2. \A n \in Names : Entries(n)' \subseteq Entries(n)
    BY EntriesFrom
  <1>3. \A n \in Names : ~Shortened(n)' /\ ~Renaming(n)'
    BY <1>1 DEF Shortened, Renaming
  <1>4. ASSUME NEW n \in Names, NEW e \in Entries(n)'
        PROVE  Owed(n, e)' <= Owed(n, e)
    <2>1. e \in Entry /\ e.len \in Nat /\ ClustersFor(e.len) \in Nat
      BY <1>4, ClustersForType DEF Ground, Entries, FlightInv, Entry
    <2>2. Owed(n, e)' = ClustersFor(e.len)
      BY <1>3 DEF Owed
    <2>3. CASE ~Shortened(n)
      BY <2>1, <2>2, <2>3 DEF Owed
    <2>4. CASE Shortened(n)
      <3>1. pc = "flush" /\ UNCHANGED dir /\ CountsInv /\ call.kind = "shrink" /\ call.name = n
        BY <2>4 DEF Shortened
      <3>2. Entries(n)' \subseteq {dir[n]}
        BY <2>4, <3>1, SettledEntries
      <3>3. e.len = call.len /\ call.count = ClustersFor(call.len)
        BY <1>4, <3>1, <3>2 DEF CountsInv
      <3>4. QED BY <2>1, <2>2, <3>3 DEF Owed
    <2>5. QED BY <2>3, <2>4
  <1>5. ASSUME NEW n \in Names, NEW e \in Entries(n)'
        PROVE  \A i \in 1 .. Owed(n, e)' : i \in 1 .. Owed(n, e) /\ Line(n, e)[i] \in Clusters
    <2>1. e \in Entries(n) /\ e \in Entry
      BY <1>2, <1>5 DEF Ground, Entries, FlightInv
    <2>2. Owed(n, e) \in Nat /\ Owed(n, e)' \in Nat /\ Owed(n, e)' <= Owed(n, e)
      BY <1>4, <1>5, <2>1, OwedIs, EmptyLine DEF Ground
    <2>3. \A i \in 1 .. Owed(n, e) : Line(n, e)[i] \in Clusters
      BY <2>1 DEF LineInv, PinnedInv, Pinned
    <2>4. \A i \in 1 .. Owed(n, e)' : i \in 1 .. Owed(n, e)
      BY <2>2
    <2>5. QED BY <2>3, <2>4
  <1>6. ASSUME NEW n \in Names, NEW e \in Entries(n)'
        PROVE  \A i \in 1 .. Owed(n, e)' - 1 : i \in 1 .. Owed(n, e)'
    BY <1>6, EmptyLine
  <1>7. AllTraced
    <2>1. \A n \in Names : \A e \in Entries(n)' :
              /\ Owed(n, e)' <= Owed(n, e)
              /\ \A i \in 1 .. Owed(n, e)' :
                    bitmap'[Line(n, e)[i]] \in flight.bitmap[Line(n, e)[i]]
              /\ \A i \in 1 .. Owed(n, e)' - 1 :
                    fat'[Line(n, e)[i]] \in flight.fat[Line(n, e)[i]]
      BY <1>4, <1>5, <1>6
    <2>2. QED BY <1>2, <2>1, Undisturbed DEF LineInv
  <1>8. LinesComeFrom /\ PinnedInv'
    BY <1>7, TracedLines DEF LineInv
  <1>9. ApartInv'
    <2>1. ASSUME NEW m \in Names, NEW n \in Names, BeingRenamed(m, n)
          PROVE  Entries(m)' = {} \/ Entries(n)' = {}
      <3>1. call.kind = "rename" /\ {m, n} = {call.name, call.to}
        BY <2>1 DEF BeingRenamed
      <3>2. pc = "flush" /\ UNCHANGED dir /\ RenamesInv /\ flight' = Settled(bitmap', fat', dir', data', writer')
        BY <3>1
      <3>3. PICK q \in Names : q \in {m, n} /\ ~dir'[q].used
        BY <3>1, <3>2 DEF RenamesInv
      <3>4. Entries(q)' = {}
        BY <3>2, <3>3, SettledEntries
      <3>5. QED BY <3>3, <3>4
    <2>2. QED BY <1>8, <2>1, TracedApart DEF LineInv
  <1>10. SameInv'
    <2>1. ASSUME NEW n \in Names
          PROVE  \/ Entries(n)' \subseteq {dir'[n]}
                 \/ /\ ~Renaming(n) /\ Entries(n)' \subseteq Entries(n)
                    /\ dir'[n].used /\ dir'[n].len > 0 /\ ~Shortened(n)'
                          => dir'[n] = dir[n] /\ ~Shortened(n)
      <3>1. CASE flight' = Settled(bitmap', fat', dir', data', writer')
        BY <3>1, SettledEntries
      <3>2. CASE UNCHANGED dir /\ call.kind # "rename" /\ \A m \in Names : ~Shortened(m)
        BY <1>2, <3>2 DEF Renaming
      <3>3. QED BY <3>1, <3>2
    <2>2. QED BY <2>1, SameKept DEF LineInv
  <1>11. Clean
    <2>1. \A n \in Names : Authors(n)' = {n}
      BY <1>1 DEF Authors
    <2>2. CASE call.kind # "rename"
      <3>1. \A n \in Names : Authors(n) = {n}
        BY <2>2 DEF Authors
      <3>2. QED BY <2>1, <3>1, CleanPicks
    <2>3. CASE call.kind = "rename"
      <3>1. /\ call.name \in Names /\ ~dir'[call.name].used /\ UNCHANGED writer
            /\ \A c \in Clusters, b \in ClusterIndex : writer[c][b] # call.name
            /\ flight' = Settled(bitmap', fat', dir', data', writer')
        BY <2>3 DEF RenamesInv
      <3>2. \A c \in Clusters : flight'.writer[c] = {writer[c]} /\ writer[c] \in flight.writer[c]
        BY <3>1 DEF Settled, Ground, FlightInv
      <3>p. PICK q \in Names : q = call.name
        BY <3>1
      <3>3. Entries(q)' = {}
        BY <3>1, <3>p, SettledEntries
      <3>4. ASSUME NEW n \in Names, Entries(n)' # {}
            PROVE  CleanFor(n)
        <4>1. n # call.name
          BY <3>p, <3>3, <3>4
        <4>2. \A v \in Authors(n) : v # call.name => v = n
          BY <4>1 DEF Authors
        <4>3. ASSUME NEW c \in Clusters, NEW b \in ClusterIndex, writer[c][b] \in Authors(n)
              PROVE  writer[c][b] = n
          BY <3>1, <4>2, <4>3
        <4>4. QED BY <2>1, <3>2, <4>3 DEF CleanFor
      <3>5. QED BY <3>4 DEF Clean
    <2>4. QED BY <2>2, <2>3
  <1>13. BytesInv'
    BY <1>8, <1>11, TracedBytes DEF LineInv
  <1>14. QED BY <1>8, <1>9, <1>10, <1>13 DEF LineInv

(* Nothing else is known between two calls. *)
LEMMA EndSafe ==
    ASSUME Ended, LineInv'
    PROVE  SafeInv'
  <1>1. pc' = "idle" /\ call'.kind = "none"
    BY DEF Ended, NoCall, NameCall
  <1>2. TakenInv' /\ FreedInv' /\ FlushedInv'
    BY <1>1 DEF TakenInv, FreedInv, FlushedInv
  <1>3. ~Filling'
    BY <1>1 DEF Filling
  <1>4. GrownInv' /\ VectorInv'
    BY <1>1, <1>3 DEF GrownInv, VectorInv
  <1>5. SizesInv' /\ CountsInv' /\ TwoNamesInv' /\ RenamesInv'
    BY <1>1, <1>3 DEF SizesInv, CountsInv, TwoNamesInv, RenamesInv
  <1>6. QED BY <1>2, <1>4, <1>5 DEF SafeInv, LineInv

(* A failure keeps the invariant. *)
LEMMA SafeFailure ==
    ASSUME Ground, Ground', Grows, SafeInv, Failure, ~harmed'
    PROVE  SafeInv'
  <1>1. call.kind \notin {"shrink", "rename"}
    BY DEF Failure, HalfDone
  <1>2. Ended
    BY DEF Failure, PowerCut, Lose, Abandon
  <1>3. /\ \A c \in Clusters : /\ bitmap'[c] \in flight.bitmap[c]
                               /\ fat'[c] \in flight.fat[c] /\ writer'[c] \in flight.writer[c]
        /\ \A n \in Names : dir'[n] \in flight.dir[n]
    <2>1. CASE PowerCut /\ UNCHANGED writer
      BY <2>1 DEF PowerCut, disk, Ground, FlightInv
    <2>2. CASE Lose
      BY <2>2, LosePicks DEF Ground
    <2>3. QED BY <2>1, <2>2 DEF Failure
  <1>4. flight' = Settled(bitmap', fat', dir', data', writer') \/ UNCHANGED dir
    BY DEF Failure, CacheAfter, disk
  <1>5. \A n \in Names : ~Shortened(n)
    BY <1>1 DEF Shortened
  <1>6. \A c \in Clusters : flight'.writer[c] \subseteq flight.writer[c]
    <2>1. CASE flight' = Settled(bitmap', fat', dir', data', writer')
      BY <1>3, <2>1 DEF Settled
    <2>2. CASE UNCHANGED disk /\ flight' = Joined(bitmap', fat', dir', data', writer')
      <3>1. ~harmed /\ ~Renamed /\ \A c \in Clusters : ~Taken(c)
        BY <2>2 DEF Failure, Renamed, Taken, disk
      <3>2. \A c \in Clusters : \A v \in flight.writer[c] : Relabelled(c, v) = v
        <4> TAKE c \in Clusters
        <4> TAKE v \in flight.writer[c]
        <4>1. v \in Labels
          BY DEF Ground, FlightInv
        <4>2. Relabelled(c, v) = [b \in ClusterIndex |-> v[b]]
          BY <3>1 DEF Relabelled
        <4>3. QED BY <4>1, <4>2 DEF Labels
      <3>3. \A c \in Clusters : flight'.writer[c] =
                {Relabelled(c, v) : v \in flight.writer[c]} \cup {writer'[c]}
        BY <2>2 DEF Joined
      <3>4. QED BY <1>3, <3>2, <3>3
    <2>3. QED BY <2>1, <2>2 DEF Failure, CacheAfter
  <1>7. \A c \in Clusters : /\ bitmap'[c] \in flight.bitmap[c]
                            /\ fat'[c] \in flight.fat[c]
                            /\ flight'.writer[c] \subseteq flight.writer[c]
    BY <1>3, <1>6
  <1>8. LineInv'
    BY <1>1, <1>2, <1>3, <1>4, <1>5, <1>7, EndLines DEF SafeInv, LineInv
  <1>9. QED BY <1>2, <1>8, EndSafe

(* The clusters to free have bits. *)
LEMMA FreedBitFound ==
    ASSUME TypeOK, LoopsInv, FreedInv
    PROVE  ~FreeBitFails
  <1> SUFFICES ASSUME FreeBitFails PROVE FALSE
    OBVIOUS
  <1> DEFINE h == Head(todo)
  <1>1. pc = "free bit" /\ h >= BitmapBits + 2
    BY DEF FreeBitFails
  <1>2. todo # << >> /\ todo \in Seq(Nat)
    BY <1>1, Types DEF LoopsInv
  <1>3. h = todo[1] /\ 1 \in 1 .. Len(todo)
    BY <1>2
  <1>4. h \in Clusters
    BY <1>1, <1>3 DEF FreedInv
  <1> HIDE DEF h
  <1>5. \A m \in Nat, k \in Nat : m >= k => ~(m < k)
    OBVIOUS
  <1>6. h < BitmapBits + 2
    BY <1>4, BitmapCovers
  <1>7. h \in Nat
    BY <1>4, SizesAssumption DEF Clusters
  <1>8. BitmapBits + 2 \in Nat
    <2>1. CeilDiv(ClusterCount, BitsPerByte) \in Nat
      BY SizesAssumption, CeilDivType
    <2>2. QED BY <2>1, SizesAssumption DEF BitmapBits
  <1>9. QED BY <1>1, <1>5, <1>7, <1>8, <1>6

(* A call that gives up or returns. *)
LEMMA SafeReturns ==
    ASSUME Ground, Ground', Grows, Signed, SafeInv, CacheAfter(pc \in Barriers),
           \/ ReadChainFails \/ AllocFails \/ WritePastChain \/ CutPanics
           \/ FreeBitFails \/ WalkFails \/ FlushAndReturn
    PROVE  SafeInv'
  <1>1. Ended /\ UNCHANGED disk
    BY DEF ReadChainFails, AllocFails, WritePastChain, CutPanics, FreeBitFails, WalkFails,
           FlushAndReturn, Return, Abandon
  <1>a. Still
    <2>1. CASE pc = "data"
      <3>1. WritePastChain
        BY <2>1 DEF ReadChainFails, AllocFails, CutPanics, FreeBitFails, WalkFails, FlushAndReturn
      <3>2. QED BY <1>1, <3>1, StillDisk
    <2>2. CASE pc # "data"
      BY <1>1, <2>2, StillDisk
    <2>3. QED BY <2>1, <2>2
  <1>2. ~FreeBitFails
    BY FreedBitFound DEF Ground, SafeInv
  <1>3. \/ call.kind # "rename" /\ \A n \in Names : ~Shortened(n)
        \/ pc = "flush"
    <2>1. CASE pc \in {"read", "alloc", "data", "cut", "walk"}
      BY <2>1 DEF Ground, KindInv, LoopsInv, Shortened
    <2>2. QED BY <1>2, <2>1
      DEF ReadChainFails, AllocFails, WritePastChain, CutPanics, WalkFails, FlushAndReturn
  <1>4. pc = "flush" => flight' = Settled(bitmap', fat', dir', data', writer')
    BY DEF CacheAfter, Barriers
  <1>5. /\ \A c \in Clusters : /\ bitmap'[c] \in flight.bitmap[c]
                               /\ fat'[c] \in flight.fat[c]
                               /\ flight'.writer[c] \subseteq flight.writer[c]
        /\ \A n \in Names : dir'[n] \in flight.dir[n]
        /\ UNCHANGED <<dir, writer>>
    BY <1>1, <1>a DEF disk, Ground, FlightInv, Still
  <1>6. LineInv'
    BY <1>1, <1>3, <1>4, <1>5, EndLines DEF SafeInv, LineInv
  <1>7. QED BY <1>1, <1>6, EndSafe

-----------------------------------------------------------------------------
(* What the invariant says of the files *)

(* A line is a chain of marked clusters, and the FAT is written so now. *)
LEMMA LinesMarked ==
    ASSUME Ground, PinnedInv, NEW n \in Names, NEW e \in Entries(n)
    PROVE  /\ e \in Entry /\ Owed(n, e) \in Nat
           /\ \A i \in 1 .. Owed(n, e) : Line(n, e)[i] \in Clusters /\ bitmap[Line(n, e)[i]]
           /\ \A i \in 1 .. Owed(n, e) - 1 :
                 i \in 1 .. Owed(n, e) /\ fat[Line(n, e)[i]] = Line(n, e)[i + 1]
           /\ \A i, j \in 1 .. Owed(n, e) : Line(n, e)[i] = Line(n, e)[j] => i = j
  <1> DEFINE w == Line(n, e)
             k == Owed(n, e)
  <1>1. e \in Entry
    BY DEF Ground, FlightInv, Entries
  <1>2. k \in Nat
    BY <1>1, OwedIs DEF Ground
  <1>3. Pinned(flight, w, k)
    BY DEF PinnedInv
  <1> HIDE DEF w, k
  <1>4. \A i \in 1 .. k - 1 : i \in 1 .. k
    BY <1>2
  <1>5. \A i \in 1 .. k : w[i] \in Clusters /\ bitmap[w[i]]
    <2> TAKE i \in 1 .. k
    <2>1. w[i] \in Clusters /\ flight.bitmap[w[i]] \subseteq {TRUE}
      BY <1>3 DEF Pinned
    <2>2. bitmap[w[i]] \in flight.bitmap[w[i]]
      BY <2>1 DEF Ground, FlightInv
    <2>3. bitmap[w[i]] = TRUE
      BY <2>1, <2>2
    <2>4. QED BY <2>1, <2>3
  <1>6. \A i \in 1 .. k - 1 : fat[w[i]] = w[i + 1]
    <2> TAKE i \in 1 .. k - 1
    <2>1. w[i] \in Clusters /\ flight.fat[w[i]] \subseteq {w[i + 1]}
      BY <1>3, <1>4 DEF Pinned
    <2>2. fat[w[i]] \in flight.fat[w[i]]
      BY <2>1 DEF Ground, FlightInv
    <2>3. QED BY <2>1, <2>2
  <1>7. \A i, j \in 1 .. k : w[i] = w[j] => i = j
    BY <1>3 DEF Pinned
  <1>8. QED BY <1>1, <1>2, <1>4, <1>5, <1>6, <1>7 DEF w, k

(* The chain of a file as its entry says it. *)
LEMMA FileLine ==
    ASSUME Ground, LineInv, NEW n \in Names, dir[n].used, ~Shortened(n)
    PROVE  LET k == ClustersFor(dir[n].len)
               w == ChainFrom(fat, dir[n].first, k)
           IN  /\ dir[n] \in Entries(n) /\ dir[n] \in Entry
               /\ k \in Nat /\ dir[n].len \in Nat
               /\ Owed(n, dir[n]) = k /\ Line(n, dir[n]) = w
               /\ \A i \in 1 .. k : w[i] \in Clusters /\ bitmap[w[i]]
               /\ \A i \in 1 .. k - 1 : i \in 1 .. k /\ fat[w[i]] = w[i + 1]
               /\ \A i, j \in 1 .. k : w[i] = w[j] => i = j
               /\ \A p \in 0 .. dir[n].len - 1 :
                     /\ p \div ClusterBytes + 1 \in 1 .. k
                     /\ writer[w[p \div ClusterBytes + 1]][p % ClusterBytes] \in Authors(n)
               /\ \A m \in Names \ {n} : ~BeingRenamed(m, n) =>
                     \A e \in Entries(m) : \A i \in 1 .. Owed(m, e), j \in 1 .. k :
                        Line(m, e)[i] # w[j]
  <1> DEFINE k == ClustersFor(dir[n].len)
             w == ChainFrom(fat, dir[n].first, k)
  <1>1. dir[n] \in Entries(n)
    BY EntriesAre DEF Ground
  <1>2. dir[n] \in Entry /\ dir[n].len \in Nat /\ k \in Nat /\ Owed(n, dir[n]) = k
    <2>1. dir[n] \in Entry
      BY DEF Ground, TypeOK
    <2>2. QED BY <2>1, OwedIs DEF Ground
  <1>3. Line(n, dir[n]) = w
    BY <1>2 DEF Line
  <1>4. /\ \A i \in 1 .. k : w[i] \in Clusters /\ bitmap[w[i]]
        /\ \A i \in 1 .. k - 1 : i \in 1 .. k /\ fat[w[i]] = w[i + 1]
        /\ \A i, j \in 1 .. k : w[i] = w[j] => i = j
    <2> HIDE DEF k, w
    <2>1. QED BY <1>1, <1>2, <1>3, LinesMarked DEF LineInv
  <1>5. ASSUME NEW p \in 0 .. dir[n].len - 1
        PROVE  /\ p \div ClusterBytes + 1 \in 1 .. k
               /\ writer[w[p \div ClusterBytes + 1]][p % ClusterBytes] \in Authors(n)
    <2> DEFINE q == p \div ClusterBytes + 1
               b == p % ClusterBytes
    <2>1. p \in Nat /\ p < dir[n].len
      BY <1>2
    <2>2. q \in 1 .. k
      BY <1>2, <2>1, ByteHasCluster
    <2>3. \A x \in flight.writer[Line(n, dir[n])[q]] : q <= Owed(n, dir[n]) => x[b] \in Authors(n)
      <3>1. \A r \in 0 .. dir[n].len - 1 : r \div ClusterBytes + 1 <= Owed(n, dir[n]) =>
               \A x \in flight.writer[Line(n, dir[n])[r \div ClusterBytes + 1]] :
                  x[r % ClusterBytes] \in Authors(n)
        BY <1>1 DEF LineInv, BytesInv
      <3>2. QED BY <3>1
    <2> HIDE DEF q, b, k, w
    <2>4. q <= k
      BY <1>2, <2>2
    <2>5. w[q] \in Clusters
      BY <1>4, <2>2
    <2>6. writer[w[q]] \in flight.writer[w[q]]
      BY <2>5 DEF Ground, FlightInv
    <2>7. writer[w[q]][b] \in Authors(n)
      BY <1>2, <1>3, <2>3, <2>4, <2>6
    <2>8. QED BY <2>2, <2>7 DEF q, b
  <1>6. ASSUME NEW m \in Names \ {n}, ~BeingRenamed(m, n), NEW e \in Entries(m)
        PROVE  \A i \in 1 .. Owed(m, e), j \in 1 .. k : Line(m, e)[i] # w[j]
    <2>1. Distinct(Line(m, e), Owed(m, e), Line(n, dir[n]), Owed(n, dir[n]))
      BY <1>1, <1>6 DEF LineInv, ApartInv
    <2> HIDE DEF k, w
    <2>2. QED BY <1>2, <1>3, <2>1 DEF Distinct
  <1> HIDE DEF k, w
  <1>7. QED BY <1>1, <1>2, <1>3, <1>4, <1>5, <1>6 DEF k, w

(* A step inside a call that leaves the entries, and of every line as much as
   still has an owner. *)
LEMMA CallLines ==
    ASSUME Ground, Ground', Grows, LineInv, UNCHANGED dir, Clean,
           \A n \in Names : (Renaming(n) => Renaming(n)') /\ (Shortened(n) => Shortened(n)'),
           \A m, n \in Names : BeingRenamed(m, n) => BeingRenamed(m, n)',
           \A n \in Names : \A e \in Entries(n) :
              /\ Owed(n, e)' <= Owed(n, e)
              /\ \A i \in 1 .. Owed(n, e)' : bitmap'[Line(n, e)[i]]
              /\ \A i \in 1 .. Owed(n, e)' - 1 : fat'[Line(n, e)[i]] = fat[Line(n, e)[i]]
    PROVE  LineInv' /\ LinesComeFrom
  <1>1. \A n \in Names : Entries(n)' \subseteq Entries(n)
    BY EntriesFrom DEF Ground, FlightInv
  <1>2. AllTraced
    <2> SUFFICES ASSUME NEW n \in Names, NEW e \in Entries(n)'
                 PROVE  e \in Entries(n) /\ Traced(n, e, e)
      BY DEF AllTraced
    <2>1. e \in Entries(n) /\ e.len <= e.len
      <3>1. e.len \in Nat
        BY EmptyLine
      <3>2. QED BY <1>1, <3>1
    <2>2. QED BY <2>1 DEF Traced
  <1>3. LinesComeFrom /\ PinnedInv'
    BY <1>2, TracedLines DEF LineInv
  <1>4. ApartInv'
    BY <1>3, TracedApart DEF LineInv
  <1>5. SameInv'
    BY <1>1, SameKept DEF LineInv
  <1>6. BytesInv'
    BY <1>3, TracedBytes DEF LineInv
  <1>7. QED BY <1>3, <1>4, <1>5, <1>6 DEF LineInv

(* The claims do not change while the call does not. *)
LEMMA OwedSame ==
    ASSUME call'.count = call.count, \A n \in Names : Shortened(n)' <=> Shortened(n)
    PROVE  \A n \in Names : \A e : Owed(n, e)' = Owed(n, e)
  BY DEF Owed

(* The same for a step that takes no claim away. *)
LEMMA SameLines ==
    ASSUME Ground, Ground', Grows, LineInv, UNCHANGED dir, Clean,
           call'.kind = call.kind, call'.name = call.name, call'.to = call.to,
           call'.count = call.count, \A n \in Names : Shortened(n)' <=> Shortened(n),
           \A n \in Names : \A e \in Entries(n) :
              /\ \A i \in 1 .. Owed(n, e) : bitmap'[Line(n, e)[i]]
              /\ \A i \in 1 .. Owed(n, e) - 1 : fat'[Line(n, e)[i]] = fat[Line(n, e)[i]]
    PROVE  LineInv' /\ LinesComeFrom
  <1>1. \A n \in Names : \A e : Owed(n, e)' = Owed(n, e)
    BY OwedSame
  <1>2. \A n \in Names : \A e \in Entries(n) : Owed(n, e) \in Nat
    BY LinesMarked DEF LineInv
  <1>3. \A n \in Names : \A e \in Entries(n) :
              /\ Owed(n, e)' <= Owed(n, e)
              /\ \A i \in 1 .. Owed(n, e)' : bitmap'[Line(n, e)[i]]
              /\ \A i \in 1 .. Owed(n, e)' - 1 : fat'[Line(n, e)[i]] = fat[Line(n, e)[i]]
    BY <1>1, <1>2
  <1>4. \A n \in Names : (Renaming(n) => Renaming(n)')
    BY DEF Renaming
  <1>5. \A m, n \in Names : BeingRenamed(m, n) => BeingRenamed(m, n)'
    BY DEF BeingRenamed
  <1>6. QED BY <1>3, <1>4, <1>5, CallLines

(* And for one that writes no data. *)
LEMMA CleanStep ==
    ASSUME Still, call'.kind = call.kind, call'.name = call.name, call'.to = call.to
    PROVE  Clean
  <1>1. \A n \in Names : Authors(n)' = Authors(n)
    BY DEF Authors
  <1>2. QED BY <1>1, CleanPicks DEF Still

(* A step that writes nothing changes no line. *)
LEMMA QuietLines ==
    ASSUME Ground, Ground', Grows, Still, LineInv, UNCHANGED disk,
           call'.kind = call.kind, call'.name = call.name, call'.to = call.to,
           call'.count = call.count, \A n \in Names : Shortened(n)' <=> Shortened(n)
    PROVE  LineInv' /\ LinesComeFrom
  <1>1. Clean /\ UNCHANGED <<bitmap, fat, dir>>
    BY CleanStep DEF disk
  <1>2. \A n \in Names : \A e \in Entries(n) :
              /\ \A i \in 1 .. Owed(n, e) : bitmap'[Line(n, e)[i]]
              /\ \A i \in 1 .. Owed(n, e) - 1 : fat'[Line(n, e)[i]] = fat[Line(n, e)[i]]
    BY <1>1, LinesMarked DEF LineInv
  <1>3. QED BY <1>1, <1>2, SameLines

-----------------------------------------------------------------------------
(* A call up to the point where it changes what its file has *)

Before == {"read", "alloc", "link", "tail", "cut"}

(* The call works on its file as the entry has it, which is in flight. *)
LEMMA CallFile ==
    ASSUME Ground, SafeInv, pc \in Before
    PROVE  LET w == ChainFrom(fat, call.first, call.old)
           IN  /\ call.kind \in {"write", "shrink"} /\ call.name \in Names /\ dir[call.name].used
               /\ \A n \in Names : ~Shortened(n) /\ ~Renaming(n)
               /\ \A m, n \in Names : ~BeingRenamed(m, n)
               /\ dir[call.name].len \in Nat /\ call.old \in Nat /\ call.count \in Nat
               /\ call.off \in Nat /\ call.cnt \in Nat /\ call.len \in Nat
               /\ call.first = dir[call.name].first
               /\ call.old = ClustersFor(dir[call.name].len)
               /\ call.count > 0 \/ call.kind = "write"
               /\ call.kind = "write" => /\ ClustersFor(call.len) \in Nat
                                         /\ call.count = ClustersFor(call.len) - call.old
               /\ dir[call.name] \in Entries(call.name)
               /\ Owed(call.name, dir[call.name]) = call.old
               /\ Line(call.name, dir[call.name]) = w
               /\ \A i \in 1 .. call.old : w[i] \in Clusters /\ bitmap[w[i]]
               /\ \A i \in 1 .. call.old - 1 : i \in 1 .. call.old /\ fat[w[i]] = w[i + 1]
               /\ \A i, j \in 1 .. call.old : w[i] = w[j] => i = j
               /\ \A p \in 0 .. dir[call.name].len - 1 :
                     /\ p \div ClusterBytes + 1 \in 1 .. call.old
                     /\ writer[w[p \div ClusterBytes + 1]][p % ClusterBytes] = call.name
               /\ \A m \in Names \ {call.name} : \A e \in Entries(m) :
                     \A i \in 1 .. Owed(m, e), j \in 1 .. call.old : Line(m, e)[i] # w[j]
  <1>1. call.kind \in {"write", "shrink"} /\ call.name \in Names /\ dir[call.name].used
    BY DEF Before, Ground, KindInv, LoopsInv
  <1>2. /\ \A n \in Names : ~Shortened(n) /\ ~Renaming(n)
        /\ \A m, n \in Names : ~BeingRenamed(m, n)
    BY <1>1 DEF Before, Shortened, Renaming, BeingRenamed
  <1>3. call.first = dir[call.name].first
    BY <1>1 DEF Before, SafeInv, CountsInv
  <1>4. call.old = ClustersFor(dir[call.name].len) /\ (call.count > 0 \/ call.kind = "write")
    BY <1>1 DEF Before, SafeInv, CountsInv, SizesInv
  <1>5. /\ call.len \in Nat /\ call.count \in Nat /\ call.off \in Nat /\ call.cnt \in Nat
        /\ dir[call.name].len \in Nat /\ call.old \in Nat
    BY <1>1 DEF Ground, TypeOK, CallType, Entry
  <1>6. call.kind = "write" => ClustersFor(call.len) \in Nat
                               /\ call.count = ClustersFor(call.len) - call.old
    BY <1>5, ClustersForType DEF Before, SafeInv, SizesInv
  <1>7. LineInv
    BY DEF SafeInv, LineInv
  <1> DEFINE k == ClustersFor(dir[call.name].len)
             w == ChainFrom(fat, dir[call.name].first, k)
  <1>8. /\ dir[call.name] \in Entries(call.name)
        /\ Owed(call.name, dir[call.name]) = k /\ Line(call.name, dir[call.name]) = w
        /\ \A i \in 1 .. k : w[i] \in Clusters /\ bitmap[w[i]]
        /\ \A i \in 1 .. k - 1 : i \in 1 .. k /\ fat[w[i]] = w[i + 1]
        /\ \A i, j \in 1 .. k : w[i] = w[j] => i = j
        /\ \A p \in 0 .. dir[call.name].len - 1 :
              /\ p \div ClusterBytes + 1 \in 1 .. k
              /\ writer[w[p \div ClusterBytes + 1]][p % ClusterBytes] = call.name
        /\ \A m \in Names \ {call.name} : ~BeingRenamed(m, call.name) =>
              \A e \in Entries(m) : \A i \in 1 .. Owed(m, e), j \in 1 .. k :
                 Line(m, e)[i] # w[j]
    <2>1. Authors(call.name) = {call.name}
      BY <1>1 DEF Authors
    <2>2. QED BY <1>1, <1>2, <1>7, <2>1, FileLine
  <1> DEFINE v == ChainFrom(fat, call.first, call.old)
  <1>9. k = call.old /\ w = v
    BY <1>3, <1>4
  <1> HIDE DEF k, w, v
  <1>10. \A m \in Names \ {call.name} : \A e \in Entries(m) :
              \A i \in 1 .. Owed(m, e), j \in 1 .. k : Line(m, e)[i] # w[j]
    BY <1>1, <1>2, <1>8
  <1>a. Owed(call.name, dir[call.name]) = call.old /\ Line(call.name, dir[call.name]) = v
    BY <1>8, <1>9
  <1>b. /\ \A i \in 1 .. call.old : v[i] \in Clusters /\ bitmap[v[i]]
        /\ \A i \in 1 .. call.old - 1 : i \in 1 .. call.old /\ fat[v[i]] = v[i + 1]
        /\ \A i, j \in 1 .. call.old : v[i] = v[j] => i = j
    BY <1>8, <1>9
  <1>c. \A p \in 0 .. dir[call.name].len - 1 :
           /\ p \div ClusterBytes + 1 \in 1 .. call.old
           /\ writer[v[p \div ClusterBytes + 1]][p % ClusterBytes] = call.name
    BY <1>8, <1>9
  <1>d. \A m \in Names \ {call.name} : \A e \in Entries(m) :
           \A i \in 1 .. Owed(m, e), j \in 1 .. call.old : Line(m, e)[i] # v[j]
    BY <1>9, <1>10
  <1>11. QED
    BY <1>1, <1>2, <1>3, <1>4, <1>5, <1>6, <1>8, <1>a, <1>b, <1>c, <1>d, Zenon DEF v

(* The gap starts within the file. *)
LEMMA StartIs ==
    ASSUME NEW len \in Nat, NEW off \in Nat
    PROVE  /\ FillStart(len, off) \in Nat /\ FillStart(len, off) <= len
           /\ FillStart(len, off) <= off
  BY DEF FillStart

(* read_chain reads the line of its file: it never meets an early end. *)
LEMMA ReadFacts ==
    ASSUME Ground, SafeInv, ReadChain
    PROVE  LET w == ChainFrom(fat, call.first, call.old)
           IN  /\ \A i \in 1 .. Len(chain') : chain'[i] = w[i] /\ i \in 1 .. call.old
               /\ Len(chain') = Len(chain) + 1 /\ Len(chain') \in Nat
               /\ pc' = "read" => /\ Len(chain') < call.old /\ cur' = w[Len(chain') + 1]
               /\ pc' # "read" => /\ Len(chain') = call.old
                                  /\ pc' = IF call.kind = "shrink" THEN "cut"
                                           ELSE IF call.count > 0 THEN "alloc" ELSE "data"
  <1> DEFINE w == ChainFrom(fat, call.first, call.old)
             l == Len(chain)
  <1>1. pc = "read" /\ pc \in Before
    BY DEF ReadChain, Before
  <1>2. /\ call.old \in Nat
        /\ \A i \in 1 .. call.old : w[i] \in Clusters
        /\ \A i \in 1 .. call.old - 1 : fat[w[i]] = w[i + 1]
    BY <1>1, CallFile
  <1>3. l \in Nat /\ chain \in Seq(Clusters) /\ call.old \in Nat
    BY Types DEF Ground
  <1>4. l < call.old /\ cur = w[l + 1] /\ \A i \in 1 .. l : chain[i] = w[i]
    BY <1>1 DEF SafeInv, VectorInv
  <1>5. Len(chain') = l + 1 /\ \A i \in 1 .. l + 1 : chain'[i] = IF i = l + 1 THEN cur ELSE chain[i]
    BY <1>3 DEF ReadChain
  <1> HIDE DEF w, l
  <1>6. \A i \in 1 .. l + 1 : chain'[i] = w[i] /\ i \in 1 .. call.old
    BY <1>3, <1>4, <1>5
  <1>7. fat[cur] = END_OF_CHAIN => l + 1 = call.old
    <2> SUFFICES ASSUME l + 1 # call.old PROVE fat[cur] \in Clusters
      BY MarksAreNotClusters
    <2>1. l + 1 \in 1 .. call.old - 1 /\ l + 1 + 1 \in 1 .. call.old
      BY <1>3, <1>4
    <2>2. QED BY <1>2, <1>4, <2>1
  <1>8. CASE fat[cur] = END_OF_CHAIN \/ l + 1 = call.old
    <2>1. /\ pc' = IF call.kind = "shrink" THEN "cut"
                   ELSE IF call.count > 0 THEN "alloc" ELSE "data"
          /\ l + 1 = call.old
      BY <1>7, <1>8 DEF ReadChain, l
    <2>2. pc' # "read"
      BY <2>1
    <2>3. QED BY <1>3, <1>5, <1>6, <2>1, <2>2 DEF w, l
  <1>9. CASE ~(fat[cur] = END_OF_CHAIN \/ l + 1 = call.old)
    <2>1. pc' = "read" /\ cur' = fat[cur]
      BY <1>1, <1>9 DEF ReadChain, l
    <2>2. l + 1 < call.old /\ l + 1 \in 1 .. call.old - 1
      BY <1>3, <1>4, <1>9
    <2>3. cur' = w[l + 1 + 1]
      BY <1>2, <1>4, <2>1, <2>2
    <2>4. QED BY <1>3, <1>5, <1>6, <2>1, <2>2, <2>3 DEF w, l
  <1>10. QED BY <1>8, <1>9

(* Reading the chain yields the line of the file. *)
LEMMA SafeReadChain ==
    ASSUME Ground, Ground', Grows, Signed, SafeInv, ReadChain
    PROVE  SafeInv'
  <1> DEFINE w == ChainFrom(fat, call.first, call.old)
             l == Len(chain')
  <1>1. pc = "read" /\ pc \in Before /\ pc' \in {"read", "cut", "alloc", "data"}
    BY DEF ReadChain, Before
  <1>2. UNCHANGED <<bitmap, fat, dir, data, call, pos, got, linked, todo>>
    BY DEF ReadChain, disk
  <1>a. Still
    BY <1>1, StillPlace
  <1>3. LineInv'
    <2>1. \A n \in Names : Shortened(n)' <=> Shortened(n)
      BY <1>1, <1>2 DEF Shortened
    <2>2. QED BY <1>a, <1>2, <2>1, QuietLines DEF disk, SafeInv, LineInv
  <1>4. got = << >>
    BY <1>1 DEF Ground, LocalsInv
  <1>5. TakenInv'
    BY <1>1, <1>2, <1>4 DEF TakenInv
  <1>6. /\ \A i \in 1 .. l : chain'[i] = w[i] /\ i \in 1 .. call.old
        /\ l = Len(chain) + 1 /\ l \in Nat
        /\ pc' = "read" => /\ l < call.old /\ cur' = w[l + 1]
        /\ pc' # "read" => /\ l = call.old
                           /\ pc' = IF call.kind = "shrink" THEN "cut"
                                    ELSE IF call.count > 0 THEN "alloc" ELSE "data"
    BY ReadFacts
  <1>7. FreedInv' /\ FlushedInv'
    BY <1>1, <1>2 DEF FreedInv, FlushedInv
  <1>8. SizesInv' /\ TwoNamesInv' /\ RenamesInv'
    BY <1>1, <1>2, CallFile DEF SafeInv, SizesInv, TwoNamesInv, RenamesInv
  <1>9. CountsInv'
    <2>1. Start' = Start
      BY <1>2 DEF Start
    <2>2. pc' = "alloc" => call.count > 0
      BY <1>6
    <2>3. QED BY <1>1, <1>2, <2>1, <2>2, CallFile DEF SafeInv, CountsInv, Before, Filling
  <1>10. VectorInv'
    <2> HIDE DEF w, l
    <2>1. pc' = "read" => l < call'.old /\ cur' = ChainFrom(fat', call'.first, call'.old)[l + 1]
      BY <1>2, <1>6 DEF w
    <2>2. pc' \in {"alloc", "link", "tail", "cut"} => l = call'.old
      BY <1>2, <1>6
    <2>3. \A i \in 1 .. l : chain'[i] = ChainFrom(fat', call'.first, call'.old)[i]
      BY <1>2, <1>6 DEF w
    <2>4. pc' = "alloc" => Len(got') < call'.count
      BY <1>2, <1>4, <1>6
    <2>5. Filling' => /\ l = ClustersFor(call'.len)
                      /\ \A i \in 1 .. l : chain'[i] = ChainFrom(fat', call'.first, l)[i]
                      /\ call'.first = dir'[call'.name].first
      <3> SUFFICES ASSUME Filling'
                   PROVE  /\ l = ClustersFor(call.len)
                          /\ \A i \in 1 .. l : chain'[i] = ChainFrom(fat, call.first, l)[i]
                          /\ call.first = dir[call.name].first
        BY <1>2
      <3>1. pc' = "data" /\ call.kind = "write"
        BY <1>1, <1>2 DEF Filling
      <3>2. l = call.old /\ ~(call.count > 0)
        BY <1>6, <3>1
      <3>3. call.count \in Nat /\ call.old \in Nat /\ ClustersFor(call.len) \in Nat
            /\ call.count = ClustersFor(call.len) - call.old /\ call.first = dir[call.name].first
        BY <1>1, <3>1, CallFile
      <3>4. l = ClustersFor(call.len)
        BY <3>2, <3>3
      <3>5. QED BY <1>6, <3>2, <3>3, <3>4 DEF w
    <2>6. QED BY <1>1, <2>1, <2>2, <2>3, <2>4, <2>5 DEF VectorInv, l
  <1>11. GrownInv'
    <2> SUFFICES ASSUME Filling' PROVE GrownInv'
      BY DEF GrownInv
    <2>1. pc' = "data" /\ call.kind = "write"
      BY <1>1, <1>2 DEF Filling
    <2>2. l = call.old
      BY <1>6, <2>1
    <2>3. /\ \A i \in 1 .. call.old : w[i] \in Clusters /\ bitmap[w[i]]
          /\ \A i, j \in 1 .. call.old : w[i] = w[j] => i = j
          /\ \A p \in 0 .. dir[call.name].len - 1 :
               /\ p \div ClusterBytes + 1 \in 1 .. call.old
               /\ writer[w[p \div ClusterBytes + 1]][p % ClusterBytes] = call.name
          /\ \A m \in Names \ {call.name} : \A e \in Entries(m) :
               \A i \in 1 .. Owed(m, e), j \in 1 .. call.old : Line(m, e)[i] # w[j]
          /\ call.name \in Names /\ call.off \in Nat /\ dir[call.name].len \in Nat
      BY <1>1, CallFile
    <2>4. pos <= dir[call.name].len /\ pos \in Nat
      <3>1. pos = Start
        BY <1>1, <2>1 DEF SafeInv, CountsInv
      <3>2. QED BY <2>3, <3>1, StartIs DEF Start
    <2>5. LinesComeFrom
      <3>1. \A n \in Names : Shortened(n)' <=> Shortened(n)
        BY <1>1, <1>2 DEF Shortened
      <3>2. QED BY <1>a, <1>2, <3>1, QuietLines DEF disk, SafeInv, LineInv
    <2> HIDE DEF w, l
    <2>6. /\ \A i \in 1 .. l : bitmap'[chain'[i]]
          /\ \A i, j \in 1 .. l : chain'[i] = chain'[j] => i = j
      BY <1>2, <1>6, <2>2, <2>3
    <2>7. \A n \in Names \ {call.name} : \A e \in Entries(n)' :
              \A i \in 1 .. Owed(n, e)', j \in 1 .. l : Line(n, e)'[i] # chain'[j]
      <3> TAKE n \in Names \ {call.name}
      <3> TAKE e \in Entries(n)'
      <3> TAKE i \in 1 .. Owed(n, e)', j \in 1 .. l
      <3>1. PICK g \in Entries(n) : i \in 1 .. Owed(n, g) /\ Line(n, e)'[i] = Line(n, g)[i]
        BY <2>5 DEF LinesComeFrom
      <3>2. chain'[j] = w[j] /\ j \in 1 .. call.old
        BY <1>6
      <3>3. QED BY <2>3, <3>1, <3>2
    <2>8. ASSUME NEW p \in 0 .. l * ClusterBytes - 1, p < pos \/ p < dir[call.name].len
          PROVE  writer[chain'[p \div ClusterBytes + 1]][p % ClusterBytes] = call.name
      <3>0. l * ClusterBytes \in Nat
        BY <1>6, SizesAssumption
      <3>1. p \in Nat /\ p \in 0 .. dir[call.name].len - 1
        BY <2>3, <2>4, <2>8, <3>0
      <3>2. p \div ClusterBytes + 1 \in 1 .. call.old
            /\ writer[w[p \div ClusterBytes + 1]][p % ClusterBytes] = call.name
        BY <2>3, <3>1
      <3> DEFINE q == p \div ClusterBytes + 1
      <3> HIDE DEF q
      <3>3. q \in 1 .. call.old => chain'[q] = w[q]
        BY <1>6, <2>2
      <3>4. QED BY <3>2, <3>3 DEF q
    <2>9. QED BY <1>a, <1>2, <2>6, <2>7, <2>8 DEF GrownInv, Distinct, l, Still
  <1>12. QED
    BY <1>3, <1>5, <1>7, <1>8, <1>9, <1>10, <1>11 DEF SafeInv, LineInv

(* The cluster found free is in no line. *)
LEMMA SafeAllocCluster ==
    ASSUME Ground, Ground', Grows, Signed, SafeInv, NEW c \in Clusters, AllocCluster(c)
    PROVE  SafeInv'
  <1>1. pc = "alloc" /\ pc \in Before /\ pc' \in {"alloc", "link"} /\ call.kind = "write"
    BY DEF AllocCluster, Before, Ground, KindInv
  <1>2. /\ UNCHANGED <<fat, dir, data, call, pos, chain, linked, todo>>
        /\ bitmap' = [bitmap EXCEPT ![c] = TRUE] /\ got' = Append(got, c)
        /\ pc' = IF Len(got) + 1 = call.count THEN "link" ELSE "alloc"
    BY DEF AllocCluster
  <1>3. ~bitmap[c] /\ bitmap \in [Clusters -> BOOLEAN]
    BY DEF AllocCluster, FirstFree, Ground, TypeOK
  <1>4. \A d \in Clusters : bitmap[d] => bitmap'[d]
    BY <1>2, <1>3
  <1>5. LineInv' /\ LinesComeFrom
    <2>1. \A n \in Names : Shortened(n)' <=> Shortened(n)
      BY <1>1, <1>2 DEF Shortened
    <2>2. \A n \in Names : \A e \in Entries(n) :
              /\ \A i \in 1 .. Owed(n, e) : bitmap'[Line(n, e)[i]]
              /\ \A i \in 1 .. Owed(n, e) - 1 : fat'[Line(n, e)[i]] = fat[Line(n, e)[i]]
      BY <1>2, <1>4, LinesMarked DEF SafeInv
    <2>3. Clean
      <3>1. ~Renamed /\ (\A d \in Clusters : Taken(d) => d = c)
            /\ \A d \in Clusters, b \in ClusterIndex : ~Written(d, b)
        BY <1>1, <1>2 DEF Renamed, Taken, Written, Ground, TypeOK
      <3>2. \A d \in Clusters : d # c => flight'.writer[d] \subseteq flight.writer[d]
        BY <3>1 DEF Signed
      <3>3. \A n \in Names : Authors(n)' = Authors(n)
        BY <1>2 DEF Authors
      <3>4. \A n \in Names : \A e \in Entries(n) : \A i \in 1 .. Owed(n, e) : Line(n, e)[i] # c
        BY <1>3, LinesMarked DEF SafeInv
      <3>5. ASSUME NEW n \in Names PROVE CleanFor(n)
        BY <3>2, <3>3, <3>4 DEF CleanFor
      <3>6. QED BY <3>5 DEF Clean
    <2>4. QED BY <1>2, <2>1, <2>2, <2>3, SameLines DEF SafeInv, LineInv
  <1>6. Unclaimed(c)
    BY <1>3, LinesMarked DEF Unclaimed, SafeInv
  <1>7. \A d : Unclaimed(d) => Unclaimed(d)'
    BY <1>5, TracedUnclaimed
  <1>8. /\ got \in Seq(Clusters) /\ Len(got) \in Nat
        /\ Len(got') = Len(got) + 1
        /\ \A i \in 1 .. Len(got) + 1 : got'[i] = IF i = Len(got) + 1 THEN c ELSE got[i]
        /\ \A i \in 1 .. Len(got) : got[i] \in Clusters
    BY <1>2, Types DEF Ground
  <1>9. /\ \A i \in 1 .. Len(got) : bitmap[got[i]] /\ Unclaimed(got[i])
        /\ \A i, j \in 1 .. Len(got) : got[i] = got[j] => i = j
    BY <1>1 DEF SafeInv, TakenInv
  <1>10. linked = 0
    BY <1>1 DEF Ground, LocalsInv
  <1>11. TakenInv'
    <2>1. \A i \in 1 .. Len(got') : bitmap'[got'[i]] /\ Unclaimed(got[i])'
      <3> TAKE i \in 1 .. Len(got')
      <3>1. CASE i = Len(got) + 1
        <4>1. got'[i] = c /\ bitmap'[c]
          BY <1>2, <1>3, <1>8, <3>1
        <4>2. Unclaimed(c)'
          BY <1>6, <1>7
        <4>3. QED BY <4>1, <4>2 DEF Unclaimed
      <3>2. CASE i # Len(got) + 1
        <4>1. i \in 1 .. Len(got) /\ got'[i] = got[i]
          BY <1>8, <3>2
        <4>2. PICK d \in Clusters : d = got[i]
          BY <1>8, <4>1
        <4>3. bitmap'[d] /\ Unclaimed(d)'
          BY <1>4, <1>7, <1>9, <4>1, <4>2
        <4>4. QED BY <4>1, <4>2, <4>3 DEF Unclaimed
      <3>3. QED BY <3>1, <3>2
    <2>2. \A i, j \in 1 .. Len(got') : got'[i] = got'[j] => i = j
      <3> TAKE i, j \in 1 .. Len(got')
      <3>1. \A k \in 1 .. Len(got) : got[k] # c
        BY <1>3, <1>9
      <3>2. \A k \in 1 .. Len(got') : k \in 1 .. Len(got) \/ k = Len(got) + 1
        BY <1>8
      <3>3. QED BY <1>8, <1>9, <3>1, <3>2
    <2>3. pc' = "link" => linked' < Len(got')
      BY <1>2, <1>8, <1>10
    <2>4. pc' = "link" => \A j \in 1 .. linked' : fat'[got'[j]] = Successor(j)'
      BY <1>2, <1>10
    <2>5. QED BY <1>1, <2>1, <2>2, <2>3, <2>4 DEF TakenInv
  <1>12. ~Filling'
    BY <1>1 DEF Filling
  <1>13. GrownInv' /\ FreedInv' /\ FlushedInv'
    BY <1>1, <1>2, <1>12 DEF GrownInv, FreedInv, FlushedInv
  <1>14. SizesInv' /\ TwoNamesInv' /\ RenamesInv'
    BY <1>1, <1>2 DEF SafeInv, SizesInv, TwoNamesInv, RenamesInv
  <1>15. CountsInv'
    <2>1. Start' = Start
      BY <1>2 DEF Start
    <2>2. QED BY <1>1, <1>2, <1>12, <2>1 DEF SafeInv, CountsInv
  <1>16. VectorInv'
    <2>1. call.count \in Nat /\ Len(got) < call.count
      BY <1>1, CallFile DEF SafeInv, VectorInv
    <2>2. /\ pc' = "alloc" => Len(got') < call'.count
          /\ pc' = "link" => Len(got') = call'.count
      BY <1>2, <1>8, <2>1
    <2>3. /\ Len(chain) = call.old
          /\ \A i \in 1 .. Len(chain) : chain[i] = ChainFrom(fat, call.first, call.old)[i]
      BY <1>1 DEF SafeInv, VectorInv
    <2>4. QED BY <1>1, <1>2, <1>12, <2>2, <2>3 DEF VectorInv
  <1>17. QED
    BY <1>5, <1>11, <1>13, <1>14, <1>15, <1>16 DEF SafeInv, LineInv

(* A new cluster's FAT entry is in no line. *)
LEMMA SafeLinkCluster ==
    ASSUME Ground, Ground', Grows, Signed, SafeInv, LinkCluster
    PROVE  SafeInv'
  <1> DEFINE w == ChainFrom(fat, call.first, call.old)
             x == got[linked + 1]
  <1>1. pc = "link" /\ pc \in Before /\ pc' \in {"link", "tail"} /\ call.kind = "write"
    BY DEF LinkCluster, Before, Ground, KindInv
  <1>2. /\ UNCHANGED <<bitmap, dir, data, call, pos, chain, got, todo>>
        /\ fat' = [fat EXCEPT ![x] = Successor(linked + 1)]
        /\ linked' = linked + 1
        /\ pc' = IF linked + 1 < Len(got) THEN "link" ELSE "tail"
    BY DEF LinkCluster
  <1>3. /\ got \in Seq(Clusters) /\ Len(got) \in Nat /\ linked \in Nat
        /\ \A i \in 1 .. Len(got) : got[i] \in Clusters
        /\ fat \in [Clusters -> FatValues] /\ chain \in Seq(Clusters) /\ Len(chain) \in Nat
    BY Types DEF Ground
  <1>4. /\ \A i \in 1 .. Len(got) : bitmap[got[i]] /\ Unclaimed(got[i])
        /\ \A i, j \in 1 .. Len(got) : got[i] = got[j] => i = j
        /\ linked < Len(got)
        /\ \A j \in 1 .. linked : fat[got[j]] = Successor(j)
    BY <1>1 DEF SafeInv, TakenInv
  <1>5. linked + 1 \in 1 .. Len(got) /\ x \in Clusters /\ Unclaimed(x)
    BY <1>3, <1>4
  <1> HIDE DEF x
  <1>6. fat'[x] = Successor(linked + 1) /\ \A d \in Clusters : d # x => fat'[d] = fat[d]
    BY <1>2, <1>3, <1>5
  <1>a. Still
    BY <1>1, StillPlace
  <1>7. LineInv' /\ LinesComeFrom
    <2>1. \A n \in Names : Shortened(n)' <=> Shortened(n)
      BY <1>1, <1>2 DEF Shortened
    <2>2. \A n \in Names : \A e \in Entries(n) : \A i \in 1 .. Owed(n, e) : bitmap'[Line(n, e)[i]]
      BY <1>2, LinesMarked DEF SafeInv
    <2>3. ASSUME NEW n \in Names, NEW e \in Entries(n), NEW i \in 1 .. Owed(n, e) - 1
          PROVE  fat'[Line(n, e)[i]] = fat[Line(n, e)[i]]
      <3>1. i \in 1 .. Owed(n, e) /\ Line(n, e)[i] \in Clusters
        BY <2>3, LinesMarked DEF SafeInv
      <3>2. Line(n, e)[i] # x
        BY <1>5, <3>1 DEF Unclaimed
      <3>3. QED BY <1>6, <3>1, <3>2
    <2>4. QED BY <1>a, <1>2, <2>1, <2>2, <2>3, CleanStep, SameLines DEF SafeInv, LineInv
  <1>8. \A d : Unclaimed(d) => Unclaimed(d)'
    BY <1>7, TracedUnclaimed
  <1>9. TakenInv'
    <2>1. \A i \in 1 .. Len(got') : bitmap'[got'[i]] /\ Unclaimed(got[i])'
      <3> TAKE i \in 1 .. Len(got')
      <3>1. PICK d \in Clusters : d = got[i] /\ bitmap[d] /\ Unclaimed(d) /\ got'[i] = d
        BY <1>2, <1>3, <1>4
      <3>2. Unclaimed(d)'
        BY <1>8, <3>1
      <3>3. QED BY <1>2, <3>1, <3>2 DEF Unclaimed
    <2>2. ASSUME NEW j \in 1 .. linked' PROVE fat'[got'[j]] = Successor(j)'
      <3>1. Successor(j)' = Successor(j) /\ got' = got
        BY <1>2 DEF Successor
      <3>2. j \in 1 .. Len(got) /\ (j \in 1 .. linked \/ j = linked + 1)
        BY <1>2, <1>3, <1>4
      <3>3. CASE j = linked + 1
        BY <1>6, <3>1, <3>3 DEF x
      <3>4. CASE j \in 1 .. linked /\ j # linked + 1
        <4>1. got[j] # x /\ got[j] \in Clusters
          BY <1>3, <1>4, <1>5, <3>2, <3>4 DEF x
        <4>2. fat'[got[j]] = fat[got[j]]
          BY <1>6, <4>1
        <4>3. QED BY <1>4, <3>1, <3>4, <4>2
      <3>5. QED BY <3>2, <3>3, <3>4
    <2>3. /\ pc' = "link" => linked' < Len(got')
          /\ pc' = "tail" => linked' = Len(got') /\ linked' > 0
      BY <1>2, <1>3, <1>4
    <2>4. \A i, j \in 1 .. Len(got') : got'[i] = got'[j] => i = j
      BY <1>2, <1>4
    <2>5. QED BY <1>1, <2>1, <2>2, <2>3, <2>4 DEF TakenInv
  <1>10. ~Filling'
    BY <1>1 DEF Filling
  <1>11. GrownInv' /\ FreedInv' /\ FlushedInv'
    BY <1>1, <1>2, <1>10 DEF GrownInv, FreedInv, FlushedInv
  <1>12. SizesInv' /\ TwoNamesInv' /\ RenamesInv'
    BY <1>1, <1>2 DEF SafeInv, SizesInv, TwoNamesInv, RenamesInv
  <1>13. CountsInv'
    <2>1. Start' = Start
      BY <1>2 DEF Start
    <2>2. QED BY <1>1, <1>2, <1>10, <2>1 DEF SafeInv, CountsInv
  <1>14. VectorInv'
    <2>1. /\ Len(chain) = call.old /\ Len(got) = call.count
          /\ \A i \in 1 .. Len(chain) : chain[i] = w[i]
      BY <1>1 DEF SafeInv, VectorInv
    <2>2. /\ call.old \in Nat /\ \A i \in 1 .. call.old : w[i] \in Clusters
          /\ \A i \in 1 .. call.old - 1 : i \in 1 .. call.old
          /\ call.name \in Names /\ dir[call.name] \in Entries(call.name)
          /\ Owed(call.name, dir[call.name]) = call.old /\ Line(call.name, dir[call.name]) = w
      BY <1>1, CallFile
    <2>3. \A i \in 1 .. call.old : w[i] # x
      <3> HIDE DEF w
      <3>1. QED BY <1>5, <2>2 DEF Unclaimed
    <2>4. \A i \in 1 .. call.old - 1 : fat'[w[i]] = fat[w[i]]
      <3> HIDE DEF w
      <3>1. QED BY <1>6, <2>2, <2>3
    <2>5. \A i \in 1 .. call.old : ChainFrom(fat', call.first, call.old)[i] = w[i]
      BY <2>2, <2>4, ChainSame
    <2> HIDE DEF w
    <2>6. \A i \in 1 .. Len(chain) : chain[i] = ChainFrom(fat', call.first, call.old)[i]
      BY <2>1, <2>5
    <2>7. QED BY <1>1, <1>2, <1>10, <2>1, <2>6 DEF VectorInv
  <1>15. QED
    BY <1>7, <1>9, <1>11, <1>12, <1>13, <1>14 DEF SafeInv, LineInv

(* What is in flight of the file of the call leads to a part of its chain. *)
LEMMA OwnLine ==
    ASSUME Ground, SafeInv, pc \in Before, call.old > 0, NEW e \in Entries(call.name)
    PROVE  /\ Owed(call.name, e) \in Nat /\ Owed(call.name, e) <= call.old
           /\ \A i \in 1 .. Owed(call.name, e) :
                 /\ i \in 1 .. call.old
                 /\ Line(call.name, e)[i] = ChainFrom(fat, call.first, call.old)[i]
  <1> DEFINE n == call.name
             w == ChainFrom(fat, call.first, call.old)
             k == Owed(n, e)
  <1>1. /\ n \in Names /\ dir[n].used /\ ~Shortened(n) /\ ~Renaming(n)
        /\ call.first = dir[n].first /\ call.old = ClustersFor(dir[n].len)
        /\ call.old \in Nat /\ dir[n].len \in Nat /\ dir[n] \in Entries(n)
    BY CallFile
  <1>2. e \in Entry /\ e.len \in Nat
    BY <1>1 DEF Ground, FlightInv, Entries, Entry
  <1>3. k \in Nat /\ k = ClustersFor(e.len) /\ (e.len = 0 => k = 0)
    BY <1>1, <1>2, OwedIs DEF Ground
  <1>4. CASE e.len = 0
    BY <1>1, <1>3, <1>4
  <1>5. dir[n].len > 0
    BY <1>1, ClustersForZero
  <1>6. CASE e.len > 0
    <2>1. e.first = dir[n].first /\ e.len <= dir[n].len
      BY <1>1, <1>5, <1>6 DEF SafeInv, SameInv
    <2>2. k <= call.old
      BY <1>1, <1>2, <1>3, <2>1, ClustersForMonotone
    <2>3. Line(n, e) = ChainFrom(fat, call.first, k)
      BY <1>1, <2>1 DEF Line
    <2>4. \A i \in 1 .. k : ChainFrom(fat, call.first, k)[i] = w[i]
      BY <1>1, <1>3, <2>2, ChainPrefix
    <2>5. \A i \in 1 .. k : i \in 1 .. call.old
      BY <1>1, <1>3, <2>2
    <2> HIDE DEF k, w, n
    <2>6. QED BY <1>3, <2>2, <2>3, <2>4, <2>5 DEF k, w, n
  <1>7. QED BY <1>2, <1>4, <1>6

(* The new clusters, linked to each other, when the file takes them. *)
LEMMA TailVector ==
    ASSUME Ground, SafeInv, pc = "tail"
    PROVE  /\ call.kind = "write" /\ call.old = Len(chain) /\ call.old \in Nat
           /\ got \in Seq(Clusters) /\ chain \in Seq(Clusters)
           /\ Len(got) \in Nat /\ Len(got) > 0 /\ Len(got) = call.count
           /\ ClustersFor(call.len) = call.old + Len(got)
           /\ \A i \in 1 .. Len(chain) : chain[i] = ChainFrom(fat, call.first, call.old)[i]
           /\ \A i \in 1 .. Len(got) : got[i] \in Clusters /\ bitmap[got[i]] /\ Unclaimed(got[i])
           /\ \A i, j \in 1 .. Len(got) : got[i] = got[j] => i = j
           /\ \A i \in 1 .. Len(got) - 1 : fat[got[i]] = got[i + 1]
           /\ pos = Start /\ pos \in Nat /\ pos <= dir[call.name].len
  <1>1. call.kind = "write" /\ pc \in Before
    BY DEF Ground, KindInv, Before
  <1>2. /\ got \in Seq(Clusters) /\ Len(got) \in Nat /\ chain \in Seq(Clusters)
        /\ \A i \in 1 .. Len(got) : got[i] \in Clusters
    BY Types DEF Ground
  <1>3. /\ \A i \in 1 .. Len(got) : bitmap[got[i]] /\ Unclaimed(got[i])
        /\ \A i, j \in 1 .. Len(got) : got[i] = got[j] => i = j
        /\ linked = Len(got) /\ linked > 0
        /\ \A j \in 1 .. linked : fat[got[j]] = Successor(j)
    BY DEF SafeInv, TakenInv
  <1>4. \A i \in 1 .. Len(got) - 1 : fat[got[i]] = got[i + 1]
    <2> TAKE i \in 1 .. Len(got) - 1
    <2>1. i \in 1 .. linked /\ i < Len(got)
      BY <1>2, <1>3
    <2>2. QED BY <1>3, <2>1 DEF Successor
  <1>5. /\ Len(chain) = call.old /\ Len(got) = call.count
        /\ \A i \in 1 .. Len(chain) : chain[i] = ChainFrom(fat, call.first, call.old)[i]
    BY DEF SafeInv, VectorInv
  <1>6. ClustersFor(call.len) = call.old + Len(got) /\ call.old \in Nat
    <2>1. /\ call.old \in Nat /\ ClustersFor(call.len) \in Nat /\ call.count \in Nat
          /\ call.count = ClustersFor(call.len) - call.old
      BY <1>1, CallFile
    <2>2. QED BY <1>5, <2>1
  <1>7. pos = Start /\ pos \in Nat /\ pos <= dir[call.name].len
    <2>1. pos = Start
      BY <1>1 DEF SafeInv, CountsInv
    <2>2. dir[call.name].len \in Nat /\ call.off \in Nat
      BY <1>1, CallFile
    <2>3. QED BY <2>1, <2>2, StartIs DEF Start
  <1>8. QED BY <1>1, <1>2, <1>3, <1>4, <1>5, <1>6, <1>7

(* They are the file's own, and so are its bytes so far. *)
LEMMA GrownBegins ==
    ASSUME Ground, SafeInv, pc = "tail", LinesComeFrom,
           UNCHANGED <<bitmap, dir, writer, pos>>, call'.name = call.name, chain' = chain \o got
    PROVE  GrownInv'
  <1> DEFINE w == ChainFrom(fat, call.first, call.old)
             k == call.old
             l == Len(chain')
  <1>1. /\ k = Len(chain) /\ k \in Nat /\ Len(got) \in Nat
        /\ got \in Seq(Clusters) /\ chain \in Seq(Clusters)
        /\ \A i \in 1 .. Len(chain) : chain[i] = w[i]
        /\ \A i \in 1 .. Len(got) : got[i] \in Clusters /\ bitmap[got[i]] /\ Unclaimed(got[i])
        /\ \A i, j \in 1 .. Len(got) : got[i] = got[j] => i = j
        /\ pos \in Nat /\ pos <= dir[call.name].len
    BY TailVector
  <1>2. /\ \A i \in 1 .. k : w[i] \in Clusters /\ bitmap[w[i]]
        /\ \A i, j \in 1 .. k : w[i] = w[j] => i = j
        /\ \A p \in 0 .. dir[call.name].len - 1 :
             /\ p \div ClusterBytes + 1 \in 1 .. k
             /\ writer[w[p \div ClusterBytes + 1]][p % ClusterBytes] = call.name
        /\ \A m \in Names \ {call.name} : \A e \in Entries(m) :
             \A i \in 1 .. Owed(m, e), j \in 1 .. k : Line(m, e)[i] # w[j]
        /\ call.name \in Names /\ dir[call.name].len \in Nat
        /\ dir[call.name] \in Entries(call.name)
        /\ Owed(call.name, dir[call.name]) = k /\ Line(call.name, dir[call.name]) = w
    BY CallFile DEF Before
  <1> HIDE DEF w, k
  <1>3. /\ l = k + Len(got) /\ l \in Nat
        /\ \A i \in 1 .. l : \/ i \in 1 .. k /\ chain'[i] = w[i]
                             \/ i - k \in 1 .. Len(got) /\ chain'[i] = got[i - k]
        /\ \A i \in 1 .. k : chain'[i] = w[i]
    BY <1>1, ConcatProperties
  <1> HIDE DEF l
  <1>4. \A i \in 1 .. k, j \in 1 .. Len(got) : w[i] # got[j]
    BY <1>1, <1>2 DEF Unclaimed
  <1>5. \A i \in 1 .. l : bitmap'[chain'[i]]
    <2> SUFFICES ASSUME NEW i \in 1 .. l PROVE bitmap'[chain'[i]]
      OBVIOUS
    <2>1. CASE i \in 1 .. k /\ chain'[i] = w[i]
      BY <1>1, <1>2, <2>1
    <2>2. CASE i - k \in 1 .. Len(got) /\ chain'[i] = got[i - k]
      BY <1>1, <2>2
    <2>3. QED BY <1>3, <2>1, <2>2
  <1>6. \A i, j \in 1 .. l : chain'[i] = chain'[j] => i = j
    <2> SUFFICES ASSUME NEW i \in 1 .. l, NEW j \in 1 .. l, chain'[i] = chain'[j] PROVE i = j
      OBVIOUS
    <2>1. CASE i \in 1 .. k /\ j \in 1 .. k
      <3>1. w[i] = w[j]
        BY <1>3, <2>1
      <3>2. QED BY <1>2, <2>1, <3>1
    <2>2. CASE i - k \in 1 .. Len(got) /\ j - k \in 1 .. Len(got) /\ ~(i \in 1 .. k) /\ ~(j \in 1 .. k)
      <3>1. i - k = j - k
        BY <1>1, <1>3, <2>2
      <3>2. QED BY <1>1, <1>3, <3>1
    <2>3. QED BY <1>3, <1>4, <2>1, <2>2
  <1>7. \A n \in Names \ {call.name} : \A e \in Entries(n)' :
              \A i \in 1 .. Owed(n, e)', j \in 1 .. l : Line(n, e)'[i] # chain'[j]
    <2> TAKE n \in Names \ {call.name}
    <2> TAKE e \in Entries(n)'
    <2> TAKE i \in 1 .. Owed(n, e)', j \in 1 .. l
    <2>1. PICK g \in Entries(n) : i \in 1 .. Owed(n, g) /\ Line(n, e)'[i] = Line(n, g)[i]
      BY DEF LinesComeFrom
    <2>2. CASE j \in 1 .. k /\ chain'[j] = w[j]
      BY <1>2, <2>1, <2>2
    <2>3. CASE j - k \in 1 .. Len(got) /\ chain'[j] = got[j - k]
      <3>1. Unclaimed(got[j - k])
        BY <1>1, <2>3
      <3>2. QED BY <2>1, <2>3, <3>1 DEF Unclaimed
    <2>4. QED BY <1>3, <2>2, <2>3
  <1>8. ASSUME NEW p \in 0 .. l * ClusterBytes - 1, p < pos \/ p < dir[call.name].len
        PROVE  writer[chain'[p \div ClusterBytes + 1]][p % ClusterBytes] = call.name
    <2>0. l * ClusterBytes \in Nat
      BY <1>3, SizesAssumption
    <2>1. p \in 0 .. dir[call.name].len - 1
      BY <1>1, <1>2, <1>8, <2>0
    <2>2. p \div ClusterBytes + 1 \in 1 .. k
          /\ writer[w[p \div ClusterBytes + 1]][p % ClusterBytes] = call.name
      BY <1>2, <2>1
    <2> DEFINE q == p \div ClusterBytes + 1
    <2> HIDE DEF q
    <2>3. q \in 1 .. k => chain'[q] = w[q]
      BY <1>3
    <2>4. QED BY <2>2, <2>3 DEF q
  <1>9. /\ \A n \in Names \ {call'.name} : \A e \in Entries(n)' :
              Distinct(Line(n, e)', Owed(n, e)', chain', l)
        /\ \A p \in 0 .. l * ClusterBytes - 1 : p < pos' \/ p < dir'[call'.name].len =>
              writer'[chain'[p \div ClusterBytes + 1]][p % ClusterBytes] = call'.name
    BY <1>7, <1>8 DEF Distinct
  <1>10. QED BY <1>5, <1>6, <1>9 DEF GrownInv, Distinct, l

(* An empty file gets the clusters just taken as its chain. *)
LEMMA SafeStartChain ==
    ASSUME Ground, Ground', Grows, Signed, SafeInv, StartChain
    PROVE  SafeInv'
  <1>1. pc = "tail" /\ pc' = "data" /\ chain = << >>
    BY DEF StartChain
  <1>2. /\ UNCHANGED <<bitmap, fat, dir, data, pos, cur, todo>>
        /\ chain' = got /\ got' = << >> /\ linked' = 0
        /\ call' = [call EXCEPT !.first = got[1]]
    BY DEF StartChain, disk
  <1>3. /\ call'.kind = call.kind /\ call'.name = call.name /\ call'.to = call.to
        /\ call'.off = call.off /\ call'.cnt = call.cnt /\ call'.len = call.len
        /\ call'.old = call.old /\ call'.count = call.count /\ call'.first = got[1]
    BY <1>2 DEF Ground, TypeOK, CallType
  <1>a. Still
    BY <1>1, StillPlace
  <1>4. LineInv' /\ LinesComeFrom
    <2>1. \A n \in Names : Shortened(n)' <=> Shortened(n)
      BY <1>1, <1>3 DEF Shortened
    <2>2. QED BY <1>a, <1>2, <1>3, <2>1, QuietLines DEF disk, SafeInv, LineInv
  <1>5. /\ call.kind = "write" /\ call.old = 0 /\ Len(got) \in Nat /\ Len(got) > 0
        /\ ClustersFor(call.len) = Len(got) /\ got \in Seq(Clusters)
        /\ \A i \in 1 .. Len(got) - 1 : fat[got[i]] = got[i + 1]
        /\ \A i \in 1 .. Len(got) : got[i] \in Clusters
    BY <1>1, TailVector
  <1>6. GrownInv'
    <2>1. chain' = chain \o got
      BY <1>1, <1>2, <1>5
    <2>2. QED BY <1>a, <1>1, <1>2, <1>3, <1>4, <2>1, GrownBegins DEF Still
  <1>7. TakenInv' /\ FreedInv' /\ FlushedInv'
    BY <1>1, <1>3 DEF TakenInv, FreedInv, FlushedInv
  <1>8. SizesInv' /\ TwoNamesInv' /\ RenamesInv'
    BY <1>1, <1>2, <1>3, <1>5 DEF SafeInv, SizesInv, TwoNamesInv, RenamesInv
  <1>9. CountsInv'
    BY <1>1, <1>2, <1>3, <1>5 DEF SafeInv, CountsInv
  <1>10. VectorInv'
    <2>1. \A i \in 1 .. Len(got) - 1 : got[i + 1] = IF got[i] \in Clusters THEN fat[got[i]] ELSE 0
      <3> TAKE i \in 1 .. Len(got) - 1
      <3>1. i \in 1 .. Len(got)
        BY <1>5
      <3>2. QED BY <1>5, <3>1
    <2>2. \A i \in 1 .. Len(got) : ChainFrom(fat, got[1], Len(got))[i] = got[i]
      BY <1>5, <2>1, ChainUnique
    <2>3. /\ Len(chain') = ClustersFor(call'.len) /\ call'.old = 0
          /\ \A i \in 1 .. Len(chain') : chain'[i] = ChainFrom(fat', call'.first, Len(chain'))[i]
      BY <1>2, <1>3, <1>5, <2>2
    <2>4. QED BY <1>1, <2>3 DEF VectorInv
  <1>11. QED
    BY <1>4, <1>6, <1>7, <1>8, <1>9, <1>10 DEF SafeInv, LineInv

(* extend_chain writes the last entry of the chain, which no line in flight
   goes beyond. *)
LEMMA SafeLinkTail ==
    ASSUME Ground, Ground', Grows, Signed, SafeInv, LinkTail
    PROVE  SafeInv'
  <1> DEFINE w == ChainFrom(fat, call.first, call.old)
             k == call.old
             x == chain[Len(chain)]
             l == Len(chain')
  <1>1. pc = "tail" /\ pc' = "data" /\ chain # << >> /\ pc \in Before
    BY DEF LinkTail, Before
  <1>2. /\ UNCHANGED <<bitmap, dir, data, call, pos, cur, todo>>
        /\ chain' = chain \o got /\ got' = << >> /\ linked' = 0
        /\ fat' = [fat EXCEPT ![x] = got[1]]
    BY DEF LinkTail
  <1>3. /\ call.kind = "write" /\ k = Len(chain) /\ k \in Nat /\ Len(got) \in Nat /\ Len(got) > 0
        /\ ClustersFor(call.len) = k + Len(got)
        /\ got \in Seq(Clusters) /\ chain \in Seq(Clusters)
        /\ \A i \in 1 .. Len(chain) : chain[i] = w[i]
        /\ \A i \in 1 .. Len(got) - 1 : fat[got[i]] = got[i + 1]
        /\ \A i \in 1 .. Len(got) : got[i] \in Clusters /\ Unclaimed(got[i])
    BY <1>1, TailVector
  <1>4. k > 0 /\ x = w[k]
    BY <1>1, <1>3
  <1>5. /\ \A i \in 1 .. k : w[i] \in Clusters
        /\ \A i \in 1 .. k - 1 : i \in 1 .. k /\ fat[w[i]] = w[i + 1]
        /\ \A i, j \in 1 .. k : w[i] = w[j] => i = j
        /\ \A m \in Names \ {call.name} : \A e \in Entries(m) :
              \A i \in 1 .. Owed(m, e), j \in 1 .. k : Line(m, e)[i] # w[j]
        /\ call.name \in Names /\ call.first = dir[call.name].first
        /\ dir[call.name] \in Entries(call.name)
        /\ Owed(call.name, dir[call.name]) = k /\ Line(call.name, dir[call.name]) = w
    BY <1>1, CallFile
  <1>6. w[1] = call.first
    BY <1>3, <1>4, ChainSteps
  <1>7. \A e \in Entries(call.name) :
              /\ Owed(call.name, e) \in Nat /\ Owed(call.name, e) <= k
              /\ \A i \in 1 .. Owed(call.name, e) : i \in 1 .. k /\ Line(call.name, e)[i] = w[i]
    BY <1>1, <1>4, OwnLine
  <1> HIDE DEF w, k, x
  <1>8. x \in Clusters /\ fat'[x] = got[1] /\ \A d \in Clusters : d # x => fat'[d] = fat[d]
    BY <1>2, <1>3, <1>4, <1>5 DEF Ground, TypeOK
  <1>a. Still
    BY <1>1, StillPlace
  <1>9. LineInv' /\ LinesComeFrom
    <2>1. \A n \in Names : Shortened(n)' <=> Shortened(n)
      BY <1>1, <1>2 DEF Shortened
    <2>2. \A n \in Names : \A e \in Entries(n) : \A i \in 1 .. Owed(n, e) : bitmap'[Line(n, e)[i]]
      BY <1>2, LinesMarked DEF SafeInv
    <2>3. ASSUME NEW n \in Names, NEW e \in Entries(n), NEW i \in 1 .. Owed(n, e) - 1
          PROVE  fat'[Line(n, e)[i]] = fat[Line(n, e)[i]]
      <3>1. i \in 1 .. Owed(n, e) /\ Line(n, e)[i] \in Clusters /\ Owed(n, e) \in Nat
        BY <2>3, LinesMarked DEF SafeInv
      <3>2. Line(n, e)[i] # x
        <4>1. CASE n # call.name
          BY <1>3, <1>4, <1>5, <3>1, <4>1
        <4>2. CASE n = call.name
          <5>1. Line(n, e)[i] = w[i] /\ i \in 1 .. k /\ Owed(n, e) <= k
            BY <1>7, <3>1, <4>2
          <5>2. i # k /\ k \in 1 .. k
            BY <1>3, <1>4, <3>1, <5>1
          <5>3. QED BY <1>4, <1>5, <5>1, <5>2
        <4>3. QED BY <4>1, <4>2
      <3>3. QED BY <1>8, <3>1, <3>2
    <2>4. QED BY <1>a, <1>2, <2>1, <2>2, <2>3, CleanStep, SameLines DEF SafeInv, LineInv
  <1>10. GrownInv'
    BY <1>a, <1>1, <1>2, <1>9, GrownBegins DEF Still
  <1>11. TakenInv' /\ FreedInv' /\ FlushedInv'
    BY <1>1, <1>2, <1>3 DEF TakenInv, FreedInv, FlushedInv
  <1>12. SizesInv' /\ TwoNamesInv' /\ RenamesInv'
    BY <1>1, <1>2, <1>3 DEF SafeInv, SizesInv, TwoNamesInv, RenamesInv
  <1>13. CountsInv'
    BY <1>1, <1>2, <1>3 DEF SafeInv, CountsInv
  <1>14. VectorInv'
    <2>1. /\ l = k + Len(got) /\ l \in Nat
          /\ \A i \in 1 .. k : chain'[i] = w[i]
          /\ \A i \in 1 .. Len(got) : chain'[k + i] = got[i]
      BY <1>2, <1>3, ConcatProperties
    <2>2. \A j \in 1 .. Len(got) : got[j] # x
      <3> TAKE j \in 1 .. Len(got)
      <3>1. k \in 1 .. k
        BY <1>3, <1>4
      <3>2. QED BY <1>3, <1>4, <1>5, <3>1 DEF Unclaimed
    <2> HIDE DEF l
    <2>3. \A i \in 1 .. l - 1 :
              chain'[i + 1] = IF chain'[i] \in Clusters THEN fat'[chain'[i]] ELSE 0
      <3> SUFFICES ASSUME NEW i \in 1 .. l - 1
                   PROVE  chain'[i] \in Clusters /\ fat'[chain'[i]] = chain'[i + 1]
        OBVIOUS
      <3>1. CASE i < k
        <4>1. i \in 1 .. k /\ i + 1 \in 1 .. k /\ i \in 1 .. k - 1 /\ k \in 1 .. k /\ i # k
          BY <1>3, <2>1, <3>1
        <4>2. chain'[i] = w[i] /\ chain'[i + 1] = w[i + 1] /\ w[i] \in Clusters
              /\ fat[w[i]] = w[i + 1] /\ w[i] # x
          BY <1>4, <1>5, <2>1, <4>1
        <4>3. QED BY <1>8, <4>2
      <3>2. CASE i = k
        <4>1. 1 \in 1 .. Len(got) /\ k \in 1 .. k
          BY <1>3, <1>4
        <4>2. chain'[i] = x /\ chain'[i + 1] = got[1]
          BY <1>4, <2>1, <3>2, <4>1
        <4>3. QED BY <1>8, <4>2
      <3>3. CASE i > k
        <4>1. PICK j \in 1 .. Len(got) - 1 : i = k + j /\ i + 1 = k + (j + 1)
          <5>1. i - k \in 1 .. Len(got) - 1 /\ i = k + (i - k) /\ i + 1 = k + ((i - k) + 1)
            BY <1>3, <2>1, <3>3
          <5>2. QED BY <5>1
        <4>2. j \in 1 .. Len(got) /\ j + 1 \in 1 .. Len(got)
          BY <1>3
        <4>3. chain'[i] = got[j] /\ chain'[i + 1] = got[j + 1] /\ got[j] \in Clusters
              /\ fat[got[j]] = got[j + 1] /\ got[j] # x
          BY <1>3, <2>1, <2>2, <4>1, <4>2
        <4>4. QED BY <1>8, <4>3
      <3>4. QED BY <1>3, <2>1, <3>1, <3>2, <3>3
    <2>4. l > 0 => chain'[1] = call.first
      <3>1. 1 \in 1 .. k
        BY <1>3, <1>4
      <3>2. QED BY <1>6, <2>1, <3>1
    <2>5. \A i \in 1 .. l : ChainFrom(fat', call.first, l)[i] = chain'[i]
      BY <2>1, <2>3, <2>4, ChainUnique
    <2>6. /\ l = ClustersFor(call'.len) /\ call'.first = dir'[call'.name].first
          /\ \A i \in 1 .. l : chain'[i] = ChainFrom(fat', call'.first, l)[i]
      BY <1>2, <1>3, <1>5, <2>1, <2>5
    <2>7. QED BY <1>1, <2>6 DEF VectorInv, l
  <1>15. QED
    BY <1>9, <1>10, <1>11, <1>12, <1>13, <1>14 DEF SafeInv, LineInv

-----------------------------------------------------------------------------
(* The data *)

(* A device write changes bytes of one cluster, and its file is their author. *)
LEMMA WriteDataBytes ==
    ASSUME Ground, WriteData
    PROVE  LET ci == pos \div ClusterBytes + 1
               base == (pos \div ClusterBytes) * ClusterBytes
           IN  /\ ci \in 1 .. Len(chain) /\ chain[ci] \in Clusters
               /\ pos \in Nat /\ base \in Nat /\ base <= pos /\ PieceEnd \in Nat
               /\ PieceEnd <= base + ClusterBytes
               /\ \A c \in Clusters, b \in ClusterIndex :
                     Written(c, b) <=> /\ c = chain[ci]
                                       /\ base + b >= pos /\ base + b < PieceEnd
  <1> DEFINE ci == pos \div ClusterBytes + 1
             base == (pos \div ClusterBytes) * ClusterBytes
  <1>1. call.off \in Nat /\ call.cnt \in Nat
    BY DEF Ground, TypeOK, CallType
  <1>2. /\ pos \in Nat /\ ClusterBytes \in Nat \ {0} /\ pos \div ClusterBytes \in Nat
        /\ base \in Nat /\ base <= pos
        /\ (pos \div ClusterBytes + 1) * ClusterBytes = base + ClusterBytes
    <2>1. pos \in Nat /\ ClusterBytes \in Nat \ {0}
      BY SizesAssumption, Types DEF Ground
    <2> DEFINE q == pos \div ClusterBytes
    <2>2. q \in Nat /\ pos % ClusterBytes \in Nat /\ pos = q * ClusterBytes + (pos % ClusterBytes)
      BY <2>1, DivMod
    <2> HIDE DEF q
    <2>3. q * ClusterBytes \in Nat /\ (q + 1) * ClusterBytes = q * ClusterBytes + ClusterBytes
      BY <2>1, <2>2
    <2>4. q * ClusterBytes <= pos
      BY <2>1, <2>2, <2>3
    <2>5. QED BY <2>1, <2>2, <2>3, <2>4 DEF q
  <1>3. PieceEnd \in Nat /\ PieceEnd <= base + ClusterBytes
    <2> DEFINE boundary == (pos \div ClusterBytes + 1) * ClusterBytes
               limit == IF pos < call.off THEN call.off ELSE call.off + call.cnt
    <2>1. boundary \in Nat /\ boundary = base + ClusterBytes /\ limit \in Nat
      BY <1>1, <1>2
    <2>2. PieceEnd = IF boundary < limit THEN boundary ELSE limit
      BY DEF PieceEnd
    <2> HIDE DEF boundary, limit, base
    <2>3. QED BY <2>1, <2>2
  <1>5. ci \in 1 .. Len(chain) /\ chain[ci] \in Clusters
    <2>1. chain \in Seq(Clusters) /\ Len(chain) \in Nat
      BY Types DEF Ground
    <2>2. ci <= Len(chain)
      BY DEF WriteData
    <2>3. ci \in Nat /\ ci >= 1
      BY <1>2
    <2> HIDE DEF ci
    <2>4. ci \in 1 .. Len(chain)
      BY <2>1, <2>2, <2>3
    <2>5. QED BY <2>1, <2>4, ElementOfSeq
  <1>6. pc = "data" /\ ci <= Len(chain)
    BY DEF WriteData
  <1>7. \A c \in Clusters, b \in ClusterIndex :
           Written(c, b) <=> c = chain[ci] /\ base + b >= pos /\ base + b < PieceEnd
    BY <1>6 DEF Written
  <1> HIDE DEF ci, base
  <1>8. QED BY <1>2, <1>3, <1>5, <1>7 DEF ci, base

(* What write_range puts into a cluster comes from the file it belongs to. *)
LEMMA CleanWrite ==
    ASSUME Ground, Signed, SafeInv, WriteData
    PROVE  Clean
  <1> DEFINE ci == pos \div ClusterBytes + 1
  <1>1. /\ pc = "data" /\ Filling /\ call.kind = "write" /\ UNCHANGED call
        /\ ci \in 1 .. Len(chain)
        /\ \A c \in Clusters, b \in ClusterIndex : Written(c, b) => c = chain[ci]
    BY WriteDataBytes DEF WriteData, Filling, Ground, KindInv
  <1> HIDE DEF ci
  <1>2. ~Renamed /\ \A c \in Clusters : ~Taken(c)
    BY <1>1 DEF Renamed, Taken
  <1>3. \A n \in Names : Authors(n) = {n} /\ Authors(n)' = {n}
    BY <1>1 DEF Authors
  <1>4. ASSUME NEW n \in Names, n # call.name PROVE CleanFor(n)
    <2>1. \A g \in Entries(n) : \A i \in 1 .. Owed(n, g) : Line(n, g)[i] # chain[ci]
      BY <1>1, <1>4 DEF SafeInv, GrownInv, Distinct
    <2>2. \A c \in Clusters : c # chain[ci] => flight'.writer[c] \subseteq flight.writer[c]
      BY <1>1, <1>2 DEF Signed
    <2>3. QED BY <1>3, <2>1, <2>2 DEF CleanFor
  <1>5. CleanFor(call.name)
    <2>1. \A c \in Clusters :
             /\ flight'.writer[c] \subseteq flight.writer[c] \cup {writer'[c]}
             /\ writer[c] \in flight.writer[c]
             /\ \A b \in ClusterIndex : writer'[c][b] \in {call.name, writer[c][b]}
      BY <1>1 DEF Signed, Ground, FlightInv
    <2>2. call.name \in Authors(call.name) /\ Authors(call.name)' = Authors(call.name)
      BY <1>1 DEF Authors
    <2>3. QED BY <2>1, <2>2 DEF CleanFor
  <1>6. QED BY <1>4, <1>5 DEF Clean

(* So the bytes of the file that were written stay so and those up to the
   new position join them. *)
LEMMA GrownWrite ==
    ASSUME Ground, Signed, SafeInv, WriteData, LinesComeFrom
    PROVE  GrownInv'
  <1> DEFINE ci == pos \div ClusterBytes + 1
             base == (pos \div ClusterBytes) * ClusterBytes
             l == Len(chain)
  <1>1. UNCHANGED <<bitmap, fat, dir, call, chain>> /\ pos' = PieceEnd /\ Filling
    BY DEF WriteData, Filling, Ground, KindInv
  <1>2. /\ ci \in 1 .. l /\ chain[ci] \in Clusters
        /\ pos \in Nat /\ base \in Nat /\ base <= pos /\ PieceEnd \in Nat
        /\ PieceEnd <= base + ClusterBytes
        /\ \A c \in Clusters, b \in ClusterIndex : c # chain[ci] => writer'[c][b] = writer[c][b]
        /\ \A b \in ClusterIndex :
              writer'[chain[ci]][b] = IF base + b >= pos /\ base + b < PieceEnd THEN call.name
                                      ELSE writer[chain[ci]][b]
    <2>1. /\ ci \in 1 .. l /\ chain[ci] \in Clusters
          /\ pos \in Nat /\ base \in Nat /\ base <= pos /\ PieceEnd \in Nat
          /\ PieceEnd <= base + ClusterBytes
          /\ \A c \in Clusters, b \in ClusterIndex :
                Written(c, b) <=> c = chain[ci] /\ base + b >= pos /\ base + b < PieceEnd
      BY WriteDataBytes
    <2>2. \A c \in Clusters, b \in ClusterIndex :
             writer'[c][b] = IF Written(c, b) THEN call.name ELSE writer[c][b]
      BY DEF Signed, WriteData
    <2> HIDE DEF ci, base, l
    <2>3. QED BY <2>1, <2>2
  <1>3. l \in Nat /\ chain \in Seq(Clusters) /\ ClusterBytes \in Nat \ {0}
    BY Types, SizesAssumption DEF Ground
  <1>4. /\ \A i \in 1 .. l : bitmap[chain[i]]
        /\ \A i, j \in 1 .. l : chain[i] = chain[j] => i = j
        /\ \A n \in Names \ {call.name} : \A e \in Entries(n) :
              \A i \in 1 .. Owed(n, e), j \in 1 .. l : Line(n, e)[i] # chain[j]
        /\ \A p \in 0 .. l * ClusterBytes - 1 : p < pos \/ p < dir[call.name].len =>
              writer[chain[p \div ClusterBytes + 1]][p % ClusterBytes] = call.name
    BY <1>1 DEF SafeInv, GrownInv, Distinct
  <1>5. \A n \in Names \ {call.name} : \A e \in Entries(n)' :
              \A i \in 1 .. Owed(n, e)', j \in 1 .. l : Line(n, e)'[i] # chain[j]
    <2> TAKE n \in Names \ {call.name}
    <2> TAKE e \in Entries(n)'
    <2> TAKE i \in 1 .. Owed(n, e)', j \in 1 .. l
    <2>1. PICK g \in Entries(n) : i \in 1 .. Owed(n, g) /\ Line(n, e)'[i] = Line(n, g)[i]
      BY DEF LinesComeFrom
    <2>2. QED BY <1>4, <2>1
  <1>6. ASSUME NEW p \in 0 .. l * ClusterBytes - 1, p < PieceEnd \/ p < dir[call.name].len
        PROVE  writer'[chain[p \div ClusterBytes + 1]][p % ClusterBytes] = call.name
    <2> DEFINE q == p \div ClusterBytes
               r == p % ClusterBytes
    <2>1. l * ClusterBytes \in Nat
      BY <1>3
    <2>2. p \in Nat /\ p < l * ClusterBytes
      BY <2>1
    <2>3. q \in Nat /\ r \in ClusterIndex /\ r \in Nat /\ p = q * ClusterBytes + r
      BY <1>3, <2>2, DivMod DEF ClusterIndex
    <2>4. q + 1 \in 1 .. l
      <3> HIDE DEF q, r
      <3>1. q < l
        <4> SUFFICES ASSUME l <= q PROVE FALSE
          BY <1>3, <2>3
        <4>1. l * ClusterBytes <= q * ClusterBytes /\ q * ClusterBytes \in Nat
          BY <1>3, <2>3, MulMonotone
        <4>2. QED BY <2>1, <2>2, <2>3, <4>1
      <3>2. QED BY <1>3, <2>3, <3>1
    <2>5. chain[q + 1] \in Clusters
      <3> HIDE DEF q
      <3>1. QED BY <1>3, <2>4
    <2>6. p < pos \/ p < dir[call.name].len => writer[chain[q + 1]][r] = call.name
      BY <1>4
    <2>7. CASE q + 1 # ci
      <3>1. chain[q + 1] # chain[ci]
        <4> HIDE DEF q, ci
        <4>1. QED BY <1>2, <1>4, <2>4, <2>7
      <3>2. writer'[chain[q + 1]][r] = writer[chain[q + 1]][r]
        BY <1>2, <2>3, <2>5, <3>1
      <3>3. p < pos \/ ~(p < PieceEnd)
        <4> SUFFICES ASSUME ~(p < pos), p < PieceEnd PROVE FALSE
          OBVIOUS
        <4> DEFINE s == pos \div ClusterBytes
        <4>1. s \in Nat /\ base = s * ClusterBytes
          BY <1>2, <1>3, DivType
        <4> HIDE DEF s, base
        <4>2. s * ClusterBytes <= p /\ p < s * ClusterBytes + ClusterBytes
          BY <1>2, <1>3, <2>2, <4>1
        <4>3. q = s
          BY <1>3, <2>2, <4>1, <4>2, DivUnique
        <4>4. QED BY <2>7, <4>3 DEF s
      <3> HIDE DEF q, r
      <3>4. writer[chain[q + 1]][r] = call.name
        BY <1>6, <2>6, <3>3
      <3>5. QED BY <3>2, <3>4 DEF q, r
    <2>8. CASE q + 1 = ci
      <3>1. base + r = p
        <4> DEFINE s == pos \div ClusterBytes
        <4>1. s \in Nat /\ base = s * ClusterBytes /\ ci = s + 1
          BY <1>2, <1>3, DivType
        <4> HIDE DEF s, base, q, r, ci
        <4>2. q = s
          BY <2>3, <2>8, <4>1
        <4>3. QED BY <2>3, <4>1, <4>2
      <3> HIDE DEF q, r, base, ci
      <3>2. writer'[chain[ci]][r] = IF p >= pos /\ p < PieceEnd THEN call.name
                                    ELSE writer[chain[ci]][r]
        BY <1>2, <2>3, <3>1
      <3>3. p < pos \/ p < dir[call.name].len => writer[chain[ci]][r] = call.name
        BY <2>6, <2>8
      <3>4. writer'[chain[ci]][r] = call.name
        <4>1. p >= pos \/ p < pos
          BY <1>2, <2>2
        <4>2. QED BY <1>2, <1>6, <3>2, <3>3, <4>1
      <3>5. QED BY <2>8, <3>4 DEF q, r
    <2>9. QED BY <2>7, <2>8
  <1> HIDE DEF ci, base, l
  <1>7. /\ \A i \in 1 .. l : bitmap'[chain'[i]]
        /\ \A i, j \in 1 .. l : chain'[i] = chain'[j] => i = j
        /\ \A n \in Names \ {call'.name} : \A e \in Entries(n)' :
              Distinct(Line(n, e)', Owed(n, e)', chain', l)
        /\ \A p \in 0 .. l * ClusterBytes - 1 : p < pos' \/ p < dir'[call'.name].len =>
              writer'[chain'[p \div ClusterBytes + 1]][p % ClusterBytes] = call'.name
    BY <1>1, <1>4, <1>5, <1>6 DEF Distinct
  <1>8. Len(chain') = l
    BY <1>1 DEF l
  <1>9. QED BY <1>7, <1>8 DEF GrownInv, Distinct

(* It writes behind the published length or over bytes of its own file. *)
LEMMA SafeWriteData ==
    ASSUME Ground, Ground', Grows, Signed, SafeInv, WriteData
    PROVE  SafeInv'
  <1>1. pc = "data" /\ pc' \in {"data", "data flush"} /\ call.kind = "write" /\ Filling
    BY DEF WriteData, Filling, Ground, KindInv
  <1>2. /\ UNCHANGED <<bitmap, fat, dir, call, cur, chain, got, linked, todo>>
        /\ pos' = PieceEnd
        /\ pc' = IF PieceEnd = call.off + call.cnt THEN "data flush" ELSE "data"
    BY DEF WriteData
  <1>3. LineInv' /\ LinesComeFrom
    <2>1. \A n \in Names : Shortened(n)' <=> Shortened(n)
      BY <1>1, <1>2 DEF Shortened
    <2>2. \A n \in Names : \A e \in Entries(n) :
              /\ \A i \in 1 .. Owed(n, e) : bitmap'[Line(n, e)[i]]
              /\ \A i \in 1 .. Owed(n, e) - 1 : fat'[Line(n, e)[i]] = fat[Line(n, e)[i]]
      BY <1>2, LinesMarked DEF SafeInv
    <2>3. QED BY <1>2, <2>1, <2>2, CleanWrite, SameLines DEF SafeInv, LineInv
  <1>4. GrownInv'
    BY <1>3, GrownWrite
  <1>5. TakenInv' /\ FreedInv' /\ FlushedInv'
    BY <1>1, <1>2 DEF TakenInv, FreedInv, FlushedInv
  <1>6. SizesInv' /\ TwoNamesInv' /\ RenamesInv'
    BY <1>1, <1>2 DEF SafeInv, SizesInv, TwoNamesInv, RenamesInv
  <1>7. CountsInv'
    BY <1>1, <1>2 DEF SafeInv, CountsInv
  <1>8. VectorInv'
    BY <1>1, <1>2 DEF SafeInv, VectorInv, Filling
  <1>9. QED BY <1>3, <1>4, <1>5, <1>6, <1>7, <1>8 DEF SafeInv, LineInv

-----------------------------------------------------------------------------
(* Shrinking and freeing *)

(* The chain is cut within the line of the entry, which from then on has a
   claim to the first part only. *)
LEMMA SafeCutChain ==
    ASSUME Ground, Ground', Grows, Signed, SafeInv, CutChain
    PROVE  SafeInv'
  <1> DEFINE w == ChainFrom(fat, call.first, call.old)
             k == call.old
             j == call.count
             x == chain[j]
  <1>1. /\ pc = "cut" /\ pc \in Before /\ pc' \in {"free bit", "publish"}
        /\ call.kind = "shrink"
    BY DEF CutChain, Before, Ground, LoopsInv
  <1>2. /\ UNCHANGED <<bitmap, dir, data, call, pos, cur, got, linked>>
        /\ fat' = [fat EXCEPT ![x] = END_OF_CHAIN]
        /\ todo' = Suffix(chain, j)
        /\ j > 0 /\ j <= Len(chain)
    BY DEF CutChain
  <1>3. /\ k \in Nat /\ j \in Nat /\ chain \in Seq(Clusters) /\ Len(chain) = k
        /\ \A i \in 1 .. k : chain[i] = w[i]
    <2>1. Len(chain) = k /\ \A i \in 1 .. Len(chain) : chain[i] = w[i]
      BY <1>1 DEF SafeInv, VectorInv
    <2>2. k \in Nat /\ j \in Nat /\ chain \in Seq(Clusters)
      BY Types DEF Ground
    <2>3. QED BY <2>1, <2>2
  <1>4. /\ \A i \in 1 .. k : w[i] \in Clusters
        /\ \A i \in 1 .. k - 1 : i \in 1 .. k /\ fat[w[i]] = w[i + 1]
        /\ \A a, b \in 1 .. k : w[a] = w[b] => a = b
        /\ \A m \in Names \ {call.name} : \A e \in Entries(m) :
              \A a \in 1 .. Owed(m, e), b \in 1 .. k : Line(m, e)[a] # w[b]
        /\ call.name \in Names
        /\ \A n \in Names : ~Shortened(n) /\ ~Renaming(n)
        /\ \A m, n \in Names : ~BeingRenamed(m, n)
    BY <1>1, CallFile
  <1>5. j \in 1 .. k /\ x = w[j] /\ k > 0
    BY <1>2, <1>3
  <1>6. \A e \in Entries(call.name) :
              /\ Owed(call.name, e) \in Nat /\ Owed(call.name, e) <= k
              /\ \A i \in 1 .. Owed(call.name, e) : i \in 1 .. k /\ Line(call.name, e)[i] = w[i]
    BY <1>1, <1>5, OwnLine
  <1>7. /\ Shortened(call.name)' /\ call'.count = j
        /\ \A n \in Names \ {call.name} : ~Shortened(n)'
    BY <1>1, <1>2 DEF Shortened
  <1> HIDE DEF w, k, x
  <1>8. x \in Clusters /\ fat'[x] = END_OF_CHAIN /\ \A d \in Clusters : d # x => fat'[d] = fat[d]
    BY <1>2, <1>3, <1>4, <1>5 DEF Ground, TypeOK
  <1>9. ASSUME NEW n \in Names, NEW e \in Entries(n)
        PROVE  /\ Owed(n, e) \in Nat /\ Owed(n, e)' <= Owed(n, e)
               /\ n = call.name => Owed(n, e)' <= j
               /\ Owed(n, e)' \in Nat
    <2>1. e \in Entry /\ Owed(n, e) = ClustersFor(e.len) /\ ClustersFor(e.len) \in Nat
      <3>1. e \in Entry
        BY <1>9 DEF Ground, FlightInv, Entries
      <3>2. QED BY <1>4, <3>1, OwedIs DEF Ground
    <2>2. j \in Nat
      BY <1>3
    <2>3. CASE n = call.name
      <3>1. Owed(n, e)' = IF j < ClustersFor(e.len) THEN j ELSE ClustersFor(e.len)
        BY <1>2, <1>7, <2>3 DEF Owed, Shortened
      <3> HIDE DEF j
      <3>2. QED BY <2>1, <2>2, <3>1
    <2>4. CASE n # call.name
      <3>1. Owed(n, e)' = ClustersFor(e.len)
        BY <1>7, <2>4 DEF Owed
      <3>2. QED BY <2>1, <2>4, <3>1
    <2>5. QED BY <2>3, <2>4
  <1> HIDE DEF j
  <1>a. Still
    BY <1>1, StillPlace
  <1>10. LineInv' /\ LinesComeFrom
    <2>1. \A n \in Names : (Renaming(n) => Renaming(n)') /\ (Shortened(n) => Shortened(n)')
      BY <1>4
    <2>2. \A m, n \in Names : BeingRenamed(m, n) => BeingRenamed(m, n)'
      BY <1>4
    <2>3. ASSUME NEW n \in Names, NEW e \in Entries(n)
          PROVE  /\ Owed(n, e)' <= Owed(n, e)
                 /\ \A i \in 1 .. Owed(n, e)' : bitmap'[Line(n, e)[i]]
                 /\ \A i \in 1 .. Owed(n, e)' - 1 : fat'[Line(n, e)[i]] = fat[Line(n, e)[i]]
      <3>1. /\ Owed(n, e) \in Nat /\ Owed(n, e)' \in Nat /\ Owed(n, e)' <= Owed(n, e)
            /\ n = call.name => Owed(n, e)' <= j
        BY <1>9
      <3>2. \A i \in 1 .. Owed(n, e) : Line(n, e)[i] \in Clusters /\ bitmap[Line(n, e)[i]]
        BY LinesMarked DEF SafeInv
      <3>3. \A i \in 1 .. Owed(n, e)' : i \in 1 .. Owed(n, e)
        BY <3>1
      <3>4. \A i \in 1 .. Owed(n, e)' - 1 : i \in 1 .. Owed(n, e) /\ (n = call.name => i < j)
        BY <1>3, <3>1
      <3>5. ASSUME NEW i \in 1 .. Owed(n, e)' - 1
            PROVE  Line(n, e)[i] # x
        <4>1. CASE n # call.name
          BY <1>4, <1>5, <3>4, <4>1
        <4>2. CASE n = call.name
          <5>1. Line(n, e)[i] = w[i] /\ i \in 1 .. k /\ i # j
            BY <1>3, <1>6, <3>4, <4>2
          <5>2. QED BY <1>4, <1>5, <5>1
        <4>3. QED BY <4>1, <4>2
      <3>6. QED BY <1>2, <1>8, <3>1, <3>2, <3>3, <3>4, <3>5
    <2>4. QED BY <1>a, <1>2, <2>1, <2>2, <2>3, CleanStep, CallLines DEF SafeInv, LineInv
  <1>11. /\ Len(todo') = k - j /\ todo' \in Seq(Clusters)
         /\ \A i \in 1 .. k - j : todo'[i] = w[j + i] /\ j + i \in 1 .. k /\ w[j + i] \in Clusters
    <2>1. j \in 0 .. Len(chain)
      BY <1>3, <1>5
    <2>2. /\ Suffix(chain, j) \in Seq(Clusters) /\ Len(Suffix(chain, j)) = Len(chain) - j
          /\ \A i \in 1 .. Len(chain) - j : Suffix(chain, j)[i] = chain[j + i]
      BY <1>3, <2>1, SuffixElements
    <2>3. \A i \in 1 .. k - j : j + i \in 1 .. k
      BY <1>3, <1>5
    <2>4. QED BY <1>2, <1>3, <1>4, <2>2, <2>3
  <1>12. FreedInv'
    <2>1. \A i \in 1 .. Len(todo') : todo'[i] \in Clusters /\ Unclaimed(todo[i])'
      <3> TAKE i \in 1 .. Len(todo')
      <3>1. todo'[i] = w[j + i] /\ j + i \in 1 .. k /\ w[j + i] \in Clusters /\ i \in Nat /\ i > 0
        BY <1>3, <1>5, <1>11
      <3>2. ASSUME NEW n \in Names, NEW e \in Entries(n)', NEW a \in 1 .. Owed(n, e)'
            PROVE  Line(n, e)'[a] # w[j + i]
        <4>1. PICK g \in Entries(n) : a \in 1 .. Owed(n, g) /\ Line(n, e)'[a] = Line(n, g)[a]
          BY <1>10 DEF LinesComeFrom
        <4>2. CASE n # call.name
          BY <1>4, <3>1, <4>1, <4>2
        <4>3. CASE n = call.name
          <5>1. e \in Entries(n)
            <6>1. dir'[n] \in flight.dir[n]
              BY <1>2 DEF Ground, FlightInv
            <6>2. QED BY <6>1, EntriesFrom
          <5>2. a <= j /\ a \in Nat
            BY <1>3, <1>9, <4>3, <5>1
          <5>3. Line(n, g)[a] = w[a] /\ a \in 1 .. k
            BY <1>6, <4>1, <4>3
          <5>4. a # j + i
            BY <1>3, <3>1, <5>2
          <5>5. QED BY <1>4, <3>1, <4>1, <5>3, <5>4
        <4>4. QED BY <4>2, <4>3
      <3>3. QED BY <3>1, <3>2 DEF Unclaimed
    <2>2. fat'[ChainFrom(fat', call.first, j)[j]] = END_OF_CHAIN
      <3>1. \A i \in 1 .. j : ChainFrom(fat, call.first, j)[i] = w[i]
        BY <1>3, <1>5, ChainPrefix DEF w, k
      <3>2. \A i \in 1 .. j - 1 : fat'[ChainFrom(fat, call.first, j)[i]]
                                       = fat[ChainFrom(fat, call.first, j)[i]]
        <4> TAKE i \in 1 .. j - 1
        <4>1. i \in 1 .. j /\ i \in 1 .. k /\ i # j
          BY <1>3, <1>5
        <4>2. w[i] # x /\ w[i] \in Clusters
          BY <1>4, <1>5, <4>1
        <4>3. QED BY <1>8, <3>1, <4>1, <4>2
      <3>3. ChainFrom(fat', call.first, j)[j] = ChainFrom(fat, call.first, j)[j]
        <4>1. j \in 1 .. j
          BY <1>3, <1>5
        <4>2. QED BY <1>3, <3>2, <4>1, ChainSame
      <3>4. ChainFrom(fat', call.first, j)[j] = x
        <4>1. j \in 1 .. j
          BY <1>3, <1>5
        <4>2. QED BY <1>5, <3>1, <3>3, <4>1
      <3>5. QED BY <1>8, <3>4
    <2>3. QED BY <1>1, <1>2, <2>1, <2>2 DEF FreedInv, j
  <1>13. ~Filling'
    BY <1>1, <1>2 DEF Filling
  <1>14. TakenInv' /\ GrownInv' /\ FlushedInv' /\ VectorInv'
    BY <1>1, <1>2, <1>13 DEF TakenInv, GrownInv, FlushedInv, VectorInv
  <1>15. SizesInv' /\ TwoNamesInv' /\ RenamesInv'
    BY <1>1, <1>2 DEF SafeInv, SizesInv, TwoNamesInv, RenamesInv
  <1>16. CountsInv'
    BY <1>1, <1>2, <1>13 DEF SafeInv, CountsInv
  <1>17. QED
    BY <1>10, <1>12, <1>14, <1>15, <1>16 DEF SafeInv, LineInv

(* While clusters are freed nothing of a removed entry is in flight. *)
LEMMA OnlyEntries ==
    ASSUME Ground', Grows, NEW n \in Names, flight.dir[n] = {dir[n]}, dir'[n] = dir[n]
    PROVE  flight'.dir[n] = {dir'[n]}
  BY DEF Grows, Ground, FlightInv

(* The cluster whose bit is cleared is in no line. *)
LEMMA SafeFreeBit ==
    ASSUME Ground, Ground', Grows, Signed, SafeInv, FreeBit
    PROVE  SafeInv'
  <1>1. pc = "free bit" /\ pc' = "free fat" /\ call.kind \in {"shrink", "remove"}
    BY DEF FreeBit, Ground, KindInv
  <1>2. /\ UNCHANGED <<fat, dir, data, call, pos, cur, chain, got, linked, todo>>
        /\ bitmap' = [c \in Clusters |-> bitmap[c] /\ c # Head(todo)]
    BY DEF FreeBit, locals
  <1>3. /\ todo # << >> /\ todo \in Seq(Nat) /\ Head(todo) = todo[1] /\ 1 \in 1 .. Len(todo)
    <2>1. todo # << >> /\ todo \in Seq(Nat)
      BY <1>1 DEF Ground, LoopsInv, TypeOK
    <2>2. QED BY <2>1
  <1>4. Unclaimed(Head(todo))
    BY <1>1, <1>3 DEF SafeInv, FreedInv
  <1>a. Still
    BY <1>1, StillPlace
  <1>5. LineInv' /\ LinesComeFrom
    <2>1. \A n \in Names : Shortened(n)' <=> Shortened(n)
      BY <1>1, <1>2 DEF Shortened
    <2>2. \A n \in Names : \A e \in Entries(n) :
              /\ \A i \in 1 .. Owed(n, e) : bitmap'[Line(n, e)[i]]
              /\ \A i \in 1 .. Owed(n, e) - 1 : fat'[Line(n, e)[i]] = fat[Line(n, e)[i]]
      BY <1>2, <1>4, LinesMarked DEF SafeInv, Unclaimed
    <2>3. QED BY <1>a, <1>2, <2>1, <2>2, CleanStep, SameLines DEF SafeInv, LineInv
  <1>6. \A d : Unclaimed(d) => Unclaimed(d)'
    BY <1>5, TracedUnclaimed
  <1>7. FreedInv'
    <2>1. \A i \in 1 .. Len(todo) : todo[i] \in Clusters /\ Unclaimed(todo[i])
      BY <1>1 DEF SafeInv, FreedInv
    <2>2. ASSUME NEW i \in 1 .. Len(todo') PROVE todo'[i] \in Clusters /\ Unclaimed(todo[i])'
      <3>1. PICK d : d = todo[i] /\ todo'[i] = d /\ d \in Clusters /\ Unclaimed(d)
        BY <1>2, <2>1
      <3>2. Unclaimed(d)'
        BY <1>6, <3>1
      <3>3. QED BY <3>1, <3>2 DEF Unclaimed
    <2>3. QED BY <1>1, <1>2, <2>2 DEF SafeInv, FreedInv
  <1>8. FlushedInv'
    <2>1. call.kind = "remove" => \A n \in Names : flight.dir[n] = {dir[n]}
      BY <1>1 DEF SafeInv, FlushedInv
    <2>2. call.kind = "remove" => \A n \in Names : flight'.dir[n] = {dir'[n]}
      BY <1>2, <2>1, OnlyEntries
    <2>3. QED BY <1>1, <1>2, <2>2 DEF FlushedInv
  <1>9. ~Filling'
    BY <1>1, <1>2 DEF Filling
  <1>10. TakenInv' /\ GrownInv' /\ VectorInv'
    BY <1>1, <1>2, <1>9 DEF TakenInv, GrownInv, VectorInv
  <1>11. SizesInv' /\ TwoNamesInv' /\ RenamesInv' /\ CountsInv'
    BY <1>1, <1>2, <1>9 DEF SafeInv, SizesInv, TwoNamesInv, RenamesInv, CountsInv
  <1>12. QED
    BY <1>5, <1>7, <1>8, <1>10, <1>11 DEF SafeInv, LineInv

(* The chain a truncation keeps, while the rest is freed. *)
LEMMA ShortenedLine ==
    ASSUME Ground, SafeInv, call.kind = "shrink", pc \in {"free bit", "free fat", "publish"}
    PROVE  /\ call.name \in Names /\ dir[call.name].used
           /\ dir[call.name] \in Entries(call.name)
           /\ call.count \in Nat /\ call.count > 0 /\ call.len \in Nat
           /\ call.count = ClustersFor(call.len) /\ call.len <= dir[call.name].len
           /\ call.first = dir[call.name].first /\ dir[call.name].len \in Nat
           /\ Shortened(call.name) /\ \A n \in Names \ {call.name} : ~Shortened(n)
           /\ Owed(call.name, dir[call.name]) = call.count
           /\ Line(call.name, dir[call.name]) = ChainFrom(fat, call.first, call.count)
  <1>1. call.name \in Names /\ dir[call.name].used /\ call.count > 0
        /\ call.count = ClustersFor(call.len)
    BY DEF SafeInv, CountsInv
  <1>2. call.first = dir[call.name].first /\ call.len > 0 /\ call.len <= dir[call.name].len
    BY DEF SafeInv, SizesInv
  <1>3. Shortened(call.name) /\ \A n \in Names \ {call.name} : ~Shortened(n)
    BY DEF Shortened
  <1>4. dir[call.name] \in Entry /\ dir[call.name].len \in Nat /\ call.len \in Nat
        /\ call.count \in Nat
    BY <1>1 DEF Ground, TypeOK, Entry, CallType
  <1>5. call.count <= ClustersFor(dir[call.name].len)
    BY <1>1, <1>2, <1>4, ClustersForMonotone
  <1>6. Owed(call.name, dir[call.name]) = call.count
    BY <1>3, <1>4, <1>5, OwedIs DEF Ground
  <1>7. Line(call.name, dir[call.name]) = ChainFrom(fat, call.first, call.count)
    BY <1>2, <1>6 DEF Line
  <1>8. dir[call.name] \in Entries(call.name)
    BY <1>1, EntriesAre DEF Ground
  <1>9. QED BY <1>1, <1>2, <1>3, <1>4, <1>6, <1>7, <1>8

(* Neither is the one whose FAT entry is. *)
LEMMA SafeFreeFat ==
    ASSUME Ground, Ground', Grows, Signed, SafeInv, FreeFat
    PROVE  SafeInv'
  <1> DEFINE x == Head(todo)
  <1>1. /\ pc = "free fat" /\ call.kind \in {"shrink", "remove"}
        /\ pc' \in {"free bit", "publish", "flush"}
        /\ pc' = "publish" => call.kind = "shrink"
        /\ pc' = "flush" => call.kind # "shrink"
    BY DEF FreeFat, Ground, KindInv
  <1>2. /\ UNCHANGED <<bitmap, dir, data, call, pos, cur, chain, got, linked>>
        /\ fat' = [c \in Clusters |-> IF c = x THEN 0 ELSE fat[c]]
        /\ todo' = Tail(todo)
    BY DEF FreeFat
  <1>3. /\ todo # << >> /\ todo \in Seq(Nat) /\ x = todo[1] /\ 1 \in 1 .. Len(todo)
    <2>1. todo # << >> /\ todo \in Seq(Nat)
      BY <1>1 DEF Ground, LoopsInv, TypeOK
    <2>2. QED BY <2>1
  <1>4. \A i \in 1 .. Len(todo) : todo[i] \in Clusters /\ Unclaimed(todo[i])
    BY <1>1 DEF SafeInv, FreedInv
  <1>5. Unclaimed(x)
    BY <1>3, <1>4
  <1> HIDE DEF x
  <1>6. \A d \in Clusters : d # x => fat'[d] = fat[d]
    BY <1>2
  <1>7. \A n \in Names : Shortened(n)' <=> Shortened(n)
    BY <1>1, <1>2 DEF Shortened
  <1>8. \A n \in Names : \A e \in Entries(n) :
              /\ \A i \in 1 .. Owed(n, e) : Line(n, e)[i] # x
              /\ \A i \in 1 .. Owed(n, e) : bitmap'[Line(n, e)[i]] /\ Line(n, e)[i] \in Clusters
              /\ \A i \in 1 .. Owed(n, e) - 1 : i \in 1 .. Owed(n, e)
    BY <1>2, <1>5, LinesMarked DEF SafeInv, Unclaimed
  <1>a. Still
    BY <1>1, StillPlace
  <1>9. LineInv' /\ LinesComeFrom
    <2>1. \A n \in Names : \A e \in Entries(n) :
              /\ \A i \in 1 .. Owed(n, e) : bitmap'[Line(n, e)[i]]
              /\ \A i \in 1 .. Owed(n, e) - 1 : fat'[Line(n, e)[i]] = fat[Line(n, e)[i]]
      BY <1>6, <1>8
    <2>2. QED BY <1>a, <1>2, <1>7, <2>1, CleanStep, SameLines DEF SafeInv, LineInv
  <1>10. \A d : Unclaimed(d) => Unclaimed(d)'
    BY <1>9, TracedUnclaimed
  <1>11. FreedInv'
    <2>1. ASSUME NEW i \in 1 .. Len(todo') PROVE todo'[i] \in Clusters /\ Unclaimed(todo[i])'
      <3>1. todo'[i] = todo[i + 1] /\ i + 1 \in 1 .. Len(todo)
        BY <1>2, <1>3, TailElements
      <3>2. PICK d : d = todo[i + 1] /\ todo'[i] = d /\ d \in Clusters /\ Unclaimed(d)
        BY <1>4, <3>1
      <3>3. Unclaimed(d)'
        BY <1>10, <3>2
      <3>4. QED BY <3>2, <3>3 DEF Unclaimed
    <2>2. call.kind = "shrink" => fat'[ChainFrom(fat', call.first, call.count)[call.count]]
                                      = END_OF_CHAIN
      <3> SUFFICES ASSUME call.kind = "shrink"
                   PROVE  fat'[ChainFrom(fat', call.first, call.count)[call.count]]
                              = END_OF_CHAIN
        OBVIOUS
      <3> DEFINE w == ChainFrom(fat, call.first, call.count)
                 j == call.count
      <3>1. /\ call.name \in Names /\ dir[call.name] \in Entries(call.name)
            /\ j \in Nat /\ j > 0 /\ Owed(call.name, dir[call.name]) = j
            /\ Line(call.name, dir[call.name]) = w
        BY <1>1, ShortenedLine
      <3>2. fat[w[j]] = END_OF_CHAIN
        BY <1>1 DEF SafeInv, FreedInv
      <3> HIDE DEF w, j
      <3>3. /\ \A i \in 1 .. j : w[i] # x /\ w[i] \in Clusters
            /\ \A i \in 1 .. j - 1 : i \in 1 .. j
            /\ j \in 1 .. j
        BY <1>8, <3>1
      <3>4. \A i \in 1 .. j - 1 : fat'[w[i]] = fat[w[i]]
        BY <1>6, <3>3
      <3>5. \A i \in 1 .. j : ChainFrom(fat', call.first, j)[i] = w[i]
        BY <3>1, <3>4, ChainSame DEF w, j
      <3>6. fat'[w[j]] = fat[w[j]]
        BY <1>6, <3>3
      <3>7. QED BY <3>2, <3>3, <3>5, <3>6 DEF j
    <2>3. QED BY <1>1, <1>2, <2>1, <2>2 DEF FreedInv
  <1>12. FlushedInv'
    <2>1. call.kind = "remove" => \A n \in Names : flight.dir[n] = {dir[n]}
      BY <1>1 DEF SafeInv, FlushedInv
    <2>2. call.kind = "remove" => \A n \in Names : flight'.dir[n] = {dir'[n]}
      BY <1>2, <2>1, OnlyEntries
    <2>3. QED BY <1>1, <1>2, <2>2 DEF FlushedInv
  <1>13. ~Filling'
    BY <1>1, <1>2 DEF Filling
  <1>14. TakenInv' /\ GrownInv' /\ VectorInv'
    BY <1>1, <1>2, <1>13 DEF TakenInv, GrownInv, VectorInv
  <1>15. SizesInv' /\ TwoNamesInv' /\ RenamesInv' /\ CountsInv'
    BY <1>1, <1>2, <1>13 DEF SafeInv, SizesInv, TwoNamesInv, RenamesInv, CountsInv
  <1>16. QED
    BY <1>9, <1>11, <1>12, <1>14, <1>15 DEF SafeInv, LineInv

(* The walk collects the chain of the removed file. *)
LEMMA SafeWalkChain ==
    ASSUME Ground, Ground', Grows, Signed, SafeInv, WalkChain
    PROVE  SafeInv'
  <1>1. pc = "walk" /\ pc' \in {"walk", "free bit"} /\ call.kind = "remove" /\ cur \in Clusters
    BY DEF WalkChain, Ground, KindInv
  <1>2. /\ UNCHANGED <<bitmap, fat, dir, data, call, pos, chain, got, linked>>
        /\ todo' = Append(todo, cur)
        /\ pc' = "walk" => cur' = fat[cur] /\ fat[cur] \in Clusters
    BY DEF WalkChain, disk
  <1>a. Still
    BY <1>1, StillPlace
  <1>3. LineInv' /\ LinesComeFrom
    <2>1. \A n \in Names : Shortened(n)' <=> Shortened(n)
      BY <1>1, <1>2 DEF Shortened
    <2>2. QED BY <1>a, <1>2, <2>1, QuietLines DEF disk, SafeInv, LineInv
  <1>4. \A d : Unclaimed(d) => Unclaimed(d)'
    BY <1>3, TracedUnclaimed
  <1>5. /\ \A i \in 1 .. Len(todo) : todo[i] \in Clusters /\ Unclaimed(todo[i])
        /\ \A c \in Tree(fat, cur) : Unclaimed(c)
    BY <1>1 DEF SafeInv, FreedInv
  <1>6. /\ cur \in Tree(fat, cur) /\ Closed(fat, Tree(fat, cur))
        /\ Tree(fat, cur) \in SUBSET Clusters
    BY <1>1, TreeClosed
  <1>7. FreedInv'
    <2>1. todo \in Seq(Nat) /\ Len(todo) \in Nat
      BY Types DEF Ground
    <2>2. ASSUME NEW i \in 1 .. Len(todo') PROVE todo'[i] \in Clusters /\ Unclaimed(todo[i])'
      <3>1. \/ i \in 1 .. Len(todo) /\ todo'[i] = todo[i]
            \/ todo'[i] = cur
        BY <1>2, <2>1
      <3>2. PICK d : todo'[i] = d /\ d \in Clusters /\ Unclaimed(d)
        BY <1>1, <1>5, <1>6, <3>1
      <3>3. Unclaimed(d)'
        BY <1>4, <3>2
      <3>4. QED BY <3>2, <3>3 DEF Unclaimed
    <2>3. ASSUME pc' = "walk", NEW c \in Tree(fat', cur') PROVE Unclaimed(c)'
      <3>1. cur' \in Tree(fat, cur) /\ fat' = fat
        BY <1>2, <1>6, <2>3 DEF Closed
      <3>2. Tree(fat, cur') \subseteq Tree(fat, cur)
        BY <1>6, <3>1, TreeLeast
      <3>3. QED BY <1>4, <1>5, <2>3, <3>1, <3>2
    <2>4. QED BY <1>1, <1>2, <2>2, <2>3 DEF FreedInv
  <1>8. FlushedInv'
    <2>1. \A n \in Names : flight.dir[n] = {dir[n]}
      BY <1>1 DEF SafeInv, FlushedInv
    <2>2. \A n \in Names : flight'.dir[n] = {dir'[n]}
      BY <1>2, <2>1, OnlyEntries
    <2>3. QED BY <1>1, <1>2, <2>2 DEF FlushedInv
  <1>9. ~Filling'
    BY <1>1, <1>2 DEF Filling
  <1>10. TakenInv' /\ GrownInv' /\ VectorInv'
    BY <1>1, <1>2, <1>9 DEF TakenInv, GrownInv, VectorInv
  <1>11. SizesInv' /\ TwoNamesInv' /\ RenamesInv' /\ CountsInv'
    BY <1>1, <1>2, <1>9 DEF SafeInv, SizesInv, TwoNamesInv, RenamesInv, CountsInv
  <1>12. QED
    BY <1>3, <1>7, <1>8, <1>10, <1>11 DEF SafeInv, LineInv

-----------------------------------------------------------------------------
(* The flushes in the middle of a call *)

(* A flush changes nothing of the chain that is being filled. *)
LEMMA GrownStays ==
    ASSUME SafeInv, Filling, LinesComeFrom, UNCHANGED <<bitmap, dir, writer, call, chain, pos>>
    PROVE  GrownInv'
  <1>1. /\ \A i \in 1 .. Len(chain) : bitmap[chain[i]]
        /\ \A i, j \in 1 .. Len(chain) : chain[i] = chain[j] => i = j
        /\ \A n \in Names \ {call.name} : \A e \in Entries(n) :
              \A i \in 1 .. Owed(n, e), j \in 1 .. Len(chain) : Line(n, e)[i] # chain[j]
        /\ \A p \in 0 .. Len(chain) * ClusterBytes - 1 : p < pos \/ p < dir[call.name].len =>
              writer[chain[p \div ClusterBytes + 1]][p % ClusterBytes] = call.name
    BY DEF SafeInv, GrownInv, Distinct
  <1>2. \A n \in Names \ {call.name} : \A e \in Entries(n)' :
              \A i \in 1 .. Owed(n, e)', j \in 1 .. Len(chain) : Line(n, e)'[i] # chain[j]
    <2> TAKE n \in Names \ {call.name}
    <2> TAKE e \in Entries(n)'
    <2> TAKE i \in 1 .. Owed(n, e)', j \in 1 .. Len(chain)
    <2>1. PICK g \in Entries(n) : i \in 1 .. Owed(n, g) /\ Line(n, e)'[i] = Line(n, g)[i]
      BY DEF LinesComeFrom
    <2>2. QED BY <1>1, <2>1
  <1>3. QED BY <1>1, <1>2 DEF GrownInv, Distinct

(* After such a flush the cache holds only what is written now. *)
LEMMA SafeFlushAndGoOn ==
    ASSUME Ground, Ground', Grows, Signed, SafeInv, FlushAndGoOn, CacheAfter(pc \in Barriers)
    PROVE  SafeInv'
  <1>1. /\ pc \in {"data flush", "clear flush"}
        /\ pc = "data flush" => pc' = "publish" /\ call.kind = "write"
        /\ pc = "clear flush" /\ call.kind = "rename" => pc' = "clear"
        /\ pc = "clear flush" /\ call.kind = "remove" => pc' = "walk"
        /\ pc = "clear flush" => call.kind \in {"rename", "remove"}
    BY DEF FlushAndGoOn, FlushPCs, Ground, KindInv
  <1>2. UNCHANGED <<bitmap, fat, dir, data, call, pos, cur, chain, got, linked, todo>>
    BY DEF FlushAndGoOn, disk, locals
  <1>3. flight' = Settled(bitmap', fat', dir', data', writer')
    BY <1>1 DEF CacheAfter, Barriers, FlushPCs
  <1>4. \A n \in Names : ~Shortened(n) /\ ~Shortened(n)'
    BY <1>1, <1>2 DEF Shortened
  <1>a. Still
    BY <1>1, StillPlace
  <1>5. LineInv' /\ LinesComeFrom
    BY <1>a, <1>2, <1>4, QuietLines DEF disk, SafeInv, LineInv
  <1>6. \A n \in Names : flight'.dir[n] = {dir'[n]}
    BY <1>3 DEF Settled
  <1>7. FlushedInv'
    BY <1>3, <1>6 DEF FlushedInv, AllWritten
  <1>8. FreedInv'
    <2>1. todo' = << >>
      BY <1>1, <1>2 DEF Ground, LocalsInv
    <2>2. ASSUME pc' = "walk", NEW c \in Tree(fat', cur'), NEW n \in Names, NEW e \in Entries(n)',
                 NEW i \in 1 .. Owed(n, e)'
          PROVE  Line(n, e)'[i] # c
      <3>1. e = dir[n] /\ dir[n].used
        BY <1>2, <1>6 DEF Entries
      <3>2. Owed(n, e)' = ClustersFor(dir[n].len)
        BY <1>4, <3>1 DEF Owed
      <3>3. Line(n, e)' = ChainFrom(fat, dir[n].first, ClustersFor(dir[n].len))
        BY <1>2, <3>1, <3>2 DEF Line
      <3>4. pc = "clear flush" /\ call.kind = "remove"
        BY <1>1, <2>2
      <3>5. \A j \in 1 .. ClustersFor(dir[n].len) :
                ChainFrom(fat, dir[n].first, ClustersFor(dir[n].len))[j] \notin Tree(fat, cur)
        BY <3>1, <3>4 DEF SafeInv, FreedInv
      <3>6. QED BY <1>2, <2>2, <3>2, <3>3, <3>5
    <2>3. pc' = "walk" => \A c \in Tree(fat', cur') : Unclaimed(c)'
      BY <2>2 DEF Unclaimed
    <2>4. /\ pc' \in {"publish", "clear", "walk"} /\ Len(todo') = 0
          /\ pc' = "publish" => call'.kind = "write"
      BY <1>1, <1>2, <2>1
    <2>5. (pc = "walk" => \A c \in Tree(fat, cur) : Unclaimed(c))'
      BY <2>3
    <2>6. (pc \in {"walk", "free bit", "free fat"} =>
              \A i \in 1 .. Len(todo) : todo[i] \in Clusters /\ Unclaimed(todo[i]))'
      <3>1. ~\E i : i \in (1 .. Len(todo))'
        BY <2>4
      <3>2. QED BY <3>1, Zenon
    <2>7. ~(pc = "clear flush")' /\ ~(call.kind = "shrink" /\ pc \in {"free bit", "free fat", "publish"})'
      BY <2>4
    <2>8. QED BY <2>5, <2>6, <2>7 DEF FreedInv
  <1>9. GrownInv' /\ VectorInv' /\ TakenInv'
    <2>1. Filling' => Filling
      BY <1>1, <1>2 DEF Filling
    <2>2. GrownInv'
      BY <1>a, <1>2, <1>5, <2>1, GrownStays DEF GrownInv, Still
    <2>3. VectorInv'
      BY <1>1, <1>2, <2>1 DEF SafeInv, VectorInv
    <2>4. TakenInv'
      BY <1>1 DEF TakenInv
    <2>5. QED BY <2>2, <2>3, <2>4
  <1>10. SizesInv' /\ TwoNamesInv' /\ RenamesInv'
    BY <1>1, <1>2 DEF SafeInv, SizesInv, TwoNamesInv, RenamesInv
  <1>11. CountsInv'
    BY <1>1, <1>2 DEF SafeInv, CountsInv, Filling
  <1>12. QED
    BY <1>5, <1>7, <1>8, <1>9, <1>10, <1>11 DEF SafeInv, LineInv

(* rename clears the old name: the new one has the file already. *)
LEMMA SafeClearOld ==
    ASSUME Ground, Ground', Grows, Signed, SafeInv, ClearOld
    PROVE  SafeInv'
  <1> DEFINE m == call.name
  <1>1. /\ pc = "clear" /\ pc' = "flush" /\ call.kind = "rename" /\ m \in Names
        /\ UNCHANGED <<bitmap, fat, data, call, pos, cur, chain, got, linked, todo>>
        /\ dir' = [dir EXCEPT ![m] = NoEntry]
    BY DEF ClearOld, locals, Ground, KindInv, SafeInv, RenamesInv
  <1>2. \A n \in Names : ~Shortened(n) /\ ~Shortened(n)'
    BY <1>1 DEF Shortened
  <1>3. ~dir'[m].used /\ \A n \in Names \ {m} : dir'[n] = dir[n]
    BY <1>1 DEF Ground, TypeOK, NoEntry
  <1>4. \A n \in Names : Entries(n)' \subseteq Entries(n)
    <2> TAKE n \in Names
    <2>1. CASE n = m
      BY <1>1, <1>3, <2>1, EntriesFrom
    <2>2. CASE n # m
      BY <1>3, <2>2, EntriesFrom DEF Ground, FlightInv
    <2>3. QED BY <2>1, <2>2
  <1>5. \A n \in Names : \A e : Owed(n, e)' = Owed(n, e)
    BY <1>1, <1>2, OwedSame
  <1>6. AllTraced
    <2> SUFFICES ASSUME NEW n \in Names, NEW e \in Entries(n)'
                 PROVE  e \in Entries(n) /\ Traced(n, e, e)
      BY DEF AllTraced
    <2>1. e \in Entries(n) /\ e.len <= e.len
      <3>1. e.len \in Nat
        BY EmptyLine
      <3>2. QED BY <1>4, <3>1
    <2>2. /\ Owed(n, e) \in Nat
          /\ \A i \in 1 .. Owed(n, e) : bitmap[Line(n, e)[i]]
      BY <2>1, LinesMarked DEF SafeInv
    <2>3. Owed(n, e)' = Owed(n, e) /\ bitmap' = bitmap /\ fat' = fat
      BY <1>1, <1>5
    <2>4. QED BY <2>1, <2>2, <2>3 DEF Traced
  <1>7. LinesComeFrom /\ PinnedInv'
    BY <1>6, TracedLines DEF SafeInv
  <1>8. ApartInv'
    <2>1. \A a, b \in Names : BeingRenamed(a, b) => BeingRenamed(a, b)'
      BY <1>1 DEF BeingRenamed
    <2>2. QED BY <1>7, <2>1, TracedApart DEF SafeInv
  <1>9. SameInv'
    <2>1. ASSUME NEW n \in Names, ~Renaming(n)'
          PROVE  /\ ~Renaming(n) /\ Entries(n)' \subseteq Entries(n)
                 /\ dir'[n].used /\ dir'[n].len > 0 /\ ~Shortened(n)'
                       => dir'[n] = dir[n] /\ ~Shortened(n)
      BY <1>1, <1>2, <1>3, <1>4, <2>1 DEF Renaming
    <2>2. QED BY <2>1, SameKept DEF SafeInv
  <1>a. /\ call.to # m
        /\ \A c \in Clusters : \A x \in flight'.writer[c] \cup {writer'[c]} :
              \E y \in flight.writer[c] : \A b \in ClusterIndex :
                  x[b] = IF y[b] = m THEN call.to ELSE y[b]
    <2>1. call.to # m /\ dir[m].used
      BY <1>1 DEF SafeInv, TwoNamesInv
    <2>2. Renamed
      BY <1>1, <1>3, <2>1 DEF Renamed
    <2>3. QED BY <2>1, <2>2 DEF Signed
  <1>b. Clean
    <2> SUFFICES ASSUME NEW n \in Names PROVE CleanFor(n)
      BY DEF Clean
    <2>1. Authors(n)' = Authors(n) /\ (m \in Authors(n) => call.to \in Authors(n))
      BY <1>1 DEF Authors
    <2>2. QED BY <1>a, <2>1 DEF CleanFor
  <1>c. \A c \in Clusters, b \in ClusterIndex : writer'[c][b] # m
    BY <1>a
  <1>10. BytesInv'
    BY <1>7, <1>b, TracedBytes DEF SafeInv
  <1>11. ~Filling'
    BY <1>1 DEF Filling
  <1>12. TakenInv' /\ FreedInv' /\ FlushedInv' /\ GrownInv' /\ VectorInv'
    BY <1>1, <1>11 DEF TakenInv, FreedInv, FlushedInv, GrownInv, VectorInv
  <1>13. SizesInv' /\ TwoNamesInv' /\ RenamesInv' /\ CountsInv'
    BY <1>1, <1>3, <1>11, <1>c DEF SizesInv, TwoNamesInv, RenamesInv, CountsInv
  <1>14. QED
    BY <1>7, <1>8, <1>9, <1>10, <1>12, <1>13 DEF SafeInv

(* A truncation publishes its new length: the entry leads to the clusters
   that were kept. *)
LEMMA SafePublishShort ==
    ASSUME Ground, Ground', Grows, Signed, SafeInv, Publish, call.kind = "shrink"
    PROVE  SafeInv'
  <1> DEFINE m == call.name
             new == NewEntry(call.first, call.len)
  <1>1. /\ pc = "publish" /\ pc' = "flush"
        /\ UNCHANGED <<bitmap, fat, data, call, pos, cur, chain, got, linked, todo>>
        /\ dir' = [dir EXCEPT ![m] = new]
    BY DEF Publish, locals
  <1>2. /\ m \in Names /\ dir[m].used /\ dir[m] \in Entries(m)
        /\ call.count \in Nat /\ call.count > 0 /\ call.len \in Nat
        /\ call.count = ClustersFor(call.len) /\ call.len <= dir[m].len
        /\ call.first = dir[m].first /\ dir[m].len \in Nat
        /\ Shortened(m) /\ \A n \in Names \ {m} : ~Shortened(n)
        /\ Owed(m, dir[m]) = call.count
    BY <1>1, ShortenedLine
  <1>3. dir'[m] = new /\ new.used /\ new.len = call.len /\ new.first = call.first
        /\ \A n \in Names \ {m} : dir'[n] = dir[n]
    BY <1>1, <1>2 DEF Ground, TypeOK, NewEntry
  <1>4. Shortened(m)' /\ \A n \in Names \ {m} : ~Shortened(n)'
    BY <1>1, <1>2 DEF Shortened
  <1>5. \A n \in Names : \A e \in Entries(n)' : e \in Entries(n) \/ (n = m /\ e = new)
    <2> TAKE n \in Names
    <2>1. CASE n = m
      BY <1>3, <2>1, EntriesFrom
    <2>2. CASE n # m
      BY <1>3, <2>2, EntriesFrom DEF Ground, FlightInv
    <2>3. QED BY <2>1, <2>2
  <1>6. \A n \in Names : \A e : Owed(n, e)' = Owed(n, e)
    <2>1. \A n \in Names : Shortened(n)' <=> Shortened(n)
      BY <1>1 DEF Shortened
    <2>2. QED BY <1>1, <2>1, OwedSame
  <1>a. Still
    BY <1>1, StillPlace
  <1>7. AllTraced
    <2> SUFFICES ASSUME NEW n \in Names, NEW e \in Entries(n)'
                 PROVE  \E g \in Entries(n) : Traced(n, e, g)
      BY DEF AllTraced
    <2>1. PICK g \in Entries(n) : g.first = e.first /\ e.len <= g.len /\ Owed(n, e) <= Owed(n, g)
      <3>1. CASE e \in Entries(n)
        <4>1. e.len \in Nat /\ Owed(n, e) \in Nat
          BY <3>1, LinesMarked, EmptyLine DEF SafeInv
        <4>2. QED BY <3>1, <4>1
      <3>2. CASE n = m /\ e = new
        <4>1. Owed(m, new) = call.count
          BY <1>2, <1>3 DEF Owed
        <4>2. QED BY <1>2, <1>3, <3>2, <4>1
      <3>3. QED BY <1>5, <3>1, <3>2
    <2>2. /\ Owed(n, g) \in Nat /\ Owed(n, e)' \in Nat
          /\ \A i \in 1 .. Owed(n, g) : bitmap[Line(n, g)[i]]
      BY <2>1, LinesMarked, EmptyLine DEF SafeInv
    <2>3. Owed(n, e)' = Owed(n, e) /\ bitmap' = bitmap /\ fat' = fat
      BY <1>1, <1>6
    <2>4. \A i \in 1 .. Owed(n, e)' : i \in 1 .. Owed(n, g)
      BY <2>1, <2>2, <2>3
    <2>5. Traced(n, e, g)
      BY <2>1, <2>2, <2>3, <2>4 DEF Traced
    <2>6. QED BY <2>5
  <1>8. LinesComeFrom /\ PinnedInv'
    BY <1>7, TracedLines DEF SafeInv
  <1>9. ApartInv'
    <2>1. \A a, b \in Names : BeingRenamed(a, b) => BeingRenamed(a, b)'
      BY <1>1 DEF BeingRenamed
    <2>2. QED BY <1>8, <2>1, TracedApart DEF SafeInv
  <1>10. SameInv'
    <2> SUFFICES ASSUME NEW n \in Names, ~Renaming(n)'
                 PROVE  /\ \A e, g \in Entries(n)' : e.len > 0 /\ g.len > 0 => e.first = g.first
                        /\ dir'[n].used /\ dir'[n].len > 0 /\ ~Shortened(n)' =>
                              \A e \in Entries(n)' : e.len <= dir'[n].len
      BY DEF SameInv
    <2>1. ~Renaming(n)
      BY <1>1 DEF Renaming
    <2>2. /\ \A e, g \in Entries(n) : e.len > 0 /\ g.len > 0 => e.first = g.first
          /\ dir[n].used /\ dir[n].len > 0 /\ ~Shortened(n) =>
                \A e \in Entries(n) : e.len <= dir[n].len
      BY <2>1 DEF SafeInv, SameInv
    <2>3. CASE n # m
      BY <1>2, <1>3, <1>5, <2>2, <2>3
    <2>4. CASE n = m
      <3>1. dir[m].len > 0
        BY <1>2, ClustersForZero, ClustersForMonotone
      <3>2. \A e \in Entries(n)' : e.len > 0 => e.first = call.first
        <4> TAKE e \in Entries(n)'
        <4>1. e \in Entries(n) \/ e = new
          BY <1>5
        <4>2. e \in Entries(n) /\ e.len > 0 => e.first = dir[m].first
          BY <1>2, <2>2, <2>4, <3>1
        <4>3. QED BY <1>2, <1>3, <4>1, <4>2
      <3>3. \A e, g \in Entries(n)' : e.len > 0 /\ g.len > 0 => e.first = g.first
        BY <3>2
      <3>4. Shortened(n)'
        BY <1>1, <2>4 DEF Shortened
      <3>5. QED BY <3>3, <3>4
    <2>5. QED BY <2>3, <2>4
  <1>11. BytesInv'
    BY <1>a, <1>1, <1>8, CleanStep, TracedBytes DEF SafeInv
  <1>12. ~Filling'
    BY <1>1 DEF Filling
  <1>13. TakenInv' /\ FreedInv' /\ FlushedInv' /\ GrownInv' /\ VectorInv'
    BY <1>1, <1>12 DEF TakenInv, FreedInv, FlushedInv, GrownInv, VectorInv
  <1>14. SizesInv' /\ TwoNamesInv' /\ RenamesInv'
    BY <1>1 DEF SizesInv, TwoNamesInv, RenamesInv
  <1>15. CountsInv'
    BY <1>1, <1>2, <1>3, <1>12 DEF CountsInv
  <1>16. QED
    BY <1>8, <1>9, <1>10, <1>11, <1>13, <1>14, <1>15 DEF SafeInv

(* The clusters of a file have room for its bytes. *)
LEMMA BytesFit ==
    ASSUME NEW len \in Nat, NEW p \in 0 .. len - 1
    PROVE  /\ p \in 0 .. ClustersFor(len) * ClusterBytes - 1
           /\ p \div ClusterBytes + 1 \in 1 .. ClustersFor(len)
  <1> DEFINE q == p \div ClusterBytes
             r == p % ClusterBytes
             k == ClustersFor(len)
  <1>1. p \in Nat /\ p < len /\ ClusterBytes \in Nat /\ ClusterBytes > 0
    BY SizesAssumption
  <1>2. q + 1 \in 1 .. k /\ r \in ClusterIndex
    BY <1>1, ByteHasCluster
  <1>3. q \in Nat /\ r \in Nat /\ r < ClusterBytes /\ p = q * ClusterBytes + r
    BY <1>1, SizesAssumption, DivMod DEF ClusterIndex
  <1>4. k \in Nat
    BY ClustersForType
  <1> HIDE DEF q, r, k
  <1>5. PICK d \in Nat : k = q + 1 + d
    <2>1. k - (q + 1) \in Nat /\ k = q + 1 + (k - (q + 1))
      BY <1>2, <1>3, <1>4
    <2>2. QED BY <2>1
  <1>6. k * ClusterBytes = q * ClusterBytes + ClusterBytes + d * ClusterBytes
        /\ d * ClusterBytes \in Nat /\ q * ClusterBytes \in Nat
    BY <1>1, <1>3, <1>5
  <1>7. p < k * ClusterBytes /\ k * ClusterBytes \in Nat
    BY <1>1, <1>3, <1>4, <1>6
  <1>8. QED BY <1>1, <1>2, <1>7 DEF q, k

(* A write publishes its clusters: they are on the medium, marked, linked and
   written, and in no other line. *)
LEMMA SafePublishGrown ==
    ASSUME Ground, Ground', Grows, Signed, SafeInv, Publish, call.kind = "write"
    PROVE  SafeInv'
  <1> DEFINE m == call.name
             new == NewEntry(call.first, call.len)
             k == ClustersFor(call.len)
             w == ChainFrom(fat, call.first, k)
  <1>1. /\ pc = "publish" /\ pc' = "flush"
        /\ UNCHANGED <<bitmap, fat, data, call, pos, cur, chain, got, linked, todo>>
        /\ dir' = [dir EXCEPT ![m] = new]
    BY DEF Publish, locals
  <1>2. /\ m \in Names /\ dir[m].used /\ dir[m].len \in Nat /\ call.len \in Nat
        /\ call.off \in Nat /\ call.cnt \in Nat /\ call.old \in Nat
        /\ call.len = IF call.off + call.cnt > dir[m].len THEN call.off + call.cnt
                      ELSE dir[m].len
        /\ call.old = ClustersFor(dir[m].len) /\ pos = call.off + call.cnt
    <2>1. m \in Names /\ dir[m].used
      BY DEF SafeInv, CountsInv
    <2>2. QED BY <1>1, <2>1 DEF SafeInv, SizesInv, CountsInv, Filling, Ground, TypeOK, CallType, Entry
  <1>3. k \in Nat
    BY <1>2, ClustersForType
  <1>4. dir'[m] = new /\ new.used /\ new.len = call.len /\ new.first = call.first
        /\ \A n \in Names \ {m} : dir'[n] = dir[n]
    BY <1>1, <1>2 DEF Ground, TypeOK, NewEntry
  <1>5. /\ \A n \in Names : ~Shortened(n) /\ ~Shortened(n)' /\ ~Renaming(n) /\ ~Renaming(n)'
        /\ \A a, b \in Names : ~BeingRenamed(a, b) /\ ~BeingRenamed(a, b)'
    BY <1>1 DEF Shortened, Renaming, BeingRenamed
  <1>6. \A n \in Names : \A e : Owed(n, e)' = Owed(n, e) /\ Owed(n, e) = ClustersFor(e.len)
    BY <1>5 DEF Owed
  <1>7. \A n \in Names : \A e : Line(n, e)' = Line(n, e)
    BY <1>1, <1>6 DEF Line
  <1>a. Still
    BY <1>1, StillPlace
  <1>8. /\ \A n \in Names : flight.dir[n] = {dir[n]}
        /\ \A c \in Clusters : flight.bitmap[c] = {bitmap[c]} /\ flight.writer[c] = {writer[c]}
                               /\ flight.fat[c] = {fat[c]}
    BY <1>1 DEF SafeInv, FlushedInv, AllWritten, Settled
  <1>9. /\ \A n \in Names : flight'.dir[n] \subseteq {dir[n], dir'[n]}
        /\ \A c \in Clusters : flight'.bitmap[c] \subseteq {bitmap[c]}
                               /\ flight'.writer[c] \subseteq {writer[c]}
                               /\ flight'.fat[c] \subseteq {fat[c]}
    BY <1>a, <1>1, <1>8 DEF Grows, Still
  <1>10. \A n \in Names : \A e \in Entries(n)' :
             (e \in Entries(n) /\ e = dir[n]) \/ (n = m /\ e = new)
    <2> TAKE n \in Names
    <2> TAKE e \in Entries(n)'
    <2>1. e \in flight'.dir[n] /\ e.used
      BY DEF Entries
    <2>2. dir[n] \in flight.dir[n]
      BY <1>8
    <2>3. QED BY <1>4, <1>9, <2>1, <2>2 DEF Entries
  <1>11. /\ \A i \in 1 .. k : w[i] = chain[i] /\ w[i] \in Clusters /\ bitmap[w[i]]
         /\ \A i, j \in 1 .. k : w[i] = w[j] => i = j
         /\ \A n \in Names \ {m} : \A e \in Entries(n) :
               \A i \in 1 .. Owed(n, e), j \in 1 .. k : Line(n, e)[i] # w[j]
         /\ \A p \in 0 .. call.len - 1 :
               /\ p \div ClusterBytes + 1 \in 1 .. k
               /\ writer[w[p \div ClusterBytes + 1]][p % ClusterBytes] = call.name
         /\ call.old > 0 => call.first = dir[m].first
    <2> DEFINE l == Len(chain)
    <2>1. Filling
      BY <1>1 DEF Filling
    <2>2. l = k /\ \A i \in 1 .. l : chain[i] = w[i]
      BY <2>1 DEF SafeInv, VectorInv
    <2>3. \A i \in 1 .. l : chain[i] \in Clusters
      BY Types DEF Ground
    <2>4. /\ \A i \in 1 .. l : bitmap[chain[i]]
          /\ \A i, j \in 1 .. l : chain[i] = chain[j] => i = j
          /\ \A n \in Names \ {m} : \A e \in Entries(n) :
                \A i \in 1 .. Owed(n, e), j \in 1 .. l : Line(n, e)[i] # chain[j]
          /\ \A p \in 0 .. l * ClusterBytes - 1 : p < pos \/ p < dir[m].len =>
                writer[chain[p \div ClusterBytes + 1]][p % ClusterBytes] = call.name
      BY <2>1 DEF SafeInv, GrownInv, Distinct
    <2>5. call.old > 0 => call.first = dir[m].first
      BY <2>1 DEF SafeInv, VectorInv
    <2> HIDE DEF l, w, k
    <2>6. ASSUME NEW p \in 0 .. call.len - 1
          PROVE  /\ p \div ClusterBytes + 1 \in 1 .. k
                 /\ writer[w[p \div ClusterBytes + 1]][p % ClusterBytes] = call.name
      <3>1. p \in 0 .. k * ClusterBytes - 1 /\ p \div ClusterBytes + 1 \in 1 .. k
        BY <1>2, BytesFit DEF k
      <3>2. p < pos \/ p < dir[m].len
        BY <1>2
      <3>3. writer[chain[p \div ClusterBytes + 1]][p % ClusterBytes] = call.name
        BY <2>2, <2>4, <3>1, <3>2
      <3>4. QED BY <2>2, <3>1, <3>3
    <2>7. \A i \in 1 .. k : w[i] = chain[i] /\ w[i] \in Clusters /\ bitmap[w[i]]
      BY <2>2, <2>3, <2>4
    <2>8. \A i, j \in 1 .. k : w[i] = w[j] => i = j
      BY <2>2, <2>4
    <2>9. \A n \in Names \ {m} : \A e \in Entries(n) :
               \A i \in 1 .. Owed(n, e), j \in 1 .. k : Line(n, e)[i] # w[j]
      BY <2>2, <2>4
    <2>10. QED BY <2>5, <2>6, <2>7, <2>8, <2>9
  <1>12. Line(m, new) = w /\ Owed(m, new) = k
    BY <1>2, <1>4, <1>6 DEF Line
  <1> HIDE DEF w, k, new
  <1>13. \A i \in 1 .. k - 1 : i \in 1 .. k /\ fat[w[i]] = w[i + 1]
    <2>1. \A i \in 1 .. k - 1 : w[i + 1] = IF w[i] \in Clusters THEN fat[w[i]] ELSE 0
      BY <1>3, ChainSteps DEF w
    <2>2. \A i \in 1 .. k - 1 : i \in 1 .. k
      BY <1>3
    <2>3. QED BY <1>11, <2>1, <2>2
  <1>14. PinnedInv'
    <2> SUFFICES ASSUME NEW n \in Names, NEW e \in Entries(n)'
                 PROVE  Pinned(flight', Line(n, e)', Owed(n, e)')
      BY DEF PinnedInv
    <2>1. CASE e \in Entries(n)
      <3>1. Pinned(flight, Line(n, e), Owed(n, e))
        BY <2>1 DEF SafeInv, PinnedInv
      <3> DEFINE v == Line(n, e)
                 o == Owed(n, e)
      <3>2. v = Line(n, e)' /\ o = Owed(n, e)'
        BY <1>6, <1>7
      <3>3. o \in Nat
        BY <2>1, LinesMarked DEF SafeInv
      <3> HIDE DEF v, o
      <3>4. /\ \A i \in 1 .. o : v[i] \in Clusters /\ flight.bitmap[v[i]] \subseteq {TRUE}
            /\ \A i \in 1 .. o - 1 : flight.fat[v[i]] \subseteq {v[i + 1]}
            /\ \A i, j \in 1 .. o : v[i] = v[j] => i = j
        BY <3>1 DEF Pinned, v, o
      <3>5. \A i \in 1 .. o - 1 : i \in 1 .. o
        BY <3>3
      <3>6. /\ \A i \in 1 .. o : v[i] \in Clusters /\ flight'.bitmap[v[i]] \subseteq {TRUE}
            /\ \A i \in 1 .. o - 1 : flight'.fat[v[i]] \subseteq {v[i + 1]}
        <4>1. \A c \in Clusters : flight'.bitmap[c] \subseteq flight.bitmap[c]
                                  /\ flight'.fat[c] \subseteq flight.fat[c]
          BY <1>8, <1>9
        <4>2. \A i \in 1 .. o : v[i] \in Clusters /\ flight'.bitmap[v[i]] \subseteq {TRUE}
          BY <3>4, <4>1
        <4>3. \A i \in 1 .. o - 1 : flight'.fat[v[i]] \subseteq {v[i + 1]}
          BY <3>4, <3>5, <4>1
        <4>4. QED BY <4>2, <4>3
      <3>7. Pinned(flight', v, o)
        BY <3>4, <3>6 DEF Pinned
      <3>8. QED BY <3>2, <3>7
    <2>2. CASE n = m /\ e = new
      <3>1. Line(n, e)' = w /\ Owed(n, e)' = k
        BY <1>6, <1>7, <1>12, <2>2
      <3>2. \A i \in 1 .. k : w[i] \in Clusters /\ flight'.bitmap[w[i]] \subseteq {TRUE}
        <4> TAKE i \in 1 .. k
        <4>1. w[i] \in Clusters /\ bitmap[w[i]] = TRUE
          BY <1>11 DEF Ground, TypeOK
        <4>2. QED BY <1>9, <4>1
      <3>3. \A i \in 1 .. k - 1 : flight'.fat[w[i]] \subseteq {w[i + 1]}
        BY <1>9, <1>11, <1>13
      <3>4. Pinned(flight', w, k)
        BY <1>11, <3>2, <3>3 DEF Pinned
      <3>5. QED BY <3>1, <3>4
    <2>3. QED BY <1>10, <2>1, <2>2
  <1>15. ApartInv'
    <2> SUFFICES ASSUME NEW a \in Names, NEW b \in Names, a # b,
                        NEW e \in Entries(a)', NEW g \in Entries(b)',
                        NEW i \in 1 .. Owed(a, e)', NEW j \in 1 .. Owed(b, g)'
                 PROVE  Line(a, e)'[i] # Line(b, g)'[j]
      BY DEF ApartInv, Distinct
    <2>1. /\ Line(a, e)' = Line(a, e) /\ Line(b, g)' = Line(b, g)
          /\ i \in 1 .. Owed(a, e) /\ j \in 1 .. Owed(b, g)
      BY <1>6, <1>7
    <2>2. CASE e \in Entries(a) /\ g \in Entries(b)
      BY <1>5, <2>1, <2>2 DEF SafeInv, ApartInv, Distinct
    <2>3. CASE a = m /\ e = new /\ g \in Entries(b)
      BY <1>11, <1>12, <2>1, <2>3
    <2>4. CASE b = m /\ g = new /\ e \in Entries(a)
      BY <1>11, <1>12, <2>1, <2>4
    <2>5. QED BY <1>10, <2>2, <2>3, <2>4
  <1>16. SameInv'
    <2> SUFFICES ASSUME NEW n \in Names
                 PROVE  /\ \A e, g \in Entries(n)' : e.len > 0 /\ g.len > 0 => e.first = g.first
                        /\ \A e \in Entries(n)' : e.len <= dir'[n].len
      BY DEF SameInv
    <2>1. \A e \in Entries(n)' : e = dir[n] \/ (n = m /\ e = new)
      BY <1>10
    <2>2. dir[n].len \in Nat
      BY DEF Ground, TypeOK, Entry
    <2>3. n = m => /\ dir[n].len <= new.len /\ new.len <= new.len
                   /\ dir[n].len > 0 => dir[n].first = new.first
      <3>1. dir[m].len > 0 => call.old > 0
        BY <1>2, ClustersForType
      <3>2. QED BY <1>2, <1>4, <1>11, <3>1 DEF new
    <2>4. QED BY <1>4, <2>1, <2>2, <2>3
  <1>17. BytesInv'
    <2> SUFFICES ASSUME NEW n \in Names, NEW e \in Entries(n)', NEW p \in 0 .. e.len - 1,
                        p \div ClusterBytes + 1 <= Owed(n, e)',
                        NEW x \in flight'.writer[Line(n, e)'[p \div ClusterBytes + 1]]
                 PROVE  x[p % ClusterBytes] \in Authors(n)'
      BY DEF BytesInv
    <2> DEFINE q == p \div ClusterBytes + 1
               b == p % ClusterBytes
    <2>0. Authors(n)' = {n} /\ Authors(n) = {n}
      BY <1>1 DEF Authors
    <2>1. x \in flight'.writer[Line(n, e)[q]] /\ q <= Owed(n, e)
      BY <1>6, <1>7
    <2>2. CASE e \in Entries(n)
      <3>1. \A y \in flight.writer[Line(n, e)[q]] : y[b] \in Authors(n)
        BY <2>1, <2>2 DEF SafeInv, BytesInv
      <3>2. e.len \in Nat
        BY EmptyLine
      <3>3. q \in 1 .. ClustersFor(e.len)
        BY <3>2, BytesFit
      <3>4. Line(n, e)[q] \in Clusters
        <4> HIDE DEF q
        <4>1. QED BY <1>6, <2>2, <3>3, LinesMarked DEF SafeInv
      <3> HIDE DEF q, b
      <3>5. x[b] \in Authors(n)'
        BY <2>0, <1>8, <1>9, <2>1, <3>1, <3>4
      <3>6. QED BY <3>5 DEF b
    <2>3. CASE n = m /\ e = new
      <3>1. q \in 1 .. k /\ writer[w[q]][b] = m
        BY <1>4, <1>11, <2>3 DEF new
      <3> HIDE DEF q, b
      <3>2. x = writer[w[q]]
        BY <1>9, <1>11, <1>12, <2>1, <2>3, <3>1
      <3>3. QED BY <2>0, <2>3, <3>1, <3>2 DEF b
    <2>4. QED BY <1>10, <2>2, <2>3
  <1>18. ~Filling'
    BY <1>1 DEF Filling
  <1>19. TakenInv' /\ FreedInv' /\ FlushedInv' /\ GrownInv' /\ VectorInv'
    BY <1>1, <1>18 DEF TakenInv, FreedInv, FlushedInv, GrownInv, VectorInv
  <1>20. SizesInv' /\ TwoNamesInv' /\ RenamesInv'
    BY <1>1 DEF SizesInv, TwoNamesInv, RenamesInv
  <1>21. CountsInv'
    BY <1>1, <1>2, <1>4, <1>18 DEF CountsInv
  <1>22. QED
    BY <1>14, <1>15, <1>16, <1>17, <1>19, <1>20, <1>21 DEF SafeInv

-----------------------------------------------------------------------------
(* The start of a call *)

FirstPCs == {"read", "alloc", "clear flush", "flush"}

(* It writes at most an entry: a failure leaves of the clusters what it left
   before, and no entry has another line. *)
LEMMA BeginFacts ==
    ASSUME Ground, Ground', Grows, Signed, SafeInv, Idle, UNCHANGED <<bitmap, fat, data>>,
           pc' \in FirstPCs,
           call'.kind = "shrink" => pc' # "flush"
    PROVE  /\ pc = "idle" /\ call.kind = "none"
           /\ \A n \in Names : ~Shortened(n) /\ ~Shortened(n)' /\ ~Renaming(n)
           /\ \A m, n \in Names : ~BeingRenamed(m, n)
           /\ \A n \in Names : \A e : Owed(n, e)' = Owed(n, e) /\ Line(n, e)' = Line(n, e)
           /\ \A c \in Clusters : /\ flight'.bitmap[c] \subseteq flight.bitmap[c]
                                  /\ flight'.fat[c] \subseteq flight.fat[c]
                                  /\ flight'.writer[c] \subseteq flight.writer[c]
           /\ \A n \in Names : \A e \in Entries(n) : Pinned(flight', Line(n, e), Owed(n, e))
           /\ Clean
  <1>1. pc = "idle" /\ call.kind = "none"
    BY DEF Idle, Ground, KindInv
  <1>2. /\ \A n \in Names : ~Shortened(n) /\ ~Shortened(n)' /\ ~Renaming(n)
        /\ \A m, n \in Names : ~BeingRenamed(m, n)
    BY <1>1 DEF Shortened, Renaming, BeingRenamed, FirstPCs
  <1>3. \A n \in Names : \A e : Owed(n, e)' = ClustersFor(e.len) /\ Owed(n, e) = ClustersFor(e.len)
    BY <1>2 DEF Owed
  <1>4. \A n \in Names : \A e : Owed(n, e)' = Owed(n, e) /\ Line(n, e)' = Line(n, e)
    BY <1>3 DEF Line
  <1>5. \A c \in Clusters : /\ flight'.bitmap[c] \subseteq flight.bitmap[c]
                            /\ flight'.fat[c] \subseteq flight.fat[c]
                            /\ flight'.writer[c] \subseteq flight.writer[c]
    BY <1>1, StillPlace DEF Grows, Ground, FlightInv, Still
  <1>6. ASSUME NEW n \in Names, NEW e \in Entries(n)
        PROVE  Pinned(flight', Line(n, e), Owed(n, e))
    <2> DEFINE v == Line(n, e)
               o == Owed(n, e)
    <2>1. Pinned(flight, v, o)
      BY DEF SafeInv, PinnedInv
    <2>2. o \in Nat
      BY LinesMarked DEF SafeInv
    <2> HIDE DEF v, o
    <2>3. /\ \A i \in 1 .. o : v[i] \in Clusters /\ flight.bitmap[v[i]] \subseteq {TRUE}
          /\ \A i \in 1 .. o - 1 : flight.fat[v[i]] \subseteq {v[i + 1]}
          /\ \A i, j \in 1 .. o : v[i] = v[j] => i = j
      BY <2>1 DEF Pinned
    <2>4. \A i \in 1 .. o - 1 : i \in 1 .. o
      <3> TAKE i \in 1 .. o - 1
      <3>1. QED BY <2>2
    <2>5. \A i \in 1 .. o : v[i] \in Clusters /\ flight'.bitmap[v[i]] \subseteq {TRUE}
      BY <1>5, <2>3
    <2>6. \A i \in 1 .. o - 1 : flight'.fat[v[i]] \subseteq {v[i + 1]}
      BY <1>5, <2>3, <2>4
    <2>7. Pinned(flight', v, o)
      BY <2>3, <2>5, <2>6 DEF Pinned
    <2>8. QED BY <2>7 DEF v, o
  <1>7. Clean
    <2>1. \A n \in Names : Authors(n) = {n} /\ n \in Authors(n)'
      BY <1>1 DEF Authors
    <2>2. QED BY <1>5, <2>1, CleanPicks
  <1>8. QED BY <1>1, <1>2, <1>4, <1>5, <1>6, <1>7

(* The lines of a call that adds an empty file or none. *)
LEMMA BeginLines ==
    ASSUME Ground, Ground', Grows, Signed, SafeInv, Idle, UNCHANGED <<bitmap, fat, data>>,
           pc' \in FirstPCs,
           call'.kind = "shrink" => pc' # "flush",
           \A n \in Names : \A e \in Entries(n)' : e.len = 0 \/ e \in Entries(n)
    PROVE  LinesComeFrom /\ PinnedInv' /\ ApartInv' /\ BytesInv'
  <1>1. /\ \A m, n \in Names : ~BeingRenamed(m, n)
        /\ \A n \in Names : \A e : Owed(n, e)' = Owed(n, e)
        /\ Clean
    BY BeginFacts
  <1>2. AllTraced
    <2> SUFFICES ASSUME NEW n \in Names, NEW e \in Entries(n)', e.len # 0
                 PROVE  e \in Entries(n) /\ Traced(n, e, e)
      BY DEF AllTraced
    <2>1. e \in Entries(n) /\ e.len <= e.len
      <3>1. e.len \in Nat
        BY EmptyLine
      <3>2. e \in Entries(n)
        OBVIOUS
      <3>3. QED BY <3>1, <3>2
    <2>2. /\ Owed(n, e) \in Nat
          /\ \A i \in 1 .. Owed(n, e) : bitmap[Line(n, e)[i]]
      BY <2>1, LinesMarked DEF SafeInv
    <2>3. Owed(n, e)' = Owed(n, e)
      BY <1>1
    <2>4. /\ Owed(n, e)' <= Owed(n, e)
          /\ \A i \in 1 .. Owed(n, e)' : bitmap'[Line(n, e)[i]]
          /\ \A i \in 1 .. Owed(n, e)' - 1 : fat'[Line(n, e)[i]] = fat[Line(n, e)[i]]
      BY <2>2, <2>3
    <2>5. QED BY <2>1, <2>4 DEF Traced
  <1>3. LinesComeFrom /\ PinnedInv'
    BY <1>2, TracedLines DEF SafeInv
  <1>4. ApartInv'
    BY <1>1, <1>3, TracedApart DEF SafeInv
  <1>5. BytesInv'
    BY <1>1, <1>3, TracedBytes DEF SafeInv
  <1>6. QED BY <1>3, <1>4, <1>5

(* A call on names has no sizes and no clusters yet. *)
LEMMA NameCallRest ==
    ASSUME pc' \in {"clear flush", "flush"}, call'.kind \in {"create", "remove", "rename"}
    PROVE  TakenInv' /\ GrownInv' /\ VectorInv' /\ FlushedInv' /\ CountsInv' /\ SizesInv'
  <1>1. ~Filling'
    BY DEF Filling
  <1>2. QED BY <1>1 DEF TakenInv, GrownInv, VectorInv, FlushedInv, CountsInv, SizesInv

(* A new entry has no clusters. *)
LEMMA SafeCreate ==
    ASSUME Ground, Ground', Grows, Signed, SafeInv, NEW m \in Names, Create(m)
    PROVE  SafeInv'
  <1>1. /\ Idle /\ pc' = "flush" /\ call'.kind = "create"
        /\ UNCHANGED <<bitmap, fat, data>>
        /\ dir' = [dir EXCEPT ![m] = NewEntry(0, 0)]
    BY DEF Create, NameCall
  <1>2. /\ dir'[m].len = 0
        /\ \A n \in Names \ {m} : dir'[n] = dir[n]
    BY <1>1 DEF Ground, TypeOK, NewEntry
  <1>3. \A n \in Names : \A e \in Entries(n)' : e \in Entries(n) \/ (n = m /\ e.len = 0)
    <2> TAKE n \in Names
    <2>1. CASE n = m
      BY <1>2, <2>1, EntriesFrom
    <2>2. CASE n # m
      BY <1>2, <2>2, EntriesFrom DEF Ground, FlightInv
    <2>3. QED BY <2>1, <2>2
  <1>4. /\ pc = "idle"
        /\ \A n \in Names : ~Shortened(n) /\ ~Renaming(n)
    BY <1>1, BeginFacts DEF FirstPCs
  <1>5. PinnedInv' /\ ApartInv' /\ BytesInv'
    BY <1>1, <1>3, BeginLines DEF FirstPCs
  <1>6. SameInv'
    <2> SUFFICES ASSUME NEW n \in Names
                 PROVE  /\ \A e, g \in Entries(n)' : e.len > 0 /\ g.len > 0 => e.first = g.first
                        /\ dir'[n].len > 0 => \A e \in Entries(n)' : dir'[n].used => e.len <= dir'[n].len
      BY DEF SameInv
    <2>1. /\ \A e, g \in Entries(n) : e.len > 0 /\ g.len > 0 => e.first = g.first
          /\ dir[n].used /\ dir[n].len > 0 => \A e \in Entries(n) : e.len <= dir[n].len
      BY <1>4 DEF SafeInv, SameInv
    <2>2. \A e, g \in Entries(n)' : e.len > 0 /\ g.len > 0 => e.first = g.first
      BY <1>3, <2>1
    <2>3. CASE n = m
      BY <1>2, <2>2, <2>3
    <2>4. CASE n # m
      BY <1>2, <1>3, <2>1, <2>2, <2>4
    <2>5. QED BY <2>3, <2>4
  <1>7. TakenInv' /\ GrownInv' /\ VectorInv' /\ FlushedInv' /\ CountsInv' /\ SizesInv'
    BY <1>1, NameCallRest
  <1>8. FreedInv' /\ TwoNamesInv' /\ RenamesInv'
    BY <1>1 DEF FreedInv, TwoNamesInv, RenamesInv
  <1>9. QED BY <1>5, <1>6, <1>7, <1>8 DEF SafeInv

(* What the removed file's walk will free is in no file's chain. *)
LEMMA SafeRemove ==
    ASSUME Ground, Ground', Grows, Signed, SafeInv, NEW m \in Names, Remove(m), ~Tangled(m)
    PROVE  SafeInv'
  <1>1. /\ Idle /\ pc' \in {"flush", "clear flush"} /\ call'.kind = "remove"
        /\ UNCHANGED <<bitmap, fat, data>>
        /\ dir[m].used /\ dir' = [dir EXCEPT ![m] = NoEntry]
        /\ cur' = dir[m].first
    BY DEF Remove, NameCall
  <1>2. /\ ~dir'[m].used
        /\ \A n \in Names \ {m} : dir'[n] = dir[n]
    BY <1>1 DEF Ground, TypeOK, NoEntry
  <1>3. \A n \in Names : Entries(n)' \subseteq Entries(n)
    <2> TAKE n \in Names
    <2>1. CASE n = m
      BY <1>2, <2>1, EntriesFrom
    <2>2. CASE n # m
      BY <1>2, <2>2, EntriesFrom DEF Ground, FlightInv
    <2>3. QED BY <2>1, <2>2
  <1>4. /\ pc = "idle"
        /\ \A n \in Names : ~Shortened(n) /\ ~Renaming(n)
    BY <1>1, BeginFacts DEF FirstPCs
  <1>5. PinnedInv' /\ ApartInv' /\ BytesInv'
    <2>1. \A n \in Names : \A e \in Entries(n)' : e.len = 0 \/ e \in Entries(n)
      BY <1>3
    <2>2. QED BY <1>1, <2>1, BeginLines DEF FirstPCs
  <1>6. SameInv'
    <2>1. ASSUME NEW n \in Names
          PROVE  /\ ~Renaming(n) /\ Entries(n)' \subseteq Entries(n)
                 /\ dir'[n].used /\ dir'[n].len > 0 /\ ~Shortened(n)'
                       => dir'[n] = dir[n] /\ ~Shortened(n)
      BY <1>2, <1>3, <1>4
    <2>2. QED BY <2>1, SameKept DEF SafeInv
  <1>7. TakenInv' /\ GrownInv' /\ VectorInv' /\ FlushedInv' /\ CountsInv' /\ SizesInv'
    BY <1>1, NameCallRest
  <1>8. FreedInv'
    <2>1. ASSUME NEW n \in Names, dir'[n].used, NEW i \in 1 .. ClustersFor(dir[n].len)
          PROVE  ChainFrom(fat, dir[n].first, ClustersFor(dir[n].len))[i]
                     \notin Tree(fat, dir[m].first)
      <3> DEFINE k == ClustersFor(dir[n].len)
                 w == ChainFrom(fat, dir[n].first, k)
      <3>1. n # m /\ dir[n].used /\ ~Shortened(n)
        BY <1>2, <1>4, <2>1
      <3>2. k \in Nat /\ \A j \in 1 .. k : w[j] \in Clusters
        BY <3>1, FileLine DEF SafeInv, LineInv
      <3>3. w[i] \in Tree(fat, dir[n].first)
        BY <3>2, ChainInTree DEF Chained
      <3>4. Reach(m) \cap Reach(n) = {}
        BY <3>1 DEF Tangled
      <3>5. QED BY <1>1, <3>1, <3>3, <3>4 DEF Reach
    <2>2. \A n \in Names : dir'[n].used =>
              \A i \in 1 .. ClustersFor(dir'[n].len) :
                  ChainFrom(fat', dir'[n].first, ClustersFor(dir'[n].len))[i] \notin Tree(fat', cur')
      <3> TAKE n \in Names
      <3> SUFFICES ASSUME dir'[n].used
                   PROVE  \A i \in 1 .. ClustersFor(dir'[n].len) :
                  ChainFrom(fat', dir'[n].first, ClustersFor(dir'[n].len))[i] \notin Tree(fat', cur')
        OBVIOUS
      <3>1. dir'[n] = dir[n] /\ fat' = fat /\ cur' = dir[m].first
        BY <1>1, <1>2
      <3>2. QED BY <2>1, <3>1
    <2>3. QED BY <1>1, <2>2 DEF FreedInv
  <1>9. TwoNamesInv' /\ RenamesInv'
    BY <1>1 DEF TwoNamesInv, RenamesInv
  <1>10. QED BY <1>5, <1>6, <1>7, <1>8, <1>9 DEF SafeInv

(* The new name leads to the file of the old one, which the flush has made
   sure a failure leaves there. *)
LEMMA SafeRename ==
    ASSUME Ground, Ground', Grows, Signed, SafeInv, NEW m \in Names, NEW n \in Names \ {m}, Rename(m, n)
    PROVE  SafeInv'
  <1> DEFINE new == dir[m]
  <1>1. /\ Idle /\ pc' = "clear flush"
        /\ call'.kind = "rename" /\ call'.name = m /\ call'.to = n
        /\ UNCHANGED <<bitmap, fat, data>>
        /\ dir[m].used
    BY DEF Rename, NameCall
  <1>2. dir'[n] = new /\ \A q \in Names \ {n} : dir'[q] = dir[q]
    <2>1. dir[m] \in Entry /\ dir \in [Names -> Entry]
      BY DEF Ground, TypeOK
    <2>2. NewEntry(dir[m].first, dir[m].len) = dir[m]
      BY <1>1, <2>1 DEF NewEntry, Entry
    <2>3. dir' = [dir EXCEPT ![n] = dir[m]]
      BY <2>2 DEF Rename
    <2>4. QED BY <2>1, <2>3
  <1>3. \A q \in Names : \A e \in Entries(q)' : e \in Entries(q) \/ (q = n /\ e = new)
    <2> TAKE q \in Names
    <2>1. CASE q = n
      BY <1>2, <2>1, EntriesFrom
    <2>2. CASE q # n
      BY <1>2, <2>2, EntriesFrom DEF Ground, FlightInv
    <2>3. QED BY <2>1, <2>2
  <1>4. /\ pc = "idle"
        /\ \A q \in Names : ~Shortened(q) /\ ~Shortened(q)' /\ ~Renaming(q)
        /\ \A a, b \in Names : ~BeingRenamed(a, b)
        /\ \A q \in Names : \A e : Owed(q, e)' = Owed(q, e) /\ Line(q, e)' = Line(q, e)
        /\ \A c \in Clusters : flight'.writer[c] \subseteq flight.writer[c]
        /\ \A q \in Names : \A e \in Entries(q) : Pinned(flight', Line(q, e), Owed(q, e))
    BY <1>1, BeginFacts DEF FirstPCs
  <1>5. /\ Line(n, new) = Line(m, new) /\ Owed(n, new) = Owed(m, new)
        /\ new \in Entries(m)
    <2>1. Owed(n, new) = Owed(m, new)
      BY <1>4 DEF Owed
    <2>2. QED BY <1>1, <2>1, EntriesAre DEF Line, Ground
  <1> HIDE DEF new
  <1>6. \A q \in Names : \A e \in Entries(q)' : \E p \in Names :
            /\ e \in Entries(p) /\ Line(q, e)' = Line(p, e) /\ Owed(q, e)' = Owed(p, e)
            /\ p = q \/ (p = m /\ q = n)
    <2> TAKE q \in Names
    <2> TAKE e \in Entries(q)'
    <2>1. CASE e \in Entries(q)
      BY <1>4, <2>1
    <2>2. CASE q = n /\ e = new
      <3>1. Line(q, e)' = Line(m, e) /\ Owed(q, e)' = Owed(m, e) /\ e \in Entries(m)
        BY <1>4, <1>5, <2>2
      <3>2. QED BY <2>2, <3>1
    <2>3. QED BY <1>3, <2>1, <2>2
  <1>7. PinnedInv'
    <2> SUFFICES ASSUME NEW q \in Names, NEW e \in Entries(q)'
                 PROVE  Pinned(flight', Line(q, e)', Owed(q, e)')
      BY DEF PinnedInv
    <2>1. PICK p \in Names : /\ e \in Entries(p)
                             /\ Line(q, e)' = Line(p, e) /\ Owed(q, e)' = Owed(p, e)
      BY <1>6
    <2>2. Pinned(flight', Line(p, e), Owed(p, e))
      BY <1>4, <2>1
    <2>3. QED BY <2>1, <2>2
  <1>8. ApartInv'
    <2> SUFFICES ASSUME NEW a \in Names, NEW b \in Names, a # b, ~BeingRenamed(a, b)',
                        NEW e \in Entries(a)', NEW g \in Entries(b)',
                        NEW i \in 1 .. Owed(a, e)', NEW j \in 1 .. Owed(b, g)'
                 PROVE  Line(a, e)'[i] # Line(b, g)'[j]
      BY DEF ApartInv, Distinct
    <2>1. PICK p \in Names : /\ e \in Entries(p) /\ (p = a \/ (p = m /\ a = n))
                             /\ Line(a, e)' = Line(p, e) /\ Owed(a, e)' = Owed(p, e)
      BY <1>6
    <2>2. PICK q \in Names : /\ g \in Entries(q) /\ (q = b \/ (q = m /\ b = n))
                             /\ Line(b, g)' = Line(q, g) /\ Owed(b, g)' = Owed(q, g)
      BY <1>6
    <2>3. {a, b} # {m, n}
      BY <1>1 DEF BeingRenamed
    <2>4. p # q
      BY <2>1, <2>2, <2>3
    <2>5. Line(p, e)[i] # Line(q, g)[j]
      BY <1>4, <2>1, <2>2, <2>4 DEF SafeInv, ApartInv, Distinct
    <2>6. QED BY <2>1, <2>2, <2>5
  <1>9. SameInv'
    <2>1. ASSUME NEW q \in Names, ~Renaming(q)'
          PROVE  /\ ~Renaming(q) /\ Entries(q)' \subseteq Entries(q)
                 /\ dir'[q].used /\ dir'[q].len > 0 /\ ~Shortened(q)'
                       => dir'[q] = dir[q] /\ ~Shortened(q)
      <3>1. q # n
        BY <1>1, <2>1 DEF Renaming
      <3>2. QED BY <1>2, <1>3, <1>4, <3>1
    <2>2. QED BY <2>1, SameKept DEF SafeInv
  <1>10. BytesInv'
    <2> SUFFICES ASSUME NEW q \in Names, NEW e \in Entries(q)', NEW p \in 0 .. e.len - 1,
                        p \div ClusterBytes + 1 <= Owed(q, e)',
                        NEW x \in flight'.writer[Line(q, e)'[p \div ClusterBytes + 1]]
                 PROVE  x[p % ClusterBytes] \in Authors(q)'
      BY DEF BytesInv
    <2> DEFINE r == p \div ClusterBytes + 1
               b == p % ClusterBytes
    <2>1. PICK o \in Names : /\ e \in Entries(o) /\ (o = q \/ (o = m /\ q = n))
                             /\ Line(q, e)' = Line(o, e) /\ Owed(q, e)' = Owed(o, e)
      BY <1>6
    <2>a. Authors(o) = {o} /\ o \in Authors(q)'
      <3>1. call.kind = "none"
        BY <1>4 DEF Ground, KindInv
      <3>2. QED BY <1>1, <2>1, <3>1 DEF Authors
    <2>2. \A y \in flight.writer[Line(o, e)[r]] : y[b] \in Authors(o)
      BY <2>1 DEF SafeInv, BytesInv
    <2>3. r \in 1 .. ClustersFor(e.len)
      <3>1. e.len \in Nat
        BY EmptyLine
      <3>2. QED BY <3>1, BytesFit
    <2>4. Owed(o, e) = ClustersFor(e.len)
      BY <1>4 DEF Owed
    <2> HIDE DEF r, b
    <2>5. Line(o, e)[r] \in Clusters
      BY <2>1, <2>3, <2>4, LinesMarked DEF SafeInv
    <2>6. x[b] \in Authors(q)'
      <3>1. x \in flight'.writer[Line(o, e)[r]]
        BY <2>1 DEF r
      <3>2. QED BY <1>4, <2>a, <2>2, <2>5, <3>1
    <2>7. QED BY <2>6 DEF b
  <1>11. TakenInv' /\ GrownInv' /\ VectorInv' /\ FlushedInv' /\ CountsInv' /\ SizesInv'
    BY <1>1, NameCallRest
  <1>12. FreedInv'
    BY <1>1 DEF FreedInv
  <1>13. TwoNamesInv' /\ RenamesInv'
    BY <1>1, <1>2 DEF TwoNamesInv, RenamesInv, new
  <1>14. QED BY <1>7, <1>8, <1>9, <1>10, <1>11, <1>12, <1>13 DEF SafeInv

(* The lines of a call that starts without a write. *)
LEMMA BeginQuiet ==
    ASSUME Ground, Ground', Grows, Signed, SafeInv, Idle, UNCHANGED <<bitmap, fat, data, dir>>,
           pc' \in FirstPCs, call'.kind = "shrink" => pc' # "flush"
    PROVE  PinnedInv' /\ ApartInv' /\ SameInv' /\ BytesInv'
  <1>1. \A n \in Names : Entries(n)' \subseteq Entries(n)
    BY EntriesFrom DEF Ground, FlightInv
  <1>2. \A n \in Names : \A e \in Entries(n)' : e.len = 0 \/ e \in Entries(n)
    BY <1>1
  <1>3. PinnedInv' /\ ApartInv' /\ BytesInv'
    BY <1>2, BeginLines
  <1>4. \A n \in Names : ~Shortened(n) /\ ~Renaming(n)
    BY BeginFacts
  <1>5. SameInv'
    <2>1. ASSUME NEW n \in Names
          PROVE  /\ ~Renaming(n) /\ Entries(n)' \subseteq Entries(n)
                 /\ dir'[n].used /\ dir'[n].len > 0 /\ ~Shortened(n)'
                       => dir'[n] = dir[n] /\ ~Shortened(n)
      BY <1>1, <1>4
    <2>2. QED BY <2>1, SameKept DEF SafeInv
  <1>6. QED BY <1>3, <1>5

(* The sizes a write computes are those of its file. *)
LEMMA SafeStartWrite ==
    ASSUME Ground, Ground', Grows, Signed, SafeInv, Idle, NEW m \in Names,
           NEW off \in Nat, NEW cnt \in Nat, NEW v \in Bytes, cnt > 0, dir[m].used,
           StartWrite(m, off, cnt, v)
    PROVE  SafeInv'
  <1> DEFINE len == dir[m].len
             size == IF off + cnt > len THEN off + cnt ELSE len
             old == ClustersFor(len)
             new == ClustersFor(size)
             need == IF new > old THEN new - old ELSE 0
  <1>1. /\ call' = SizeCall("write", m, off, cnt, v, dir[m].first, size, old, need)
        /\ pc' = IF len = 0 THEN "alloc" ELSE "read"
        /\ pos' = FillStart(len, off)
        /\ cur' = dir[m].first
        /\ UNCHANGED <<bitmap, fat, data, dir, chain, got, linked, todo>>
    BY DEF StartWrite, disk
  <1>2. /\ call'.kind = "write" /\ call'.name = m /\ call'.off = off /\ call'.cnt = cnt
        /\ call'.first = dir[m].first /\ call'.len = size /\ call'.old = old /\ call'.count = need
    BY <1>1 DEF SizeCall
  <1>3. len \in Nat /\ size \in Nat /\ old \in Nat /\ new \in Nat /\ need = new - old
        /\ len <= size /\ size > 0 /\ need \in Nat
    <2>1. len \in Nat
      BY DEF Ground, TypeOK, Entry
    <2> HIDE DEF len
    <2>2. size \in Nat /\ len <= size /\ size > 0
      BY <2>1
    <2> HIDE DEF size
    <2>3. old \in Nat /\ new \in Nat /\ old <= new
      BY <2>1, <2>2, ClustersForType, ClustersForMonotone
    <2> HIDE DEF old, new
    <2>4. QED BY <2>1, <2>2, <2>3
  <1>4. /\ len = 0 => old = 0 /\ need > 0
        /\ len # 0 => old > 0
    <2>1. new > 0
      BY <1>3, ClustersForType
    <2>2. len = 0 => old = 0
      BY ClustersForZero
    <2>3. len # 0 => old > 0
      <3> HIDE DEF len
      <3>1. QED BY <1>3, ClustersForType
    <2> HIDE DEF len, size, old, new, need
    <2>4. QED BY <1>3, <2>1, <2>2, <2>3
  <1>5. pc' \in {"alloc", "read"} /\ (pc' = "alloc" <=> len = 0)
    BY <1>1
  <1>6. chain' = << >> /\ got' = << >> /\ Len(chain') = 0 /\ Len(got') = 0
    <2>1. pc = "idle"
      BY DEF Idle
    <2>2. chain = << >> /\ got = << >>
      BY <2>1 DEF Ground, LocalsInv
    <2>3. QED BY <1>1, <2>2
  <1> HIDE DEF len, size, old, new, need
  <1>7. PinnedInv' /\ ApartInv' /\ SameInv' /\ BytesInv'
    BY <1>1, <1>2, <1>5, BeginQuiet DEF FirstPCs
  <1>8. ~Filling'
    BY <1>5 DEF Filling
  <1>9. FreedInv' /\ FlushedInv' /\ GrownInv' /\ TwoNamesInv' /\ RenamesInv'
    BY <1>2, <1>5, <1>8 DEF FreedInv, FlushedInv, GrownInv, TwoNamesInv, RenamesInv
  <1>10. TakenInv'
    BY <1>5, <1>6 DEF TakenInv
  <1>11. SizesInv'
    BY <1>1, <1>2, <1>3 DEF SizesInv, len, size, old, new
  <1>12. VectorInv'
    <2>1. pc' = "read" => /\ Len(chain') < call'.old
                          /\ cur' = ChainFrom(fat', call'.first, call'.old)[Len(chain') + 1]
      <3> SUFFICES ASSUME pc' = "read"
                   PROVE  /\ Len(chain') < old
                          /\ cur' = ChainFrom(fat', dir[m].first, old)[Len(chain') + 1]
        BY <1>2
      <3>1. old > 0
        BY <1>4, <1>5
      <3>2. ChainFrom(fat', dir[m].first, old)[1] = dir[m].first
        BY <1>3, <3>1, ChainSteps
      <3>3. QED BY <1>1, <1>6, <3>1, <3>2
    <2>2. pc' = "alloc" => Len(chain') = call'.old /\ Len(got') < call'.count
      BY <1>2, <1>4, <1>5, <1>6
    <2>3. \A i \in 1 .. Len(chain') : chain'[i] = ChainFrom(fat', call'.first, call'.old)[i]
      BY <1>6
    <2>4. QED BY <1>5, <1>8, <2>1, <2>2, <2>3 DEF VectorInv
  <1>13. CountsInv'
    <2>1. pos' = Start'
      BY <1>1, <1>2 DEF Start, len
    <2>2. pc' = "alloc" => call'.count > 0
      BY <1>2, <1>4, <1>5
    <2>3. QED BY <1>1, <1>2, <1>5, <1>8, <2>1, <2>2 DEF CountsInv
  <1>14. QED
    BY <1>7, <1>9, <1>10, <1>11, <1>12, <1>13 DEF SafeInv

(* A truncation first reads the chain of its file. *)
LEMMA SafeShrink ==
    ASSUME Ground, Ground', Grows, Signed, SafeInv, NEW m \in Names, NEW len \in Nat, len > 0,
           Shrink(m, len)
    PROVE  SafeInv'
  <1> DEFINE old == ClustersFor(dir[m].len)
             keep == ClustersFor(len)
  <1>1. /\ call' = SizeCall("shrink", m, 0, 0, Zero, dir[m].first, len, old, keep)
        /\ pc' = "read" /\ cur' = dir[m].first /\ Idle
        /\ dir[m].used /\ len <= dir[m].len /\ dir[m].len > 0
        /\ UNCHANGED <<bitmap, fat, data, dir, chain, got, linked, todo>>
    BY DEF Shrink, disk
  <1>2. /\ call'.kind = "shrink" /\ call'.name = m
        /\ call'.first = dir[m].first /\ call'.len = len /\ call'.old = old /\ call'.count = keep
    BY <1>1 DEF SizeCall
  <1>3. old \in Nat /\ old > 0 /\ keep \in Nat /\ keep > 0
    <2>1. dir[m].len \in Nat
      BY DEF Ground, TypeOK, Entry
    <2>2. QED BY <1>1, <2>1, ClustersForType
  <1>4. chain' = << >> /\ Len(chain') = 0
    <2>1. pc = "idle"
      BY <1>1 DEF Idle
    <2>2. chain = << >>
      BY <2>1 DEF Ground, LocalsInv
    <2>3. QED BY <1>1, <2>2
  <1> HIDE DEF old, keep
  <1>5. PinnedInv' /\ ApartInv' /\ SameInv' /\ BytesInv'
    BY <1>1, <1>2, BeginQuiet DEF FirstPCs
  <1>6. ~Filling'
    BY <1>1 DEF Filling
  <1>7. TakenInv' /\ FreedInv' /\ FlushedInv' /\ GrownInv' /\ TwoNamesInv' /\ RenamesInv'
    BY <1>1, <1>2, <1>6 DEF TakenInv, FreedInv, FlushedInv, GrownInv, TwoNamesInv, RenamesInv
  <1>8. SizesInv'
    BY <1>1, <1>2 DEF SizesInv, old, keep
  <1>9. VectorInv'
    <2>1. /\ Len(chain') < call'.old
          /\ cur' = ChainFrom(fat', call'.first, call'.old)[Len(chain') + 1]
      <3>1. ChainFrom(fat', dir[m].first, old)[1] = dir[m].first
        BY <1>3, ChainSteps
      <3>2. QED BY <1>1, <1>2, <1>3, <1>4, <3>1
    <2>2. \A i \in 1 .. Len(chain') : chain'[i] = ChainFrom(fat', call'.first, call'.old)[i]
      BY <1>4
    <2>3. QED BY <1>1, <1>6, <2>1, <2>2 DEF VectorInv
  <1>10. CountsInv'
    BY <1>1, <1>2, <1>3, <1>6 DEF CountsInv, keep
  <1>11. QED
    BY <1>5, <1>7, <1>8, <1>9, <1>10 DEF SafeInv

(* Every call that cannot cost data starts safe. *)
LEMMA SafeBegin ==
    ASSUME Ground, Ground', Grows, Signed, SafeInv, CacheBegin, ~harmed'
    PROVE  SafeInv'
  <1>1. PICK n \in Names : Call(n)
    BY DEF CacheBegin, Begin
  <1>2. /\ ~(call'.kind = "shrink" /\ call'.len = 0)
        /\ call'.kind = "remove" => ~Tangled(call'.name)
    BY DEF CacheBegin
  <1>3. CASE Create(n)
    BY <1>3, SafeCreate
  <1>4. CASE Remove(n)
    <2>1. call'.kind = "remove" /\ call'.name = n
      BY <1>4 DEF Remove, NameCall
    <2>2. QED BY <1>2, <1>4, <2>1, SafeRemove
  <1>5. ASSUME NEW m \in Names \ {n}, Rename(m, n) PROVE SafeInv'
    BY <1>5, SafeRename
  <1>6. ASSUME NEW len \in 0 .. MaxLen, Extend(n, len) PROVE SafeInv'
    <2> DEFINE pad == len - dir[n].len
               filler == IF pad < ClusterBytes THEN pad ELSE ClusterBytes
    <2>1. /\ dir[n].len \in Nat /\ len > dir[n].len /\ dir[n].used /\ Idle
          /\ StartWrite(n, len - filler, filler, Zero)
      BY <1>6 DEF Extend, Ground, TypeOK, Entry
    <2>2. len - filler \in Nat /\ filler \in Nat /\ filler > 0
      BY <2>1, SizesAssumption
    <2> HIDE DEF filler
    <2>3. QED BY <2>1, <2>2, SafeStartWrite, BytesAssumption
  <1>7. ASSUME NEW len \in 0 .. MaxLen, Shrink(n, len) PROVE SafeInv'
    <2>1. call'.kind = "shrink" /\ call'.len = len
      BY <1>7 DEF Shrink, SizeCall
    <2>2. len \in Nat /\ len > 0
      BY <1>2, <2>1, SizesAssumption
    <2>3. QED BY <1>7, <2>2, SafeShrink
  <1>8. ASSUME NEW off \in 0 .. MaxLen, NEW cnt \in 0 .. MaxLen, NEW v \in Bytes,
               WriteFile(n, off, cnt, v)
        PROVE  SafeInv'
    <2>1. /\ Idle /\ dir[n].used /\ cnt > 0 /\ StartWrite(n, off, cnt, v)
          /\ off \in Nat /\ cnt \in Nat
      BY <1>8, SizesAssumption DEF WriteFile
    <2>2. QED BY <2>1, SafeStartWrite
  <1>9. QED
    BY <1>1, <1>3, <1>4, <1>5, <1>6, <1>7, <1>8 DEF Call

(* Every step inside a call keeps what it knows. *)
LEMMA SafeAdvance ==
    ASSUME Ground, Ground', Grows, Signed, SafeInv, CacheAdvance
    PROVE  SafeInv'
  <1>1. Step /\ CacheAfter(pc \in Barriers)
    BY DEF CacheAdvance, Advance
  <1>2. ~CutToNothing
    <2>1. CutToNothing => call.kind = "shrink" /\ call.count = 0
      BY DEF CutToNothing, Ground, LoopsInv
    <2>2. call.kind = "shrink" => call.count > 0
      BY Zenon DEF SafeInv, CountsInv
    <2>3. ~(0 > 0)
      OBVIOUS
    <2>4. QED BY <2>1, <2>2, <2>3
  <1>3. CASE Publish
    <2>1. call.kind \in {"write", "shrink"}
      BY <1>3 DEF Publish, Ground, KindInv
    <2>2. QED BY <1>3, <2>1, SafePublishShort, SafePublishGrown
  <1>4. CASE \/ ReadChainFails \/ AllocFails \/ WritePastChain \/ CutPanics
             \/ FreeBitFails \/ WalkFails \/ FlushAndReturn
    BY <1>1, <1>4, SafeReturns
  <1>5. CASE ReadChain \/ \E c \in Clusters : AllocCluster(c)
    BY <1>5, SafeReadChain, SafeAllocCluster
  <1>6. CASE LinkCluster \/ StartChain \/ LinkTail \/ WriteData
    BY <1>6, SafeLinkCluster, SafeStartChain, SafeLinkTail, SafeWriteData
  <1>7. CASE CutChain \/ FreeBit \/ FreeFat \/ WalkChain \/ ClearOld
    BY <1>7, SafeCutChain, SafeFreeBit, SafeFreeFat, SafeWalkChain, SafeClearOld
  <1>8. CASE FlushAndGoOn
    BY <1>1, <1>8, SafeFlushAndGoOn
  <1>9. QED
    BY <1>1, <1>2, <1>3, <1>4, <1>5, <1>6, <1>7, <1>8 DEF Step

-----------------------------------------------------------------------------
(* The invariant *)

(* An empty volume has no entry to lose. *)
LEMMA CacheInvInit == CacheInit => CacheInv
  <1> SUFFICES ASSUME CacheInit PROVE CacheInv
    OBVIOUS
  <1>1. Ground
    BY GroundInit
  <1>2. /\ flight = Settled(bitmap, fat, dir, data, writer)
        /\ pc = "idle" /\ call = NoCall
        /\ dir = [n \in Names |-> NoEntry]
    BY DEF CacheInit, Init
  <1>3. \A n \in Names : Entries(n) = {}
    <2> TAKE n \in Names
    <2>1. flight.dir[n] = {NoEntry}
      BY <1>2 DEF Settled
    <2>2. ~NoEntry.used
      BY DEF NoEntry
    <2>3. QED BY <2>1, <2>2 DEF Entries
  <1>4. \A n \in Names : ~dir[n].used
    BY <1>2 DEF NoEntry
  <1>5. PinnedInv /\ ApartInv /\ SameInv /\ BytesInv
    BY <1>3, <1>4 DEF PinnedInv, ApartInv, SameInv, BytesInv
  <1>6. call.kind = "none"
    BY <1>2 DEF NoCall, NameCall
  <1>7. ~Filling
    BY <1>2 DEF Filling
  <1>8. TakenInv /\ GrownInv /\ FreedInv /\ FlushedInv /\ VectorInv
    BY <1>2, <1>7 DEF TakenInv, GrownInv, FreedInv, FlushedInv, VectorInv
  <1>9. SizesInv /\ CountsInv /\ TwoNamesInv /\ RenamesInv
    BY <1>2, <1>6, <1>7 DEF SizesInv, CountsInv, TwoNamesInv, RenamesInv
  <1>10. QED
    BY <1>1, <1>5, <1>8, <1>9 DEF CacheInv, Ground, SafeInv

(* A step that changes nothing. *)
LEMMA CacheInvStays ==
    ASSUME CacheInv, UNCHANGED cacheVars
    PROVE  CacheInv'
  <1>1. /\ UNCHANGED <<bitmap, fat, dir, data, pc, call, pos, cur, chain, got, linked, todo,
                       mishap, cuts, flight, writer, harmed>>
    BY DEF cacheVars, vars, disk, locals
  <1>2. TypeOK' /\ LoopsInv' /\ KindInv' /\ LocalsInv' /\ FlightInv'
    BY <1>1 DEF CacheInv, TypeOK, LoopsInv, KindInv, LocalsInv, FlightInv
  <1>3. ASSUME ~harmed PROVE SafeInv'
    <2>1. Ground /\ Ground' /\ SafeInv
      BY <1>2, <1>3 DEF CacheInv, Ground
    <2>2. Grows /\ Still /\ UNCHANGED disk
      <3>1. \A c \in Clusters : flight'.writer[c] \subseteq
                {Relabelled(c, v) : v \in flight.writer[c]} \cup {writer'[c]}
        <4> TAKE c \in Clusters
        <4>1. ~Renamed /\ ~Taken(c)
          BY <1>1 DEF Renamed, Taken
        <4>2. \A v \in flight.writer[c] : v \in Labels
          BY <2>1 DEF Ground, FlightInv
        <4>3. \A v \in Labels : Relabelled(c, v) = [b \in ClusterIndex |-> v[b]]
          BY <1>3, <4>1 DEF Relabelled
        <4>4. \A v \in flight.writer[c] : Relabelled(c, v) = v
          BY <4>2, <4>3 DEF Labels
        <4>5. QED BY <1>1, <4>4
      <3>2. QED BY <1>1, <3>1 DEF Grows, Still, disk
    <2>3. \A n \in Names : Shortened(n)' <=> Shortened(n)
      BY <1>1 DEF Shortened
    <2>4. LineInv' /\ LinesComeFrom
      BY <1>1, <2>1, <2>2, <2>3, QuietLines DEF SafeInv, LineInv
    <2>5. \A c : Unclaimed(c) => Unclaimed(c)'
      BY <2>4, TracedUnclaimed
    <2>6. Filling' <=> Filling
      BY <1>1 DEF Filling
    <2>7. TakenInv'
      BY <1>1, <2>1, <2>5 DEF SafeInv, TakenInv, Successor
    <2>8. GrownInv'
      BY <1>1, <2>1, <2>4, <2>6, GrownStays DEF GrownInv
    <2>9. FreedInv'
      BY <1>1, <2>1, <2>5 DEF SafeInv, FreedInv
    <2>10. FlushedInv'
      BY <1>1, <2>1 DEF SafeInv, FlushedInv, AllWritten
    <2>11. SizesInv' /\ TwoNamesInv' /\ RenamesInv'
      BY <1>1, <2>1 DEF SafeInv, SizesInv, TwoNamesInv, RenamesInv
    <2>12. VectorInv'
      BY <1>1, <2>1, <2>6 DEF SafeInv, VectorInv
    <2>13. CountsInv'
      BY <1>1, <2>1, <2>6 DEF SafeInv, CountsInv, Start
    <2>14. QED
      BY <2>4, <2>7, <2>8, <2>9, <2>10, <2>11, <2>12, <2>13 DEF SafeInv, LineInv
  <1>4. QED
    BY <1>1, <1>2, <1>3 DEF CacheInv

(* Every step keeps the invariant, failures and calls after them included. *)
LEMMA CacheInvNext ==
    ASSUME CacheInv, [CacheNext]_cacheVars
    PROVE  CacheInv'
  <1>1. CASE UNCHANGED cacheVars
    BY <1>1, CacheInvStays
  <1>2. CASE CacheNext
    <2>1. Ground
      BY DEF CacheInv, Ground
    <2>2. Ground' /\ Grows
      BY <1>2, <2>1, GroundNext
    <2>3. ASSUME ~harmed' PROVE SafeInv'
      <3>1. ~harmed
        BY <1>2, <2>3 DEF CacheNext, CacheBegin, CacheAdvance, Failure
      <3>2. SafeInv
        BY <3>1 DEF CacheInv
      <3>3. CASE CacheBegin
        <4>1. Signed
          BY <2>1, <2>2, <3>1, <3>3, SignedStep
        <4>2. QED BY <2>1, <2>2, <2>3, <3>2, <3>3, <4>1, SafeBegin
      <3>4. CASE CacheAdvance
        <4>1. Signed
          BY <2>1, <2>2, <3>1, <3>4, SignedStep
        <4>2. QED BY <2>1, <2>2, <3>2, <3>4, <4>1, SafeAdvance
      <3>5. CASE Failure
        BY <2>1, <2>2, <2>3, <3>2, <3>5, SafeFailure
      <3>6. QED BY <1>2, <3>3, <3>4, <3>5 DEF CacheNext
    <2>4. QED BY <2>2, <2>3 DEF CacheInv, Ground
  <1>3. QED BY <1>1, <1>2

(* The invariant holds whatever the device has taken and lost. *)
THEOREM CacheIsKept == CacheSpec => []CacheInv
  <1>1. CacheInit => CacheInv
    BY CacheInvInit
  <1>2. CacheInv /\ [CacheNext]_cacheVars => CacheInv'
    BY CacheInvNext
  <1>3. QED BY <1>1, <1>2, PTL DEF CacheSpec

-----------------------------------------------------------------------------
(* What a reader of the volume finds *)

(* A reader of a file follows its line, and past that, while a truncation
   has its old length still there, finds the mark and nothing more. *)
LEMMA ReadersFollowLines ==
    ASSUME Ground, SafeInv, NEW n \in Names, dir[n].used, NEW i \in DOMAIN FileChain(n)
    PROVE  \/ /\ i \in 1 .. Owed(n, dir[n]) /\ FileChain(n)[i] = Line(n, dir[n])[i]
           \/ Shortened(n) /\ FileChain(n)[i] \notin Clusters
  <1> DEFINE e == dir[n]
             k == ClustersFor(e.len)
             w == ChainFrom(fat, e.first, k)
             j == call.count
  <1>1. e \in Entry /\ e.len \in Nat /\ k \in Nat
    BY ClustersForType DEF Ground, TypeOK, Entry
  <1>2. FileChain(n) = w /\ i \in 1 .. k
    <2>1. DOMAIN w = 1 .. k
      BY <1>1, ChainUnfolds DEF IsChain
    <2>2. QED BY <2>1 DEF FileChain
  <1>3. CASE ~Shortened(n)
    <2>1. Owed(n, e) = k /\ Line(n, e) = w
      BY <1>3 DEF Owed, Line
    <2>2. QED BY <1>2, <2>1
  <1>4. CASE Shortened(n) /\ pc = "flush"
    <2>1. e.len = call.len /\ j = ClustersFor(call.len)
      BY <1>4 DEF Shortened, SafeInv, CountsInv
    <2>2. Owed(n, e) = k /\ Line(n, e) = w
      BY <2>1 DEF Owed, Line
    <2>3. QED BY <1>2, <2>2
  <1>5. CASE Shortened(n) /\ pc # "flush"
    <2>1. call.kind = "shrink" /\ call.name = n /\ pc \in {"free bit", "free fat", "publish"}
      BY <1>5 DEF Shortened
    <2>2. /\ j \in Nat /\ j > 0 /\ call.first = e.first
          /\ Owed(n, e) = j /\ Line(n, e) = ChainFrom(fat, call.first, j)
          /\ call.count = ClustersFor(call.len) /\ call.len \in Nat /\ call.len <= e.len
      BY <2>1, ShortenedLine
    <2>3. j <= k
      BY <1>1, <2>2, ClustersForMonotone
    <2> DEFINE v == ChainFrom(fat, e.first, j)
               s == [a \in 1 .. k |-> IF a <= j THEN v[a]
                                      ELSE IF a = j + 1 THEN END_OF_CHAIN ELSE 0]
    <2>4. fat[v[j]] = END_OF_CHAIN
      BY <2>1, <2>2 DEF SafeInv, FreedInv
    <2>5. /\ v[1] = e.first
          /\ \A a \in 1 .. j : v[a] \in Clusters
          /\ \A a \in 1 .. j - 1 : fat[v[a]] = v[a + 1]
      <3>1. e \in Entries(n)
        BY EntriesAre DEF Ground
      <3>2. v[1] = e.first
        BY <2>2, ChainSteps
      <3>3. Line(n, e) = v
        BY <2>2
      <3>4. QED BY <2>2, <3>1, <3>2, <3>3, LinesMarked DEF SafeInv
    <2>6. END_OF_CHAIN \notin Clusters /\ 0 \notin Clusters
      BY MarksAreNotClusters
    <2> HIDE DEF v, k, j
    <2>7. \A a \in 1 .. k : s[a] = IF a <= j THEN v[a]
                                   ELSE IF a = j + 1 THEN END_OF_CHAIN ELSE 0
      OBVIOUS
    <2> HIDE DEF s
    <2>8. \A a \in 1 .. k - 1 : s[a + 1] = IF s[a] \in Clusters THEN fat[s[a]] ELSE 0
      <3> TAKE a \in 1 .. k - 1
      <3>0. a \in Nat /\ a \in 1 .. k /\ a + 1 \in 1 .. k /\ j \in Nat /\ j > 0
        BY <1>1, <2>2
      <3>1. CASE a < j
        <4>1. s[a] = v[a] /\ s[a + 1] = v[a + 1] /\ a \in 1 .. j /\ a \in 1 .. j - 1
          BY <2>7, <3>0, <3>1
        <4>2. QED BY <2>5, <4>1
      <3>2. CASE a = j
        <4>1. s[a] = v[j] /\ s[a + 1] = END_OF_CHAIN /\ j \in 1 .. j
          BY <2>7, <3>0, <3>2
        <4>2. QED BY <2>4, <2>5, <4>1
      <3>3. CASE a > j
        <4>1. s[a + 1] = 0 /\ s[a] \in {END_OF_CHAIN, 0}
          BY <2>7, <3>0, <3>3
        <4>2. QED BY <2>6, <4>1
      <3>4. QED BY <3>0, <3>1, <3>2, <3>3
    <2>9. k > 0 => s[1] = e.first
      BY <1>1, <2>2, <2>5, <2>7
    <2>10. w[i] = s[i]
      <3>1. \A a \in 1 .. k : ChainFrom(fat, e.first, k)[a] = s[a]
        BY <1>1, <2>8, <2>9, ChainUnique
      <3>2. QED BY <1>2, <3>1
    <2>11. CASE i <= j
      <3>1. i \in 1 .. j /\ s[i] = v[i]
        BY <1>1, <1>2, <2>2, <2>7, <2>11
      <3>2. QED BY <1>2, <2>2, <2>10, <3>1 DEF v
    <2>12. CASE ~(i <= j)
      <3>1. s[i] \in {END_OF_CHAIN, 0}
        BY <1>2, <2>7, <2>12
      <3>2. QED BY <1>2, <1>5, <2>6, <2>10, <3>1
    <2>13. QED BY <2>11, <2>12
  <1>6. QED BY <1>3, <1>4, <1>5

(* What a reader reaches is in the line of the entry on the medium. *)
LEMMA SafeChainsApart == CacheInv => CommittedChainsApart
  <1> SUFFICES ASSUME CacheInv, ~harmed PROVE CommittedChainsApart
    BY DEF CommittedChainsApart
  <1>1. Ground /\ SafeInv
    BY DEF CacheInv, Ground
  <1>2. ASSUME NEW n \in Names, NEW c \in Committed(n)
        PROVE  /\ dir[n].used /\ dir[n] \in Entries(n)
               /\ \/ \E i \in 1 .. Owed(n, dir[n]) : c = Line(n, dir[n])[i]
                  \/ Shortened(n) /\ c \notin Clusters
    <2>1. dir[n].used /\ \E i \in DOMAIN FileChain(n) : c = FileChain(n)[i]
      BY <1>2 DEF Committed
    <2>2. PICK i \in DOMAIN FileChain(n) : c = FileChain(n)[i]
      BY <2>1
    <2>3. QED BY <1>1, <2>1, <2>2, ReadersFollowLines, EntriesAre DEF Ground
  <1>3. ASSUME NEW n \in Names, NEW c \in Committed(n), c \in Clusters
        PROVE  bitmap[c]
    <2>1. PICK i \in 1 .. Owed(n, dir[n]) : c = Line(n, dir[n])[i]
      BY <1>2, <1>3
    <2>2. dir[n] \in Entries(n)
      BY <1>2
    <2>3. QED BY <1>1, <2>1, <2>2, LinesMarked DEF SafeInv
  <1>4. ASSUME NEW m \in Names, NEW n \in Names, m # n, ~BeingRenamed(m, n),
               NEW c \in Committed(m), c \in Committed(n)
        PROVE  FALSE
    <2>1. dir[m] \in Entries(m) /\ dir[n] \in Entries(n)
      BY <1>2, <1>4
    <2>2. ~(Shortened(m) /\ Shortened(n))
      BY <1>4 DEF Shortened
    <2>3. \A i \in 1 .. Owed(m, dir[m]) : Line(m, dir[m])[i] \in Clusters
      BY <1>1, <2>1, LinesMarked DEF SafeInv
    <2>4. \A i \in 1 .. Owed(n, dir[n]) : Line(n, dir[n])[i] \in Clusters
      BY <1>1, <2>1, LinesMarked DEF SafeInv
    <2>5. \/ \E i \in 1 .. Owed(m, dir[m]) : c = Line(m, dir[m])[i]
          \/ Shortened(m) /\ c \notin Clusters
      BY <1>2, <1>4
    <2>6. \/ \E i \in 1 .. Owed(n, dir[n]) : c = Line(n, dir[n])[i]
          \/ Shortened(n) /\ c \notin Clusters
      BY <1>2, <1>4
    <2>7. /\ \E i \in 1 .. Owed(m, dir[m]) : c = Line(m, dir[m])[i]
          /\ \E i \in 1 .. Owed(n, dir[n]) : c = Line(n, dir[n])[i]
      BY <2>2, <2>3, <2>4, <2>5, <2>6
    <2>8. QED BY <1>1, <1>4, <2>1, <2>7 DEF SafeInv, ApartInv, Distinct
  <1>5. QED BY <1>3, <1>4 DEF CommittedChainsApart

(* And so are the bytes it reads. *)
LEMMA SafeBytesWritten == CacheInv => OnlyWrittenBytes
  <1> SUFFICES ASSUME CacheInv, ~harmed, NEW n \in Names, dir[n].used,
                      ~(call.kind = "shrink" /\ call.name = n), NEW p \in 0 .. dir[n].len - 1
               PROVE  LET c == FileChain(n)[p \div ClusterBytes + 1]
                      IN  c \in Clusters /\ writer[c][p % ClusterBytes] \in Authors(n)
    BY DEF OnlyWrittenBytes
  <1> DEFINE k == ClustersFor(dir[n].len)
             w == ChainFrom(fat, dir[n].first, k)
             q == p \div ClusterBytes + 1
  <1>1. Ground /\ LineInv /\ ~Shortened(n)
    BY DEF CacheInv, Ground, SafeInv, LineInv, Shortened
  <1>2. /\ \A a \in 1 .. k : w[a] \in Clusters
        /\ q \in 1 .. k /\ writer[w[q]][p % ClusterBytes] \in Authors(n)
    BY <1>1, FileLine
  <1>3. FileChain(n) = w
    BY DEF FileChain
  <1>4. QED BY <1>2, <1>3

(* Whatever order the device writes in and wherever the power fails, no two
   files share a cluster, and every cluster of a file is marked: the flushes
   of write.rs order bitmap, FAT and entry as its comments promise. *)
THEOREM LossKeepsChainsApart == CacheSpec => []CommittedChainsApart
  BY CacheIsKept, SafeChainsApart, PTL

(* Wherever the power fails, every committed file can be read whole, and each
   byte was written by a call on that file since it took the byte's cluster:
   the flush before the entry is published and the zeroing of gaps are enough,
   for any length and any gap. *)
THEOREM LossKeepsBytesWritten == CacheSpec => []OnlyWrittenBytes
  BY CacheIsKept, SafeBytesWritten, PTL

-----------------------------------------------------------------------------
(* The cached volume is the file store while nothing is harmed *)

(* The clusters a file keeps are the line of its entry. *)
LEMMA KeptLine ==
    ASSUME Ground, SafeInv, NEW n \in Names, dir[n].used
    PROVE  LET w == ChainFrom(fat, dir[n].first, Kept(n))
           IN  /\ Kept(n) \in Nat /\ dir[n] \in Entries(n)
               /\ Owed(n, dir[n]) = Kept(n) /\ Line(n, dir[n]) = w
               /\ \A i \in 1 .. Kept(n) : w[i] \in Clusters /\ bitmap[w[i]]
               /\ \A i \in 1 .. Kept(n) - 1 : i \in 1 .. Kept(n) /\ fat[w[i]] = w[i + 1]
               /\ \A i, j \in 1 .. Kept(n) : w[i] = w[j] => i = j
  <1>1. dir[n] \in Entries(n) /\ dir[n] \in Entry
    BY DEF Ground, FlightInv, TypeOK, Entries
  <1>2. /\ Owed(n, dir[n]) \in Nat
        /\ \A i \in 1 .. Owed(n, dir[n]) :
              Line(n, dir[n])[i] \in Clusters /\ bitmap[Line(n, dir[n])[i]]
        /\ \A i \in 1 .. Owed(n, dir[n]) - 1 :
              i \in 1 .. Owed(n, dir[n]) /\ fat[Line(n, dir[n])[i]] = Line(n, dir[n])[i + 1]
        /\ \A i, j \in 1 .. Owed(n, dir[n]) : Line(n, dir[n])[i] = Line(n, dir[n])[j] => i = j
    BY <1>1, LinesMarked DEF SafeInv
  <1>3. Owed(n, dir[n]) = Kept(n)
    <2>1. CASE Cutting(n)
      <3>1. call.kind = "shrink" /\ pc \in {"free bit", "free fat", "publish"} /\ call.name = n
        BY <2>1 DEF Cutting
      <3>2. Owed(call.name, dir[call.name]) = call.count
        BY <3>1, ShortenedLine
      <3>3. QED BY <2>1, <3>1, <3>2 DEF Kept
    <2>2. CASE ~Cutting(n) /\ Shortened(n)
      <3>1. call.kind = "shrink" /\ call.name = n /\ pc = "flush"
        BY <2>2 DEF Cutting, Shortened
      <3>2. call.count = ClustersFor(dir[n].len)
        BY <3>1, Zenon DEF SafeInv, CountsInv
      <3>3. QED BY <2>2, <3>2 DEF Owed, Kept
    <2>3. CASE ~Cutting(n) /\ ~Shortened(n)
      BY <2>3 DEF Owed, Kept
    <2>4. QED BY <2>1, <2>2, <2>3
  <1>4. Line(n, dir[n]) = ChainFrom(fat, dir[n].first, Kept(n))
    BY <1>3 DEF Line
  <1>5. QED BY <1>1, <1>2, <1>3, <1>4

(* So the steps of the call are those the views need. *)
LEMMA FrameOf ==
    ASSUME Ground, SafeInv, FillInv
    PROVE  FrameInv
  <1>1. WholeInv
    BY KeptLine DEF WholeInv, Chained
  <1>2. RenameInv
    <2>1. call.kind = "rename" => pc \in {"clear flush", "clear", "flush"}
      <3> SUFFICES ASSUME call.kind = "rename" PROVE pc \in {"clear flush", "clear", "flush"}
        OBVIOUS
      <3>1. /\ pc \notin {"idle", "read", "alloc", "link", "tail", "data", "data flush"}
            /\ pc \notin {"free bit", "free fat", "publish", "walk", "cut"}
        BY DEF Ground, KindInv, LoopsInv
      <3>2. QED BY <3>1 DEF Ground, TypeOK, PCs
    <2>2. QED BY <2>1 DEF SafeInv, RenamesInv, RenameInv
  <1>3. Filling => \A i, j \in 1 .. Len(chain) : chain[i] = chain[j] => i = j
    BY DEF SafeInv, GrownInv
  <1>4. QED BY <1>1, <1>2, <1>3 DEF FrameInv, Ground, SafeInv

LEMMA FrameOfNext == Ground' /\ SafeInv' /\ FillInv' => FrameInv'
  BY FrameOf, PTL

-----------------------------------------------------------------------------
(* What a write has filled so far *)

(* Where a write is before it fills and when it has filled its clusters is
   known. *)
LEMMA FillElsewhere ==
    ASSUME Ground', SafeInv', ~Filling'
    PROVE  FillInv'
  <1>1. pc' # "data"
    BY DEF Ground, KindInv, Filling
  <1>2. pc' \in {"read", "alloc", "link", "tail"} /\ call'.kind = "write" => pos' = Start'
    BY Zenon DEF SafeInv, CountsInv
  <1>3. QED BY <1>1, <1>2 DEF FillInv

LEMMA FillsFromStart ==
    ASSUME Ground', SafeInv', pc' = "data", pos' = Start'
    PROVE  FillInv'
  <1>1. call'.kind = "write" /\ call'.name \in Names /\ dir'[call'.name].used
    BY DEF Ground, KindInv
  <1>2. call'.cnt > 0
    BY <1>1, Zenon DEF SafeInv, SizesInv
  <1>3. /\ dir'[call'.name].len \in Nat /\ call'.off \in Nat /\ call'.cnt \in Nat
    BY <1>1 DEF Ground, TypeOK, Entry, CallType
  <1>4. pos' \in Nat /\ pos' <= call'.off
    BY <1>3, StartIs DEF Start
  <1>5. pos' < call'.off + call'.cnt
    BY <1>2, <1>3, <1>4
  <1>6. \A a \in Nat : a .. a - 1 = {} /\ a <= a
    OBVIOUS
  <1>7. Start' .. pos' - 1 = {} /\ Start' <= pos'
    BY <1>4, <1>6, Zenon
  <1>8. QED BY <1>4, <1>5, <1>7 DEF FillInv

LEMMA FillKept ==
    ASSUME Ground, Ground', SafeInv, SafeInv', FrameInv, CacheNext
    PROVE  FillInv'
  <1>1. CASE CacheBegin
    <2>1. PICK n \in Names : Call(n)
      BY <1>1 DEF CacheBegin, Begin
    <2>2. \A off, cnt, v : StartWrite(n, off, cnt, v) => pc' \in {"read", "alloc"}
      BY DEF StartWrite
    <2>3. (\E len \in 0 .. MaxLen : Extend(n, len)) => pc' \in {"read", "alloc"}
      BY <2>2 DEF Extend
    <2>4. pc' \in {"read", "alloc", "flush", "clear flush"}
      BY <2>1, <2>2, <2>3 DEF Call, Create, Remove, Rename, Shrink, WriteFile
    <2>5. QED BY <2>4, FillElsewhere DEF Filling
  <1>2. CASE Failure
    BY <1>2, FillElsewhere DEF Failure, PowerCut, Lose, Abandon, Ended, Filling
  <1>3. CASE CacheAdvance
    <2>1. Step
      BY <1>3 DEF CacheAdvance, Advance
    <2>2. CASE ReadChain \/ StartChain \/ LinkTail
      <3>1. CASE Filling'
        <4>1. pc \in {"read", "tail"} /\ call'.kind = call.kind /\ call'.off = call.off
              /\ call'.name = call.name /\ pos' = pos /\ dir' = dir
          BY <2>2 DEF ReadChain, StartChain, LinkTail, disk, Ground, TypeOK, CallType
        <4>2. pos = Start
          <5>1. call.kind = "write"
            BY <3>1, <4>1 DEF Filling
          <5>2. QED BY <4>1, <5>1, Zenon DEF SafeInv, CountsInv
        <4>3. pos' = Start'
          BY <4>1, <4>2 DEF Start
        <4>4. pc' = "data"
          BY <2>2, <3>1 DEF ReadChain, StartChain, LinkTail, Filling
        <4>5. QED BY <4>3, <4>4, FillsFromStart
      <3>2. CASE ~Filling'
        BY <3>2, FillElsewhere
      <3>3. QED BY <3>1, <3>2
    <2>3. CASE WriteData
      BY <2>3, FillWriteData
    <2>4. CASE FlushAndGoOn
      <3>1. /\ data' = data /\ dir' = dir /\ call' = call /\ chain' = chain /\ pos' = pos
            /\ pc \in {"data flush", "clear flush"} /\ pc' \in {"publish", "clear", "walk"}
            /\ pc' = "publish" => pc = "data flush"
        BY <2>4 DEF FlushAndGoOn, FlushPCs, disk, locals
      <3>2. CASE Filling'
        <4>1. Filling /\ pc = "data flush" /\ pc' = "publish" /\ Start' = Start
          BY <3>1, <3>2 DEF Filling, Start
        <4>2. QED BY <3>1, <4>1 DEF FrameInv, FillInv
      <3>3. CASE ~Filling'
        BY <3>3, FillElsewhere
      <3>4. QED BY <3>2, <3>3
    <2>5. CASE ~(ReadChain \/ StartChain \/ LinkTail \/ WriteData \/ FlushAndGoOn)
      <3>1. pc' \notin {"data", "data flush", "publish"} \/ call'.kind # "write"
        <4>1. CASE (\E c \in Clusters : AllocCluster(c)) \/ LinkCluster \/ Publish \/ ClearOld
                   \/ WalkChain \/ FreeBit
          BY <4>1 DEF AllocCluster, LinkCluster, Publish, ClearOld, WalkChain, FreeBit
        <4>2. CASE CutToNothing \/ CutChain \/ FreeFat
          <5>1. call.kind \in {"shrink", "remove"} /\ call'.kind = call.kind
            BY <4>2 DEF CutToNothing, CutChain, FreeFat, Ground, LoopsInv, KindInv, TypeOK, CallType
          <5>2. QED BY <5>1
        <4>3. CASE ReadChainFails \/ AllocFails \/ WritePastChain \/ CutPanics
                   \/ FreeBitFails \/ WalkFails \/ FlushAndReturn
          BY <4>3 DEF ReadChainFails, AllocFails, WritePastChain, CutPanics, FreeBitFails,
             WalkFails, FlushAndReturn, Return, Abandon, Ended
        <4>4. QED BY <2>1, <2>5, <4>1, <4>2, <4>3 DEF Step
      <3>2. QED BY <3>1, FillElsewhere DEF Filling
    <2>6. QED BY <2>1, <2>2, <2>3, <2>4, <2>5
  <1>4. QED BY <1>1, <1>2, <1>3 DEF CacheNext

-----------------------------------------------------------------------------
(* What the call alone has in flight *)

(* A write that knows where it is does not run past its chain. *)
LEMMA NoWritePast == FrameInv => ~WritePastChain
  <1> SUFFICES ASSUME FrameInv, WritePastChain PROVE FALSE
    OBVIOUS
  <1>1. pc = "data" /\ pos \div ClusterBytes + 1 > Len(chain)
    BY DEF WritePastChain
  <1>2. call.kind = "write" /\ Filling
    BY <1>1 DEF FrameInv, KindInv, Filling
  <1>3. pos < call.off + call.cnt /\ pos \in Nat
    BY <1>1, Types DEF FrameInv, FillInv
  <1>4. /\ call.off \in Nat /\ call.cnt \in Nat /\ call.len \in Nat /\ Len(chain) \in Nat
        /\ dir[call.name].len \in Nat /\ Len(chain) = ClustersFor(call.len)
        /\ call.len = IF call.off + call.cnt > dir[call.name].len
                      THEN call.off + call.cnt ELSE dir[call.name].len
    BY <1>2, FillingVector
  <1>5. pos < call.len
    BY <1>3, <1>4
  <1>6. pos \div ClusterBytes + 1 \in 1 .. Len(chain)
    BY <1>3, <1>4, <1>5, ByteHasCluster
  <1>7. \A a, b : b \in Nat /\ a \in 1 .. b => ~(a > b)
    OBVIOUS
  <1>8. QED BY <1>1, <1>4, <1>6, <1>7

(* A location that is settled and not written stays settled. *)
LEMMA SettledStays ==
    ASSUME Cached
    PROVE  /\ \A c \in Clusters : flight.data[c] = {data[c]} /\ data'[c] = data[c] =>
                 flight'.data[c] = {data'[c]}
           /\ \A n \in Names : flight.dir[n] = {dir[n]} /\ dir'[n] = dir[n] =>
                 flight'.dir[n] = {dir'[n]}
  <1>1. CASE flight' = Settled(bitmap', fat', dir', data', writer')
    BY <1>1 DEF Settled
  <1>2. CASE flight' = Joined(bitmap', fat', dir', data', writer')
    BY <1>2 DEF Joined
  <1>3. QED BY <1>1, <1>2 DEF Cached

LEMMA CalmSettled ==
    ASSUME flight' = Settled(bitmap', fat', dir', data', writer')
    PROVE  CalmInv'
  BY DEF Settled, CalmInv

(* A call begins with nothing in flight but the entry it has placed or
   cleared. *)
LEMMA CalmBegin ==
    ASSUME Ground, CalmInv, CacheBegin
    PROVE  CalmInv'
  <1>1. PICK m \in Names : Call(m)
    BY DEF CacheBegin, Begin
  <1>2. Cached
    BY StepsAreCached DEF CacheNext
  <1>3. \A off, cnt, v : StartWrite(m, off, cnt, v) => dir' = dir /\ data' = data
    BY DEF StartWrite, disk
  <1>4. (\E len \in 0 .. MaxLen : Extend(m, len)) => dir' = dir /\ data' = data
    BY <1>3 DEF Extend
  <1>5. pc = "idle" /\ data' = data
    BY <1>1, <1>3, <1>4 DEF Call, Create, Remove, Rename, Extend, Shrink, WriteFile, Idle, disk
  <1>6. \A n \in Names : \/ dir'[n] = dir[n]
                         \/ n \in {call'.name, call'.to} /\ pc' \in {"clear flush", "flush"}
    <2>1. dir \in [Names -> Entry]
      BY DEF Ground, TypeOK
    <2>2. CASE Create(m)
      BY <2>1, <2>2 DEF Create, NameCall
    <2>3. CASE Remove(m)
      BY <2>1, <2>3 DEF Remove, NameCall
    <2>4. ASSUME NEW x \in Names \ {m}, Rename(x, m)
          PROVE  \A n \in Names : \/ dir'[n] = dir[n]
                                  \/ n \in {call'.name, call'.to} /\ pc' \in {"clear flush", "flush"}
      BY <2>1, <2>4 DEF Rename, NameCall
    <2>5. CASE dir' = dir
      BY <2>5
    <2>6. QED BY <1>1, <1>3, <1>4, <2>2, <2>3, <2>4, <2>5 DEF Call, Shrink, WriteFile, disk
  <1>7. /\ \A c \in Clusters : flight.data[c] = {data[c]}
        /\ \A n \in Names : flight.dir[n] = {dir[n]}
    BY <1>5 DEF CalmInv, Mine
  <1>8. /\ \A c \in Clusters : flight'.data[c] = {data'[c]}
        /\ \A n \in Names : dir'[n] = dir[n] => flight'.dir[n] = {dir'[n]}
    BY <1>2, <1>5, <1>7, SettledStays
  <1>9. QED BY <1>6, <1>8 DEF CalmInv

(* Between two flushes it writes to its own clusters and to its own entry. *)
LEMMA CalmAdvance ==
    ASSUME Ground, FrameInv, CalmInv, CacheAdvance
    PROVE  CalmInv'
  <1>1. Step /\ CacheAfter(pc \in Barriers)
    BY DEF CacheAdvance, Advance
  <1>2. CASE pc \in Barriers
    BY <1>1, <1>2, CalmSettled DEF CacheAfter
  <1>3. CASE pc \notin Barriers
    <2>1. pc \notin {"data flush", "clear flush", "flush"}
      BY <1>3 DEF Barriers, FlushPCs
    <2>2. Cached
      BY StepsAreCached DEF CacheNext
    <2>3. \A n \in Names : flight.dir[n] = {dir[n]}
      BY <2>1 DEF CalmInv
    <2>4. \A n \in Names : dir'[n] = dir[n] \/ (n \in {call'.name, call'.to} /\ pc' = "flush")
      <3>1. dir \in [Names -> Entry]
        BY DEF Ground, TypeOK
      <3>2. CASE Publish \/ ClearOld
        BY <3>1, <3>2 DEF Publish, ClearOld, locals
      <3>3. CASE ~Publish /\ ~ClearOld
        <4>1. dir' = dir
          BY <1>1, <3>3 DEF Step, ReadChain, ReadChainFails, AllocCluster, AllocFails, LinkCluster,
             StartChain, LinkTail, WriteData, WritePastChain, CutToNothing, CutChain, CutPanics,
             FreeBit, FreeBitFails, FreeFat, WalkChain, WalkFails, FlushAndGoOn, FlushAndReturn,
             disk
        <4>2. QED BY <4>1
      <3>4. QED BY <3>2, <3>3
    <2>5. \A n \in Names : \/ flight'.dir[n] = {dir'[n]}
                           \/ n \in {call'.name, call'.to} /\ pc' \in {"clear flush", "flush"}
      BY <2>2, <2>3, <2>4, SettledStays
    <2>6. \A c \in Clusters : flight'.data[c] = {data'[c]} \/ Mine(c)'
      <3>1. CASE WriteData
        <4>1. pc = "data" /\ pc' \in {"data", "data flush"} /\ chain' = chain
          BY <3>1 DEF WriteData
        <4>2. /\ pos \div ClusterBytes + 1 \in 1 .. Len(chain)
              /\ \A c \in Clusters : c # chain[pos \div ClusterBytes + 1] => data'[c] = data[c]
          BY <3>1, WriteDataEffect
        <4>3. \A c \in Clusters : ~Mine(c)' => ~Mine(c) /\ data'[c] = data[c]
          BY <4>1, <4>2 DEF Mine
        <4>4. \A c \in Clusters : ~Mine(c)' => flight.data[c] = {data[c]} /\ data'[c] = data[c]
          BY <4>3 DEF CalmInv
        <4>5. QED BY <2>2, <4>4, SettledStays
      <3>2. CASE ~WriteData
        <4>1. pc # "data"
          BY <1>1, <2>1, <3>2, NoWritePast DEF Step, ReadChain, ReadChainFails, AllocCluster,
             AllocFails, LinkCluster, StartChain, LinkTail, CutToNothing, CutChain, CutPanics,
             FreeBit, FreeBitFails, FreeFat, WalkChain, WalkFails, Publish, ClearOld,
             FlushAndGoOn, FlushPCs, FlushAndReturn
        <4>2. data' = data
          BY <1>1, <3>2 DEF Step, ReadChain, ReadChainFails, AllocCluster, AllocFails, LinkCluster,
             StartChain, LinkTail, WritePastChain, CutToNothing, CutChain, CutPanics,
             FreeBit, FreeBitFails, FreeFat, WalkChain, WalkFails, Publish, ClearOld,
             FlushAndGoOn, FlushAndReturn, disk
        <4>3. \A c \in Clusters : flight.data[c] = {data[c]}
          BY <2>1, <4>1 DEF CalmInv, Mine
        <4>4. QED BY <2>2, <4>2, <4>3, SettledStays
      <3>3. QED BY <3>1, <3>2
    <2>7. QED BY <2>5, <2>6 DEF CalmInv
  <1>4. QED BY <1>2, <1>3

(* What the write has filled and what is in flight is known throughout. *)
LEMMA ProgressInit == CacheInit => ProgressInv
  <1> SUFFICES ASSUME CacheInit PROVE ProgressInv
    OBVIOUS
  <1>1. pc = "idle" /\ flight = Settled(bitmap, fat, dir, data, writer)
    BY DEF CacheInit, Init
  <1>2. FillInv
    BY <1>1 DEF FillInv, Filling
  <1>3. CalmInv
    BY <1>1 DEF CalmInv, Settled
  <1>4. QED BY <1>2, <1>3 DEF ProgressInv

LEMMA ProgressNext ==
    ASSUME CacheInv, CacheInv', ProgressInv, [CacheNext]_cacheVars
    PROVE  ProgressInv'
  <1>1. Ground /\ Ground' /\ (~harmed => SafeInv) /\ (~harmed' => SafeInv')
    BY DEF CacheInv, Ground
  <1>2. CASE UNCHANGED cacheVars
    <2>1. UNCHANGED <<vars, flight, harmed>>
      BY <1>2 DEF cacheVars
    <2>2. UNCHANGED <<fat, dir, data, pc, call, pos, chain, cuts, flight, harmed>>
      BY <2>1 DEF vars, disk, locals
    <2>3. FillInv' <=> FillInv
      BY <2>2 DEF FillInv, Start, Filling
    <2>4. CalmInv' <=> CalmInv
      BY <2>2 DEF CalmInv, Mine
    <2>5. QED BY <2>2, <2>3, <2>4 DEF ProgressInv
  <1>3. CASE CacheNext
    <2> SUFFICES ASSUME ~harmed' PROVE FillInv' /\ (cuts' = 0 => CalmInv')
      BY DEF ProgressInv
    <2>1. ~harmed
      BY <1>3 DEF CacheNext, CacheBegin, CacheAdvance, Failure
    <2>2. SafeInv /\ SafeInv' /\ FrameInv /\ (cuts = 0 => CalmInv)
      BY <1>1, <2>1, FrameOf DEF ProgressInv
    <2>3. FillInv'
      BY <1>1, <1>3, <2>2, FillKept
    <2>4. ASSUME cuts' = 0 PROVE CalmInv'
      <3>1. CASE Failure
        <4>1. cuts' = cuts + 1
          BY <3>1 DEF Failure, PowerCut, Lose
        <4>2. cuts \in Nat
          BY <1>1 DEF Ground, TypeOK
        <4>3. QED BY <2>4, <4>1, <4>2
      <3>2. CASE CacheBegin \/ CacheAdvance
        <4>1. cuts = 0
          BY <2>4, <3>2 DEF CacheBegin, CacheAdvance, Begin, Advance
        <4>2. QED BY <1>1, <2>2, <3>2, <4>1, CalmBegin, CalmAdvance
      <3>3. QED BY <1>3, <3>1, <3>2 DEF CacheNext
    <2>5. QED BY <2>3, <2>4
  <1>4. QED BY <1>2, <1>3

-----------------------------------------------------------------------------
(* What the first failure takes back *)

(* The clusters of a file no call is at are settled as far as they are
   followed, and the first failure leaves its entry and their bytes. *)
LEMMA LossSpares ==
    ASSUME CacheInv, ProgressInv, ~harmed, cuts = 0, Failure,
           NEW n \in Names \ {call.name, call.to}
    PROVE  /\ dir'[n] = dir[n]
           /\ dir[n].used =>
                 LET k == ClustersFor(dir[n].len)
                     w == ChainFrom(fat, dir[n].first, k)
                 IN  /\ \A i \in 1 .. k - 1 : fat'[w[i]] = fat[w[i]]
                     /\ \A i \in 1 .. k : data'[w[i]] = data[w[i]]
  <1>1. Ground /\ SafeInv /\ CalmInv
    BY DEF CacheInv, Ground, ProgressInv
  <1>2. CASE PowerCut
    BY <1>2 DEF PowerCut, disk
  <1>3. CASE Lose
    <2>1. /\ \A c \in Clusters : fat'[c] \in flight.fat[c] /\ data'[c] \in flight.data[c]
          /\ \A m \in Names : dir'[m] \in flight.dir[m]
      BY <1>1, <1>3, LosePicks DEF Ground
    <2>2. flight.dir[n] = {dir[n]}
      BY <1>1 DEF CalmInv
    <2>3. dir'[n] = dir[n]
      BY <2>1, <2>2
    <2> SUFFICES ASSUME dir[n].used
                 PROVE  LET k == ClustersFor(dir[n].len)
                            w == ChainFrom(fat, dir[n].first, k)
                        IN  /\ \A i \in 1 .. k - 1 : fat'[w[i]] = fat[w[i]]
                            /\ \A i \in 1 .. k : data'[w[i]] = data[w[i]]
      BY <2>3
    <2> DEFINE k == ClustersFor(dir[n].len)
               w == ChainFrom(fat, dir[n].first, k)
    <2>4. ~Shortened(n)
      BY DEF Shortened
    <2>5. /\ dir[n] \in Entries(n) /\ k \in Nat
          /\ Owed(n, dir[n]) = k /\ Line(n, dir[n]) = w
          /\ \A i \in 1 .. k : w[i] \in Clusters
          /\ \A i \in 1 .. k - 1 : i \in 1 .. k /\ fat[w[i]] = w[i + 1]
      BY <1>1, <2>4, FileLine DEF SafeInv, LineInv
    <2> HIDE DEF k, w
    <2>6. Pinned(flight, w, k)
      BY <1>1, <2>5 DEF SafeInv, PinnedInv
    <2>7. \A i \in 1 .. k - 1 : fat'[w[i]] = fat[w[i]]
      <3> TAKE i \in 1 .. k - 1
      <3>1. w[i] \in Clusters /\ fat[w[i]] = w[i + 1]
        BY <2>5
      <3>2. flight.fat[w[i]] \subseteq {w[i + 1]}
        BY <2>6 DEF Pinned
      <3>3. fat'[w[i]] = w[i + 1]
        BY <2>1, <3>1, <3>2
      <3>4. QED BY <3>1, <3>3
    <2>8. \A i \in 1 .. k : data'[w[i]] = data[w[i]]
      <3> TAKE i \in 1 .. k
      <3>1. ~Mine(w[i])
        <4> SUFFICES ASSUME NEW j \in 1 .. Len(chain), chain[j] = w[i],
                            pc \in {"data", "data flush"}
                     PROVE  FALSE
          BY DEF Mine
        <4>1. Filling
          BY <1>1 DEF Ground, KindInv, Filling
        <4>2. Distinct(Line(n, dir[n]), Owed(n, dir[n]), chain, Len(chain))
          BY <1>1, <2>5, <4>1 DEF SafeInv, GrownInv
        <4>3. QED BY <2>5, <4>2 DEF Distinct
      <3>2. w[i] \in Clusters
        BY <2>5
      <3>3. flight.data[w[i]] = {data[w[i]]}
        BY <1>1, <3>1, <3>2 DEF CalmInv
      <3>4. QED BY <2>1, <3>2, <3>3
    <2>9. QED BY <2>7, <2>8 DEF k, w
  <1>4. QED BY <1>2, <1>3 DEF Failure

(* So the bytes of that file are what they were. *)
LEMMA LossSparesBytes ==
    ASSUME CacheInv, ProgressInv, ~harmed, cuts = 0, Failure,
           NEW n \in Names \ {call.name, call.to}
    PROVE  StoreView'[n] = StoreView[n]
  <1>1. dir'[n] = dir[n]
    BY LossSpares
  <1>2. call'.kind = "none"
    BY DEF Failure, PowerCut, Lose, Abandon, Ended, NoCall, NameCall
  <1>3. StoreView[n] = IF dir[n].used THEN Contents(n) ELSE NoName
    BY DEF StoreView
  <1>4. StoreView'[n] = IF dir'[n].used THEN Contents(n)' ELSE NoName
    BY <1>2 DEF StoreView
  <1>5. ASSUME dir[n].used PROVE Contents(n)' = Contents(n)
    <2> DEFINE len == dir[n].len
               h == dir[n].first
               k == ClustersFor(len)
    <2>1. len \in Nat /\ k \in Nat
      BY ClustersForType DEF CacheInv, TypeOK, Entry
    <2>2. /\ \A i \in 1 .. k - 1 : fat'[ChainFrom(fat, h, k)[i]] = fat[ChainFrom(fat, h, k)[i]]
          /\ \A i \in 1 .. k : data'[ChainFrom(fat, h, k)[i]] = data[ChainFrom(fat, h, k)[i]]
      BY <1>5, LossSpares
    <2>3. \A i \in 1 .. k : ChainFrom(fat', h, k)[i] = ChainFrom(fat, h, k)[i]
      BY <2>1, <2>2, ChainSame
    <2>4. Seen(fat', data', h, len) = Seen(fat, data, h, len)
      BY <2>1, <2>2, <2>3, SeenSame
    <2>5. Contents(n) = Seen(fat, data, h, len)
      BY DEF Contents, FileChain, Seen
    <2>6. Contents(n)' = Seen(fat', data', h, len)
      BY <1>1 DEF Contents, FileChain, Seen
    <2>7. QED BY <2>4, <2>5, <2>6
  <1>6. QED BY <1>1, <1>3, <1>4, <1>5

(* The first failure changes no file but that of the call in progress, however
   many may follow. *)
THEOREM FirstLossHitsOnlyTheCall ==
    CacheSpec =>
        [][cuts = 0 /\ cuts' # cuts /\ ~harmed =>
              \A n \in Names \ {call.name, call.to} : StoreView[n] = StoreView'[n]]_cacheVars
  <1>1. CacheInit => CacheInv /\ ProgressInv
    BY CacheInvInit, ProgressInit
  <1>2. CacheInv /\ ProgressInv /\ [CacheNext]_cacheVars => (CacheInv /\ ProgressInv)'
    BY CacheInvNext, ProgressNext
  <1>3. CacheInv /\ ProgressInv /\ [CacheNext]_cacheVars =>
            [cuts = 0 /\ cuts' # cuts /\ ~harmed =>
                \A n \in Names \ {call.name, call.to} : StoreView[n] = StoreView'[n]]_cacheVars
    <2> SUFFICES ASSUME CacheInv, ProgressInv, CacheNext, cuts = 0, cuts' # cuts, ~harmed,
                        NEW n \in Names \ {call.name, call.to}
                 PROVE  StoreView[n] = StoreView'[n]
      OBVIOUS
    <2>1. Failure
      BY DEF CacheNext, CacheBegin, CacheAdvance, Begin, Advance
    <2>2. QED BY <2>1, LossSparesBytes
  <1>4. QED BY <1>1, <1>2, <1>3, PTL DEF CacheSpec

(* When one failure is all that comes, that holds of every failure.  After a
   kill and before the next flush a second one may take back what the killed
   call had written, which is not the call in progress then. *)
THEOREM LossHitsOneCall ==
    ASSUME MaxCuts <= 1
    PROVE  CacheSpec => LossHitsOnlyTheCall
  <1>1. CacheInit => CacheInv /\ ProgressInv
    BY CacheInvInit, ProgressInit
  <1>2. CacheInv /\ ProgressInv /\ [CacheNext]_cacheVars => (CacheInv /\ ProgressInv)'
    BY CacheInvNext, ProgressNext
  <1>3. CacheInv /\ ProgressInv /\ [CacheNext]_cacheVars =>
            [cuts' # cuts /\ ~harmed =>
                \A n \in Names \ {call.name, call.to} : StoreView[n] = StoreView'[n]]_cacheVars
    <2> SUFFICES ASSUME CacheInv, ProgressInv, CacheNext, cuts' # cuts, ~harmed,
                        NEW n \in Names \ {call.name, call.to}
                 PROVE  StoreView[n] = StoreView'[n]
      OBVIOUS
    <2>1. Failure /\ cuts < MaxCuts
      BY DEF CacheNext, CacheBegin, CacheAdvance, Begin, Advance, Failure, PowerCut, Lose
    <2>2. cuts \in Nat
      BY DEF CacheInv, TypeOK
    <2>3. cuts = 0
      BY <2>1, <2>2, OpsAssumption
    <2>4. QED BY <2>1, <2>3, LossSparesBytes
  <1>4. QED BY <1>1, <1>2, <1>3, PTL DEF CacheSpec, LossHitsOnlyTheCall

-----------------------------------------------------------------------------
(* The steps of a call leave the other files alone *)

(* A file is steady when its line meets no cluster that is relinked, the last
   of the line left out, or rewritten. *)
LEMMA LineSteady ==
    ASSUME Ground, SafeInv, NEW n \in Names, dir[n].used, NEW x,
           \A c \in Clusters : c # x => fat'[c] = fat[c] /\ data'[c] = data[c],
           \A i \in 1 .. Owed(n, dir[n]) :
               Line(n, dir[n])[i] = x => i = Owed(n, dir[n]) /\ data'[x] = data[x]
    PROVE  Steady(n)
  <1> DEFINE k == Kept(n)
             w == ChainFrom(fat, dir[n].first, k)
  <1>1. /\ k \in Nat /\ Owed(n, dir[n]) = k /\ Line(n, dir[n]) = w
        /\ \A i \in 1 .. k : w[i] \in Clusters
    BY KeptLine
  <1> HIDE DEF k, w
  <1>2. \A i \in 1 .. k : w[i] = x => i = k /\ data'[x] = data[x]
    BY <1>1
  <1>3. \A i \in 1 .. k : (i < k => fat'[w[i]] = fat[w[i]]) /\ data'[w[i]] = data[w[i]]
    <2> TAKE i \in 1 .. k
    <2>1. CASE w[i] # x
      BY <1>1, <2>1
    <2>2. CASE w[i] = x
      <3>1. i = k /\ data'[w[i]] = data[w[i]]
        BY <1>2, <2>2
      <3>2. ~(i < k)
        BY <1>1, <3>1
      <3>3. QED BY <3>1, <3>2
    <2>3. QED BY <2>1, <2>2
  <1>4. QED BY <1>3 DEF Steady, k, w

(* The clusters a call takes and frees are no file's. *)
LEMMA UnclaimedSteady ==
    ASSUME Ground, SafeInv, NEW n \in Names, dir[n].used, NEW x, Unclaimed(x),
           \A c \in Clusters : c # x => fat'[c] = fat[c], data' = data
    PROVE  Steady(n)
  <1>1. dir[n] \in Entries(n)
    BY KeptLine
  <1>2. \A i \in 1 .. Owed(n, dir[n]) : Line(n, dir[n])[i] # x
    BY <1>1 DEF Unclaimed
  <1>3. QED BY <1>2, LineSteady

(* The end of the chain a write hooks its clusters to, and the last cluster a
   truncation keeps, are on the line of the call's file alone. *)
LEMMA LinkTailSteady ==
    ASSUME Ground, SafeInv, LinkTail, NEW n \in Names, dir[n].used
    PROVE  Steady(n)
  <1> DEFINE x == chain[Len(chain)]
             w == ChainFrom(fat, call.first, call.old)
  <1>1. pc = "tail" /\ data' = data /\ fat' = [fat EXCEPT ![x] = got[1]] /\ chain # << >>
    BY DEF LinkTail
  <1>2. /\ call.old = Len(chain) /\ call.old \in Nat /\ chain \in Seq(Clusters)
        /\ \A i \in 1 .. Len(chain) : chain[i] = w[i]
    BY <1>1, TailVector
  <1>3. /\ dir[call.name] \in Entries(call.name)
        /\ Owed(call.name, dir[call.name]) = call.old /\ Line(call.name, dir[call.name]) = w
        /\ \A i, j \in 1 .. call.old : w[i] = w[j] => i = j
        /\ \A m \in Names \ {call.name} : \A e \in Entries(m) :
              \A i \in 1 .. Owed(m, e), j \in 1 .. call.old : Line(m, e)[i] # w[j]
    <2>1. pc \in Before
      BY <1>1 DEF Before
    <2>2. QED BY <2>1, CallFile
  <1>4. call.old \in 1 .. call.old /\ x = w[call.old]
    <2>1. Len(chain) > 0
      BY <1>1, <1>2, EmptySeq
    <2>2. QED BY <1>2, <2>1
  <1>5. \A c \in Clusters : c # x => fat'[c] = fat[c] /\ data'[c] = data[c]
    <2>1. fat \in [Clusters -> FatValues]
      BY DEF Ground, TypeOK
    <2>2. QED BY <1>1, <2>1
  <1>6. dir[n] \in Entries(n)
    BY KeptLine
  <1> HIDE DEF x, w
  <1>7. \A i \in 1 .. Owed(n, dir[n]) :
            Line(n, dir[n])[i] = x => i = Owed(n, dir[n]) /\ data'[x] = data[x]
    <2>1. CASE n = call.name
      BY <1>1, <1>3, <1>4, <2>1
    <2>2. CASE n # call.name
      BY <1>3, <1>4, <1>6, <2>2
    <2>3. QED BY <2>1, <2>2
  <1>8. QED BY <1>5, <1>7, LineSteady

LEMMA CutFacts ==
    ASSUME Ground, SafeInv, CutChain
    PROVE  LET w == ChainFrom(fat, call.first, call.old)
           IN  /\ call.count \in 1 .. call.old /\ call.old \in Nat /\ call.count \in Nat
               /\ data' = data
               /\ \A c \in Clusters : c # w[call.count] => fat'[c] = fat[c]
               /\ \A i \in 1 .. call.old : w[i] \in Clusters
               /\ \A i, j \in 1 .. call.old : w[i] = w[j] => i = j
               /\ \A m \in Names \ {call.name} : \A e \in Entries(m) :
                     \A i \in 1 .. Owed(m, e), j \in 1 .. call.old : Line(m, e)[i] # w[j]
  <1> DEFINE w == ChainFrom(fat, call.first, call.old)
  <1>1. /\ pc = "cut" /\ call.count > 0 /\ call.count <= Len(chain)
        /\ fat' = [fat EXCEPT ![chain[call.count]] = END_OF_CHAIN] /\ data' = data
    BY DEF CutChain
  <1>2. /\ call.old \in Nat /\ call.count \in Nat
        /\ \A i \in 1 .. call.old : w[i] \in Clusters
        /\ \A i, j \in 1 .. call.old : w[i] = w[j] => i = j
        /\ \A m \in Names \ {call.name} : \A e \in Entries(m) :
              \A i \in 1 .. Owed(m, e), j \in 1 .. call.old : Line(m, e)[i] # w[j]
    <2>1. pc \in Before
      BY <1>1 DEF Before
    <2>2. QED BY <2>1, CallFile
  <1>3. Len(chain) = call.old /\ \A i \in 1 .. Len(chain) : chain[i] = w[i]
    BY <1>1, Zenon DEF SafeInv, VectorInv
  <1> HIDE DEF w
  <1>4. call.count \in 1 .. call.old /\ chain[call.count] = w[call.count]
    BY <1>1, <1>2, <1>3
  <1>5. \A c \in Clusters : c # w[call.count] => fat'[c] = fat[c]
    <2>1. fat \in [Clusters -> FatValues]
      BY DEF Ground, TypeOK
    <2>2. QED BY <1>1, <1>4, <2>1
  <1>6. QED BY <1>1, <1>2, <1>4, <1>5 DEF w

LEMMA CutChainSpares ==
    ASSUME Ground, SafeInv, CutChain
    PROVE  /\ \A n \in Names \ {call.name} : dir[n].used => Steady(n)
           /\ \A i \in 1 .. call.count :
                 ChainFrom(fat', call.first, call.count)[i] =
                     ChainFrom(fat, call.first, call.old)[i]
  <1> DEFINE w == ChainFrom(fat, call.first, call.old)
             v == ChainFrom(fat, call.first, call.count)
  <1>1. /\ call.count \in 1 .. call.old /\ call.old \in Nat /\ call.count \in Nat
        /\ data' = data
        /\ \A c \in Clusters : c # w[call.count] => fat'[c] = fat[c]
        /\ \A i \in 1 .. call.old : w[i] \in Clusters
        /\ \A i, j \in 1 .. call.old : w[i] = w[j] => i = j
        /\ \A m \in Names \ {call.name} : \A e \in Entries(m) :
              \A i \in 1 .. Owed(m, e), j \in 1 .. call.old : Line(m, e)[i] # w[j]
    BY CutFacts
  <1>2. \A i \in 1 .. call.count : v[i] = w[i]
    BY <1>1, ChainPrefix
  <1> HIDE DEF w, v
  <1>3. ASSUME NEW n \in Names \ {call.name}, dir[n].used PROVE Steady(n)
    <2>1. dir[n] \in Entries(n)
      BY <1>3, KeptLine
    <2>2. \A i \in 1 .. Owed(n, dir[n]) : Line(n, dir[n])[i] # w[call.count]
      BY <1>1, <2>1
    <2>3. QED BY <1>1, <1>3, <2>2, LineSteady
  <1>4. \A i \in 1 .. call.count - 1 : fat'[v[i]] = fat[v[i]]
    <2> TAKE i \in 1 .. call.count - 1
    <2>1. i \in 1 .. call.count /\ i \in 1 .. call.old /\ i # call.count
      BY <1>1
    <2>2. v[i] = w[i] /\ w[i] \in Clusters /\ w[i] # w[call.count]
      BY <1>1, <1>2, <2>1
    <2>3. QED BY <1>1, <2>2
  <1>5. \A i \in 1 .. call.count : ChainFrom(fat', call.first, call.count)[i] = v[i]
    BY <1>1, <1>4, ChainSame DEF v
  <1>6. QED BY <1>2, <1>3, <1>5 DEF w

LEMMA WriteDataSpares ==
    ASSUME Ground, SafeInv, FrameInv, WriteData, NEW n \in Names \ {call.name}, dir[n].used
    PROVE  Steady(n)
  <1> DEFINE ci == pos \div ClusterBytes + 1
  <1>1. ci \in 1 .. Len(chain) /\ \A c \in Clusters : c # chain[ci] => data'[c] = data[c]
    BY WriteDataEffect
  <1>2. fat' = fat /\ Filling
    BY PieceBounds DEF WriteData
  <1>3. dir[n] \in Entries(n)
    BY KeptLine
  <1> HIDE DEF ci
  <1>4. Distinct(Line(n, dir[n]), Owed(n, dir[n]), chain, Len(chain))
    BY <1>2, <1>3 DEF SafeInv, GrownInv
  <1>5. \A i \in 1 .. Owed(n, dir[n]) : Line(n, dir[n])[i] # chain[ci]
    BY <1>1, <1>4 DEF Distinct
  <1>6. QED BY <1>1, <1>2, <1>5, LineSteady

LEMMA QuietSpares ==
    ASSUME Ground, SafeInv, QuietSteps, NEW n \in Names, dir[n].used
    PROVE  Steady(n)
  <1>1. data' = data
    BY DEF QuietSteps, ReadChain, AllocCluster, LinkCluster, StartChain, LinkTail, FreeBit,
       FreeFat, WalkChain, FlushAndGoOn, disk
  <1>2. CASE LinkTail
    BY <1>2, LinkTailSteady
  <1>3. CASE LinkCluster
    <2> DEFINE x == got[linked + 1]
    <2>1. pc = "link" /\ fat' = [fat EXCEPT ![x] = Successor(linked + 1)]
      BY <1>3 DEF LinkCluster
    <2>2. linked \in Nat /\ Len(got) \in Nat /\ fat \in [Clusters -> FatValues]
      BY DEF Ground, TypeOK
    <2>3. linked < Len(got) /\ \A i \in 1 .. Len(got) : Unclaimed(got[i])
      BY <2>1, Zenon DEF SafeInv, TakenInv
    <2>4. linked + 1 \in 1 .. Len(got)
      BY <2>2, <2>3
    <2>5. Unclaimed(x) /\ \A c \in Clusters : c # x => fat'[c] = fat[c]
      BY <2>1, <2>2, <2>3, <2>4
    <2>6. QED BY <1>1, <2>5, UnclaimedSteady
  <1>4. CASE FreeFat
    <2> DEFINE x == Head(todo)
    <2>1. pc = "free fat" /\ fat' = [c \in Clusters |-> IF c = x THEN 0 ELSE fat[c]]
      BY <1>4 DEF FreeFat
    <2>2. todo # << >> /\ todo \in Seq(Nat)
      BY <2>1 DEF Ground, LoopsInv, TypeOK
    <2>3. x = todo[1] /\ 1 \in 1 .. Len(todo)
      BY <2>2
    <2>4. Unclaimed(x)
      BY <2>1, <2>3 DEF SafeInv, FreedInv
    <2>5. \A c \in Clusters : c # x => fat'[c] = fat[c]
      BY <2>1
    <2>6. QED BY <1>1, <2>4, <2>5, UnclaimedSteady
  <1>5. CASE ~LinkTail /\ ~LinkCluster /\ ~FreeFat
    <2>1. fat' = fat
      BY <1>5 DEF QuietSteps, ReadChain, AllocCluster, StartChain, FreeBit, WalkChain,
         FlushAndGoOn, disk
    <2>2. QED BY <1>1, <2>1, NothingMoves
  <1>6. QED BY <1>2, <1>3, <1>4, <1>5

-----------------------------------------------------------------------------
(* Every step but a loss is one of the file store *)

LEMMA CacheStepMaps ==
    ASSUME Ground, Ground', SafeInv, SafeInv', FrameInv, FrameInv', CacheBegin \/ CacheAdvance
    PROVE  AbstractStep
  <1>1. CASE CacheBegin
    BY <1>1, BeginMaps DEF CacheBegin, Begin
  <1>2. CASE CacheAdvance
    <2>1. Step
      BY <1>2 DEF CacheAdvance, Advance
    <2>2. CASE Inside
      <3>1. QuietSteps => \A n \in Names : dir[n].used => Steady(n)
        BY QuietSpares
      <3>2. WriteData \/ CutChain => \A n \in Names \ {call.name} : dir[n].used => Steady(n)
        BY WriteDataSpares, CutChainSpares
      <3>3. CutChain => \A i \in 1 .. call.count :
                ChainFrom(fat', call.first, call.count)[i] = ChainFrom(fat, call.first, call.old)[i]
        BY CutChainSpares
      <3>4. QED BY <2>2, <3>1, <3>2, <3>3, InsideMaps
    <2>3. CASE ReadChainFails \/ AllocFails \/ CutPanics \/ WalkFails \/ FlushAndReturn
      <3>1. Ended /\ UNCHANGED disk /\ pc \in {"read", "alloc", "cut", "walk", "flush"}
        BY <2>3 DEF ReadChainFails, AllocFails, CutPanics, WalkFails, FlushAndReturn, Return, Abandon
      <3>2. ~Idle /\ \A n \in Names : ~Cutting(n)
        BY <3>1 DEF Idle, Cutting
      <3>3. call.kind = "rename" => ~dir[call.name].used
        BY <3>1 DEF FrameInv, RenameInv
      <3>4. QED BY <3>1, <3>2, <3>3, EndMaps
    <2>4. ~CutToNothing
      <3>1. CutToNothing => call.kind = "shrink" /\ call.count = 0
        BY DEF CutToNothing, Ground, LoopsInv
      <3>2. call.kind = "shrink" => call.count > 0
        BY Zenon DEF SafeInv, CountsInv
      <3>3. ~(0 > 0)
        OBVIOUS
      <3>4. QED BY <3>1, <3>2, <3>3
    <2>5. ~WritePastChain /\ ~FreeBitFails
      BY NoWritePast, FreedBitFound DEF Ground, SafeInv
    <2>6. QED BY <2>1, <2>2, <2>3, <2>4, <2>5 DEF Step, Inside
  <1>3. QED BY <1>1, <1>2

(* Over a device that writes in any order the volume is the file store as
   well, before a failure and after it: in every step but the failures, as long
   as no call has run that may cost committed data. *)
THEOREM CacheKeepsFileStore == CacheSpec => KeepsFileStore
  <1>1. CacheInit => CacheInv /\ ProgressInv
    BY CacheInvInit, ProgressInit
  <1>2. CacheInv /\ ProgressInv /\ [CacheNext]_cacheVars => (CacheInv /\ ProgressInv)'
    BY CacheInvNext, ProgressNext
  <1>3. CacheInv /\ ProgressInv /\ [CacheNext]_cacheVars =>
            [harmed' \/ cuts' # cuts \/ StoreStep]_<<StoreView, RequestView>>
    <2>1. ASSUME UNCHANGED cacheVars PROVE StoreView' = StoreView /\ RequestView' = RequestView
      <3>1. UNCHANGED <<vars, flight, harmed>>
        BY <2>1 DEF cacheVars
      <3>2. QED BY <3>1 DEF vars, disk, locals, StoreView, RequestView, Contents, FileChain,
                   Applied, Idle
    <2>2. ASSUME CacheInv, ProgressInv, CacheNext, ~harmed', cuts' = cuts PROVE AbstractStep
      <3>1. CacheInv' /\ ProgressInv'
        BY <2>2, CacheInvNext, ProgressNext
      <3>2. ~harmed
        BY <2>2 DEF CacheNext, CacheBegin, CacheAdvance, Failure
      <3>3. Ground /\ Ground' /\ SafeInv /\ SafeInv' /\ FillInv /\ FillInv'
        BY <2>2, <3>1, <3>2 DEF CacheInv, Ground, ProgressInv
      <3>4. FrameInv /\ FrameInv'
        BY <3>3, FrameOf, FrameOfNext
      <3>5. ~Failure
        <4>1. Failure => cuts' = cuts + 1
          BY DEF Failure, PowerCut, Lose
        <4>2. cuts \in Nat
          BY <3>3 DEF Ground, TypeOK
        <4>3. QED BY <2>2, <4>1, <4>2
      <3>6. QED BY <2>2, <3>3, <3>4, <3>5, CacheStepMaps DEF CacheNext
    <2>3. AbstractStep <=> StoreStep \/ UNCHANGED <<StoreView, RequestView>>
      BY DEF AbstractStep, StoreStep, Abstract!vars
    <2>4. SUFFICES ASSUME CacheInv, ProgressInv, [CacheNext]_cacheVars
                   PROVE  \/ harmed' \/ cuts' # cuts \/ StoreStep
                          \/ UNCHANGED <<StoreView, RequestView>>
      BY Zenon
    <2>5. QED BY <2>1, <2>2, <2>3, <2>4
  <1>4. QED BY <1>1, <1>2, <1>3, PTL DEF CacheSpec, KeepsFileStore
=============================================================================
