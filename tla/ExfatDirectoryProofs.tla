------------------------ MODULE ExfatDirectoryProofs ------------------------
(***************************************************************************)
(* What holds of directories for every number of names, clusters and slots *)
(* and any number of power cuts.                                           *)
(*                                                                         *)
(* Types, that of a handle among them, a directory with a first cluster:   *)
(* what a search of a directory reads, which scripts a call may start      *)
(* with, and that every device write leaves slots in which the rest of its *)
(* script still fits (invariant DirInv).                                   *)
(*                                                                         *)
(* Sound directories: every disk between two writes of a script keeps the  *)
(* clusters of its directories apart, marked and chained, and what a       *)
(* script ends with has one entry set for each directory (SoundInv).  One  *)
(* lemma for each part of a script says so, then one for each call.        *)
(***************************************************************************)
EXTENDS ExfatDirectoryInv, SequenceTheorems, FiniteSetTheorems, WellFoundedInduction, TLAPS

-----------------------------------------------------------------------------
(* Numbers *)

(* A set of naturals has a least element. *)
LEMMA LeastNumber ==
    ASSUME NEW T \in SUBSET Nat, T # {}
    PROVE  \E x \in T : \A y \in T : x <= y
<1> DEFINE R == OpToRel(<, Nat)
<1>1. IsWellFoundedOn(R, Nat) BY NatLessThanWellFounded
<1>2. \E x \in T : \A y \in T : <<y, x>> \notin R
    <2> HIDE DEF R
    <2>1. QED BY <1>1, WFMin
<1>3. PICK x \in T : \A y \in T : <<y, x>> \notin R BY <1>2
<1>4. \A y \in T : ~(y < x) BY <1>3 DEF OpToRel
<1> HIDE DEF R
<1>5. \A y \in T : x <= y BY <1>3, <1>4
<1>6. QED BY <1>3, <1>5

LEMMA LeastOfSet ==
    ASSUME NEW T \in SUBSET Nat, T # {}
    PROVE  Least[T] \in T
<1>1. Least[T] = CHOOSE i \in T : \A j \in T : i <= j BY DEF Least
<1>2. QED BY <1>1, LeastNumber

(* A set of naturals with 1 and with every successor is all of them but 0. *)
LEMMA CountingUp ==
    ASSUME NEW S, 1 \in S, \A i \in Nat \ {0} : i \in S => i + 1 \in S
    PROVE  Nat \ {0} \subseteq S
<1> DEFINE T == (Nat \ {0}) \ S
<1> SUFFICES ASSUME T # {} PROVE FALSE
    OBVIOUS
<1>1. PICK x \in T : \A y \in T : x <= y
    <2>1. T \in SUBSET Nat OBVIOUS
    <2>2. QED BY <2>1, LeastNumber
<1>2. x # 1 /\ x - 1 \in Nat \ {0} /\ x - 1 + 1 = x /\ ~(x <= x - 1) BY <1>1
<1>3. x - 1 \in S BY <1>1, <1>2
<1>4. QED BY <1>1, <1>2, <1>3

LEMMA DivMod ==
    ASSUME NEW a \in Nat, NEW b \in Nat \ {0}
    PROVE  /\ a \div b \in Nat /\ a % b \in Nat
           /\ a = (a \div b) * b + (a % b) /\ a % b < b
OBVIOUS

LEMMA TimesMono ==
    ASSUME NEW a \in Nat, NEW b \in Nat, NEW p \in Nat, a <= b
    PROVE  a * p \in Nat /\ b * p \in Nat /\ a * p <= b * p
<1>1. PICK d \in Nat : b = a + d
    <2>1. b - a \in Nat /\ b = a + (b - a) OBVIOUS
    <2>2. QED BY <2>1
<1>2. b * p = a * p + d * p BY <1>1
<1>3. a * p \in Nat /\ d * p \in Nat BY <1>1
<1>4. QED BY <1>2, <1>3

(* Small steps stay in the same block. *)
LEMMA DivSame ==
    ASSUME NEW a \in Nat, NEW b \in Nat \ {0}, NEW m \in Nat, (a % b) + m < b
    PROVE  (a + m) \div b = a \div b /\ (a + m) % b = (a % b) + m
OBVIOUS

-----------------------------------------------------------------------------
(* Recursion *)

IsWalk(F, x, n, w) == w = [k \in 1 .. n |-> IF k = 1 THEN x ELSE F[w[k - 1]]]

(* Following a function step by step. *)
LEMMA WalkExists ==
    ASSUME NEW F, NEW x, NEW n \in Nat \ {0}
    PROVE  \E w : IsWalk(F, x, n, w)
<1> DEFINE S == {m \in Nat \ {0} : \E w : IsWalk(F, x, m, w)}
<1>1. 1 \in S
    <2>1. IsWalk(F, x, 1, [k \in 1 .. 1 |-> x]) BY DEF IsWalk
    <2>2. QED BY <2>1
<1>2. ASSUME NEW m \in Nat \ {0}, m \in S PROVE m + 1 \in S
    <2>1. PICK w : IsWalk(F, x, m, w) BY <1>2
    <2> DEFINE v == [k \in 1 .. m + 1 |-> IF k <= m THEN w[k] ELSE F[w[m]]]
    <2>2. \A k \in 1 .. m : w[k] = IF k = 1 THEN x ELSE F[w[k - 1]]
        BY <2>1 DEF IsWalk
    <2>3. \A k \in 1 .. m + 1 : v[k] = IF k = 1 THEN x ELSE F[v[k - 1]]
        <3> TAKE k \in 1 .. m + 1
        <3>1. CASE k <= m BY <2>2, <3>1
        <3>2. CASE k = m + 1 BY <3>2
        <3>3. QED BY <3>1, <3>2
    <2>4. IsWalk(F, x, m + 1, v) BY <2>3 DEF IsWalk
    <2>5. QED BY <2>4
<1>3. Nat \ {0} \subseteq S
    <2> HIDE DEF S
    <2>1. QED BY <1>1, <1>2, CountingUp
<1>4. QED BY <1>3

LEMMA WalkStays ==
    ASSUME NEW F, NEW S, NEW x \in S, \A s \in S : F[s] \in S,
           NEW n \in Nat \ {0}, NEW w, IsWalk(F, x, n, w)
    PROVE  w[n] \in S
<1> DEFINE T == {m \in Nat \ {0} : m <= n => w[m] \in S}
<1>1. \A k \in 1 .. n : w[k] = IF k = 1 THEN x ELSE F[w[k - 1]]
    BY DEF IsWalk
<1>2. 1 \in T BY <1>1
<1>3. ASSUME NEW m \in Nat \ {0}, m \in T PROVE m + 1 \in T
    <2> SUFFICES ASSUME m + 1 <= n PROVE w[m + 1] \in S
        OBVIOUS
    <2>1. w[m] \in S BY <1>3
    <2>2. m + 1 \in 1 .. n /\ m + 1 # 1 /\ (m + 1) - 1 = m OBVIOUS
    <2>3. w[m + 1] = F[w[m]] BY <1>1, <2>2
    <2>4. QED BY <2>1, <2>3
<1>4. Nat \ {0} \subseteq T
    <2> HIDE DEF T
    <2>1. QED BY <1>2, <1>3, CountingUp
<1>5. QED BY <1>4

-----------------------------------------------------------------------------
(* Reading a directory *)

LEMMA Sizes ==
    /\ ClusterCount \in Nat \ {0} /\ PerCluster \in Nat \ {0} /\ PerCluster >= 3
    /\ (LongNames # {} => PerCluster >= 4) /\ SystemSlots \in 0 .. PerCluster
    /\ END_OF_CHAIN \in Nat /\ Lens \subseteq Nat /\ 0 \in Lens
BY SizesAssumption

LEMMA RootIsCluster == RootCluster \in Clusters
BY Sizes DEF RootCluster, Clusters

(* Chains start where they are said to. *)
Chains == {c \in Seq(Clusters) : Len(c) >= 1}

LEMMA ExtendedStays ==
    ASSUME NEW c \in Chains
    PROVE  Extended[c] \in Chains
<1>1. c \in Seq(Clusters) BY DEF Chains
<1>2. Extended[c] = LET next == fat[c[Len(c)]]
                    IN  IF next \in Clusters THEN Append(c, next) ELSE c
    BY <1>1 DEF Extended
<1>3. QED BY <1>1, <1>2, AppendProperties DEF Chains

LEMMA ChainTyped ==
    ASSUME NEW first \in Clusters
    PROVE  Chain(first) \in Seq(Clusters) /\ Len(Chain(first)) \in Nat \ {0}
<1> DEFINE W == CHOOSE w : IsWalk(Extended, <<first>>, ClusterCount, w)
<1>1. Chain(first) = W[ClusterCount] BY DEF Chain, IsWalk
<1>2. IsWalk(Extended, <<first>>, ClusterCount, W) BY Sizes, WalkExists
<1>3. <<first>> \in Chains BY DEF Chains
<1> HIDE DEF W
<1>4. W[ClusterCount] \in Chains BY <1>2, <1>3, ExtendedStays, Sizes, WalkStays
<1>5. QED BY <1>1, <1>4 DEF Chains

(* The slots of a chain, in its order. *)
LEMMA SlotsOfTyped ==
    ASSUME NEW c \in Seq(Clusters)
    PROVE  /\ SlotsOf[c] \in Seq(Addresses) /\ Len(SlotsOf[c]) = Len(c) * PerCluster
           /\ DOMAIN SlotsOf[c] = 1 .. Len(c) * PerCluster
           /\ \A i \in 1 .. Len(c) * PerCluster :
                 /\ SlotsOf[c][i] = <<c[(i - 1) \div PerCluster + 1], ((i - 1) % PerCluster) + 1>>
                 /\ (i - 1) \div PerCluster + 1 \in 1 .. Len(c)
                 /\ ((i - 1) % PerCluster) + 1 \in Index
<1> DEFINE n == Len(c) * PerCluster
<1>1. n \in Nat /\ Len(c) \in Nat BY Sizes
<1>2. SlotsOf[c] = [i \in 1 .. n |->
          <<c[(i - 1) \div PerCluster + 1], ((i - 1) % PerCluster) + 1>>]
    BY DEF SlotsOf
<1>3. ASSUME NEW i \in 1 .. n
      PROVE  /\ (i - 1) \div PerCluster + 1 \in 1 .. Len(c)
             /\ ((i - 1) % PerCluster) + 1 \in Index
    <2> DEFINE q == (i - 1) \div PerCluster
               r == (i - 1) % PerCluster
    <2>1. q \in Nat /\ r \in Nat /\ i - 1 = q * PerCluster + r /\ r < PerCluster
        BY DivMod, Sizes
    <2>2. i - 1 < Len(c) * PerCluster BY <1>1
    <2>3. q < Len(c)
        <3> HIDE DEF q, r
        <3> SUFFICES ASSUME q >= Len(c) PROVE FALSE BY <2>1, <1>1
        <3>1. q * PerCluster >= Len(c) * PerCluster BY <2>1, <1>1, Sizes
        <3>2. QED BY <3>1, <2>1, <2>2, <1>1, Sizes
    <2>4. QED
        <3> HIDE DEF q, r
        <3>1. q + 1 \in 1 .. Len(c) /\ r + 1 \in Index BY <2>1, <2>3, <1>1, Sizes DEF Index
        <3>2. QED BY <3>1 DEF q, r
<1>4. ASSUME NEW i \in 1 .. n PROVE SlotsOf[c][i] \in Addresses
    <2> DEFINE x == (i - 1) \div PerCluster + 1
               y == ((i - 1) % PerCluster) + 1
    <2>1. x \in 1 .. Len(c) /\ y \in Index BY <1>3
    <2>2. SlotsOf[c][i] = <<c[x], y>> BY <1>2
    <2> HIDE DEF x, y
    <2>3. c[x] \in Clusters BY <2>1, <1>1
    <2>4. QED BY <2>1, <2>2, <2>3 DEF Addresses
<1> HIDE DEF n
<1>5. DOMAIN SlotsOf[c] = 1 .. n BY <1>2
<1>6. SlotsOf[c] \in Seq(Addresses)
    <2>1. SlotsOf[c] \in [1 .. n -> Addresses] BY <1>2, <1>4, <1>5
    <2>2. QED BY <2>1, <1>1, IsASeq
<1>7. Len(SlotsOf[c]) = n BY <1>5, <1>6, <1>1, LenProperties
<1>8. QED BY <1>2, <1>3, <1>5, <1>6, <1>7 DEF n

LEMMA DirSlotsTyped ==
    ASSUME NEW first \in Clusters
    PROVE  DirSlots(first) \in Seq(Addresses)
BY ChainTyped, SlotsOfTyped DEF DirSlots

(* Slots of the same cluster lie side by side. *)
LEMMA SlotsSideBySide ==
    ASSUME NEW c \in Seq(Clusters), NEW i \in 1 .. Len(SlotsOf[c]), NEW m \in Nat,
           ((i - 1) % PerCluster) + m < PerCluster
    PROVE  /\ i + m \in 1 .. Len(SlotsOf[c])
           /\ SlotsOf[c][i + m] = <<SlotsOf[c][i][1], SlotsOf[c][i][2] + m>>
           /\ SlotsOf[c][i] \in Addresses /\ SlotsOf[c][i][2] + m \in Index
<1> DEFINE n == Len(c) * PerCluster
           q == (i - 1) \div PerCluster
           r == (i - 1) % PerCluster
<1>1. /\ n \in Nat /\ Len(c) \in Nat /\ Len(SlotsOf[c]) = n
      /\ SlotsOf[c][i] = <<c[q + 1], r + 1>> /\ q + 1 \in 1 .. Len(c)
      /\ i \in 1 .. n
    BY SlotsOfTyped, Sizes
<1>a. i - 1 \in Nat /\ i \in Nat BY <1>1
<1>2. q \in Nat /\ r \in Nat /\ i - 1 = q * PerCluster + r /\ r < PerCluster
    BY DivMod, Sizes, <1>a
<1>3. (i - 1 + m) \div PerCluster = q /\ (i - 1 + m) % PerCluster = r + m
    BY DivSame, Sizes, <1>a
<1>4. i + m \in 1 .. n
    <2> HIDE DEF q, r, n
    <2>0. r + m < PerCluster BY DEF r
    <2>1. i - 1 + m < (q + 1) * PerCluster
        <3>1. (q + 1) * PerCluster = q * PerCluster + PerCluster BY <1>2, Sizes
        <3>2. q * PerCluster \in Nat BY <1>2, Sizes
        <3>3. QED BY <3>1, <3>2, <2>0, <1>2, <1>a, Sizes
    <2>2. /\ (q + 1) * PerCluster <= Len(c) * PerCluster
           /\ (q + 1) * PerCluster \in Nat /\ Len(c) * PerCluster \in Nat
        <3>1. q + 1 \in Nat /\ q + 1 <= Len(c) BY <1>1, <1>2
        <3>2. QED BY <3>1, <1>1, Sizes, TimesMono
    <2>3. i + m <= Len(c) * PerCluster BY <2>1, <2>2, <1>a
    <2>4. QED BY <2>3, <1>a, <1>1 DEF n
<1>5. (i + m) - 1 = i - 1 + m BY <1>1
<1>6. SlotsOf[c][i + m] = <<c[q + 1], r + m + 1>>
    <2> HIDE DEF q, r
    <2>1. SlotsOf[c][i + m] =
              <<c[((i + m) - 1) \div PerCluster + 1], (((i + m) - 1) % PerCluster) + 1>>
        BY <1>4, SlotsOfTyped
    <2>2. QED BY <2>1, <1>3, <1>5
<1>7. r + 1 + m \in Index /\ r + m + 1 = r + 1 + m BY <1>2, Sizes DEF Index
<1> HIDE DEF q, r, n
<1>8. c[q + 1] \in Clusters /\ r + 1 \in Index
    <2>1. q + 1 \in 1 .. Len(c) BY <1>1, <1>2
    <2>2. c[q + 1] \in Clusters BY <2>1, <1>1
    <2>3. r + 1 \in Index BY <1>2, Sizes DEF Index
    <2>4. QED BY <2>2, <2>3
<1>9. QED BY <1>1, <1>4, <1>6, <1>7, <1>8 DEF Addresses

-----------------------------------------------------------------------------
(* What the readers find *)

SlotTyped == slot \in [Clusters -> [Index -> Slots]]

LEMMA SlotKinds ==
    ASSUME NEW s \in Slots
    PROVE  /\ s.type \in {"end", "system", "file", "stream", "name"} /\ s.live \in BOOLEAN
           /\ s.type = "file" => s \in FileSlots
           /\ s.type = "stream" => s \in StreamSlots
           /\ s.type = "name" => s \in NameSlots
           /\ s.type = "end" => s = EndSlot
<1>1. CASE s = EndSlot BY <1>1 DEF EndSlot
<1>2. CASE s = SystemSlot BY <1>2 DEF SystemSlot
<1>3. CASE s \in FileSlots BY <1>3 DEF FileSlots
<1>4. CASE s \in StreamSlots BY <1>4 DEF StreamSlots
<1>5. CASE s \in NameSlots BY <1>5 DEF NameSlots
<1>6. QED BY <1>1, <1>2, <1>3, <1>4, <1>5 DEF Slots

LEMMA AtTyped ==
    ASSUME SlotTyped, NEW a \in Addresses
    PROVE  At(a) \in Slots /\ a[1] \in Clusters /\ a[2] \in Index /\ a = <<a[1], a[2]>>
           /\ At(a) = slot[a[1]][a[2]]
BY DEF SlotTyped, Addresses, At

Stops(d) == {s \in Seq(1 .. Len(d)) : Len(s) >= 1}

LEMMA FurtherStays ==
    ASSUME SlotTyped, NEW d \in Seq(Addresses), NEW s \in Stops(d)
    PROVE  Further(d)[s] \in Stops(d)
<1> DEFINE last == s[Len(s)]
<1>1. /\ s \in Seq(1 .. Len(d)) /\ Len(s) \in Nat /\ Len(s) >= 1 /\ Len(d) \in Nat
      /\ last \in 1 .. Len(d)
    BY DEF Stops
<1>2. s \in Seq(Nat)
    <2>1. 1 .. Len(d) \subseteq Nat BY <1>1
    <2>2. QED BY <2>1, <1>1
<1>3. Further(d)[s] = IF At(d[last]).type = "end" \/ After(d, last) > Len(d) THEN s
                      ELSE Append(s, After(d, last))
    BY <1>2 DEF Further
<1>4. After(d, last) \in Nat /\ After(d, last) >= 1
    <2>1. d[last] \in Addresses BY <1>1
    <2>2. At(d[last]) \in Slots BY <2>1, AtTyped
    <2>3. IsFile(At(d[last])) => At(d[last]).secondary \in 2 .. 3
        BY <2>2, SlotKinds DEF IsFile, FileSlots
    <2> HIDE DEF last
    <2>4. QED BY <2>3, <1>1 DEF After
<1> HIDE DEF last
<1>5. CASE ~(At(d[last]).type = "end" \/ After(d, last) > Len(d))
    <2>1. After(d, last) \in 1 .. Len(d) BY <1>5, <1>4, <1>1
    <2>2. Further(d)[s] = Append(s, After(d, last)) BY <1>3, <1>5
    <2>3. QED BY <2>1, <2>2, <1>1, AppendProperties DEF Stops
<1>6. CASE At(d[last]).type = "end" \/ After(d, last) > Len(d)
    BY <1>3, <1>6
<1>7. QED BY <1>5, <1>6

LEMMA ScannedTyped ==
    ASSUME SlotTyped, NEW d \in Seq(Addresses)
    PROVE  Scanned[d] \subseteq 1 .. Len(d)
<1> DEFINE W == CHOOSE w : IsWalk(Further(d), <<1>>, Len(d), w)
<1>1. CASE d = << >> BY <1>1 DEF Scanned
<1>2. CASE d # << >>
    <2>1. Scanned[d] = Members[W[Len(d)]] BY <1>2 DEF Scanned, IsWalk
    <2>2. Len(d) \in Nat \ {0} BY <1>2, EmptySeq
    <2>3. IsWalk(Further(d), <<1>>, Len(d), W) BY <2>2, WalkExists
    <2>4. <<1>> \in Stops(d) BY <2>2 DEF Stops
    <2> HIDE DEF W
    <2>5. W[Len(d)] \in Stops(d) BY <2>2, <2>3, <2>4, FurtherStays, WalkStays
    <2> DEFINE u == W[Len(d)]
    <2>6. u \in Seq(1 .. Len(d)) BY <2>5 DEF Stops
    <2> HIDE DEF u
    <2>7. u \in Seq(Nat)
        <3>1. 1 .. Len(d) \subseteq Nat BY <2>2
        <3>2. QED BY <3>1, <2>6
    <2>8. Members[u] = Range(u) BY <2>7 DEF Members
    <2>9. Range(u) \subseteq 1 .. Len(d) BY <2>6 DEF Range
    <2>10. QED BY <2>1, <2>8, <2>9 DEF u
<1>3. QED BY <1>1, <1>2

(* The entry set that a caller finds under a name lies inside one cluster,
   and if it is that of a directory it has a first cluster. *)
HitAt(e, n) ==
    \E c \in Clusters : \E j \in Index :
        /\ j + NameEntries(n) + 1 \in Index
        /\ Len(e.at) = NameEntries(n) + 2
        /\ \A k \in 1 .. NameEntries(n) + 2 : e.at[k] = <<c, j + k - 1>>
        /\ IsFile(slot[c][j]) /\ slot[c][j].secondary = 1 + NameEntries(n)
        /\ slot[c][j + 1].type = "stream"
        /\ \A k \in 1 .. NameEntries(n) : slot[c][j + 1 + k] = NameSlot(n, k)
        /\ e.dir = slot[c][j].dir /\ e.first = slot[c][j + 1].first
        /\ e.len = slot[c][j + 1].len
        /\ e.dir => e.first \in Clusters

LEMMA HitFacts ==
    ASSUME SlotTyped, SlotsInv, NEW ch \in Seq(Clusters), NEW n \in Names,
           NEW i \in Hits(n)[SlotsOf[ch]]
    PROVE  /\ Located(SlotsOf[ch])[i] \in EntryLocs
           /\ HitAt(Located(SlotsOf[ch])[i], n)
           /\ \E q \in 1 .. Len(ch) : Located(SlotsOf[ch])[i].at[1][1] = ch[q]
<1> DEFINE d == SlotsOf[ch]
           m == NameEntries(n)
           e == Located(d)[i]
<1>1. d \in Seq(Addresses) /\ Len(d) \in Nat BY SlotsOfTyped
<1>2. m \in 1 .. 2 BY DEF NameEntries
<1>3. i \in SetsOf[d] /\ Spells(d, i, n)
    <2>1. i \in Hits(n)[d] OBVIOUS
    <2> HIDE DEF d
    <2>2. QED BY <2>1, <1>1 DEF Hits
<1>4. i \in Scanned[d] /\ IsFile(At(d[i])) /\ Fits(d, i)
    <2> HIDE DEF d
    <2>1. QED BY <1>3, <1>1 DEF SetsOf
<1>5. i \in 1 .. Len(d) /\ i \in Nat
    <2> HIDE DEF d
    <2>1. QED BY <1>4, <1>1, ScannedTyped
<1>6. /\ At(d[i]).secondary = 1 + m
      /\ At(d[i + 1]).type = "stream"
      /\ \A k \in 1 .. m : At(d[i + 1 + k]) = NameSlot(n, k)
      /\ i + 1 + m <= Len(d)
    <2> HIDE DEF d
    <2>1. /\ At(d[i]).secondary = 1 + m
          /\ At(d[i + 1]).type = "stream"
          /\ \A k \in 1 .. m : At(d[i + 1 + k]) = NameSlot(n, k)
        BY <1>3 DEF Spells
    <2>2. i + At(d[i]).secondary <= Len(d) BY <1>4 DEF Fits
    <2> HIDE DEF m
    <2>3. i + (1 + m) <= Len(d) BY <2>1, <2>2
    <2>4. i + 1 + m <= Len(d) BY <2>3, <1>2, <1>5, <1>1
    <2>5. QED BY <2>1, <2>4
<1>7. e = [at |-> SubSeq(d, i, i + At(d[i]).secondary), dir |-> At(d[i]).dir,
           first |-> At(d[i + 1]).first, len |-> At(d[i + 1]).len]
    BY <1>5 DEF Located
<1>8. ASSUME NEW k \in 0 .. 1 + m
      PROVE  d[i + k] \in Addresses /\ i + k \in 1 .. Len(d)
    <2> HIDE DEF d, m
    <2>1. QED BY <1>1, <1>2, <1>5, <1>6
<1> DEFINE c == d[i][1]
           j == d[i][2]
<1>9. c \in Clusters /\ j \in Index /\ d[i] = <<c, j>>
    <2>1. d[i] \in Addresses
        <3> HIDE DEF d, m
        <3>1. 0 \in 0 .. 1 + m /\ i + 0 = i BY <1>2, <1>5
        <3>2. QED BY <3>1, <1>8
    <2>2. QED BY <2>1, AtTyped
<1>10. ((i - 1) % PerCluster) + 1 = j
    BY <1>5, SlotsOfTyped
<1>11. \A k \in Nat : j + k <= PerCluster => d[i + k] = <<c, j + k>> /\ j + k \in Index
    <2> TAKE k \in Nat
    <2> HAVE j + k <= PerCluster
    <2>1. ((i - 1) % PerCluster) + k < PerCluster
        <3> HIDE DEF j, d
        <3>1. j \in Nat BY <1>9, Sizes DEF Index
        <3>2. i - 1 \in Nat BY <1>5, <1>1
        <3>3. (i - 1) % PerCluster \in Nat BY <3>2, DivMod, Sizes
        <3>4. QED BY <1>10, <3>1, <3>3, Sizes
    <2>2. i \in 1 .. Len(SlotsOf[ch]) BY <1>5
    <2>3. QED BY <2>1, <2>2, SlotsSideBySide
<1>12. ASSUME NEW k \in Nat, j + k = PerCluster, i + k + 1 \in 1 .. Len(d)
       PROVE  d[i + k + 1][2] = 1
    <2> DEFINE r == (i - 1) % PerCluster
               q == (i - 1) \div PerCluster
    <2>1. r \in Nat /\ q \in Nat /\ i - 1 = q * PerCluster + r /\ i - 1 \in Nat
        <3>1. i - 1 \in Nat BY <1>5
        <3>2. QED BY <3>1, DivMod, Sizes
    <2>2. (i + k + 1) - 1 = (q + 1) * PerCluster
        <3>1. r + k + 1 = PerCluster
            <4>1. r + 1 = j BY <1>10
            <4> HIDE DEF r, j
            <4>2. QED BY <4>1, <1>12, <2>1
        <3> HIDE DEF r, q
        <3>2. (q + 1) * PerCluster = q * PerCluster + PerCluster /\ q * PerCluster \in Nat
            BY <2>1, Sizes
        <3>3. QED BY <3>1, <3>2, <2>1, Sizes, <1>5
    <2>3. ((i + k + 1) - 1) % PerCluster = 0
        <3> HIDE DEF q, r
        <3>1. ASSUME NEW x \in Nat PROVE (x * PerCluster) % PerCluster = 0
            BY Sizes
        <3>2. q + 1 \in Nat BY <2>1
        <3>3. QED BY <3>1, <3>2, <2>2
    <2>4. d[i + k + 1] = <<ch[((i + k + 1) - 1) \div PerCluster + 1],
                          (((i + k + 1) - 1) % PerCluster) + 1>>
        BY <1>12, SlotsOfTyped
    <2> HIDE DEF d
    <2>5. QED BY <2>3, <2>4
<1>13. ASSUME NEW k \in 1 .. 1 + m, j + k = PerCluster + 1 PROVE FALSE
    <2>0. k \in Nat \ {0} /\ j \in Nat /\ i \in Nat
        <3>1. k \in Nat \ {0} BY <1>13, <1>2
        <3>2. j \in Nat BY <1>9, Sizes DEF Index
        <3>3. i \in Nat BY <1>5
        <3>4. QED BY <3>1, <3>2, <3>3
    <2>1. k - 1 \in Nat /\ j + (k - 1) = PerCluster /\ i + (k - 1) + 1 = i + k
        <3> HIDE DEF j
        <3>1. QED BY <2>0, <1>13, Sizes
    <2>2. d[i + k] \in Addresses /\ i + k \in 1 .. Len(d)
        BY <1>8, <1>2
    <2>3. d[i + k][2] = 1
        <3> HIDE DEF d, j, m
        <3>1. i + (k - 1) + 1 \in 1 .. Len(d) BY <2>1, <2>2
        <3>2. d[i + (k - 1) + 1][2] = 1 BY <2>1, <3>1, <1>12
        <3>3. QED BY <3>2, <2>1
    <2>4. At(d[i + k]) = slot[d[i + k][1]][1] /\ d[i + k][1] \in Clusters
        <3> HIDE DEF d
        <3>1. QED BY <2>2, <2>3, AtTyped
    <2>5. 1 \in Index BY Sizes DEF Index
    <2>6. At(d[i + k]).type # "stream" /\ At(d[i + k]).type # "name"
        <3> HIDE DEF d
        <3>1. QED BY <2>4, <2>5 DEF SlotsInv
    <2>7. CASE k = 1 BY <2>6, <2>7, <1>6
    <2>8. CASE k # 1
        <3> HIDE DEF d, m
        <3>1. k - 1 \in 1 .. m /\ i + 1 + (k - 1) = i + k BY <2>8, <1>2, <1>5
        <3>2. At(d[i + k]) = NameSlot(n, k - 1) BY <3>1, <1>6
        <3>3. QED BY <3>2, <2>6 DEF NameSlot
    <2>9. QED BY <2>7, <2>8
<1>14. j + 1 + m <= PerCluster /\ j + m + 1 \in Index /\ j \in Nat
    <2>1. j \in 1 .. PerCluster BY <1>9 DEF Index
    <2> HIDE DEF j, m, d
    <2>2. SUFFICES ASSUME j + 1 + m > PerCluster PROVE FALSE
        BY <2>1, <1>2, Sizes DEF Index
    <2>3. PerCluster + 1 - j \in 1 .. 1 + m /\ j + (PerCluster + 1 - j) = PerCluster + 1
        BY <2>1, <2>2, <1>2, Sizes
    <2>4. QED BY <2>3, <1>13
<1>15. ASSUME NEW k \in 0 .. 1 + m
       PROVE  d[i + k] = <<c, j + k>> /\ j + k \in Index /\ At(d[i + k]) = slot[c][j + k]
    <2>1. k \in Nat /\ j + k <= PerCluster
        <3> HIDE DEF j, m, d
        <3>1. QED BY <1>14, <1>2, Sizes
    <2>2. d[i + k] = <<c, j + k>> /\ j + k \in Index
        <3> HIDE DEF c, j, m, d
        <3>1. QED BY <2>1, <1>11
    <2>3. QED
        <3> HIDE DEF c, j, m, d
        <3>1. QED BY <2>2 DEF At
<1> HIDE DEF c, j
<1>16. /\ IsFile(slot[c][j]) /\ slot[c][j].secondary = 1 + m
       /\ slot[c][j + 1].type = "stream"
       /\ e.dir = slot[c][j].dir /\ e.first = slot[c][j + 1].first
       /\ e.len = slot[c][j + 1].len
    <2>1. 0 \in 0 .. 1 + m /\ 1 \in 0 .. 1 + m /\ i + 0 = i /\ j + 0 = j
        BY <1>2, <1>5, <1>14
    <2>2. At(d[i]) = slot[c][j] /\ At(d[i + 1]) = slot[c][j + 1]
        <3> HIDE DEF d, m
        <3>1. QED BY <2>1, <1>15
    <2>3. QED
        <3> HIDE DEF d, m
        <3>1. QED BY <2>2, <1>4, <1>6, <1>7
<1>17. \A k \in 1 .. m : slot[c][j + 1 + k] = NameSlot(n, k)
    <2> HIDE DEF d, m
    <2> TAKE k \in 1 .. m
    <2>1. 1 + k \in 0 .. 1 + m /\ i + (1 + k) = i + 1 + k /\ j + (1 + k) = j + 1 + k
        BY <1>2, <1>5, <1>14
    <2>2. QED BY <2>1, <1>15, <1>6
<1>18. /\ e.at \in Seq(Addresses) /\ Len(e.at) = m + 2
       /\ \A k \in 1 .. m + 2 : e.at[k] = <<c, j + k - 1>>
    <2>1. e.at = SubSeq(d, i, i + 1 + m)
        <3> HIDE DEF d, m, e
        <3>1. e.at = SubSeq(d, i, i + At(d[i]).secondary) BY <1>7
        <3>2. i + At(d[i]).secondary = i + 1 + m BY <1>2, <1>5, <1>6
        <3>3. QED BY <3>1, <3>2
    <2> HIDE DEF d, m, e
    <2>2. /\ SubSeq(d, i, i + 1 + m) \in Seq(Addresses)
          /\ Len(SubSeq(d, i, i + 1 + m)) = m + 2
          /\ \A k \in 1 .. m + 2 : SubSeq(d, i, i + 1 + m)[k] = d[i + k - 1]
        BY <1>1, <1>2, <1>5, <1>6, SubSeqProperties
    <2>3. ASSUME NEW k \in 1 .. m + 2 PROVE e.at[k] = <<c, j + k - 1>>
        <3>1. k - 1 \in 0 .. 1 + m /\ i + (k - 1) = i + k - 1 /\ j + (k - 1) = j + k - 1
            BY <1>2, <1>5, <1>14
        <3>2. QED BY <3>1, <1>15, <2>1, <2>2
    <2>4. QED BY <2>1, <2>2, <2>3
<1>19. /\ slot[c][j] \in FileSlots /\ slot[c][j + 1] \in StreamSlots
       /\ j \in Index /\ j + 1 \in Index /\ j + 2 \in Index
    <2> HIDE DEF d, m, e
    <2>1. j \in Index /\ j + 1 \in Index /\ j + 2 \in Index
        BY <1>2, <1>9, <1>14, Sizes DEF Index
    <2>2. slot[c][j] \in Slots /\ slot[c][j + 1] \in Slots
        BY <2>1, <1>9 DEF SlotTyped
    <2>3. QED BY <2>1, <2>2, <1>16, SlotKinds DEF IsFile
<1>20. e.dir => e.first \in Clusters
    <2> HIDE DEF d, m, e
    <2> HAVE e.dir
    <2>1. DirHead(slot[c][j]) BY <1>16 DEF DirHead, IsFile
    <2>2. Tame(c, j) BY <2>1, <1>19, <1>9 DEF SlotsInv
    <2>3. slot[c][j + 2] = NameSlot(n, 1)
        <3>1. 1 \in 1 .. m /\ j + 1 + 1 = j + 2 BY <1>2, <1>14
        <3>2. QED BY <3>1, <1>17
    <2>4. LiveName(slot[c][j + 2]) BY <2>3 DEF LiveName, NameSlot
    <2>5. j + 2 <= PerCluster BY <1>19 DEF Index
    <2>6. Sound(slot[c][j + 1]) BY <2>2, <2>4, <2>5 DEF Tame
    <2>7. QED BY <2>6, <1>16 DEF Sound
<1>21. e \in EntryLocs
    <2>1. slot[c][j].dir \in BOOLEAN /\ slot[c][j + 1].first \in Clusters \cup {0}
          /\ slot[c][j + 1].len \in Nat
        BY <1>19 DEF FileSlots, StreamSlots
    <2> DEFINE at == SubSeq(d, i, i + At(d[i]).secondary)
               dir == At(d[i]).dir
               first == At(d[i + 1]).first
               len == At(d[i + 1]).len
    <2>2. e = [at |-> at, dir |-> dir, first |-> first, len |-> len] BY <1>7
    <2>3. e.at = at /\ e.dir = dir /\ e.first = first /\ e.len = len
        <3> HIDE DEF at, dir, first, len, e
        <3>1. QED BY <2>2
    <2> HIDE DEF at, dir, first, len, e
    <2>4. at \in Seq(Addresses) /\ dir \in BOOLEAN /\ first \in Clusters \cup {0} /\ len \in Nat
        BY <2>1, <2>3, <1>16, <1>18
    <2>5. QED BY <2>2, <2>4 DEF EntryLocs
<1>22. HitAt(e, n)
    <2> HIDE DEF d, e
    <2>1. j + m + 1 \in Index BY <1>14
    <2>2. QED BY <2>1, <1>9, <1>16, <1>17, <1>18, <1>20 DEF HitAt
<1>23. \E q \in 1 .. Len(ch) : e.at[1][1] = ch[q]
    <2> DEFINE q == (i - 1) \div PerCluster + 1
    <2>1. q \in 1 .. Len(ch) /\ d[i][1] = ch[q]
        <3>1. d[i] = <<ch[q], ((i - 1) % PerCluster) + 1>> /\ q \in 1 .. Len(ch)
            BY <1>5, SlotsOfTyped
        <3> HIDE DEF d, q
        <3>2. QED BY <3>1
    <2>2. e.at[1][1] = d[i][1]
        <3>1. 1 \in 1 .. m + 2 BY <1>2
        <3> HIDE DEF d, m, e
        <3>2. e.at[1] = <<c, j + 1 - 1>> BY <3>1, <1>18
        <3>3. QED BY <3>2 DEF c
    <2> HIDE DEF d, q, e
    <2>3. QED BY <2>1, <2>2
<1>24. QED BY <1>21, <1>22, <1>23

(* locate and resolve_dir *)
LEMMA LocateFacts ==
    ASSUME SlotTyped, SlotsInv, NEW first \in Clusters, NEW n \in Names
    PROVE  Locate(first, n) # None =>
               /\ Locate(first, n) \in EntryLocs /\ HitAt(Locate(first, n), n)
               /\ \E q \in 1 .. Len(Chain(first)) : Locate(first, n).at[1][1] = Chain(first)[q]
<1> DEFINE ch == Chain(first)
           d == SlotsOf[ch]
           hits == Hits(n)[d]
<1>1. ch \in Seq(Clusters) BY ChainTyped
<1>2. d \in Seq(Addresses) BY <1>1, SlotsOfTyped
<1>3. Locate(first, n) = FirstHit(d)[hits]
    <2>1. DirSlots(first) = d BY DEF DirSlots
    <2> HIDE DEF d
    <2>2. QED BY <2>1, <1>2 DEF Locate, LocateIn
<1>4. hits \in SUBSET Nat
    <2> HIDE DEF d
    <2>1. hits \subseteq SetsOf[d] BY <1>2 DEF Hits
    <2>2. SetsOf[d] \subseteq Scanned[d] BY <1>2 DEF SetsOf
    <2>3. Scanned[d] \subseteq Nat
        <3>1. Len(d) \in Nat BY <1>2
        <3>2. QED BY <3>1, <1>2, ScannedTyped
    <2>4. QED BY <2>1, <2>2, <2>3
<1> HIDE DEF hits
<1>5. FirstHit(d)[hits] = IF hits = {} THEN None ELSE Located(d)[Least[hits]]
    BY <1>4 DEF FirstHit
<1>6. CASE hits = {} BY <1>3, <1>5, <1>6
<1>7. CASE hits # {}
    <2>1. Least[hits] \in Hits(n)[SlotsOf[ch]] BY <1>4, <1>7, LeastOfSet DEF hits
    <2>2. /\ Located(d)[Least[hits]] \in EntryLocs /\ HitAt(Located(d)[Least[hits]], n)
          /\ \E q \in 1 .. Len(ch) : Located(d)[Least[hits]].at[1][1] = ch[q]
        BY <2>1, <1>1, HitFacts
    <2> HIDE DEF d
    <2>3. QED BY <2>2, <1>3, <1>5, <1>7
<1>8. QED BY <1>6, <1>7

(* What is known of a directory that a path leads to. *)
HandleAt(h, m) ==
    /\ h \in Handles
    /\ h.entry # None =>
          h.entry \in EntryLocs /\ m \in Names /\ HitAt(h.entry, m) /\ h.entry.dir

LEMMA HandleFacts ==
    ASSUME SlotTyped, SlotsInv, NEW m \in Dirs \cup {Root}
    PROVE  DirHandle(m) # None => HandleAt(DirHandle(m), m)
<1>1. CASE m = Root
    <2>1. DirHandle(m) = [first |-> RootCluster, entry |-> None] BY <1>1 DEF DirHandle
    <2>2. QED BY <2>1, RootIsCluster DEF HandleAt, Handles
<1>2. CASE m # Root
    <2> DEFINE e == Locate(RootCluster, m)
    <2>1. m \in Names BY <1>2 DEF Names
    <2>2. e # None => e \in EntryLocs /\ HitAt(e, m) BY <2>1, RootIsCluster, LocateFacts
    <2>3. DirHandle(m) = HandleOf[e] BY <1>2 DEF DirHandle
    <2> HIDE DEF e
    <2>4. e \in EntryLocs \cup {None} BY <2>2
    <2>5. HandleOf[e] = IF e # None /\ e.dir THEN [first |-> e.first, entry |-> e] ELSE None
        BY <2>4 DEF HandleOf
    <2>6. CASE e # None /\ e.dir
        <3>1. DirHandle(m) = [first |-> e.first, entry |-> e] BY <2>3, <2>5, <2>6
        <3>2. e.first \in Clusters BY <2>2, <2>6 DEF HitAt
        <3>3. QED BY <3>1, <3>2, <2>1, <2>2, <2>6 DEF HandleAt, Handles
    <2>7. QED BY <2>3, <2>5, <2>6
<1>3. QED BY <1>1, <1>2

LEMMA FindInFacts ==
    ASSUME SlotTyped, SlotsInv, NEW n \in Names, NEW h \in Handles \cup {None}
    PROVE  FindIn(n)[h] # None => FindIn(n)[h] \in EntryLocs /\ HitAt(FindIn(n)[h], n)
<1>1. FindIn(n)[h] = IF h = None THEN None ELSE Locate(h.first, n) BY DEF FindIn
<1>2. CASE h = None BY <1>1, <1>2
<1>3. CASE h # None
    <2>1. h.first \in Clusters BY <1>3 DEF Handles
    <2>2. QED BY <1>1, <1>3, <2>1, LocateFacts
<1>4. QED BY <1>2, <1>3

-----------------------------------------------------------------------------
(* Scripts, put together from parts *)

Plain(s) == \A k \in DOMAIN s : s[k].op # "slot"
Calm(s) ==
    \A k \in DOMAIN s : s[k].op = "slot" => s[k].val.type # "name" /\ Sound(s[k].val)
NoFiles(s) == \A k \in DOMAIN s : ~Puts(s, k, "file")
Starts(s) == s # << >> => (s[1].op = "slot" => s[1].val.type = "file")
Zeroes(s) == {c \in Clusters : \E k \in DOMAIN s : s[k].op = "zero" /\ s[k].cluster = c}
ClearsIn(s) == {k \in DOMAIN s : s[k].op = "clear"}
(* At most the slots of one entry set. *)
Few(s) == \E a \in Nat : ClearsIn(s) \subseteq a .. a + 3

LEMMA PlainGood ==
    ASSUME NEW s, Plain(s), NEW Z
    PROVE  Good(Z, s) /\ Calm(s) /\ NoFiles(s)
BY DEF Plain, Good, Calm, NoFiles, FileFits, StreamFits, NameFits, Puts

LEMMA PlainStarts ==
    ASSUME NEW s \in Seq(Writes), Plain(s)
    PROVE  Starts(s)
BY EmptySeq DEF Plain, Starts

LEMMA NoClearsFew ==
    ASSUME NEW s, ClearsIn(s) = {}
    PROVE  Few(s)
BY DEF Few

LEMMA NoClearsErasable ==
    ASSUME NEW s, ClearsIn(s) = {}
    PROVE  Erasable(s)
BY DEF Erasable, ClearsIn

LEMMA FewCount ==
    ASSUME NEW s, Few(s)
    PROVE  Cardinality(ClearsIn(s)) \in 0 .. MaxSet
<1>1. PICK a \in Nat : ClearsIn(s) \subseteq a .. a + 3 BY DEF Few
<1>2. IsFiniteSet(a .. a + 3) /\ Cardinality(a .. a + 3) = 4
    <2>1. a \in Int /\ a + 3 \in Int /\ a <= a + 3 /\ (a + 3) - a + 1 = 4 OBVIOUS
    <2>2. QED BY <2>1, FS_Interval
<1>3. /\ IsFiniteSet(ClearsIn(s)) /\ Cardinality(ClearsIn(s)) <= 4
    BY <1>1, <1>2, FS_Subset
<1>4. Cardinality(ClearsIn(s)) \in Nat BY <1>3, FS_CardinalityType
<1>5. QED BY <1>3, <1>4 DEF MaxSet

(* Whether a write fits depends on the writes before it only. *)
LEMMA FitsSame ==
    ASSUME NEW Z, NEW s, NEW u, NEW k \in Nat \ {0}, \A j \in 1 .. k : u[j] = s[j],
           FileFits(Z, s, k), StreamFits(s, k), NameFits(s, k)
    PROVE  FileFits(Z, u, k) /\ StreamFits(u, k) /\ NameFits(u, k)
<1>1. u[k] = s[k] /\ (k > 1 => u[k - 1] = s[k - 1]) /\ (k > 2 => u[k - 2] = s[k - 2])
    OBVIOUS
<1>2. Back(u, k, 1) = Back(s, k, 1) /\ Back(u, k, 2) = Back(s, k, 2)
    BY <1>1 DEF Back
<1>3. Zeroed(u, k) = Zeroed(s, k)
    <2>1. \A j \in 1 .. k - 1 : u[j] = s[j] OBVIOUS
    <2>2. QED BY <2>1 DEF Zeroed
<1>4. k > 1 => (NextTo(u, k) <=> NextTo(s, k))
    BY <1>1 DEF NextTo
<1>5. \A t : Puts(u, k, t) <=> Puts(s, k, t)
    BY <1>1 DEF Puts
<1>6. FileFits(Z, u, k)
    <2>1. \A j \in 1 .. k - 1 : u[j] = s[j] OBVIOUS
    <2>2. QED BY <2>1, <1>1, <1>3, <1>5 DEF FileFits
<1>7. StreamFits(u, k) BY <1>1, <1>2, <1>4, <1>5 DEF StreamFits
<1>8. NameFits(u, k) BY <1>1, <1>2, <1>4, <1>5 DEF NameFits
<1>9. QED BY <1>6, <1>7, <1>8

(* A script after another one. *)
LEMMA JoinGood ==
    ASSUME NEW s \in Seq(Writes), NEW t \in Seq(Writes), NEW Y, NEW Z,
           Good(Z, s), Good(Y, t), Y \subseteq Z \cup Zeroes(s),
           Starts(t), Calm(s) \/ NoFiles(t)
    PROVE  Good(Z, s \o t)
<1> DEFINE u == s \o t
<1>1. /\ Len(s) \in Nat /\ Len(t) \in Nat /\ DOMAIN u = 1 .. Len(s) + Len(t)
      /\ DOMAIN s = 1 .. Len(s) /\ DOMAIN t = 1 .. Len(t)
      /\ \A i \in 1 .. Len(s) : u[i] = s[i]
      /\ \A i \in 1 .. Len(t) : u[Len(s) + i] = t[i]
    OBVIOUS
<1> HIDE DEF u
<1> SUFFICES ASSUME NEW k \in DOMAIN u
             PROVE  FileFits(Z, u, k) /\ StreamFits(u, k) /\ NameFits(u, k)
    BY DEF Good, u
<1>2. CASE k <= Len(s)
    <2>1. k \in DOMAIN s /\ k \in Nat \ {0} /\ \A j \in 1 .. k : u[j] = s[j] BY <1>1, <1>2
    <2>2. FileFits(Z, s, k) /\ StreamFits(s, k) /\ NameFits(s, k) BY <2>1 DEF Good
    <2>3. QED BY <2>1, <2>2, FitsSame
<1>3. CASE k > Len(s)
    <2> DEFINE i == k - Len(s)
    <2>1. i \in 1 .. Len(t) /\ k = Len(s) + i /\ u[k] = t[i] /\ k \in Nat
        BY <1>1, <1>3
    <2>2. FileFits(Y, t, i) /\ StreamFits(t, i) /\ NameFits(t, i)
        BY <2>1, <1>1 DEF Good
    <2> HIDE DEF i
    <2>3. i > 1 => u[k - 1] = t[i - 1] /\ k > 1
        <3> SUFFICES ASSUME i > 1 PROVE u[k - 1] = t[i - 1] /\ k > 1
            OBVIOUS
        <3>1. i - 1 \in 1 .. Len(t) /\ k - 1 = Len(s) + (i - 1) BY <2>1, <1>1
        <3>2. QED BY <3>1, <1>1, <2>1
    <2>4. i > 2 => u[k - 2] = t[i - 2] /\ k > 2
        <3> SUFFICES ASSUME i > 2 PROVE u[k - 2] = t[i - 2] /\ k > 2
            OBVIOUS
        <3>1. i - 2 \in 1 .. Len(t) /\ k - 2 = Len(s) + (i - 2) BY <2>1, <1>1
        <3>2. QED BY <3>1, <1>1, <2>1
    <2>5. i = 1 => ~Puts(u, k, "stream") /\ ~Puts(u, k, "name")
        <3>1. t # << >> BY <2>1, <1>1, EmptySeq
        <3>2. QED BY <3>1, <2>1 DEF Starts, Puts
    <2>6. FileFits(Z, u, k)
        <3> SUFFICES ASSUME Puts(u, k, "file"), DirHead(u[k].val)
                     PROVE  /\ u[k].at[1] \in Z \cup Zeroed(u, k) \/ Tame(u[k].at[1], u[k].at[2])
                            /\ \A j \in 1 .. k - 1 : u[j].op = "slot" =>
                                  u[j].val.type # "name" /\ Sound(u[j].val)
            BY DEF FileFits
        <3>1. Puts(t, i, "file") BY <2>1 DEF Puts
        <3>2. /\ t[i].at[1] \in Y \cup Zeroed(t, i) \/ Tame(t[i].at[1], t[i].at[2])
              /\ \A j \in 1 .. i - 1 : t[j].op = "slot" =>
                    t[j].val.type # "name" /\ Sound(t[j].val)
            BY <3>1, <2>1, <2>2 DEF FileFits
        <3>3. Zeroed(t, i) \subseteq Zeroed(u, k)
            <4> SUFFICES ASSUME NEW c \in Zeroed(t, i) PROVE c \in Zeroed(u, k)
                OBVIOUS
            <4>1. c \in Clusters /\ \E j \in 1 .. i - 1 : t[j].op = "zero" /\ t[j].cluster = c
                BY DEF Zeroed
            <4>2. PICK j \in 1 .. i - 1 : t[j].op = "zero" /\ t[j].cluster = c BY <4>1
            <4>3. Len(s) + j \in 1 .. k - 1 /\ u[Len(s) + j] = t[j] BY <2>1, <1>1
            <4>4. QED BY <4>1, <4>2, <4>3 DEF Zeroed
        <3>4. Zeroes(s) \subseteq Zeroed(u, k)
            <4> SUFFICES ASSUME NEW c \in Zeroes(s) PROVE c \in Zeroed(u, k)
                OBVIOUS
            <4>1. c \in Clusters /\ \E j \in DOMAIN s : s[j].op = "zero" /\ s[j].cluster = c
                BY DEF Zeroes
            <4>2. PICK j \in DOMAIN s : s[j].op = "zero" /\ s[j].cluster = c BY <4>1
            <4>3. j \in 1 .. k - 1 /\ u[j] = s[j] BY <2>1, <1>1
            <4>4. QED BY <4>1, <4>2, <4>3 DEF Zeroed
        <3>5. Calm(s)
            <4>1. ~NoFiles(t) BY <3>1, <2>1, <1>1 DEF NoFiles
            <4>2. QED BY <4>1
        <3>6. ASSUME NEW j \in 1 .. k - 1, u[j].op = "slot"
              PROVE  u[j].val.type # "name" /\ Sound(u[j].val)
            <4>1. CASE j <= Len(s)
                <5>1. j \in DOMAIN s /\ u[j] = s[j] BY <4>1, <1>1
                <5>2. QED BY <5>1, <3>5, <3>6 DEF Calm
            <4>2. CASE j > Len(s)
                <5>1. j - Len(s) \in 1 .. i - 1 /\ j - Len(s) \in 1 .. Len(t)
                      /\ j = Len(s) + (j - Len(s))
                    BY <4>2, <1>1, <2>1
                <5>2. u[j] = t[j - Len(s)] BY <5>1, <1>1
                <5>3. QED BY <5>1, <5>2, <3>2, <3>6
            <4>3. QED BY <4>1, <4>2, <1>1
        <3>7. QED BY <3>2, <3>3, <3>4, <3>6, <2>1
    <2>7. StreamFits(u, k)
        <3> SUFFICES ASSUME Puts(u, k, "stream") PROVE StreamFits(u, k)
            BY DEF StreamFits
        <3>1. Puts(t, i, "stream") /\ i > 1 BY <2>1, <2>5, <1>1 DEF Puts
        <3>2. Back(u, k, 1) = Back(t, i, 1) BY <3>1, <2>1, <2>3 DEF Back
        <3>3. NextTo(t, i) => NextTo(u, k) BY <3>1, <2>1, <2>3 DEF NextTo
        <3>4. QED BY <3>1, <3>2, <3>3, <2>1, <2>2, <2>3 DEF StreamFits
    <2>8. NameFits(u, k)
        <3> SUFFICES ASSUME Puts(u, k, "name") PROVE NameFits(u, k)
            BY DEF NameFits
        <3>1. Puts(t, i, "name") /\ i > 1 BY <2>1, <2>5, <1>1 DEF Puts
        <3>2. Back(u, k, 1) = Back(t, i, 1) BY <3>1, <2>1, <2>3 DEF Back
        <3>3. NextTo(t, i) => NextTo(u, k) BY <3>1, <2>1, <2>3 DEF NextTo
        <3>4. i > 2
            <4> SUFFICES ASSUME i = 2 PROVE FALSE BY <3>1, <2>1, <1>1
            <4>1. NextTo(t, 2) /\ t[1].val.type \in {"stream", "name"}
                BY <3>1, <2>2 DEF NameFits
            <4>2. t # << >> BY <2>1, <1>1, EmptySeq
            <4>3. QED BY <4>1, <4>2 DEF NextTo, Starts
        <3>5. Back(u, k, 2) = Back(t, i, 2) BY <3>4, <2>1, <2>4 DEF Back
        <3>6. QED BY <3>1, <3>2, <3>3, <3>5, <2>1, <2>2, <2>3 DEF NameFits
    <2>9. QED BY <2>6, <2>7, <2>8
<1>4. QED BY <1>1, <1>2, <1>3

LEMMA JoinFacts ==
    ASSUME NEW s \in Seq(Writes), NEW t \in Seq(Writes)
    PROVE  /\ s \o t \in Seq(Writes)
           /\ Plain(s) /\ Plain(t) => Plain(s \o t)
           /\ Calm(s) /\ Calm(t) => Calm(s \o t)
           /\ NoFiles(s) /\ NoFiles(t) => NoFiles(s \o t)
           /\ Starts(s) /\ s # << >> => Starts(s \o t)
           /\ ClearsIn(s) = {} /\ ClearsIn(t) = {} => ClearsIn(s \o t) = {}
           /\ ClearsIn(t) = {} /\ Few(s) => Few(s \o t)
           /\ ClearsIn(s) = {} /\ Few(t) => Few(s \o t)
           /\ Zeroes(s) \cup Zeroes(t) \subseteq Zeroes(s \o t)
           /\ Erasable(s) /\ Erasable(t) => Erasable(s \o t)
<1> DEFINE u == s \o t
<1>1. /\ Len(s) \in Nat /\ Len(t) \in Nat /\ DOMAIN u = 1 .. Len(s) + Len(t)
      /\ DOMAIN s = 1 .. Len(s) /\ DOMAIN t = 1 .. Len(t)
      /\ \A i \in 1 .. Len(s) : u[i] = s[i]
      /\ \A i \in 1 .. Len(t) : u[Len(s) + i] = t[i]
      /\ u \in Seq(Writes)
    OBVIOUS
<1> HIDE DEF u
<1>2. \A k \in DOMAIN u : (k \in DOMAIN s /\ u[k] = s[k])
                          \/ (k - Len(s) \in DOMAIN t /\ u[k] = t[k - Len(s)] /\ k > Len(s))
    <2> TAKE k \in DOMAIN u
    <2>1. CASE k <= Len(s) BY <2>1, <1>1
    <2>2. CASE k > Len(s)
        <3>1. k - Len(s) \in 1 .. Len(t) /\ Len(s) + (k - Len(s)) = k BY <2>2, <1>1
        <3>2. QED BY <3>1, <2>2, <1>1
    <2>3. QED BY <2>1, <2>2, <1>1
<1>3. Plain(s) /\ Plain(t) => Plain(u) BY <1>2 DEF Plain
<1>4. Calm(s) /\ Calm(t) => Calm(u) BY <1>2 DEF Calm
<1>5. NoFiles(s) /\ NoFiles(t) => NoFiles(u) BY <1>2 DEF NoFiles, Puts
<1>6. Starts(s) /\ s # << >> => Starts(u)
    <2> HAVE Starts(s) /\ s # << >>
    <2>1. 1 \in 1 .. Len(s) BY <1>1, EmptySeq
    <2>2. QED BY <2>1, <1>1 DEF Starts
<1>7. ClearsIn(s) = {} /\ ClearsIn(t) = {} => ClearsIn(u) = {}
    BY <1>2 DEF ClearsIn
<1>8. ClearsIn(t) = {} /\ Few(s) => Few(u)
    <2> HAVE ClearsIn(t) = {} /\ Few(s)
    <2>1. ClearsIn(u) \subseteq ClearsIn(s) BY <1>2 DEF ClearsIn
    <2>2. QED BY <2>1 DEF Few
<1>9. ClearsIn(s) = {} /\ Few(t) => Few(u)
    <2> HAVE ClearsIn(s) = {} /\ Few(t)
    <2>1. PICK a \in Nat : ClearsIn(t) \subseteq a .. a + 3 BY DEF Few
    <2>2. ASSUME NEW k \in ClearsIn(u) PROVE k \in a + Len(s) .. a + Len(s) + 3
        <3>1. k \in DOMAIN u /\ u[k].op = "clear" BY DEF ClearsIn
        <3>2. k - Len(s) \in DOMAIN t /\ u[k] = t[k - Len(s)] BY <3>1, <1>2 DEF ClearsIn
        <3>3. k - Len(s) \in ClearsIn(t) BY <3>1, <3>2 DEF ClearsIn
        <3>4. k - Len(s) \in a .. a + 3 BY <3>3, <2>1
        <3>5. k \in Nat BY <3>1, <1>1
        <3>6. QED BY <3>4, <3>5, <1>1
    <2>3. a + Len(s) \in Nat BY <1>1
    <2>4. QED BY <2>2, <2>3 DEF Few
<1>10. Zeroes(s) \cup Zeroes(t) \subseteq Zeroes(u)
    <2>1. Zeroes(s) \subseteq Zeroes(u)
        <3>1. \A k \in DOMAIN s : k \in DOMAIN u /\ u[k] = s[k] BY <1>1
        <3>2. QED BY <3>1 DEF Zeroes
    <2>2. Zeroes(t) \subseteq Zeroes(u)
        <3>1. \A k \in DOMAIN t : Len(s) + k \in DOMAIN u /\ u[Len(s) + k] = t[k] BY <1>1
        <3>2. QED BY <3>1 DEF Zeroes
    <2>3. QED BY <2>1, <2>2
<1>11. Erasable(s) /\ Erasable(t) => Erasable(u) BY <1>2 DEF Erasable
<1>12. QED BY <1>1, <1>3, <1>4, <1>5, <1>6, <1>7, <1>8, <1>9, <1>10, <1>11 DEF u

LEMMA SlotWriteTyped ==
    ASSUME NEW a \in Addresses, NEW v \in Entries
    PROVE  /\ WriteSlot(a, v) \in Writes /\ WriteSlot(a, v).op = "slot"
           /\ WriteSlot(a, v).at = a /\ WriteSlot(a, v).val = v
BY DEF WriteSlot, Writes

LEMMA OtherWritesTyped ==
    /\ \A a \in Addresses : ClearSlot(a) \in Writes /\ ClearSlot(a).op = "clear"
    /\ \A c \in Clusters : \A on \in BOOLEAN : SetBit(c, on) \in Writes /\ SetBit(c, on).op = "bit"
    /\ \A c \in Clusters : \A v \in Clusters \cup {0, END_OF_CHAIN} :
          SetFat(c, v) \in Writes /\ SetFat(c, v).op = "fat"
    /\ \A c \in Clusters : /\ ZeroCluster(c) \in Writes /\ ZeroCluster(c).op = "zero"
                           /\ ZeroCluster(c).cluster = c
    /\ Flush \in Writes /\ Flush.op = "flush"
<1>1. \A a \in Addresses : ClearSlot(a) \in Writes /\ ClearSlot(a).op = "clear"
    BY DEF ClearSlot, Writes
<1>2. \A c \in Clusters : \A on \in BOOLEAN : SetBit(c, on) \in Writes /\ SetBit(c, on).op = "bit"
    BY DEF SetBit, Writes
<1>3. \A c \in Clusters : \A v \in Clusters \cup {0, END_OF_CHAIN} :
          SetFat(c, v) \in Writes /\ SetFat(c, v).op = "fat"
    BY DEF SetFat, Writes
<1>4. \A c \in Clusters : /\ ZeroCluster(c) \in Writes /\ ZeroCluster(c).op = "zero"
                          /\ ZeroCluster(c).cluster = c
    BY DEF ZeroCluster, Writes
<1>5. Flush \in Writes /\ Flush.op = "flush" BY DEF Flush, Writes
<1>6. QED BY <1>1, <1>2, <1>3, <1>4, <1>5

LEMMA KindsOfSlots ==
    /\ \A v \in FileSlots : v.type = "file" /\ v \in Entries
    /\ \A v \in StreamSlots : v.type = "stream" /\ v \in Entries
    /\ \A v \in NameSlots : v.type = "name" /\ v \in Entries
BY DEF FileSlots, StreamSlots, NameSlots, Entries

(* The first m slots of an entry set, m being at least 2, one after the
   other from index j of cluster c on. *)
SetWrites(s, c, j, m) ==
    /\ s \in Seq(Writes) /\ Len(s) = m
    /\ \A k \in 1 .. m : s[k].op = "slot" /\ s[k].at = <<c, j + k - 1>>
    /\ s[1].val \in FileSlots /\ s[2].val \in StreamSlots
    /\ \A k \in 3 .. m : s[k].val \in NameSlots

LEMMA SetWritesGood ==
    ASSUME NEW c \in Clusters, NEW j \in Index, NEW m \in Nat \ {0, 1}, j + m - 1 \in Index,
           NEW s, SetWrites(s, c, j, m), NEW Z,
           DirHead(s[1].val) => (c \in Z \/ Tame(c, j)) /\ Sound(s[2].val)
    PROVE  /\ Good(Z, s) /\ s \in Seq(Writes) /\ s # << >> /\ Starts(s)
           /\ ClearsIn(s) = {} /\ Zeroes(s) = {}
<1>1. j \in Nat /\ j >= 1 BY Sizes DEF Index
<1>2. \A k \in 1 .. m : s[k].op = "slot" /\ s[k].at[1] = c /\ s[k].at[2] = j + k - 1
    BY DEF SetWrites
<1>3. /\ s[1].val.type = "file" /\ s[2].val.type = "stream"
      /\ \A k \in 3 .. m : s[k].val.type = "name"
    BY KindsOfSlots DEF SetWrites
<1>4. ASSUME NEW k \in 1 .. m
      PROVE  FileFits(Z, s, k) /\ StreamFits(s, k) /\ NameFits(s, k)
    <2>1. k > 1 => s[k - 1].op = "slot" /\ s[k - 1].at = <<c, (j + k - 1) - 1>>
        <3> HAVE k > 1
        <3>1. k - 1 \in 1 .. m /\ j + (k - 1) - 1 = (j + k - 1) - 1 BY <1>1
        <3>2. QED BY <3>1 DEF SetWrites
    <2>2. k > 1 => NextTo(s, k) BY <2>1, <1>2 DEF NextTo
    <2>3. CASE k = 1
        <3>1. FileFits(Z, s, 1)
            <4>1. s[1].at[1] = c /\ s[1].at[2] = j
                <5>1. 1 \in 1 .. m /\ j + 1 - 1 = j BY <1>1
                <5>2. QED BY <5>1, <1>2
            <4>2. \A i \in 1 .. 1 - 1 : FALSE OBVIOUS
            <4>3. QED BY <4>1, <4>2 DEF FileFits
        <3>2. QED BY <3>1, <2>3, <1>3 DEF StreamFits, NameFits, Puts
    <2>4. CASE k = 2
        <3>1. Back(s, 2, 1) = s[1].val BY DEF Back
        <3>2. j + 2 - 1 >= 2 /\ s[2].at[2] = j + 2 - 1 BY <1>1, <1>2, <2>4
        <3>3. StreamFits(s, 2)
            <4>1. s[2 - 1].val.type = "file" BY <1>3
            <4>2. NextTo(s, 2) BY <2>2, <2>4
            <4>3. QED BY <3>1, <3>2, <4>1, <4>2 DEF StreamFits
        <3>4. QED BY <3>3, <2>4, <1>3 DEF FileFits, NameFits, Puts
    <2>5. CASE k > 2
        <3>1. k \in 3 .. m /\ s[k].val.type = "name" BY <2>5, <1>3
        <3>2. s[k - 1].val.type \in {"stream", "name"}
            <4>1. CASE k = 3 BY <4>1, <1>3
            <4>2. CASE k > 3
                <5>1. k - 1 \in 3 .. m BY <4>2
                <5>2. QED BY <5>1, <1>3
            <4>3. QED BY <4>1, <4>2, <2>5
        <3>3. j + k - 1 >= 3 /\ s[k].at[2] = j + k - 1 BY <1>1, <1>2, <2>5
        <3>4. DirHead(Back(s, k, 2)) => Sound(Back(s, k, 1))
            <4>1. Back(s, k, 2) = s[k - 2].val /\ Back(s, k, 1) = s[k - 1].val
                BY <2>5 DEF Back
            <4>2. CASE k = 3
                <5>1. Back(s, k, 2) = s[1].val /\ Back(s, k, 1) = s[2].val BY <4>1, <4>2
                <5>2. QED BY <5>1
            <4>3. CASE k > 3
                <5>1. k - 1 \in 3 .. m BY <4>3
                <5>2. s[k - 1].val.type = "name" BY <5>1, <1>3
                <5>3. QED BY <5>2, <4>1 DEF Sound
            <4>4. QED BY <4>2, <4>3, <2>5
        <3>5. NameFits(s, k) BY <3>2, <3>3, <3>4, <2>2, <2>5 DEF NameFits
        <3>6. QED BY <3>1, <3>5 DEF FileFits, StreamFits, Puts
    <2>6. QED BY <2>3, <2>4, <2>5
<1>5. s \in Seq(Writes) /\ DOMAIN s = 1 .. m BY DEF SetWrites
<1>6. Good(Z, s) BY <1>4, <1>5 DEF Good
<1>7. s # << >> BY <1>5
<1>8. Starts(s) BY <1>3 DEF Starts
<1>9. ClearsIn(s) = {} /\ Zeroes(s) = {} BY <1>2, <1>5 DEF ClearsIn, Zeroes
<1>10. QED BY <1>5, <1>6, <1>7, <1>8, <1>9

(* The slots of an entry set. *)
EntrySlots(set, n, dir, first) ==
    /\ Len(set) = NameEntries(n) + 2 /\ Len(set) \in 3 .. 4 /\ Len(set) <= PerCluster
    /\ DOMAIN set = 1 .. Len(set)
    /\ set[1] \in FileSlots /\ set[1].dir = dir
    /\ set[2] \in StreamSlots /\ set[2].first = first
    /\ \A k \in 3 .. Len(set) : set[k] \in NameSlots
    /\ set[3].name = n

LEMMA EntrySetFacts ==
    ASSUME NEW n \in Names, NEW dir \in BOOLEAN, NEW first \in Clusters \cup {0}, NEW len \in Nat
    PROVE  EntrySlots(EntrySet(n, dir, first, len), n, dir, first)
<1> DEFINE m == NameEntries(n)
           stream == StreamSlot(m, first, len)
           run == NameRun(n)
           rest == <<stream>> \o run
           file == FileSlot(dir, rest)
           set == EntrySet(n, dir, first, len)
<1>1. m \in 1 .. 2 /\ (n \in LongNames <=> m = 2) BY DEF NameEntries
<1>2. stream \in StreamSlots /\ stream.first = first BY <1>1 DEF StreamSlot, StreamSlots
<1>3. /\ run \in Seq(NameSlots) /\ Len(run) = m /\ \A k \in 1 .. m : run[k] \in NameSlots
      /\ run[1].name = n
    <2>1. \A k \in 1 .. m : NameSlot(n, k) \in NameSlots BY <1>1 DEF NameSlot, NameSlots
    <2> HIDE DEF m
    <2>2. run = [i \in 1 .. m |-> NameSlot(n, i)] BY DEF NameRun, m
    <2>3. m \in Nat /\ 1 \in 1 .. m BY <1>1
    <2> HIDE DEF run
    <2>4. run \in [1 .. m -> NameSlots] BY <2>1, <2>2
    <2>5. run \in Seq(NameSlots) BY <2>3, <2>4, IsASeq
    <2>6. run[1].name = n BY <2>2, <2>3 DEF NameSlot
    <2>7. QED BY <2>3, <2>4, <2>5, <2>6
<1> HIDE DEF stream, run, m
<1>4. /\ rest \in Seq(NameSlots \cup StreamSlots) /\ Len(rest) = 1 + m
      /\ rest[1] = stream /\ \A k \in 2 .. 1 + m : rest[k] \in NameSlots
      /\ rest[2].name = n
    <2>1. <<stream>> \in Seq(NameSlots \cup StreamSlots) /\ Len(<<stream>>) = 1 BY <1>2
    <2>2. run \in Seq(NameSlots \cup StreamSlots)
        <3>1. run \in [1 .. m -> NameSlots \cup StreamSlots] BY <1>3, <1>1
        <3>2. m \in Nat BY <1>1
        <3>3. QED BY <3>1, <3>2, IsASeq
    <2>3. /\ rest \in Seq(NameSlots \cup StreamSlots) /\ Len(rest) = 1 + m
          /\ \A k \in 1 .. 1 + m : rest[k] = IF k <= 1 THEN <<stream>>[k] ELSE run[k - 1]
        BY <2>1, <2>2, <1>3, ConcatProperties
    <2> HIDE DEF rest
    <2>4. ASSUME NEW k \in 2 .. 1 + m PROVE rest[k] \in NameSlots
        <3>1. k - 1 \in 1 .. m /\ k \in 1 .. 1 + m /\ ~(k <= 1) BY <1>1
        <3>2. QED BY <3>1, <2>3, <1>3
    <2>5. rest[1] = stream
        <3>1. 1 \in 1 .. 1 + m /\ 1 <= 1 BY <1>1
        <3>2. <<stream>>[1] = stream OBVIOUS
        <3>3. QED BY <3>1, <3>2, <2>3
    <2>6. rest[2].name = n
        <3>1. 2 \in 1 .. 1 + m /\ ~(2 <= 1) /\ 2 - 1 = 1 BY <1>1
        <3>2. QED BY <3>1, <2>3, <1>3
    <2>7. QED BY <2>3, <2>4, <2>5, <2>6
<1> HIDE DEF rest
<1>5. file \in FileSlots /\ file.dir = dir
    <2>1. Len(rest) \in 2 .. 3 BY <1>1, <1>4
    <2>2. QED BY <2>1, <1>4 DEF FileSlot, FileSlots
<1>6. set = <<file>> \o rest BY DEF EntrySet, file, rest, stream, run, m
<1> HIDE DEF file, set
<1>7. /\ Len(set) = m + 2 /\ DOMAIN set = 1 .. m + 2
      /\ \A k \in 1 .. m + 2 : set[k] = IF k <= 1 THEN <<file>>[k] ELSE rest[k - 1]
    <2> DEFINE All == NameSlots \cup StreamSlots \cup FileSlots
    <2>1. <<file>> \in Seq(All) /\ Len(<<file>>) = 1 BY <1>5
    <2>2. rest \in Seq(All)
        <3>1. NameSlots \cup StreamSlots \subseteq All OBVIOUS
        <3> HIDE DEF All
        <3>2. QED BY <3>1, <1>4
    <2> HIDE DEF All
    <2>3. QED BY <2>1, <2>2, <1>6, <1>4, <1>1, ConcatProperties
<1>8. set[1] = file /\ set[2] = stream /\ set[3].name = n
    <2>1. /\ 1 \in 1 .. m + 2 /\ 2 \in 1 .. m + 2 /\ ~(2 <= 1) /\ 2 - 1 = 1
          /\ 3 \in 1 .. m + 2 /\ ~(3 <= 1) /\ 3 - 1 = 2
        BY <1>1
    <2>2. QED BY <2>1, <1>7, <1>4
<1>9. ASSUME NEW k \in 3 .. m + 2 PROVE set[k] \in NameSlots
    <2>1. k - 1 \in 2 .. 1 + m /\ k \in 1 .. m + 2 /\ ~(k <= 1) BY <1>1
    <2>2. QED BY <2>1, <1>7, <1>4
<1>10. m + 2 \in 3 .. 4 /\ m + 2 <= PerCluster BY <1>1, Sizes
<1>11. EntrySlots(set, n, dir, first)
    BY <1>2, <1>5, <1>7, <1>8, <1>9, <1>10 DEF m, EntrySlots
<1>12. QED BY <1>11 DEF set

(* A script that can follow any other one. *)
Script(Z, s) == s \in Seq(Writes) /\ s # << >> /\ Good(Z, s) /\ Starts(s)

(* rewrite_stream of an entry set that was found. *)
LEMMA RewriteFacts ==
    ASSUME SlotTyped, SlotsInv, NEW n \in Names, NEW e \in EntryLocs, HitAt(e, n),
           NEW len \in Nat, NEW Z
    PROVE  /\ Script(Z, RewriteStream(e, len)) /\ ClearsIn(RewriteStream(e, len)) = {}
           /\ e.dir => Calm(RewriteStream(e, len))
<1> DEFINE m == NameEntries(n)
<1>1. PICK c \in Clusters, j \in Index :
          /\ j + m + 1 \in Index /\ Len(e.at) = m + 2
          /\ \A k \in 1 .. m + 2 : e.at[k] = <<c, j + k - 1>>
          /\ IsFile(slot[c][j]) /\ slot[c][j].secondary = 1 + m
          /\ slot[c][j + 1].type = "stream"
          /\ \A k \in 1 .. m : slot[c][j + 1 + k] = NameSlot(n, k)
          /\ e.dir = slot[c][j].dir /\ e.first = slot[c][j + 1].first
          /\ e.len = slot[c][j + 1].len
          /\ e.dir => e.first \in Clusters
    BY DEF HitAt
<1>2. m \in 1 .. 2 BY DEF NameEntries
<1> HIDE DEF m
<1>3. j \in Nat /\ j >= 1 /\ j + 1 \in Index BY <1>1, <1>2, Sizes DEF Index
<1>4. e.at[1] = <<c, j>> /\ e.at[2] = <<c, j + 1>>
    <2>1. 1 \in 1 .. m + 2 /\ 2 \in 1 .. m + 2 /\ j + 1 - 1 = j /\ j + 2 - 1 = j + 1
        BY <1>2, <1>3
    <2>2. QED BY <2>1, <1>1
<1> DEFINE f0 == slot[c][j]
           s0 == slot[c][j + 1]
           stream == [s0 EXCEPT !.len = len]
           rest == [k \in 1 .. (Len(e.at) - 1) |-> IF k = 1 THEN stream ELSE At(e.at[k + 1])]
           file == [f0 EXCEPT !.sum = rest]
           s == << WriteSlot(e.at[1], file), WriteSlot(e.at[2], stream) >>
<1>5. At(e.at[1]) = f0 /\ At(e.at[2]) = s0 BY <1>4 DEF At
<1>6. RewriteStream(e, len) = s BY <1>5 DEF RewriteStream
<1>7. f0 \in FileSlots /\ s0 \in StreamSlots
    <2>1. f0 \in Slots /\ s0 \in Slots BY <1>3 DEF SlotTyped
    <2>2. QED BY <2>1, <1>1, SlotKinds DEF IsFile
<1> HIDE DEF f0, s0
<1>8. stream \in StreamSlots /\ stream.first = s0.first BY <1>7 DEF StreamSlots
<1> HIDE DEF stream
<1>9. rest \in Seq(NameSlots \cup StreamSlots)
    <2>1. ASSUME NEW k \in 2 .. m + 1 PROVE At(e.at[k + 1]) \in NameSlots
        <3>1. k + 1 \in 1 .. m + 2 /\ j + (k + 1) - 1 = j + 1 + (k - 1) /\ k - 1 \in 1 .. m
              /\ k - 1 \in 1 .. 2
            BY <1>2, <1>3
        <3>2. At(e.at[k + 1]) = slot[c][j + 1 + (k - 1)] BY <3>1, <1>1 DEF At
        <3>3. At(e.at[k + 1]) = NameSlot(n, k - 1) BY <3>1, <3>2, <1>1
        <3>4. QED BY <3>1, <3>3 DEF NameSlot, NameSlots
    <2>2. Len(e.at) - 1 = m + 1 /\ m + 1 \in Nat BY <1>1, <1>2
    <2>3. rest = [k \in 1 .. m + 1 |-> IF k = 1 THEN stream ELSE At(e.at[k + 1])] BY <2>2
    <2> HIDE DEF rest
    <2>4. rest \in [1 .. m + 1 -> NameSlots \cup StreamSlots] BY <2>1, <2>3, <1>8, <2>2
    <2>5. QED BY <2>2, <2>4, IsASeq
<1> HIDE DEF rest
<1>10. file \in FileSlots /\ file.dir = f0.dir /\ file.live = f0.live
    BY <1>7, <1>9 DEF FileSlots
<1> HIDE DEF file
<1>11. <<c, j>> \in Addresses /\ <<c, j + 1>> \in Addresses BY <1>3 DEF Addresses
<1>12. SetWrites(s, c, j, 2)
    <2>1. file \in Entries /\ stream \in Entries BY <1>8, <1>10, KindsOfSlots
    <2>2. /\ WriteSlot(e.at[1], file) \in Writes /\ WriteSlot(e.at[1], file).op = "slot"
          /\ WriteSlot(e.at[1], file).at = <<c, j>> /\ WriteSlot(e.at[1], file).val = file
          /\ WriteSlot(e.at[2], stream) \in Writes /\ WriteSlot(e.at[2], stream).op = "slot"
          /\ WriteSlot(e.at[2], stream).at = <<c, j + 1>>
          /\ WriteSlot(e.at[2], stream).val = stream
        BY <2>1, <1>4, <1>11, SlotWriteTyped
    <2>3. s \in Seq(Writes) /\ Len(s) = 2 /\ s[1] = WriteSlot(e.at[1], file)
          /\ s[2] = WriteSlot(e.at[2], stream)
        BY <2>2
    <2> HIDE DEF s
    <2>4. ASSUME NEW k \in 1 .. 2 PROVE s[k].op = "slot" /\ s[k].at = <<c, j + k - 1>>
        <3>1. CASE k = 1
            <4>1. j + 1 - 1 = j BY <1>3
            <4>2. QED BY <3>1, <4>1, <2>2, <2>3
        <3>2. CASE k = 2
            <4>1. j + 2 - 1 = j + 1 BY <1>3
            <4>2. QED BY <3>2, <4>1, <2>2, <2>3
        <3>3. QED BY <3>1, <3>2
    <2>5. \A k \in 3 .. 2 : FALSE OBVIOUS
    <2>6. QED BY <2>2, <2>3, <2>4, <2>5, <1>8, <1>10 DEF SetWrites
<1>13. s[1].val = file /\ s[2].val = stream BY DEF WriteSlot
<1> HIDE DEF s
<1>14. DirHead(file) => Tame(c, j) /\ e.dir
    <2> HAVE DirHead(file)
    <2>1. DirHead(f0) /\ f0.dir BY <1>1, <1>10 DEF DirHead, IsFile, f0
    <2>2. QED BY <2>1, <1>1 DEF SlotsInv, f0
<1>15. e.dir => Sound(stream) BY <1>1, <1>8 DEF Sound, s0
<1>16. j + 2 - 1 \in Index BY <1>3
<1>17. /\ Good(Z, s) /\ s \in Seq(Writes) /\ s # << >> /\ Starts(s)
       /\ ClearsIn(s) = {} /\ Zeroes(s) = {}
    BY <1>12, <1>13, <1>14, <1>15, <1>16, SetWritesGood
<1>18. e.dir => Calm(s)
    <2> HAVE e.dir
    <2>1. DOMAIN s = 1 .. 2 BY <1>12 DEF SetWrites
    <2>2. file.type = "file" /\ stream.type = "stream" BY <1>8, <1>10, KindsOfSlots
    <2>3. Sound(file) BY <2>2 DEF Sound
    <2>4. \A k \in 1 .. 2 : k = 1 \/ k = 2 OBVIOUS
    <2>5. QED BY <2>1, <2>2, <2>3, <2>4, <1>13, <1>15 DEF Calm
<1>19. QED BY <1>6, <1>17, <1>18 DEF Script

LEMMA FlushScript ==
    /\ << Flush >> \in Seq(Writes) /\ Plain(<< Flush >>) /\ Starts(<< Flush >>)
    /\ ClearsIn(<< Flush >>) = {}
<1>1. << Flush >> \in Seq(Writes) BY OtherWritesTyped
<1>2. Flush.op = "flush" BY OtherWritesTyped
<1>3. QED BY <1>1, <1>2 DEF Plain, Starts, ClearsIn

(* place_entry_set, in slots that hold no name or are zeroed first. *)
LEMMA FillFacts ==
    ASSUME NEW n \in Names, NEW dir \in BOOLEAN, NEW first \in Clusters \cup {0}, NEW len \in Nat,
           dir => first \in Clusters,
           NEW c \in Clusters, NEW j \in Index, j + NameEntries(n) + 1 \in Index,
           NEW at, \A k \in 1 .. NameEntries(n) + 2 : at[k] = <<c, j + k - 1>>,
           NEW Z, c \in Z \/ Tame(c, j)
    PROVE  /\ Script(Z, Fill(at, EntrySet(n, dir, first, len)))
           /\ ClearsIn(Fill(at, EntrySet(n, dir, first, len))) = {}
<1> DEFINE m == NameEntries(n) + 2
           set == EntrySet(n, dir, first, len)
           f == [k \in 1 .. Len(set) |-> WriteSlot(at[k], set[k])]
<1>0. EntrySlots(set, n, dir, first) BY EntrySetFacts
<1> HIDE DEF set
<1>1. /\ Len(set) = m /\ m \in 3 .. 4
      /\ set[1] \in FileSlots /\ set[1].dir = dir
      /\ set[2] \in StreamSlots /\ set[2].first = first
      /\ \A k \in 3 .. m : set[k] \in NameSlots
    BY <1>0 DEF EntrySlots
<1>2. j \in Nat /\ j + m - 1 \in Index
    <2>1. j \in Nat BY Sizes DEF Index
    <2>2. NameEntries(n) \in 1 .. 2 BY DEF NameEntries
    <2>3. j + m - 1 = j + NameEntries(n) + 1 BY <2>1, <2>2
    <2>4. QED BY <2>1, <2>3
<1>3. \A k \in 1 .. m : at[k] = <<c, j + k - 1>> OBVIOUS
<1> HIDE DEF m
<1>4. f = [k \in 1 .. m |-> WriteSlot(at[k], set[k])] BY <1>1
<1>5. ASSUME NEW k \in 1 .. m
      PROVE  /\ at[k] \in Addresses /\ set[k] \in Entries
             /\ WriteSlot(at[k], set[k]) \in Writes /\ WriteSlot(at[k], set[k]).op = "slot"
             /\ WriteSlot(at[k], set[k]).at = <<c, j + k - 1>>
             /\ WriteSlot(at[k], set[k]).val = set[k]
    <2>1. j + k - 1 \in Index
        <3>1. j \in 1 .. PerCluster /\ j + m - 1 \in 1 .. PerCluster BY <1>2 DEF Index
        <3>2. m \in Nat /\ k \in Nat BY <1>1
        <3>3. QED BY <3>1, <3>2, Sizes DEF Index
    <2>2. at[k] \in Addresses
        <3>1. at[k] = <<c, j + k - 1>> BY <1>3
        <3>2. \A x \in Index : <<c, x>> \in Addresses BY DEF Addresses
        <3>3. QED BY <3>1, <3>2, <2>1
    <2>3. set[k] \in Entries
        <3>1. k = 1 \/ k = 2 \/ k \in 3 .. m BY <1>1
        <3>2. QED BY <3>1, <1>1, KindsOfSlots
    <2>4. QED BY <2>2, <2>3, <1>3, SlotWriteTyped
<1> HIDE DEF f
<1>6. f \in Seq(Writes) /\ Len(f) = m
    <2>1. m \in Nat BY <1>1
    <2>2. f \in [1 .. m -> Writes] BY <1>4, <1>5
    <2>3. QED BY <2>1, <2>2, IsASeq
<1>7. SetWrites(f, c, j, m)
    <2>1. \A k \in 1 .. m : f[k].op = "slot" /\ f[k].at = <<c, j + k - 1>> /\ f[k].val = set[k]
        BY <1>4, <1>5
    <2>2. 1 \in 1 .. m /\ 2 \in 1 .. m /\ \A k \in 3 .. m : k \in 1 .. m BY <1>1
    <2>3. QED BY <2>1, <2>2, <1>1, <1>6 DEF SetWrites
<1>8. /\ Good(Z, f) /\ f \in Seq(Writes) /\ f # << >> /\ Starts(f)
      /\ ClearsIn(f) = {} /\ Zeroes(f) = {}
    <2>1. DirHead(f[1].val) => Sound(f[2].val)
        <3>1. f[1].val = set[1] /\ f[2].val = set[2] BY <1>1, <1>4, <1>5
        <3>2. QED BY <3>1, <1>1 DEF DirHead, Sound
    <2>2. m \in Nat \ {0, 1} BY <1>1
    <2>3. QED BY <2>1, <2>2, <1>2, <1>7, SetWritesGood
<1>9. Fill(at, set) = f \o << Flush >> BY DEF Fill, f
<1>10. Good(Z, f \o << Flush >>)
    <2>1. Good(Z, << Flush >>) /\ NoFiles(<< Flush >>) BY FlushScript, PlainGood
    <2>2. QED BY <2>1, <1>8, FlushScript, JoinGood
<1>11. /\ f \o << Flush >> \in Seq(Writes) /\ Starts(f \o << Flush >>)
       /\ ClearsIn(f \o << Flush >>) = {}
    BY <1>8, FlushScript, JoinFacts
<1>12. f \o << Flush >> # << >>
    <2>1. Len(f \o << Flush >>) = Len(f) + 1 /\ Len(f) \in Nat BY <1>8, FlushScript
    <2>2. QED BY <2>1
<1>13. Script(Z, Fill(at, set)) /\ ClearsIn(Fill(at, set)) = {}
    BY <1>9, <1>10, <1>11, <1>12 DEF Script
<1>14. QED BY <1>13 DEF set

(* find_or_make_slot_run: a run of free slots lies in one cluster. *)
LEMMA FirstRunFacts ==
    ASSUME SlotTyped, NEW first \in Clusters, NEW k \in 3 .. 4, Runs(first, k) # {}
    PROVE  \E c \in Clusters : \E j \in Index :
              /\ j + k - 1 \in Index
              /\ \A i \in 1 .. k : /\ FirstRun(first, k)[i] = <<c, j + i - 1>>
                                  /\ ~slot[c][j + i - 1].live
              /\ Tame(c, j)
<1> DEFINE ch == Chain(first)
           d == SlotsOf[ch]
           i == Least[Runs(first, k)]
<1>1. ch \in Seq(Clusters) BY ChainTyped
<1>2. d \in Seq(Addresses) /\ DOMAIN d = 1 .. Len(d) /\ Len(d) \in Nat BY <1>1, SlotsOfTyped
<1>3. DirSlots(first) = d BY DEF DirSlots
<1>4. i \in Runs(first, k)
    <2>1. Runs(first, k) \in SUBSET Nat
        <3>1. Runs(first, k) \subseteq DOMAIN d BY <1>3 DEF Runs
        <3> HIDE DEF d
        <3>2. QED BY <3>1, <1>2
    <2>2. QED BY <2>1, LeastOfSet
<1> HIDE DEF i
<1>5. /\ i \in 1 .. Len(d) /\ i \in Nat
      /\ ((i - 1) % PerCluster) + k <= PerCluster
      /\ \A x \in i .. (i + k - 1) : Usable(At(d[x]))
    <2> HIDE DEF d
    <2>1. QED BY <1>2, <1>3, <1>4 DEF Runs
<1>6. (i - 1) % PerCluster \in Nat
    <2>1. i - 1 \in Nat BY <1>5
    <2>2. QED BY <2>1, DivMod, Sizes
<1> DEFINE c == d[i][1]
           j == d[i][2]
<1>7. \A x \in 0 .. k - 1 : /\ i + x \in 1 .. Len(d) /\ d[i + x] = <<c, j + x>>
                            /\ c \in Clusters /\ j \in Index /\ j + x \in Index
    <2> TAKE x \in 0 .. k - 1
    <2>1. x \in Nat /\ ((i - 1) % PerCluster) + x < PerCluster
        <3> DEFINE r == (i - 1) % PerCluster
        <3> HIDE DEF r, d
        <3>1. r \in Nat /\ r + k <= PerCluster BY <1>5, <1>6 DEF r
        <3>2. x \in Nat /\ r + x < PerCluster BY <3>1, Sizes
        <3>3. QED BY <3>2 DEF r
    <2>2. /\ i + x \in 1 .. Len(SlotsOf[ch])
          /\ SlotsOf[ch][i + x] = <<SlotsOf[ch][i][1], SlotsOf[ch][i][2] + x>>
          /\ SlotsOf[ch][i] \in Addresses /\ SlotsOf[ch][i][2] + x \in Index
        BY <2>1, <1>1, <1>5, SlotsSideBySide
    <2>3. c \in Clusters /\ j \in Index
        <3>1. d[i] \in Addresses BY <2>2
        <3> HIDE DEF d
        <3>2. QED BY <3>1 DEF Addresses
    <2>4. QED BY <2>2, <2>3
<1> HIDE DEF c, j
<1>8. j \in Nat /\ c \in Clusters /\ j \in Index /\ j + k - 1 \in Index
    <2> HIDE DEF d
    <2>1. 0 \in 0 .. k - 1 /\ k - 1 \in 0 .. k - 1 OBVIOUS
    <2>2. c \in Clusters /\ j \in Index /\ j + (k - 1) \in Index BY <2>1, <1>7
    <2>3. j \in Nat BY <2>2, Sizes DEF Index
    <2>4. j + (k - 1) = j + k - 1 BY <2>3
    <2>5. QED BY <2>2, <2>3, <2>4
<1>9. \A x \in 1 .. k : FirstRun(first, k)[x] = <<c, j + x - 1>>
    <2>1. FirstRun(first, k) = SubSeq(d, i, i + k - 1) BY <1>3 DEF FirstRun, i
    <2> HIDE DEF d
    <2>2. i + k - 1 <= Len(d)
        <3>1. k - 1 \in 0 .. k - 1 /\ i + (k - 1) = i + k - 1 BY <1>5
        <3>2. i + (k - 1) \in 1 .. Len(d) BY <3>1, <1>7
        <3>3. QED BY <3>1, <3>2, <1>2
    <2>3. \A x \in 1 .. k : SubSeq(d, i, i + k - 1)[x] = d[i + x - 1]
        BY <2>2, <1>2, <1>5, SubSeqProperties
    <2> TAKE x \in 1 .. k
    <2>4. x - 1 \in 0 .. k - 1 /\ i + (x - 1) = i + x - 1 /\ j + (x - 1) = j + x - 1
        BY <1>5, <1>8
    <2>5. d[i + (x - 1)] = <<c, j + (x - 1)>> BY <2>4, <1>7
    <2>6. QED BY <2>1, <2>3, <2>4, <2>5
<1>10. Tame(c, j)
    <2> HIDE DEF d
    <2>1. 2 \in 0 .. k - 1 /\ i + 2 \in i .. (i + k - 1) BY <1>5
    <2>2. d[i + 2] = <<c, j + 2>> BY <2>1, <1>7
    <2>3. At(d[i + 2]) = slot[c][j + 2] BY <2>2 DEF At
    <2>4. ~slot[c][j + 2].live BY <2>1, <2>3, <1>5 DEF Usable
    <2>5. QED BY <2>4 DEF Tame, LiveName
<1>11. \A x \in 1 .. k : ~slot[c][j + x - 1].live
    <2> HIDE DEF d
    <2> TAKE x \in 1 .. k
    <2>1. /\ x - 1 \in 0 .. k - 1 /\ i + (x - 1) \in i .. (i + k - 1)
          /\ j + (x - 1) = j + x - 1
        BY <1>5, <1>8
    <2>2. d[i + (x - 1)] = <<c, j + (x - 1)>> BY <2>1, <1>7
    <2>3. At(d[i + (x - 1)]) = slot[c][j + (x - 1)] BY <2>2 DEF At
    <2>4. ~At(d[i + (x - 1)]).live BY <2>1, <1>5 DEF Usable
    <2>5. QED BY <2>1, <2>3, <2>4
<1>12. QED BY <1>8, <1>9, <1>10, <1>11

LEMMA FirstFreeTyped ==
    ASSUME NEW taken, FreeClusters(taken) # {}
    PROVE  FirstFree(taken) \in Clusters /\ FirstFree(taken) \in FreeClusters(taken)
<1>1. FreeClusters(taken) \subseteq Clusters /\ FreeClusters(taken) \subseteq Nat
    BY Sizes DEF FreeClusters, Clusters
<1>2. \E c \in FreeClusters(taken) : \A x \in FreeClusters(taken) : c <= x
    BY <1>1, LeastNumber
<1>3. FirstFree(taken) \in FreeClusters(taken) BY <1>2 DEF FirstFree
<1>4. QED BY <1>1, <1>3

(* extend_chain and the new length of the directory. *)
LEMMA GrowFacts ==
    ASSUME SlotTyped, SlotsInv, NEW m, NEW h, HandleAt(h, m), NEW c \in Clusters, NEW Z
    PROVE  /\ Script(Z, Grow(h, c)) /\ Calm(Grow(h, c))
           /\ ClearsIn(Grow(h, c)) = {} /\ c \in Zeroes(Grow(h, c))
<1> DEFINE ch == Chain(h.first)
           last == ch[Len(ch)]
           p == << SetBit(c, TRUE), SetFat(c, END_OF_CHAIN), SetFat(last, c),
                   ZeroCluster(c), Flush >>
           g == RecordGrowth(h)
<1>1. Grow(h, c) = p \o g BY DEF Grow
<1>2. h.first \in Clusters BY DEF HandleAt, Handles
<1>3. last \in Clusters
    <2>1. ch \in Seq(Clusters) /\ Len(ch) \in Nat \ {0} BY <1>2, ChainTyped
    <2> HIDE DEF ch
    <2>2. QED BY <2>1
<1> HIDE DEF last
<1>4. /\ p \in Seq(Writes) /\ p # << >> /\ Plain(p) /\ Starts(p) /\ ClearsIn(p) = {}
      /\ c \in Zeroes(p)
    <2> DEFINE w1 == SetBit(c, TRUE)
               w2 == SetFat(c, END_OF_CHAIN)
               w3 == SetFat(last, c)
               w4 == ZeroCluster(c)
    <2>1. /\ w1 \in Writes /\ w1.op = "bit" /\ w2 \in Writes /\ w2.op = "fat"
          /\ w3 \in Writes /\ w3.op = "fat" /\ w4 \in Writes /\ w4.op = "zero" /\ w4.cluster = c
          /\ Flush \in Writes /\ Flush.op = "flush"
        BY <1>3, OtherWritesTyped
    <2> HIDE DEF w1, w2, w3, w4
    <2>2. p = <<w1, w2, w3, w4, Flush>> BY DEF w1, w2, w3, w4
    <2> HIDE DEF p
    <2>3. p \in Seq(Writes) /\ p # << >> BY <2>1, <2>2
    <2>4. DOMAIN p = 1 .. 5 /\ p[1] = w1 /\ p[2] = w2 /\ p[3] = w3 /\ p[4] = w4 /\ p[5] = Flush
        BY <2>2
    <2>5. \A k \in DOMAIN p : k = 1 \/ k = 2 \/ k = 3 \/ k = 4 \/ k = 5 BY <2>4
    <2>6. Plain(p) /\ ClearsIn(p) = {} BY <2>1, <2>4, <2>5 DEF Plain, ClearsIn
    <2>7. c \in Zeroes(p)
        <3>1. 4 \in DOMAIN p BY <2>4
        <3>2. QED BY <3>1, <2>1, <2>4 DEF Zeroes
    <2>8. QED BY <2>3, <2>6, <2>7, PlainStarts
<1> HIDE DEF p
<1>5. g \in Seq(Writes) /\ Good({}, g) /\ Starts(g) /\ Calm(g) /\ ClearsIn(g) = {}
    <2>1. CASE h.entry = None
        <3>1. g = << >> BY <2>1 DEF RecordGrowth
        <3>2. QED BY <3>1 DEF Good, Starts, Calm, ClearsIn
    <2>2. CASE h.entry # None
        <3> DEFINE e == h.entry
                   r == RewriteStream(e, e.len + PerCluster)
        <3>1. e \in EntryLocs /\ m \in Names /\ HitAt(e, m) /\ e.dir BY <2>2 DEF HandleAt
        <3>2. e.len + PerCluster \in Nat BY <3>1, Sizes DEF EntryLocs
        <3> HIDE DEF e
        <3>3. r \in Seq(Writes) /\ r # << >> /\ Good({}, r) /\ Starts(r) /\ ClearsIn(r) = {} /\ Calm(r)
            BY <3>1, <3>2, RewriteFacts DEF Script
        <3>4. g = r \o << Flush >>
            <4>1. g = Append(r, Flush) BY <2>2 DEF RecordGrowth, e
            <4> HIDE DEF r, g
            <4>2. QED BY <4>1, <3>3, OtherWritesTyped, AppendIsConcat
        <3> HIDE DEF r
        <3>5. Good({}, << Flush >>) /\ NoFiles(<< Flush >>) /\ Calm(<< Flush >>)
            BY FlushScript, PlainGood
        <3>6. Good({}, r \o << Flush >>) BY <3>3, <3>5, FlushScript, JoinGood
        <3>7. /\ r \o << Flush >> \in Seq(Writes) /\ Starts(r \o << Flush >>)
              /\ Calm(r \o << Flush >>) /\ ClearsIn(r \o << Flush >>) = {}
            BY <3>3, <3>5, FlushScript, JoinFacts
        <3>8. QED BY <3>4, <3>6, <3>7
    <2>3. QED BY <2>1, <2>2
<1> HIDE DEF g
<1>6. Good(Z, p) /\ Calm(p) BY <1>4, PlainGood
<1>7. Good(Z, p \o g) BY <1>4, <1>5, <1>6, JoinGood
<1>8. /\ p \o g \in Seq(Writes) /\ Calm(p \o g) /\ Starts(p \o g) /\ ClearsIn(p \o g) = {}
      /\ c \in Zeroes(p \o g)
    BY <1>4, <1>5, <1>6, JoinFacts
<1>9. p \o g # << >>
    <2>1. Len(p \o g) = Len(p) + Len(g) /\ Len(p) \in Nat /\ Len(g) \in Nat /\ Len(p) # 0
        BY <1>4, <1>5, EmptySeq
    <2>2. QED BY <2>1
<1>10. QED BY <1>1, <1>7, <1>8, <1>9 DEF Script

(* place_entry_set, after a directory has grown if it must. *)
LEMMA PlaceFacts ==
    ASSUME SlotTyped, SlotsInv, NEW m, NEW h, HandleAt(h, m), NEW n \in Names,
           NEW dir \in BOOLEAN, NEW first \in Clusters \cup {0}, NEW len \in Nat,
           dir => first \in Clusters,
           NEW taken, Room(h, EntrySet(n, dir, first, len), taken), NEW Z
    PROVE  /\ Script(Z, Place(h, EntrySet(n, dir, first, len), taken))
           /\ ClearsIn(Place(h, EntrySet(n, dir, first, len), taken)) = {}
<1> DEFINE set == EntrySet(n, dir, first, len)
           k == Len(set)
           s == Place(h, set, taken)
<1>1. k = NameEntries(n) + 2 /\ k \in 3 .. 4 /\ k <= PerCluster
    <2>1. EntrySlots(set, n, dir, first) BY EntrySetFacts
    <2> HIDE DEF set
    <2>2. QED BY <2>1 DEF EntrySlots
<1>2. h.first \in Clusters BY DEF HandleAt, Handles
<1>3. NameEntries(n) \in 1 .. 2 BY DEF NameEntries
<1> HIDE DEF k
<1>4. CASE Runs(h.first, k) # {}
    <2>1. s = Fill(FirstRun(h.first, k), set) BY <1>4 DEF Place, k
    <2>2. PICK c \in Clusters, j \in Index :
              /\ j + k - 1 \in Index
              /\ \A i \in 1 .. k : FirstRun(h.first, k)[i] = <<c, j + i - 1>>
              /\ Tame(c, j)
        BY <1>1, <1>2, <1>4, FirstRunFacts
    <2>3. j + NameEntries(n) + 1 \in Index
        <3>1. j \in Nat BY Sizes DEF Index
        <3>2. j + k - 1 = j + NameEntries(n) + 1 BY <3>1, <1>1, <1>3
        <3>3. QED BY <3>2, <2>2
    <2>4. \A i \in 1 .. NameEntries(n) + 2 : FirstRun(h.first, k)[i] = <<c, j + i - 1>>
        BY <2>2, <1>1
    <2> DEFINE at == FirstRun(h.first, k)
    <2>5. \A i \in 1 .. NameEntries(n) + 2 : at[i] = <<c, j + i - 1>> BY <2>4
    <2>6. c \in Z \/ Tame(c, j) BY <2>2
    <2>7. s = Fill(at, set) BY <2>1
    <2> HIDE DEF at, s
    <2>8. Script(Z, Fill(at, set)) /\ ClearsIn(Fill(at, set)) = {}
        BY <2>3, <2>5, <2>6, FillFacts
    <2>9. QED BY <2>7, <2>8 DEF s
<1>5. CASE Runs(h.first, k) = {}
    <2> DEFINE c == FirstFree(taken)
               at == [i \in 1 .. k |-> <<c, i>>]
    <2>1. FreeClusters(taken) # {} BY <1>5 DEF Room, k
    <2>2. c \in Clusters BY <2>1, FirstFreeTyped
    <2>3. s = Grow(h, c) \o Fill(at, set) BY <1>5 DEF Place, k
    <2> HIDE DEF c
    <2> DEFINE g == Grow(h, c)
               f == Fill(at, set)
    <2>4. /\ g \in Seq(Writes) /\ g # << >> /\ Good(Z, g) /\ Starts(g) /\ Calm(g)
          /\ ClearsIn(g) = {} /\ c \in Zeroes(g)
        BY <2>2, GrowFacts DEF Script
    <2>5. 1 \in Index /\ 1 + NameEntries(n) + 1 \in Index BY <1>1, <1>3, Sizes DEF Index
    <2>6. \A i \in 1 .. NameEntries(n) + 2 : at[i] = <<c, 1 + i - 1>>
        <3> TAKE i \in 1 .. NameEntries(n) + 2
        <3>1. i \in 1 .. k /\ 1 + i - 1 = i BY <1>1, <1>3
        <3>2. QED BY <3>1
    <2>7. f \in Seq(Writes) /\ f # << >> /\ Good({c}, f) /\ Starts(f) /\ ClearsIn(f) = {}
        <3> HIDE DEF at
        <3>1. c \in {c} OBVIOUS
        <3>2. Script({c}, Fill(at, set)) /\ ClearsIn(Fill(at, set)) = {}
            BY <2>2, <2>5, <2>6, <3>1, FillFacts
        <3>3. QED BY <3>2 DEF Script
    <2> HIDE DEF f, g
    <2>8. {c} \subseteq Z \cup Zeroes(g) BY <2>4
    <2>9. Good(Z, g \o f) BY <2>4, <2>7, <2>8, JoinGood
    <2>10. g \o f \in Seq(Writes) /\ Starts(g \o f) /\ ClearsIn(g \o f) = {}
        BY <2>4, <2>7, JoinFacts
    <2>11. g \o f # << >>
        <3>1. Len(g \o f) = Len(g) + Len(f) /\ Len(g) \in Nat /\ Len(f) \in Nat /\ Len(g) # 0
            BY <2>4, <2>7, EmptySeq
        <3>2. QED BY <3>1
    <2>12. s = g \o f BY <2>3 DEF g, f
    <2>13. QED BY <2>9, <2>10, <2>11, <2>12 DEF Script
<1>6. QED BY <1>4, <1>5

(* The slots of an entry set that was found are cleared. *)
LEMMA ClearFacts ==
    ASSUME SlotTyped, NEW n \in Names, NEW e \in EntryLocs, HitAt(e, n)
    PROVE  /\ Clear(e) \in Seq(Writes) /\ Clear(e) # << >> /\ Plain(Clear(e))
           /\ Few(Clear(e)) /\ Erasable(Clear(e))
<1> DEFINE m == NameEntries(n)
           L == m + 2
           f == [k \in 1 .. Len(e.at) |-> ClearSlot(e.at[k])]
<1>1. PICK c \in Clusters, j \in Index :
          /\ Len(e.at) = L
          /\ \A k \in 1 .. L : e.at[k] = <<c, j + k - 1>>
          /\ IsFile(slot[c][j])
          /\ slot[c][j + 1].type = "stream"
          /\ \A k \in 1 .. m : slot[c][j + 1 + k] = NameSlot(n, k)
    BY DEF HitAt
<1>2. m \in 1 .. 2 /\ L \in 3 .. 4 /\ L \in Nat /\ j \in Nat
    BY Sizes DEF NameEntries, Index
<1>3. \A k \in 1 .. L : e.at[k] \in Addresses BY <1>1 DEF EntryLocs
<1>4. \A k \in 1 .. L : slot[e.at[k][1]][e.at[k][2]].type # "system"
    <2> HIDE DEF L, m
    <2> TAKE k \in 1 .. L
    <2>1. e.at[k][1] = c /\ e.at[k][2] = j + k - 1 BY <1>1
    <2>2. CASE k = 1
        <3>1. j + k - 1 = j BY <2>2, <1>2
        <3>2. QED BY <3>1, <2>1, <1>1 DEF IsFile
    <2>3. CASE k = 2
        <3>1. j + k - 1 = j + 1 BY <2>3, <1>2
        <3>2. QED BY <3>1, <2>1, <1>1
    <2>4. CASE k > 2
        <3>1. j + k - 1 = j + 1 + (k - 2) /\ k - 2 \in 1 .. m BY <2>4, <1>2 DEF L
        <3>2. slot[c][j + 1 + (k - 2)] = NameSlot(n, k - 2) BY <3>1, <1>1
        <3>3. QED BY <3>1, <3>2, <2>1 DEF NameSlot
    <2>5. QED BY <2>2, <2>3, <2>4, <1>2
<1> HIDE DEF L, m
<1>5. \A k \in 1 .. L : f[k] \in Writes /\ f[k].op = "clear" /\ f[k].at = e.at[k]
    <2>1. \A k \in 1 .. L : f[k] = ClearSlot(e.at[k]) BY <1>1
    <2> HIDE DEF f
    <2>2. \A a : ClearSlot(a).at = a BY DEF ClearSlot
    <2>3. QED BY <2>1, <2>2, <1>3, OtherWritesTyped
<1>6. f \in Seq(Writes) /\ Len(f) = L /\ DOMAIN f = 1 .. L
    <2>1. f \in [1 .. L -> Writes] BY <1>1, <1>5
    <2> HIDE DEF f
    <2>2. QED BY <1>2, <2>1, IsASeq
<1>7. Clear(e) = f \o << Flush >> BY DEF Clear
<1> HIDE DEF f
<1>8. Plain(f) BY <1>5, <1>6 DEF Plain
<1>9. Few(f)
    <2>1. ClearsIn(f) \subseteq 1 .. 1 + 3
        BY <1>2, <1>6 DEF ClearsIn
    <2>2. QED BY <2>1 DEF Few
<1>10. Erasable(f) BY <1>4, <1>5, <1>6 DEF Erasable
<1>11. Erasable(<< Flush >>) BY FlushScript, NoClearsErasable
<1>12. /\ f \o << Flush >> \in Seq(Writes) /\ Plain(f \o << Flush >>) /\ Few(f \o << Flush >>)
       /\ Erasable(f \o << Flush >>)
    BY <1>6, <1>8, <1>9, <1>10, <1>11, FlushScript, JoinFacts
<1>13. f \o << Flush >> # << >>
    <2>1. Len(f \o << Flush >>) = Len(f) + 1 /\ Len(f) \in Nat BY <1>6, FlushScript
    <2>2. QED BY <2>1
<1>14. QED BY <1>7, <1>12, <1>13

(* free_chain *)
LEMMA FreeChainFacts ==
    ASSUME NEW first \in Clusters
    PROVE  FreeChain(first) \in Seq(Writes) /\ Plain(FreeChain(first)) /\ ClearsIn(FreeChain(first)) = {}
<1> DEFINE ch == Chain(first)
           L == 2 * Len(ch)
           f == [k \in 1 .. L |->
                    IF k % 2 = 1 THEN SetBit(ch[(k + 1) \div 2], FALSE)
                    ELSE SetFat(ch[k \div 2], 0)]
<1>1. ch \in Seq(Clusters) /\ Len(ch) \in Nat BY ChainTyped
<1> HIDE DEF ch
<1>2. L \in Nat BY <1>1
<1>3. ASSUME NEW k \in 1 .. L
      PROVE  f[k] \in Writes /\ (f[k].op = "bit" \/ f[k].op = "fat")
    <2>1. CASE k % 2 = 1
        <3>1. (k + 1) \div 2 \in 1 .. Len(ch) BY <1>1, <2>1
        <3>2. ch[(k + 1) \div 2] \in Clusters BY <3>1, <1>1
        <3>3. QED BY <3>2, <2>1, OtherWritesTyped
    <2>2. CASE k % 2 # 1
        <3>1. k \div 2 \in 1 .. Len(ch) BY <1>1, <2>2
        <3>2. ch[k \div 2] \in Clusters BY <3>1, <1>1
        <3>3. QED BY <3>2, <2>2, OtherWritesTyped
    <2>3. QED BY <2>1, <2>2
<1>4. f \in Seq(Writes) /\ DOMAIN f = 1 .. L
    <2> HIDE DEF L
    <2>1. f \in [1 .. L -> Writes] BY <1>3
    <2> HIDE DEF f
    <2>2. QED BY <1>2, <2>1, IsASeq
<1>5. FreeChain(first) = f \o << Flush >> BY DEF FreeChain, ch
<1> HIDE DEF f
<1>6. Plain(f) /\ ClearsIn(f) = {} BY <1>3, <1>4 DEF Plain, ClearsIn
<1>7. QED BY <1>4, <1>5, <1>6, FlushScript, JoinFacts

-----------------------------------------------------------------------------
(* Calls *)

(* What the invariant asks of a script that a call starts with. *)
Startable(s) == s \in Seq(Writes) /\ Good({}, s) /\ Erasable(s) /\ Few(s)

LEMMA WriteCases ==
    ASSUME NEW w \in Writes
    PROVE  CASE w.op = "slot" -> w.at \in Addresses /\ w.val \in Slots
             [] w.op = "clear" -> w.at \in Addresses
             [] w.op = "bit" -> w.cluster \in Clusters /\ w.val \in BOOLEAN
             [] w.op = "fat" -> w.cluster \in Clusters
                                /\ w.val \in Clusters \cup {0, END_OF_CHAIN}
             [] w.op = "zero" -> w.cluster \in Clusters
             [] OTHER -> w.op = "flush"
<1>1. CASE w \in [op : {"slot"}, at : Addresses, val : Entries]
    <2>1. w.op = "slot" /\ w.at \in Addresses /\ w.val \in Entries BY <1>1
    <2>2. w.val \in Slots BY <2>1 DEF Entries, Slots
    <2>3. QED BY <2>1, <2>2
<1>2. CASE w \in [op : {"clear"}, at : Addresses] BY <1>2
<1>3. CASE w \in [op : {"bit"}, cluster : Clusters, val : BOOLEAN] BY <1>3
<1>4. CASE w \in [op : {"fat"}, cluster : Clusters, val : Clusters \cup {0, END_OF_CHAIN}]
    BY <1>4
<1>5. CASE w \in [op : {"zero"}, cluster : Clusters] BY <1>5
<1>6. CASE w = Flush BY <1>6 DEF Flush
<1>7. QED BY <1>1, <1>2, <1>3, <1>4, <1>5, <1>6 DEF Writes

TodoTyped ==
    \A k \in 1 .. Len(todo) :
          LET w == todo[k]
          IN  CASE w.op = "slot" -> w.at \in Addresses /\ w.val \in Slots
                [] w.op = "clear" -> w.at \in Addresses
                [] w.op = "bit" -> w.cluster \in Clusters /\ w.val \in BOOLEAN
                [] w.op = "fat" -> w.cluster \in Clusters
                                   /\ w.val \in Clusters \cup {0, END_OF_CHAIN}
                [] w.op = "zero" -> w.cluster \in Clusters
                [] OTHER -> w.op = "flush"

CallRecords ==
    [kind : Kinds \cup {"none"}, path : Paths \cup {None},
     to : Paths \cup {None}, len : Lens, ok : BOOLEAN, slots : 0 .. MaxSet]
DiskTyped ==
    /\ slot \in [Clusters -> [Index -> Slots]]
    /\ fat \in [Clusters -> Clusters \cup {0, END_OF_CHAIN}]
    /\ bitmap \in [Clusters -> BOOLEAN]

LEMMA TypeParts ==
    TypeOK <=> DiskTyped /\ TodoTyped /\ call \in CallRecords /\ mishap \in BOOLEAN /\ cuts \in Nat
BY DEF TypeOK, DiskTyped, TodoTyped, CallRecords

(* The same disk, the same promises. *)
LEMMA SameDisk ==
    ASSUME NEW s, slot' = slot, todo' = s, Good({}, s), Erasable(s)
    PROVE  Good({}, todo)' /\ Erasable(todo)'
<1>1. ASSUME NEW k \in DOMAIN s
      PROVE  FileFits({}, todo, k)' /\ StreamFits(todo, k)' /\ NameFits(todo, k)'
    <2>1. FileFits({}, s, k) /\ StreamFits(s, k) /\ NameFits(s, k) BY DEF Good
    <2>2. FileFits({}, todo, k)'
        BY <2>1 DEF FileFits, Puts, DirHead, Zeroed, Tame, LiveName, Sound
    <2>3. StreamFits(todo, k)'
        BY <2>1 DEF StreamFits, Puts, NextTo, DirHead, Back, Sound
    <2>4. NameFits(todo, k)'
        BY <2>1 DEF NameFits, Puts, NextTo, DirHead, Back, Sound
    <2>5. QED BY <2>2, <2>3, <2>4
<1>2. Good({}, todo)' BY <1>1 DEF Good
<1>3. Erasable(todo)' BY DEF Erasable
<1>4. QED BY <1>2, <1>3

LEMMA BeginKeeps ==
    ASSUME DirInv, NEW kind, NEW p \in Paths, NEW to \in Paths \cup {None}, NEW len \in Lens,
           NEW ok \in BOOLEAN, NEW s, Startable(s), Begin(kind, p, to, len, ok, s)
    PROVE  DirInv'
<1>1. /\ kind \in Kinds /\ todo' = s /\ slot' = slot /\ fat' = fat /\ bitmap' = bitmap
      /\ mishap' = mishap /\ cuts' = cuts
      /\ call' = [kind |-> kind, path |-> p, to |-> to, len |-> len, ok |-> ok,
                  slots |-> Cardinality(ClearsIn(s))]
    BY OpsAssumption DEF Begin, disk, ClearsIn
<1>2. Cardinality(ClearsIn(s)) \in 0 .. MaxSet BY FewCount DEF Startable
<1>3. call' \in CallRecords
    <2> DEFINE n == Cardinality(ClearsIn(s))
    <2>1. n \in 0 .. MaxSet BY <1>2
    <2>2. call' = [kind |-> kind, path |-> p, to |-> to, len |-> len, ok |-> ok, slots |-> n]
        BY <1>1
    <2> HIDE DEF n
    <2>3. QED BY <1>1, <2>1, <2>2 DEF CallRecords
<1>4. DiskTyped /\ mishap \in BOOLEAN /\ cuts \in Nat /\ SlotsInv BY TypeParts DEF DirInv
<1>5. DiskTyped' BY <1>1, <1>4 DEF DiskTyped
<1>6. (todo \in Seq(Writes))' BY <1>1 DEF Startable, Writes, Addresses, Clusters, Index,
          Entries, FileSlots, StreamSlots, NameSlots, Names, Flush
<1>7. TodoTyped' BY <1>1, WriteCases DEF TodoTyped, Startable
<1>8. (call \in CallRecords)' BY <1>3 DEF CallRecords, Paths, Names, Kinds, MaxSet
<1>9. TypeOK'
    BY <1>1, <1>4, <1>5, <1>7, <1>8 DEF TypeOK, DiskTyped, TodoTyped, CallRecords
<1>10. SlotsInv'
    BY <1>1, <1>4 DEF SlotsInv, Tame, DirHead, LiveName, Sound
<1>11. Good({}, todo)' /\ Erasable(todo)' BY <1>1, SameDisk DEF Startable
<1>12. QED BY <1>6, <1>9, <1>10, <1>11 DEF DirInv

(* The script of a call: what it starts with, then its flush or what it
   clears and frees. *)
LEMMA PlainStartable ==
    ASSUME NEW s \in Seq(Writes), Plain(s), Erasable(s), Few(s)
    PROVE  Startable(s)
BY PlainGood DEF Startable

LEMMA ScriptStartable ==
    ASSUME NEW s, Script({}, s), ClearsIn(s) = {}
    PROVE  Startable(s)
BY NoClearsErasable, NoClearsFew DEF Startable, Script

(* A plain script before or after another one. *)
LEMMA PlainFirst ==
    ASSUME NEW s \in Seq(Writes), Plain(s), ClearsIn(s) = {}, NEW t, Script({}, t), ClearsIn(t) = {}
    PROVE  Startable(s \o t)
<1>1. Good({}, s) /\ Calm(s) BY PlainGood
<1>2. t \in Seq(Writes) /\ Good({}, t) /\ Starts(t) BY DEF Script
<1>3. Good({}, s \o t) BY <1>1, <1>2, JoinGood
<1>4. s \o t \in Seq(Writes) /\ ClearsIn(s \o t) = {} BY <1>2, JoinFacts
<1>5. QED BY <1>3, <1>4, NoClearsErasable, NoClearsFew DEF Startable

LEMMA PlainLast ==
    ASSUME NEW s, Script({}, s), ClearsIn(s) = {},
           NEW t \in Seq(Writes), Plain(t), Erasable(t), Few(t)
    PROVE  Startable(s \o t)
<1>1. Good({}, t) /\ NoFiles(t) /\ Starts(t) BY PlainGood, PlainStarts
<1>2. s \in Seq(Writes) /\ Good({}, s) BY DEF Script
<1>3. Good({}, s \o t) BY <1>1, <1>2, JoinGood
<1>4. Erasable(s) BY NoClearsErasable
<1>5. s \o t \in Seq(Writes) /\ Few(s \o t) /\ Erasable(s \o t) BY <1>2, <1>4, JoinFacts
<1>6. QED BY <1>3, <1>5 DEF Startable

LEMMA EmptyScript ==
    << >> \in Seq(Writes) /\ Plain(<< >>) /\ ClearsIn(<< >>) = {}
BY DEF Plain, ClearsIn

LEMMA FirstClusterFacts ==
    ASSUME NEW c \in Clusters
    PROVE  FirstCluster(c) \in Seq(Writes) /\ Plain(FirstCluster(c)) /\ ClearsIn(FirstCluster(c)) = {}
<1> DEFINE w1 == SetBit(c, TRUE)
           w2 == SetFat(c, END_OF_CHAIN)
           w3 == ZeroCluster(c)
           p == <<w1, w2, w3, Flush>>
<1>1. /\ w1 \in Writes /\ w1.op = "bit" /\ w2 \in Writes /\ w2.op = "fat"
      /\ w3 \in Writes /\ w3.op = "zero" /\ Flush \in Writes /\ Flush.op = "flush"
    BY OtherWritesTyped
<1>2. FirstCluster(c) = p BY DEF FirstCluster
<1> HIDE DEF w1, w2, w3
<1>3. p \in Seq(Writes) BY <1>1
<1>4. DOMAIN p = 1 .. 4 /\ p[1] = w1 /\ p[2] = w2 /\ p[3] = w3 /\ p[4] = Flush
    OBVIOUS
<1>5. \A k \in DOMAIN p : k = 1 \/ k = 2 \/ k = 3 \/ k = 4 BY <1>4
<1> HIDE DEF p
<1>6. Plain(p) /\ ClearsIn(p) = {} BY <1>1, <1>4, <1>5 DEF Plain, ClearsIn
<1>7. QED BY <1>2, <1>3, <1>6

LEMMA CallKeeps ==
    ASSUME DirInv, Call
    PROVE  DirInv'
<1>1. SlotTyped /\ SlotsInv BY DEF DirInv, TypeOK, SlotTyped
<1> DEFINE H(p) == DirHandle(p[1])
           E(p) == FindIn(p[2])[H(p)]
<1>2. PICK p \in Paths :
          /\ H(p) # None
          /\ \/ p[2] \in Files /\ Create(p, H(p), E(p))
             \/ p[2] \in Dirs /\ MakeDir(p, H(p), E(p))
             \/ \E len \in Lens : Update(p, E(p), len)
             \/ Remove(p, E(p))
             \/ \E q \in Paths \ {p} :
                   (p[2] \in Dirs <=> q[2] \in Dirs) /\ Rename(p, E(p), q)
    BY DEF Call
<1> DEFINE h == H(p)
           e == E(p)
<1>3. \A q \in Paths : q[1] \in Dirs \cup {Root} /\ q[2] \in Names
    BY DEF Paths, Names
<1>4. \A q \in Paths : H(q) # None => HandleAt(H(q), q[1])
    BY <1>1, <1>3, HandleFacts
<1>5. \A q \in Paths : H(q) # None => H(q) \in Handles
    BY <1>4 DEF HandleAt
<1>6. HandleAt(h, p[1]) /\ h \in Handles BY <1>2, <1>4, <1>5
<1>7. e # None => e \in EntryLocs /\ HitAt(e, p[2])
    BY <1>1, <1>3, <1>6, FindInFacts
<1>8. 0 \in Lens /\ Lens \subseteq Nat /\ 0 \in Nat BY Sizes
<1>9. p[2] \in Names BY <1>3
<1> DEFINE n == p[2]
<1> HIDE DEF h, e, H, E
<1>10. CASE Create(p, h, e)
    <2> DEFINE set == EntrySet(n, FALSE, 0, 0)
               s == Place(h, set, {})
    <2>1. Room(h, set, {}) /\ Begin("create", p, None, 0, TRUE, s)
        BY <1>10 DEF Create
    <2>2. Script({}, s) /\ ClearsIn(s) = {}
        BY <1>1, <1>6, <1>8, <1>9, <2>1, PlaceFacts
    <2> HIDE DEF s
    <2>3. Startable(s) BY <2>2, ScriptStartable
    <2>4. QED BY <2>1, <2>3, <1>8, BeginKeeps
<1>11. CASE MakeDir(p, h, e)
    <2> DEFINE c == FirstFree({})
               set == EntrySet(n, TRUE, c, PerCluster)
               room == Room(h, set, {c})
               s == Place(h, set, {c})
               t == IF room THEN s ELSE << >>
               u == FirstCluster(c) \o t
    <2>1. FreeClusters({}) # {} /\ Begin("mkdir", p, None, 0, room, u)
        BY <1>11 DEF MakeDir
    <2>2. c \in Clusters BY <2>1, FirstFreeTyped
    <2> HIDE DEF c
    <2>3. room \in BOOLEAN BY DEF Room
    <2>4. FirstCluster(c) \in Seq(Writes) /\ Plain(FirstCluster(c)) /\ ClearsIn(FirstCluster(c)) = {}
        BY <2>2, FirstClusterFacts
    <2>5. Startable(u)
        <3>1. CASE room
            <4>1. PerCluster \in Nat BY Sizes
            <4>2. Script({}, s) /\ ClearsIn(s) = {}
                BY <1>1, <1>6, <1>9, <2>2, <3>1, <4>1, PlaceFacts
            <4> HIDE DEF s, room
            <4>3. QED BY <2>4, <3>1, <4>2, PlainFirst
        <3>2. CASE ~room
            <4> HIDE DEF s, room
            <4>1. u = FirstCluster(c) \o << >> BY <3>2
            <4>2. /\ u \in Seq(Writes) /\ Plain(u) /\ ClearsIn(u) = {}
                BY <4>1, <2>4, EmptyScript, JoinFacts
            <4> HIDE DEF u
            <4>3. QED BY <4>2, PlainStartable, NoClearsErasable, NoClearsFew
        <3> HIDE DEF room
        <3>3. QED BY <3>1, <3>2
    <2> HIDE DEF u, room
    <2>6. QED BY <2>1, <2>3, <2>5, <1>8, BeginKeeps
<1>12. ASSUME NEW len \in Lens, Update(p, e, len) PROVE DirInv'
    <2> DEFINE r == RewriteStream(e, len)
               s == r \o << Flush >>
    <2>1. e # None /\ Begin("update", p, None, len, TRUE, s) BY <1>12 DEF Update
    <2>2. len \in Nat BY <1>8
    <2>3. Script({}, r) /\ ClearsIn(r) = {} BY <1>1, <1>7, <1>9, <2>1, <2>2, RewriteFacts
    <2> HIDE DEF r
    <2>4. Startable(s) BY <2>3, FlushScript, NoClearsErasable, NoClearsFew, PlainLast
    <2> HIDE DEF s
    <2>5. QED BY <2>1, <2>4, BeginKeeps
<1>13. CASE Remove(p, e)
    <2> DEFINE s == Clear(e)
               t == IF e.dir THEN FreeChain(e.first) ELSE << >>
               u == s \o t
    <2>1. e # None /\ Begin("remove", p, None, 0, TRUE, u) BY <1>13 DEF Remove
    <2>2. e \in EntryLocs /\ HitAt(e, n) BY <1>7, <2>1
    <2>3. s \in Seq(Writes) /\ Plain(s) /\ Few(s) /\ Erasable(s)
        BY <1>1, <1>9, <2>2, ClearFacts
    <2>4. t \in Seq(Writes) /\ Plain(t) /\ ClearsIn(t) = {}
        <3>1. e.dir => e.first \in Clusters BY <2>2 DEF HitAt
        <3>2. QED BY <3>1, FreeChainFacts, EmptyScript
    <2> HIDE DEF s, t
    <2>5. u \in Seq(Writes) /\ Plain(u) /\ Few(u) /\ Erasable(u)
        BY <2>3, <2>4, NoClearsErasable, JoinFacts
    <2> HIDE DEF u
    <2>6. Startable(u) BY <2>5, PlainStartable
    <2>7. QED BY <2>1, <2>6, <1>8, BeginKeeps
<1>14. ASSUME NEW q \in Paths, Rename(p, e, q) PROVE DirInv'
    <2> DEFINE k == DirHandle(q[1])
               set == EntrySet(q[2], e.dir, e.first, e.len)
               s == Place(k, set, {})
               t == Clear(e)
               u == s \o t
    <2>1. /\ e # None /\ k # None /\ Room(k, set, {})
          /\ Begin("rename", p, q, 0, TRUE, u)
        BY <1>14 DEF Rename
    <2>2. e \in EntryLocs /\ HitAt(e, n) BY <1>7, <2>1
    <2>3. /\ e.dir \in BOOLEAN /\ e.first \in Clusters \cup {0} /\ e.len \in Nat
          /\ e.dir => e.first \in Clusters
        BY <2>2 DEF EntryLocs, HitAt
    <2>4. HandleAt(k, q[1]) /\ q[2] \in Names BY <1>3, <1>4, <2>1 DEF H
    <2> HIDE DEF k
    <2>5. Script({}, s) /\ ClearsIn(s) = {} BY <1>1, <2>1, <2>3, <2>4, PlaceFacts
    <2>6. t \in Seq(Writes) /\ Plain(t) /\ Few(t) /\ Erasable(t)
        BY <1>1, <1>9, <2>2, ClearFacts
    <2> HIDE DEF s, t
    <2>7. Startable(u) BY <2>5, <2>6, PlainLast
    <2> HIDE DEF u
    <2>8. QED BY <2>1, <2>7, <1>8, BeginKeeps
<1>15. QED BY <1>2, <1>10, <1>11, <1>12, <1>13, <1>14 DEF h, e

-----------------------------------------------------------------------------
(* Device writes *)

LEMMA ProceedFacts ==
    ASSUME TypeOK, todo \in Seq(Writes), todo # << >>, Proceed
    PROVE  /\ todo' = Tail(todo) /\ (call \in CallRecords)' /\ mishap' \in BOOLEAN
           /\ cuts' = cuts
<1>1. call \in CallRecords /\ mishap \in BOOLEAN BY TypeParts
<1>2. cuts' = cuts BY DEF Proceed
<1>3. Len(todo) \in Nat \ {0} BY EmptySeq
<1>4. NoCall \in CallRecords BY Sizes DEF NoCall, CallRecords, MaxSet
<1>5. CASE Len(todo) > 1
    <2>1. todo' = Tail(todo) /\ call' = call /\ mishap' = mishap BY <1>5 DEF Proceed
    <2>2. QED BY <2>1, <1>1, <1>2 DEF CallRecords, Paths, Names, Kinds, MaxSet
<1>6. CASE ~(Len(todo) > 1)
    <2>1. todo' = << >> /\ call' = NoCall /\ mishap' = (mishap \/ ~call.ok)
        BY <1>6 DEF Proceed, Return
    <2>2. Tail(todo) = << >>
        <3>1. Len(todo) = 1
            <4>1. PICK n \in Nat \ {0} : n = Len(todo) BY <1>3
            <4>2. ~(n > 1) BY <4>1, <1>6
            <4>3. n = 1 BY <4>2
            <4>4. QED BY <4>1, <4>3
        <3>2. Tail(todo) \in Seq(Writes) /\ Len(Tail(todo)) = 0
            BY ONLY todo \in Seq(Writes), todo # << >>, <3>1, HeadTailProperties
        <3>3. QED BY ONLY <3>2, EmptySeq
    <2>3. mishap' \in BOOLEAN
        <3>1. call.ok \in BOOLEAN BY <1>1 DEF CallRecords
        <3>2. QED BY <3>1, <1>1, <2>1
    <2>4. (call \in CallRecords)' BY <2>1, <1>4 DEF CallRecords, Paths, Names, Kinds, MaxSet
    <2>5. QED BY <2>1, <2>2, <2>3, <2>4, <1>2
<1>7. QED BY <1>5, <1>6

LEMMA TailFacts ==
    ASSUME NEW s \in Seq(Writes), s # << >>
    PROVE  /\ Tail(s) \in Seq(Writes) /\ Len(s) \in Nat \ {0} /\ Len(Tail(s)) = Len(s) - 1
           /\ DOMAIN Tail(s) = 1 .. Len(s) - 1 /\ DOMAIN s = 1 .. Len(s)
           /\ \A k \in 1 .. Len(s) - 1 : Tail(s)[k] = s[k + 1]
           /\ Head(s) = s[1] /\ s[1] \in Writes
BY EmptySeq, HeadTailProperties

(* How the first write of a script changes the slots. *)
Step(w) ==
    /\ w.op = "slot" => slot' = [slot EXCEPT ![w.at[1]][w.at[2]] = w.val]
    /\ w.op = "clear" => slot' = [slot EXCEPT ![w.at[1]][w.at[2]].live = FALSE]
    /\ w.op = "zero" => slot' = [slot EXCEPT ![w.cluster] = [i \in Index |-> EndSlot]]
    /\ w.op \notin {"slot", "clear", "zero"} => slot' = slot

(* The same, slot by slot. *)
Changed(w, c, i) ==
    CASE w.op = "slot" /\ w.at = <<c, i>> -> slot'[c][i] = w.val
      [] w.op = "clear" /\ w.at = <<c, i>> -> slot'[c][i] = [slot[c][i] EXCEPT !.live = FALSE]
      [] w.op = "zero" /\ w.cluster = c -> slot'[c][i] = EndSlot
      [] OTHER -> slot'[c][i] = slot[c][i]

LEMMA StepBySlot ==
    ASSUME SlotTyped, NEW w \in Writes, Step(w), NEW c \in Clusters, NEW i \in Index
    PROVE  Changed(w, c, i)
<1>1. slot \in [Clusters -> [Index -> Slots]] BY DEF SlotTyped
<1>2. CASE w.op = "slot"
    <2>1. w.at \in Addresses
        BY <1>2, WriteCases
    <2>2. PICK x \in Clusters, y \in Index : w.at = <<x, y>> BY <2>1 DEF Addresses
    <2>3. slot' = [slot EXCEPT ![x][y] = w.val] BY <1>2, <2>2 DEF Step
    <2>4. slot'[c][i] = IF c = x /\ i = y THEN w.val ELSE slot[c][i]
        BY <2>3, <1>1
    <2>5. QED BY <2>2, <2>4, <1>2 DEF Changed
<1>3. CASE w.op = "clear"
    <2>1. w.at \in Addresses
        BY <1>3, WriteCases
    <2>2. PICK x \in Clusters, y \in Index : w.at = <<x, y>> BY <2>1 DEF Addresses
    <2>3. slot' = [slot EXCEPT ![x][y].live = FALSE] BY <1>3, <2>2 DEF Step
    <2>4. slot'[c][i] = IF c = x /\ i = y THEN [slot[c][i] EXCEPT !.live = FALSE] ELSE slot[c][i]
        BY <2>3, <1>1
    <2>5. QED BY <2>2, <2>4, <1>3 DEF Changed
<1>4. CASE w.op = "zero"
    <2>1. slot' = [slot EXCEPT ![w.cluster] = [x \in Index |-> EndSlot]] BY <1>4 DEF Step
    <2>2. slot'[c] = IF c = w.cluster THEN [x \in Index |-> EndSlot] ELSE slot[c]
        BY <2>1, <1>1
    <2>3. QED BY <2>2, <1>4 DEF Changed
<1>5. CASE w.op \notin {"slot", "clear", "zero"}
    <2>1. slot' = slot BY <1>5 DEF Step
    <2>2. QED BY <2>1, <1>5 DEF Changed
<1>6. QED BY <1>2, <1>3, <1>4, <1>5

(* Clearing a slot leaves its type and what a stream entry says. *)
LEMMA ClearedSlot ==
    ASSUME NEW s \in Slots, s.type # "system"
    PROVE  LET z == [s EXCEPT !.live = FALSE]
           IN  z \in Slots /\ z.type = s.type /\ ~z.live /\ (Sound(z) <=> Sound(s))
<1>1. CASE s = EndSlot
    <2>1. s \in [type : {"end"}, live : {FALSE}] BY <1>1 DEF EndSlot
    <2>2. [s EXCEPT !.live = FALSE] = s BY <2>1
    <2>3. QED BY <1>1, <2>2 DEF EndSlot, Sound
<1>2. CASE s \in FileSlots BY <1>2 DEF FileSlots, Slots, Sound
<1>3. CASE s \in StreamSlots BY <1>3 DEF StreamSlots, Slots, Sound
<1>4. CASE s \in NameSlots BY <1>4 DEF NameSlots, Slots, Sound
<1>5. QED BY <1>1, <1>2, <1>3, <1>4 DEF Slots, SystemSlot

(* Each slot after a write: typed, and as tame as before but for the slot
   that was written. *)
LEMMA SlotAfter ==
    ASSUME SlotTyped, NEW w \in Writes, Step(w), NEW c \in Clusters, NEW i \in Index,
           w.op = "clear" => slot[w.at[1]][w.at[2]].type # "system"
    PROVE  /\ slot'[c][i] \in Slots
           /\ ~(w.op = "slot" /\ w.at = <<c, i>>) =>
                 /\ slot'[c][i].type \in {slot[c][i].type, "end"}
                 /\ slot'[c][i].live => slot'[c][i] = slot[c][i]
                 /\ Sound(slot[c][i]) => Sound(slot'[c][i])
           /\ w.op = "slot" /\ w.at = <<c, i>> => slot'[c][i] = w.val /\ w.val \in Entries
           /\ w.op \in {"slot", "bit", "fat", "flush"} /\ ~(w.op = "slot" /\ w.at = <<c, i>>) =>
                 slot'[c][i] = slot[c][i]
<1>1. Changed(w, c, i) BY StepBySlot
<1>2. slot[c][i] \in Slots BY DEF SlotTyped
<1>3. CASE w.op = "slot" /\ w.at = <<c, i>>
    <2>1. slot'[c][i] = w.val BY <1>1, <1>3 DEF Changed
    <2>2. w.val \in Entries
        <3>1. w \in [op : {"slot"}, at : Addresses, val : Entries]
            BY <1>3 DEF Writes, Flush
        <3>2. QED BY <3>1
    <2>3. w.val \in Slots BY <2>2 DEF Entries, Slots
    <2>4. QED BY <2>1, <2>2, <2>3, <1>3
<1>4. CASE w.op = "clear" /\ w.at = <<c, i>>
    <2> DEFINE z == [slot[c][i] EXCEPT !.live = FALSE]
    <2>1. slot'[c][i] = z BY <1>1, <1>4 DEF Changed
    <2>2. slot[c][i].type # "system" BY <1>4
    <2>3. z \in Slots /\ z.type = slot[c][i].type /\ ~z.live /\ (Sound(z) <=> Sound(slot[c][i]))
        BY <1>2, <2>2, ClearedSlot
    <2> HIDE DEF z
    <2>4. QED BY <2>1, <2>3, <1>4
<1>5. CASE w.op = "zero" /\ w.cluster = c
    <2>1. slot'[c][i] = EndSlot BY <1>1, <1>5 DEF Changed
    <2>2. EndSlot \in Slots /\ EndSlot.type = "end" /\ ~EndSlot.live /\ Sound(EndSlot)
        BY DEF EndSlot, Slots, Sound
    <2>3. QED BY <2>1, <2>2, <1>5
<1>6. CASE /\ ~(w.op = "slot" /\ w.at = <<c, i>>) /\ ~(w.op = "clear" /\ w.at = <<c, i>>)
           /\ ~(w.op = "zero" /\ w.cluster = c)
    <2>1. slot'[c][i] = slot[c][i] BY <1>1, <1>6 DEF Changed
    <2>2. QED BY <2>1, <1>2, <1>6
<1>7. QED BY <1>3, <1>4, <1>5, <1>6

(* A tame place stays so unless a name or an unsound stream is written. *)
LEMMA TameStays ==
    ASSUME SlotTyped, NEW w \in Writes, Step(w), NEW c \in Clusters, NEW i \in Index,
           w.op = "clear" => slot[w.at[1]][w.at[2]].type # "system",
           w.op = "slot" => w.val.type # "name" /\ Sound(w.val),
           Tame(c, i)
    PROVE  Tame(c, i)'
<1> SUFFICES ASSUME i + 2 <= PerCluster
             PROVE  ~LiveName(slot'[c][i + 2]) \/ Sound(slot'[c][i + 1])
    BY DEF Tame, Sound, LiveName
<1>1. i + 1 \in Index /\ i + 2 \in Index BY Sizes DEF Index
<1>2. ~LiveName(slot[c][i + 2]) \/ Sound(slot[c][i + 1]) BY DEF Tame
<1>3. Sound(slot[c][i + 1]) => Sound(slot'[c][i + 1])
    BY <1>1, SlotAfter
<1>4. LiveName(slot'[c][i + 2]) => LiveName(slot[c][i + 2])
    BY <1>1, SlotAfter DEF LiveName
<1>5. QED BY <1>2, <1>3, <1>4

LEMMA ZeroTames ==
    ASSUME SlotTyped, NEW w \in Writes, Step(w), w.op = "zero", NEW c \in Clusters,
           w.cluster = c, NEW i \in Index
    PROVE  Tame(c, i)'
<1> SUFFICES ASSUME i + 2 <= PerCluster PROVE ~LiveName(slot'[c][i + 2])
    BY DEF Tame, LiveName
<1>1. i + 2 \in Index BY Sizes DEF Index
<1>2. slot'[c][i + 2] = EndSlot BY <1>1, StepBySlot DEF Changed
<1>3. QED BY <1>2 DEF LiveName, EndSlot

(* The slots a write leaves alone, for a write known to be a script's. *)
LEMMA SlotPut ==
    ASSUME SlotTyped, NEW w \in Writes, Step(w), w.op = "slot",
           NEW c \in Clusters, NEW i \in Index, NEW x \in Index, w.at = <<c, x>>
    PROVE  slot'[c][i] = IF i = x THEN w.val ELSE slot[c][i]
<1>1. Changed(w, c, i) BY StepBySlot
<1>2. CASE i = x
    <2>1. w.at = <<c, i>> BY <1>2
    <2>2. QED BY <2>1, <1>1, <1>2 DEF Changed
<1>3. CASE i # x
    <2>1. w.at # <<c, i>> BY <1>3
    <2>2. QED BY <2>1, <1>1, <1>3 DEF Changed
<1>4. QED BY <1>2, <1>3

(* The writes that are left still fit. *)
LEMMA RestGood ==
    ASSUME SlotTyped, todo \in Seq(Writes), todo # << >>, Good({}, todo), Erasable(todo),
           Step(todo[1]), todo' = Tail(todo)
    PROVE  Good({}, todo)'
<1>1. PICK L \in Nat \ {0} :
        /\ DOMAIN todo' = 1 .. L - 1 /\ DOMAIN todo = 1 .. L
        /\ \A k \in 1 .. L - 1 : todo'[k] = todo[k + 1]
    <2>1. /\ Len(todo) \in Nat \ {0}
          /\ DOMAIN Tail(todo) = 1 .. Len(todo) - 1 /\ DOMAIN todo = 1 .. Len(todo)
          /\ \A k \in 1 .. Len(todo) - 1 : Tail(todo)[k] = todo[k + 1]
        BY TailFacts
    <2>2. QED BY <2>1
<1>2. PICK w \in Writes : w = todo[1] BY TailFacts
<1>3. Step(w) BY <1>2
<1>4. w.op = "clear" => slot[w.at[1]][w.at[2]].type # "system"
    <2>1. 1 \in DOMAIN todo BY <1>1
    <2>2. QED BY <2>1, <1>2 DEF Erasable
<1> SUFFICES ASSUME NEW k \in 1 .. L - 1
             PROVE  /\ FileFits({}, todo, k)' /\ StreamFits(todo, k)' /\ NameFits(todo, k)'
    BY <1>1 DEF Good
<1>5. k \in Nat \ {0} /\ k + 1 \in 1 .. L /\ (k + 1) - 1 = k /\ k + 1 > 1 BY <1>1
<1>6. PICK v \in Writes : v = todo[k + 1]
    <2>1. todo[k + 1] \in Writes BY <1>1, <1>5
    <2>2. QED BY <2>1
<1>7. todo'[k] = v BY <1>1, <1>6
<1>8. FileFits({}, todo, k + 1) /\ StreamFits(todo, k + 1) /\ NameFits(todo, k + 1)
    BY <1>1, <1>5 DEF Good
<1>9. v.op = "slot" => \E c \in Clusters, i \in Index : v.at = <<c, i>>
    BY WriteCases DEF Addresses
<1>10. FileFits({}, todo, k)'
    <2> SUFFICES ASSUME v.op = "slot", v.val.type = "file", DirHead(v.val)
                 PROVE  /\ v.at[1] \in Zeroed(todo, k)' \/ Tame(v.at[1], v.at[2])'
                        /\ \A j \in 1 .. k - 1 : todo'[j].op = "slot" =>
                              todo'[j].val.type # "name" /\ Sound(todo'[j].val)
        BY <1>7 DEF FileFits, Puts, Zeroed, Tame, DirHead, Sound, LiveName
    <2>1. /\ v.at[1] \in Zeroed(todo, k + 1) \/ Tame(v.at[1], v.at[2])
          /\ \A j \in 1 .. k : todo[j].op = "slot" =>
                todo[j].val.type # "name" /\ Sound(todo[j].val)
        BY <1>5, <1>6, <1>8 DEF FileFits, Puts
    <2>2. ASSUME NEW j \in 1 .. k - 1, todo'[j].op = "slot"
          PROVE  todo'[j].val.type # "name" /\ Sound(todo'[j].val)
        <3>1. todo'[j] = todo[j + 1] /\ j + 1 \in 1 .. k
            <4>1. j \in 1 .. L - 1 /\ j + 1 \in 1 .. k BY <1>5
            <4>2. QED BY <4>1, <1>1
        <3>2. QED BY <3>1, <2>1, <2>2
    <2>3. w.op = "slot" => w.val.type # "name" /\ Sound(w.val)
        <3>1. 1 \in 1 .. k BY <1>5
        <3>2. QED BY <3>1, <2>1, <1>2
    <2>4. PICK c \in Clusters, i \in Index : v.at = <<c, i>> BY <1>9
    <2>5. v.at[1] = c /\ v.at[2] = i BY <2>4
    <2>6. Tame(c, i)' => Tame(v.at[1], v.at[2])' BY <2>5 DEF Tame, LiveName, Sound
    <2>7. CASE Tame(v.at[1], v.at[2])
        <3>1. Tame(c, i) BY <2>5, <2>7
        <3>2. Tame(c, i)' BY <1>3, <1>4, <2>3, <3>1, TameStays
        <3>3. QED BY <3>2, <2>6, <2>2
    <2>8. CASE v.at[1] \in Zeroed(todo, k + 1)
        <3>1. PICK j \in 1 .. k : todo[j].op = "zero" /\ todo[j].cluster = c
            BY <1>5, <2>5, <2>8 DEF Zeroed
        <3>2. CASE j = 1
            <4>1. w.op = "zero" /\ w.cluster = c BY <3>1, <3>2, <1>2
            <4>2. Tame(c, i)' BY <4>1, <1>3, ZeroTames
            <4>3. QED BY <4>2, <2>6, <2>2
        <3>3. CASE j # 1
            <4>1. j - 1 \in 1 .. k - 1 /\ j - 1 \in 1 .. L - 1 /\ (j - 1) + 1 = j
                BY <3>3, <1>5
            <4>2. todo'[j - 1] = todo[j] BY <4>1, <1>1
            <4>3. v.at[1] \in Zeroed(todo, k)' BY <4>1, <4>2, <3>1, <2>5 DEF Zeroed, Clusters
            <4>4. QED BY <4>3, <2>2
        <3>4. QED BY <3>2, <3>3
    <2>9. QED BY <2>1, <2>7, <2>8
<1>11. ASSUME v.op = "slot", v.val.type \in {"stream", "name"}
       PROVE  /\ NextTo(todo, k + 1) /\ todo[k].val.type \in {"file", "stream", "name"}
              /\ v.val.type = "stream" => todo[k].val.type = "file"
              /\ v.val.type = "name" => todo[k].val.type \in {"stream", "name"}
              /\ v.at[2] >= 2
    <2>1. CASE v.val.type = "stream"
        <3>1. Puts(todo, k + 1, "stream") BY <2>1, <1>6, <1>11 DEF Puts
        <3>2. NextTo(todo, k + 1) /\ todo[k].val.type = "file" /\ v.at[2] >= 2
            BY <3>1, <1>5, <1>6, <1>8 DEF StreamFits
        <3>3. QED BY <3>2, <2>1
    <2>2. CASE v.val.type = "name"
        <3>1. Puts(todo, k + 1, "name") BY <2>2, <1>6, <1>11 DEF Puts
        <3>2. NextTo(todo, k + 1) /\ todo[k].val.type \in {"stream", "name"} /\ v.at[2] >= 3
            BY <3>1, <1>5, <1>6, <1>8 DEF NameFits
        <3>3. v.at[2] \in Nat
            <4>1. PICK c \in Clusters, i \in Index : v.at = <<c, i>> BY <1>9, <1>11
            <4>2. i \in Nat BY Sizes DEF Index
            <4>3. QED BY <4>1, <4>2
        <3>4. v.at[2] >= 2 BY <3>2, <3>3
        <3>5. QED BY <3>2, <3>4, <2>2
    <2>3. QED BY <2>1, <2>2, <1>11
<1>12. ASSUME v.op = "slot", v.val.type \in {"stream", "name"}
       PROVE  Back(todo, k, 1)' = Back(todo, k + 1, 1) /\ (k > 1 => NextTo(todo, k)')
    <2>1. PICK c \in Clusters, i \in Index : v.at = <<c, i>> BY <1>9, <1>12
    <2>2. i \in Nat /\ i >= 2 /\ i - 1 \in Index
        <3>1. v.at[2] >= 2 BY <1>11, <1>12
        <3>2. i >= 2 BY <3>1, <2>1
        <3>3. QED BY <3>2, Sizes DEF Index
    <2>3. todo[k].op = "slot" /\ todo[k].at = <<c, i - 1>>
        BY <1>5, <1>6, <1>11, <1>12, <2>1 DEF NextTo
    <2>4. Back(todo, k + 1, 1) = todo[k].val BY <1>5 DEF Back
    <2>5. todo'[k].at[1] = c /\ todo'[k].at[2] = i
        <3>1. v.at[1] = c /\ v.at[2] = i BY <2>1
        <3>2. QED BY <3>1, <1>7
    <2>6. CASE k > 1
        <3>1. k - 1 \in 1 .. L - 1 /\ (k - 1) + 1 = k BY <2>6, <1>1
        <3>2. todo'[k - 1] = todo[k] BY <3>1, <1>1
        <3>3. Back(todo, k, 1)' = todo[k].val BY <3>2, <2>6 DEF Back
        <3>4. NextTo(todo, k)' BY <3>2, <2>3, <2>5 DEF NextTo
        <3>5. QED BY <3>3, <3>4, <2>4
    <2>7. CASE k = 1
        <3>1. w.op = "slot" /\ w.at = <<c, i - 1>> /\ w.val = todo[k].val
            BY <2>3, <2>7, <1>2
        <3>2. PICK x \in Index : x = i - 1 BY <2>2
        <3>3. w.at = <<c, x>> BY <3>1, <3>2
        <3>4. slot'[c][x] = w.val BY <3>1, <3>3, <1>3, SlotPut
        <3>5. Back(todo, k, 1)' = slot'[c][x]
            <4>1. ~(k > 1) BY <2>7
            <4>2. Back(todo, k, 1)' = slot'[todo'[k].at[1]][todo'[k].at[2] - 1]
                BY <4>1 DEF Back
            <4>3. QED BY <2>5, <3>2, <4>2
        <3>6. QED BY <3>1, <3>4, <3>5, <2>4, <2>7
    <2>8. QED BY <2>6, <2>7, <1>5
<1>13. k > 1 => todo'[k - 1] = todo[k]
    <2> HAVE k > 1
    <2>1. k - 1 \in 1 .. L - 1 /\ (k - 1) + 1 = k BY <1>1
    <2>2. QED BY <2>1, <1>1
<1>14. StreamFits(todo, k)'
    <2> SUFFICES ASSUME v.op = "slot", v.val.type = "stream"
                 PROVE  /\ v.at[2] >= 2
                        /\ k > 1 => NextTo(todo, k)' /\ todo'[k - 1].val.type = "file"
                        /\ DirHead(Back(todo, k, 1)') => Sound(v.val)
        BY <1>7 DEF StreamFits, Puts, DirHead, Sound
    <2>1. Puts(todo, k + 1, "stream") BY <1>6 DEF Puts
    <2>2. DirHead(Back(todo, k + 1, 1)) => Sound(v.val)
        BY <2>1, <1>6, <1>8 DEF StreamFits
    <2>3. QED BY <2>2, <1>11, <1>12, <1>13
<1>15. ASSUME v.op = "slot", v.val.type = "name", v.at[2] >= 3
       PROVE  Back(todo, k, 2)' = Back(todo, k + 1, 2)
    <2>1. PICK c \in Clusters, i \in Index : v.at = <<c, i>> BY <1>9, <1>15
    <2>2. i \in Nat /\ i >= 3 /\ i - 1 \in Index /\ i - 2 \in Index /\ (i - 1) - 1 = i - 2
        <3>1. i >= 3 BY <1>15, <2>1
        <3>2. QED BY <3>1, Sizes DEF Index
    <2>3. todo[k].op = "slot" /\ todo[k].at = <<c, i - 1>> /\ todo[k].val.type \in {"stream", "name"}
        BY <1>5, <1>6, <1>11, <1>15, <2>1 DEF NextTo
    <2>4. /\ todo'[k].at[1] = c /\ todo'[k].at[2] = i
          /\ todo[k + 1].at[1] = c /\ todo[k + 1].at[2] = i
        <3>1. v.at[1] = c /\ v.at[2] = i BY <2>1
        <3>2. QED BY <3>1, <1>6, <1>7
    <2>5. CASE k > 2
        <3>1. k - 2 \in 1 .. L - 1 /\ (k - 2) + 1 = k - 1 /\ (k + 1) - 2 = k - 1 /\ k + 1 > 2
            BY <2>5, <1>1
        <3>2. todo'[k - 2] = todo[k - 1] BY <3>1, <1>1
        <3>3. Back(todo, k, 2)' = todo[k - 1].val BY <3>2, <2>5 DEF Back
        <3>4. Back(todo, k + 1, 2) = todo[k - 1].val BY <3>1 DEF Back
        <3>5. QED BY <3>3, <3>4
    <2>6. CASE k = 2
        <3>1. 2 \in DOMAIN todo /\ 2 > 1 /\ 2 - 1 = 1 BY <1>5, <2>6, <1>1
        <3>2. StreamFits(todo, 2) /\ NameFits(todo, 2) BY <3>1 DEF Good
        <3>3. NextTo(todo, 2) BY <3>1, <3>2, <2>3, <2>6 DEF StreamFits, NameFits, Puts
        <3>4. w.op = "slot" /\ w.at = <<c, (i - 1) - 1>>
            BY <3>1, <3>3, <2>3, <2>6, <1>2 DEF NextTo
        <3>5. w.at = <<c, i - 2>> BY <3>4, <2>2
        <3>6. PICK x \in Index : x = i - 2 BY <2>2
        <3>7. slot'[c][x] = w.val
            <4>1. w.at = <<c, x>> BY <3>5, <3>6
            <4>2. QED BY <4>1, <3>4, <1>3, SlotPut
        <3>11. Back(todo, k, 2)' = slot'[c][x]
            <4>1. ~(k > 2) BY <2>6
            <4>2. Back(todo, k, 2)' = slot'[todo'[k].at[1]][todo'[k].at[2] - 2]
                BY <4>1 DEF Back
            <4>3. QED BY <2>4, <3>6, <4>2
        <3>8. k + 1 > 2 /\ (k + 1) - 2 = 1 BY <2>6
        <3>9. Back(todo, k + 1, 2) = todo[1].val BY <3>8 DEF Back
        <3>10. QED BY <3>7, <3>9, <3>11, <1>2
    <2>7. CASE k = 1
        <3>1. w.op = "slot" /\ w.at = <<c, i - 1>> BY <2>3, <2>7, <1>2
        <3>2. PICK x \in Index, y \in Index : x = i - 2 /\ y = i - 1 /\ x # y BY <2>2
        <3>3. slot'[c][i - 2] = slot[c][i - 2]
            <4>1. w.at = <<c, y>> BY <3>1, <3>2
            <4>2. slot'[c][x] = slot[c][x] BY <4>1, <3>1, <3>2, <1>3, SlotPut
            <4>3. QED BY <4>2, <3>2
        <3>4. Back(todo, k, 2)' = slot'[c][i - 2]
            <4>1. ~(k > 2) BY <2>7
            <4>2. Back(todo, k, 2)' = slot'[todo'[k].at[1]][todo'[k].at[2] - 2]
                BY <4>1 DEF Back
            <4>3. QED BY <2>4, <4>2
        <3>5. ~(k + 1 > 2) BY <2>7
        <3>6. Back(todo, k + 1, 2) = slot[c][i - 2] BY <2>4, <3>5 DEF Back
        <3>7. QED BY <3>3, <3>4, <3>6
    <2>8. QED BY <2>5, <2>6, <2>7, <1>5
<1>16. NameFits(todo, k)'
    <2> SUFFICES ASSUME v.op = "slot", v.val.type = "name"
                 PROVE  /\ v.at[2] >= 3
                        /\ k > 1 => NextTo(todo, k)' /\ todo'[k - 1].val.type \in {"stream", "name"}
                        /\ DirHead(Back(todo, k, 2)') => Sound(Back(todo, k, 1)')
        BY <1>7 DEF NameFits, Puts, DirHead, Sound
    <2>1. Puts(todo, k + 1, "name") BY <1>6 DEF Puts
    <2>2. v.at[2] >= 3 /\ (DirHead(Back(todo, k + 1, 2)) => Sound(Back(todo, k + 1, 1)))
        BY <2>1, <1>6, <1>8 DEF NameFits
    <2>3. QED BY <2>2, <1>11, <1>12, <1>13, <1>15
<1>17. QED BY <1>10, <1>14, <1>16

(* What is erased later is not a system entry later either. *)
LEMMA RestErasable ==
    ASSUME SlotTyped, todo \in Seq(Writes), todo # << >>, Erasable(todo),
           Step(todo[1]), todo' = Tail(todo)
    PROVE  Erasable(todo)'
<1>1. PICK L \in Nat \ {0} :
        /\ DOMAIN todo' = 1 .. L - 1 /\ DOMAIN todo = 1 .. L
        /\ \A k \in 1 .. L - 1 : todo'[k] = todo[k + 1]
    <2>1. /\ Len(todo) \in Nat \ {0}
          /\ DOMAIN Tail(todo) = 1 .. Len(todo) - 1 /\ DOMAIN todo = 1 .. Len(todo)
          /\ \A k \in 1 .. Len(todo) - 1 : Tail(todo)[k] = todo[k + 1]
        BY TailFacts
    <2>2. QED BY <2>1
<1>2. PICK w \in Writes : w = todo[1] BY TailFacts
<1>3. Step(w) BY <1>2
<1>4. w.op = "clear" => slot[w.at[1]][w.at[2]].type # "system"
    <2>1. 1 \in DOMAIN todo BY <1>1
    <2>2. QED BY <2>1, <1>2 DEF Erasable
<1> SUFFICES ASSUME NEW k \in 1 .. L - 1
             PROVE  todo'[k].op = "clear" =>
                        slot'[todo'[k].at[1]][todo'[k].at[2]].type # "system"
    BY <1>1 DEF Erasable
<1>5. k + 1 \in 1 .. L BY <1>1
<1>6. PICK v \in Writes : v = todo[k + 1]
    <2>1. todo[k + 1] \in Writes BY <1>1, <1>5
    <2>2. QED BY <2>1
<1>7. todo'[k] = v BY <1>1, <1>6
<1>8. CASE v.op = "clear"
    <2>1. v.op = "clear" BY <1>8
    <2>2. PICK c \in Clusters, i \in Index : v.at = <<c, i>> BY <2>1, WriteCases DEF Addresses
    <2>3. v.at[1] = c /\ v.at[2] = i BY <2>2
    <2>4. slot[c][i].type # "system" BY <1>1, <1>5, <1>6, <2>1, <2>3 DEF Erasable
    <2>5. \/ slot'[c][i].type \in {slot[c][i].type, "end"}
           \/ slot'[c][i] \in Entries
        BY <1>3, <1>4, SlotAfter
    <2>6. \A s \in Entries : s.type # "system"
        BY DEF Entries, FileSlots, StreamSlots, NameSlots
    <2>7. slot'[c][i].type # "system" BY <2>4, <2>5, <2>6
    <2>8. QED BY <1>7, <2>3, <2>7
<1>9. CASE v.op # "clear" BY <1>7, <1>9
<1>10. QED BY <1>8, <1>9

(* What the slots promise survives a write that fits. *)
LEMMA SlotsStay ==
    ASSUME SlotTyped, SlotsInv, todo \in Seq(Writes), todo # << >>, Good({}, todo),
           Erasable(todo), Step(todo[1])
    PROVE  SlotsInv'
<1>1. 1 \in DOMAIN todo BY TailFacts
<1>2. PICK w \in Writes : w = todo[1] BY TailFacts
<1>3. Step(w) BY <1>2
<1>4. w.op = "clear" => slot[w.at[1]][w.at[2]].type # "system" BY <1>1, <1>2 DEF Erasable
<1>5. FileFits({}, todo, 1) /\ StreamFits(todo, 1) /\ NameFits(todo, 1) BY <1>1 DEF Good
<1> SUFFICES ASSUME NEW c \in Clusters, NEW i \in Index
             PROVE  /\ slot'[c][i].type = "stream" => i >= 2
                    /\ slot'[c][i].type = "name" => i >= 3
                    /\ DirHead(slot'[c][i]) => Tame(c, i)'
    BY DEF SlotsInv, Tame, DirHead, LiveName, Sound
<1>6. /\ slot[c][i].type = "stream" => i >= 2
      /\ slot[c][i].type = "name" => i >= 3
      /\ DirHead(slot[c][i]) => Tame(c, i)
    BY DEF SlotsInv
<1>7. i \in Nat /\ PerCluster \in Nat BY Sizes DEF Index
<1>8. ASSUME NEW x \in Index, w.op = "slot", w.at = <<c, x>>
      PROVE  /\ w.val.type = "stream" =>
                    x >= 2 /\ (DirHead(slot[c][x - 1]) => Sound(w.val))
             /\ w.val.type = "name" =>
                    x >= 3 /\ (DirHead(slot[c][x - 2]) => Sound(slot[c][x - 1]))
             /\ DirHead(w.val) => Tame(c, x)
    <2>1. w.at[1] = c /\ w.at[2] = x BY <1>8
    <2>2. ~(1 > 1) /\ ~(1 > 2) OBVIOUS
    <2>3. Back(todo, 1, 1) = slot[c][x - 1] /\ Back(todo, 1, 2) = slot[c][x - 2]
        BY <2>1, <2>2, <1>2 DEF Back
    <2>4. w.val.type = "stream" => x >= 2 /\ (DirHead(slot[c][x - 1]) => Sound(w.val))
        BY <1>2, <1>5, <1>8, <2>1, <2>3 DEF StreamFits, Puts
    <2>5. w.val.type = "name" => x >= 3 /\ (DirHead(slot[c][x - 2]) => Sound(slot[c][x - 1]))
        BY <1>2, <1>5, <1>8, <2>1, <2>3 DEF NameFits, Puts
    <2>6. Zeroed(todo, 1) = {}
        <3>1. 1 .. 1 - 1 = {} OBVIOUS
        <3>2. QED BY <3>1 DEF Zeroed
    <2>7. DirHead(w.val) => Tame(c, x)
        <3> HAVE DirHead(w.val)
        <3>1. w.val.type = "file" BY DEF DirHead
        <3>2. w.at[1] \in {} \cup Zeroed(todo, 1) \/ Tame(w.at[1], w.at[2])
            BY <1>2, <1>5, <1>8, <3>1 DEF FileFits, Puts
        <3>3. QED BY <3>2, <2>1, <2>6
    <2>8. QED BY <2>4, <2>5, <2>7
<1>9. (slot'[c][i].type = "stream" => i >= 2) /\ (slot'[c][i].type = "name" => i >= 3)
    <2>1. CASE w.op = "slot" /\ w.at = <<c, i>>
        <3>1. slot'[c][i] = w.val BY <1>3, <1>4, <2>1, SlotAfter
        <3>2. QED BY <3>1, <2>1, <1>8
    <2>2. CASE ~(w.op = "slot" /\ w.at = <<c, i>>)
        <3>1. slot'[c][i].type \in {slot[c][i].type, "end"} BY <1>3, <1>4, <2>2, SlotAfter
        <3>2. QED BY <3>1, <1>6
    <2>3. QED BY <2>1, <2>2
<1>10. ASSUME DirHead(slot'[c][i]), NEW x \in Index, NEW y \in Index, x = i + 1, y = i + 2,
              LiveName(slot'[c][y])
       PROVE  Sound(slot'[c][x])
    <2>1. i + 2 <= PerCluster BY <1>7, <1>10 DEF Index
    <2>2. i # x /\ i # y /\ x # y /\ y - 1 = x /\ y - 2 = i /\ x - 1 = i BY <1>7, <1>10
    <2>3. Tame(c, i) => ~LiveName(slot[c][y]) \/ Sound(slot[c][x]) BY <1>10, <2>1 DEF Tame
    <2>4. CASE w.op = "slot" /\ w.at = <<c, i>>
        <3>1. slot'[c][i] = w.val /\ slot'[c][x] = slot[c][x] /\ slot'[c][y] = slot[c][y]
            BY <1>3, <2>2, <2>4, SlotPut
        <3>2. Tame(c, i) BY <3>1, <1>8, <1>10, <2>4
        <3>3. QED BY <3>1, <3>2, <2>3, <1>10
    <2>5. CASE w.op = "slot" /\ w.at = <<c, x>>
        <3>1. slot'[c][i] = slot[c][i] /\ slot'[c][x] = w.val
            BY <1>3, <2>2, <2>5, SlotPut
        <3>2. w.val.type = "stream" => (DirHead(slot[c][x - 1]) => Sound(w.val))
            BY <1>8, <2>5
        <3>3. w.val.type = "stream" => Sound(w.val) BY <3>1, <3>2, <2>2, <1>10
        <3>4. QED BY <3>1, <3>3 DEF Sound
    <2>6. CASE w.op = "slot" /\ w.at = <<c, y>>
        <3>1. slot'[c][i] = slot[c][i] /\ slot'[c][x] = slot[c][x] /\ slot'[c][y] = w.val
            BY <1>3, <2>2, <2>6, SlotPut
        <3>2. w.val.type = "name" BY <3>1, <1>10 DEF LiveName
        <3>3. DirHead(slot[c][y - 2]) => Sound(slot[c][y - 1]) BY <1>8, <2>6, <3>2
        <3>4. QED BY <3>1, <3>3, <2>2, <1>10
    <2>7. CASE \A z \in {i, x, y} : ~(w.op = "slot" /\ w.at = <<c, z>>)
        <3>1. \A z \in {i, x, y} : /\ slot'[c][z].live => slot'[c][z] = slot[c][z]
                                   /\ Sound(slot[c][z]) => Sound(slot'[c][z])
            BY <1>3, <1>4, <2>7, SlotAfter
        <3>2. DirHead(slot[c][i]) /\ LiveName(slot[c][y])
            BY <3>1, <1>10 DEF DirHead, LiveName
        <3>3. Sound(slot[c][x]) BY <3>2, <1>6, <2>3
        <3>4. QED BY <3>1, <3>3
    <2>8. QED BY <2>4, <2>5, <2>6, <2>7
<1>11. DirHead(slot'[c][i]) => Tame(c, i)'
    <2> HAVE DirHead(slot'[c][i])
    <2> SUFFICES ASSUME i + 2 <= PerCluster, LiveName(slot'[c][i + 2])
                 PROVE  Sound(slot'[c][i + 1])
        BY DEF Tame, LiveName, Sound
    <2>1. i + 1 \in Index /\ i + 2 \in Index BY <1>7 DEF Index
    <2>2. QED BY <2>1, <1>10
<1>12. QED BY <1>9, <1>11

(* Every slot still holds a slot after a write. *)
LEMMA StepTyped ==
    ASSUME slot \in [Clusters -> [Index -> Slots]], NEW w \in Writes, Step(w),
           w.op = "clear" => slot[w.at[1]][w.at[2]].type # "system"
    PROVE  slot' \in [Clusters -> [Index -> Slots]]
<1>1. SlotTyped BY DEF SlotTyped
<1>2. \A c \in Clusters : \A i \in Index : slot'[c][i] \in Slots BY <1>1, SlotAfter
<1>3. CASE w.op \in {"slot", "clear"}
    <2>1. PICK x \in Clusters, y \in Index : w.at = <<x, y>> BY <1>3, WriteCases DEF Addresses
    <2>2. w.at[1] = x /\ w.at[2] = y BY <2>1
    <2>3. \E s : slot' = [slot EXCEPT ![x][y] = s]
        <3>1. CASE w.op = "slot" BY <3>1, <2>2 DEF Step
        <3>2. CASE w.op = "clear"
            <4>1. slot' = [slot EXCEPT ![x][y].live = FALSE] BY <3>2, <2>2 DEF Step
            <4>2. slot' = [slot EXCEPT ![x][y] = [slot[x][y] EXCEPT !.live = FALSE]] BY <4>1
            <4>3. QED BY <4>2
        <3>3. QED BY <3>1, <3>2, <1>3
    <2>4. PICK s : slot' = [slot EXCEPT ![x][y] = s] BY <2>3
    <2>5. slot'[x][y] = s BY <2>4
    <2>6. s \in Slots BY <2>5, <1>2
    <2>7. QED BY <2>4, <2>6
<1>4. CASE w.op = "zero"
    <2>1. w.cluster \in Clusters BY <1>4, WriteCases
    <2>2. slot' = [slot EXCEPT ![w.cluster] = [i \in Index |-> EndSlot]] BY <1>4 DEF Step
    <2>3. EndSlot \in Slots BY DEF Slots
    <2>4. [i \in Index |-> EndSlot] \in [Index -> Slots] BY <2>3
    <2>5. QED BY <2>1, <2>2, <2>4
<1>5. CASE w.op \notin {"slot", "clear", "zero"} BY <1>5 DEF Step
<1>6. QED BY <1>3, <1>4, <1>5

(* A device write of the call in progress. *)
LEMMA WriteKeeps ==
    ASSUME DirInv, todo # << >>, Step(Head(todo)), Proceed,
           fat' \in [Clusters -> Clusters \cup {0, END_OF_CHAIN}],
           bitmap' \in [Clusters -> BOOLEAN]
    PROVE  DirInv'
<1>1. TypeOK /\ SlotsInv /\ todo \in Seq(Writes) /\ Good({}, todo) /\ Erasable(todo)
    BY DEF DirInv
<1>2. slot \in [Clusters -> [Index -> Slots]] /\ SlotTyped /\ cuts \in Nat
    BY <1>1, TypeParts DEF DiskTyped, SlotTyped
<1>3. Head(todo) = todo[1] /\ todo[1] \in Writes /\ Tail(todo) \in Seq(Writes) /\ 1 \in DOMAIN todo
    BY <1>1, TailFacts
<1>4. Step(todo[1]) BY <1>3
<1>5. /\ todo' = Tail(todo) /\ (call \in CallRecords)' /\ mishap' \in BOOLEAN /\ cuts' = cuts
    BY <1>1, ProceedFacts
<1>6. todo[1].op = "clear" => slot[todo[1].at[1]][todo[1].at[2]].type # "system"
    BY <1>1, <1>3 DEF Erasable
<1>7. slot' \in [Clusters -> [Index -> Slots]] BY <1>2, <1>3, <1>4, <1>6, StepTyped
<1>8. DiskTyped' BY <1>7 DEF DiskTyped, Clusters, Index
<1>9. SlotsInv' BY <1>1, <1>2, <1>4, SlotsStay
<1>10. Good({}, todo)' BY <1>1, <1>2, <1>4, <1>5, RestGood
<1>11. Erasable(todo)' BY <1>1, <1>2, <1>4, <1>5, RestErasable
<1>12. todo' \in Seq(Writes) BY <1>3, <1>5
<1>13. (todo \in Seq(Writes))' BY <1>12 DEF Writes, Addresses, Clusters, Index,
          Entries, FileSlots, StreamSlots, NameSlots, Names, Flush
<1>14. TodoTyped' BY <1>12, WriteCases DEF TodoTyped
<1>15. TypeOK'
    <2>1. cuts' \in Nat BY <1>2, <1>5
    <2>2. QED BY <1>5, <1>8, <1>14, <2>1 DEF TypeOK, DiskTyped, TodoTyped, CallRecords
<1>16. QED BY <1>9, <1>10, <1>11, <1>13, <1>15 DEF DirInv

(* The end of a call whose last write is lost, or that has none left. *)
LEMMA CutKeeps == ASSUME DirInv, PowerCut PROVE DirInv'
<1>1. /\ todo' = << >> /\ call' = NoCall /\ mishap' = TRUE /\ cuts' = cuts + 1
      /\ slot' = slot /\ fat' = fat /\ bitmap' = bitmap
    BY DEF PowerCut, Return, disk
<1>2. DiskTyped /\ SlotsInv /\ cuts \in Nat BY TypeParts DEF DirInv
<1>3. DiskTyped' BY <1>1, <1>2 DEF DiskTyped
<1>4. SlotsInv' BY <1>1, <1>2 DEF SlotsInv, Tame, DirHead, LiveName, Sound
<1>5. DOMAIN << >> = {} /\ Len(<< >>) = 0 /\ << >> \in Seq(Writes) OBVIOUS
<1>6. Good({}, << >>) /\ Erasable(<< >>) BY <1>5 DEF Good, Erasable
<1>7. Good({}, todo)' /\ Erasable(todo)' BY <1>1, <1>6, SameDisk
<1>8. NoCall \in CallRecords BY Sizes DEF NoCall, CallRecords, MaxSet
<1>9. (call \in CallRecords)' BY <1>1, <1>8 DEF CallRecords, Paths, Names, Kinds, MaxSet
<1>10. (todo \in Seq(Writes))' BY <1>1, <1>5 DEF Writes, Addresses, Clusters, Index,
          Entries, FileSlots, StreamSlots, NameSlots, Names, Flush
<1>11. TodoTyped' BY <1>1, <1>5 DEF TodoTyped
<1>12. TypeOK'
    <2>1. cuts' \in Nat /\ mishap' \in BOOLEAN BY <1>1, <1>2
    <2>2. QED BY <1>3, <1>9, <1>11, <2>1 DEF TypeOK, DiskTyped, TodoTyped, CallRecords
<1>13. QED BY <1>4, <1>7, <1>10, <1>12 DEF DirInv

LEMMA StutterKeeps == ASSUME DirInv, UNCHANGED vars PROVE DirInv'
<1>1. /\ todo' = todo /\ call' = call /\ mishap' = mishap /\ cuts' = cuts
      /\ slot' = slot /\ fat' = fat /\ bitmap' = bitmap
    BY DEF vars, disk
<1>2. TypeOK' BY <1>1 DEF DirInv, TypeOK
<1>3. SlotsInv' BY <1>1 DEF DirInv, SlotsInv, Tame, DirHead, LiveName, Sound
<1>4. Good({}, todo)' /\ Erasable(todo)' BY <1>1, SameDisk DEF DirInv
<1>5. (todo \in Seq(Writes))' BY <1>1 DEF DirInv, Writes, Addresses, Clusters, Index,
          Entries, FileSlots, StreamSlots, NameSlots, Names, Flush
<1>6. QED BY <1>2, <1>3, <1>4, <1>5 DEF DirInv

(* A formatted volume, whatever its free clusters hold. *)
LEMMA InitKeeps == Init => DirInv
<1> SUFFICES ASSUME Init PROVE DirInv
    OBVIOUS
<1>1. PICK s \in {EndSlot, StaleSlot} :
        slot = [c \in Clusters |-> [i \in Index |->
                   IF c # RootCluster THEN s
                   ELSE IF i <= SystemSlots THEN SystemSlot ELSE EndSlot]]
    BY DEF Init
<1>2. /\ fat = [c \in Clusters |-> IF c = RootCluster THEN END_OF_CHAIN ELSE 0]
      /\ bitmap = [c \in Clusters |-> c = RootCluster]
      /\ todo = << >> /\ call = NoCall /\ mishap = FALSE /\ cuts = 0
    BY DEF Init
<1>3. {EndSlot, StaleSlot, SystemSlot} \subseteq Slots
    <2>1. StaleSlot \in FileSlots
        <3>1. << >> \in Seq(NameSlots \cup StreamSlots) OBVIOUS
        <3>2. 2 \in 2 .. 3 OBVIOUS
        <3>3. QED BY <3>1, <3>2 DEF StaleSlot, FileSlots
    <2>2. QED BY <2>1 DEF Slots
<1>4. \A c \in Clusters : \A i \in Index : slot[c][i] \in {EndSlot, StaleSlot, SystemSlot}
    BY <1>1
<1>5. slot \in [Clusters -> [Index -> Slots]]
    <2> DEFINE t(c, i) == IF c # RootCluster THEN s
                          ELSE IF i <= SystemSlots THEN SystemSlot ELSE EndSlot
    <2>1. \A c \in Clusters : \A i \in Index : t(c, i) \in Slots BY <1>3
    <2>2. slot = [c \in Clusters |-> [i \in Index |-> t(c, i)]] BY <1>1
    <2> HIDE DEF t
    <2>3. QED BY <2>1, <2>2
<1>6. DiskTyped BY <1>2, <1>5 DEF DiskTyped
<1>7. DOMAIN << >> = {} /\ Len(<< >>) = 0 /\ << >> \in Seq(Writes) OBVIOUS
<1>8. TodoTyped /\ todo \in Seq(Writes) /\ Good({}, todo) /\ Erasable(todo)
    BY <1>2, <1>7 DEF TodoTyped, Good, Erasable
<1>9. NoCall \in CallRecords BY Sizes DEF NoCall, CallRecords, MaxSet
<1>10. TypeOK BY <1>2, <1>6, <1>8, <1>9, TypeParts
<1>11. SlotsInv
    <2>1. \A x \in {EndSlot, StaleSlot, SystemSlot} :
              x.type # "stream" /\ x.type # "name" /\ ~DirHead(x)
        BY DEF EndSlot, StaleSlot, SystemSlot, DirHead
    <2>2. QED BY <1>4, <2>1 DEF SlotsInv
<1>12. QED BY <1>8, <1>10, <1>11 DEF DirInv

LEMMA NextKeeps == DirInv /\ [Next]_vars => DirInv'
<1> SUFFICES ASSUME DirInv, [Next]_vars PROVE DirInv'
    OBVIOUS
<1>1. /\ fat \in [Clusters -> Clusters \cup {0, END_OF_CHAIN}]
      /\ bitmap \in [Clusters -> BOOLEAN]
    BY TypeParts DEF DirInv, DiskTyped
<1>2. todo # << >> => Head(todo) \in Writes BY TailFacts DEF DirInv
<1>3. CASE DoSlot
    <2>1. /\ todo # << >> /\ Proceed /\ fat' = fat /\ bitmap' = bitmap
          /\ Step(Head(todo))
        BY <1>3 DEF DoSlot, Doing, Step
    <2>2. QED BY <1>1, <2>1, WriteKeeps
<1>4. CASE DoClear
    <2>1. /\ todo # << >> /\ Proceed /\ fat' = fat /\ bitmap' = bitmap
          /\ Step(Head(todo))
        BY <1>4 DEF DoClear, Doing, Step
    <2>2. QED BY <1>1, <2>1, WriteKeeps
<1>5. CASE DoZero
    <2>1. /\ todo # << >> /\ Proceed /\ fat' = fat /\ bitmap' = bitmap
          /\ Step(Head(todo))
        BY <1>5 DEF DoZero, Doing, Step
    <2>2. QED BY <1>1, <2>1, WriteKeeps
<1>6. CASE DoFat
    <2>1. /\ todo # << >> /\ Proceed /\ bitmap' = bitmap
          /\ fat' = [fat EXCEPT ![Head(todo).cluster] = Head(todo).val]
          /\ Step(Head(todo)) /\ Head(todo).op = "fat"
        BY <1>6 DEF DoFat, Doing, Step
    <2>2. Head(todo).cluster \in Clusters /\ Head(todo).val \in Clusters \cup {0, END_OF_CHAIN}
        BY <1>2, <2>1, WriteCases
    <2>3. fat' \in [Clusters -> Clusters \cup {0, END_OF_CHAIN}] BY <1>1, <2>1, <2>2
    <2>4. QED BY <1>1, <2>1, <2>3, WriteKeeps
<1>7. CASE DoBit
    <2>1. /\ todo # << >> /\ Proceed /\ fat' = fat
          /\ bitmap' = [bitmap EXCEPT ![Head(todo).cluster] = Head(todo).val]
          /\ Step(Head(todo)) /\ Head(todo).op = "bit"
        BY <1>7 DEF DoBit, Doing, Step
    <2>2. Head(todo).cluster \in Clusters /\ Head(todo).val \in BOOLEAN
        BY <1>2, <2>1, WriteCases
    <2>3. bitmap' \in [Clusters -> BOOLEAN] BY <1>1, <2>1, <2>2
    <2>4. QED BY <1>1, <2>1, <2>3, WriteKeeps
<1>8. CASE DoFlush
    <2>1. /\ todo # << >> /\ Proceed /\ fat' = fat /\ bitmap' = bitmap
          /\ Step(Head(todo))
        BY <1>8 DEF DoFlush, Doing, Step, disk
    <2>2. QED BY <1>1, <2>1, WriteKeeps
<1>9. QED BY <1>3, <1>4, <1>5, <1>6, <1>7, <1>8, CallKeeps, CutKeeps, StutterKeeps DEF Next

(* Types, for every set of names, every size of the heap and of a cluster,
   every choice of calls and any number of power cuts. *)
THEOREM DirectoryTypes == Spec => []TypeOK
<1>1. DirInv => TypeOK BY DEF DirInv
<1>2. QED BY <1>1, InitKeeps, NextKeeps, PTL DEF Spec

-----------------------------------------------------------------------------
(* Scripts that keep to a set of disks *)

LEMMA LeadsNowhere ==
    ASSUME NEW S, NEW d \in S
    PROVE  Leads(S, d, << >>, d)
<1> DEFINE D == [k \in 1 .. 1 |-> d]
<1>1. Len(<< >>) + 1 = 1 /\ 1 .. Len(<< >>) = {} OBVIOUS
<1>2. D \in [1 .. 1 -> S] /\ D[1] = d OBVIOUS
<1> HIDE DEF D
<1>3. D \in [1 .. Len(<< >>) + 1 -> S] /\ D[Len(<< >>) + 1] = d BY <1>1, <1>2
<1>4. QED BY <1>1, <1>2, <1>3 DEF Leads

(* A script every write of which leads from one set of disks to the next. *)
LEMMA LeadsThrough ==
    ASSUME NEW s, Len(s) \in Nat, NEW J, NEW S, NEW d \in J[1],
           \A k \in 1 .. Len(s) : \A x \in J[k] : Do(x, s[k]) \in J[k + 1],
           \A k \in 1 .. Len(s) + 1 : J[k] \subseteq S
    PROVE  \E e \in J[Len(s) + 1] : Leads(S, d, s, e)
<1> DEFINE n == Len(s) + 1
           T == {m \in Nat \ {0} : m <= n =>
                    \E D \in [1 .. m -> S] :
                        /\ D[1] = d /\ D[m] \in J[m]
                        /\ \A k \in 1 .. m - 1 : D[k + 1] = Do(D[k], s[k])}
<1>1. 1 \in T
    <2>1. d \in S
        <3>1. 1 \in 1 .. Len(s) + 1 OBVIOUS
        <3>2. QED BY <3>1
    <2> DEFINE D == [k \in 1 .. 1 |-> d]
    <2>2. D \in [1 .. 1 -> S] /\ D[1] = d BY <2>1
    <2>3. 1 .. 1 - 1 = {} /\ 1 \in Nat \ {0} OBVIOUS
    <2> HIDE DEF D
    <2>4. QED BY <2>2, <2>3
<1>2. ASSUME NEW m \in Nat \ {0}, m \in T PROVE m + 1 \in T
    <2> SUFFICES ASSUME m + 1 <= n
                 PROVE  \E D \in [1 .. m + 1 -> S] :
                            /\ D[1] = d /\ D[m + 1] \in J[m + 1]
                            /\ \A k \in 1 .. (m + 1) - 1 : D[k + 1] = Do(D[k], s[k])
        OBVIOUS
    <2>1. m <= n /\ m \in 1 .. Len(s) /\ m + 1 \in 1 .. Len(s) + 1 OBVIOUS
    <2>2. PICK D \in [1 .. m -> S] :
              /\ D[1] = d /\ D[m] \in J[m]
              /\ \A k \in 1 .. m - 1 : D[k + 1] = Do(D[k], s[k])
        BY <1>2, <2>1
    <2> DEFINE x == Do(D[m], s[m])
               E == [k \in 1 .. m + 1 |-> IF k <= m THEN D[k] ELSE x]
    <2>3. x \in J[m + 1] /\ x \in S BY <2>1, <2>2
    <2> HIDE DEF x
    <2>4. E \in [1 .. m + 1 -> S] BY <2>2, <2>3
    <2>5. E[1] = d /\ E[m + 1] = x BY <2>2
    <2>6. \A k \in 1 .. (m + 1) - 1 : E[k + 1] = Do(E[k], s[k])
        <3> TAKE k \in 1 .. (m + 1) - 1
        <3>1. CASE k < m
            <4>1. k \in 1 .. m - 1 /\ E[k + 1] = D[k + 1] /\ E[k] = D[k] BY <3>1
            <4>2. QED BY <4>1, <2>2
        <3>2. CASE k = m
            <4>1. E[k + 1] = x /\ E[k] = D[m] BY <3>2
            <4>2. QED BY <4>1, <3>2 DEF x
        <3>3. QED BY <3>1, <3>2
    <2> HIDE DEF E
    <2>7. QED BY <2>3, <2>4, <2>5, <2>6
<1>3. Nat \ {0} \subseteq T
    <2> HIDE DEF T
    <2>1. QED BY <1>1, <1>2, CountingUp
<1>4. n \in T BY <1>3
<1>5. PICK D \in [1 .. n -> S] :
          /\ D[1] = d /\ D[n] \in J[n]
          /\ \A k \in 1 .. n - 1 : D[k + 1] = Do(D[k], s[k])
    BY <1>4
<1>6. n - 1 = Len(s) OBVIOUS
<1>7. Leads(S, d, s, D[n]) BY <1>5, <1>6 DEF Leads
<1>8. QED BY <1>5, <1>7

LEMMA LeadsOn ==
    ASSUME NEW S, NEW s \in Seq(Writes), NEW t \in Seq(Writes), NEW d, NEW e, NEW f,
           Leads(S, d, s, e), Leads(S, e, t, f)
    PROVE  Leads(S, d, s \o t, f)
<1> DEFINE u == s \o t
           n == Len(s)
           m == Len(t)
<1>1. /\ n \in Nat /\ m \in Nat /\ Len(u) = n + m
      /\ \A i \in 1 .. n : u[i] = s[i]
      /\ \A i \in 1 .. m : u[n + i] = t[i]
    OBVIOUS
<1>2. PICK D \in [1 .. n + 1 -> S] :
          D[1] = d /\ D[n + 1] = e /\ \A k \in 1 .. n : D[k + 1] = Do(D[k], s[k])
    BY DEF Leads
<1>3. PICK E \in [1 .. m + 1 -> S] :
          E[1] = e /\ E[m + 1] = f /\ \A k \in 1 .. m : E[k + 1] = Do(E[k], t[k])
    BY DEF Leads
<1> HIDE DEF u, n, m
<1> DEFINE F == [k \in 1 .. (n + m) + 1 |-> IF k <= n THEN D[k] ELSE E[k - n]]
<1>4. F \in [1 .. (n + m) + 1 -> S]
    <2>1. ASSUME NEW k \in 1 .. (n + m) + 1 PROVE (IF k <= n THEN D[k] ELSE E[k - n]) \in S
        <3>1. CASE k <= n
            <4>1. k \in 1 .. n + 1 BY <3>1, <1>1
            <4>2. QED BY <3>1, <4>1, <1>2
        <3>2. CASE ~(k <= n)
            <4>1. k - n \in 1 .. m + 1 BY <3>2, <1>1
            <4>2. QED BY <3>2, <4>1, <1>3
        <3>3. QED BY <3>1, <3>2
    <2>2. QED BY <2>1
<1>5. \A k \in 1 .. n + 1 : F[k] = D[k]
    <2> TAKE k \in 1 .. n + 1
    <2>1. k \in 1 .. (n + m) + 1 BY <1>1
    <2>2. CASE k <= n BY <2>1, <2>2
    <2>3. CASE k = n + 1
        <3>1. ~(k <= n) /\ k - n = 1 BY <2>3, <1>1
        <3>2. QED BY <3>1, <2>1, <2>3, <1>2, <1>3
    <2>4. QED BY <2>2, <2>3, <1>1
<1>6. \A k \in 1 .. m + 1 : F[n + k] = E[k]
    <2> TAKE k \in 1 .. m + 1
    <2>1. n + k \in 1 .. (n + m) + 1 /\ ~(n + k <= n) /\ (n + k) - n = k BY <1>1
    <2>2. QED BY <2>1
<1> HIDE DEF F
<1>7. F[1] = d /\ F[(n + m) + 1] = f
    <2>1. 1 \in 1 .. n + 1 /\ m + 1 \in 1 .. m + 1 /\ n + (m + 1) = (n + m) + 1 BY <1>1
    <2>2. F[n + (m + 1)] = f BY <2>1, <1>3, <1>6
    <2>3. QED BY <2>1, <2>2, <1>2, <1>5
<1>8. ASSUME NEW k \in 1 .. n + m PROVE F[k + 1] = Do(F[k], u[k])
    <2>1. CASE k <= n
        <3>1. k \in 1 .. n /\ k + 1 \in 1 .. n + 1 /\ k \in 1 .. n + 1 BY <2>1, <1>1
        <3>2. QED BY <3>1, <1>1, <1>2, <1>5
    <2>2. CASE ~(k <= n)
        <3>1. PICK i \in 1 .. m : k = n + i
            <4>1. k - n \in 1 .. m /\ k = n + (k - n) BY <2>2, <1>1
            <4>2. QED BY <4>1
        <3>2. k + 1 = n + (i + 1) /\ i + 1 \in 1 .. m + 1 /\ i \in 1 .. m + 1 BY <3>1, <1>1
        <3>3. F[k + 1] = E[i + 1] /\ F[k] = E[i] /\ u[k] = t[i]
            BY <3>1, <3>2, <1>1, <1>6
        <3>4. QED BY <3>1, <3>3, <1>3
    <2>3. QED BY <2>1, <2>2
<1>9. QED BY <1>1, <1>4, <1>7, <1>8 DEF Leads, u

LEMMA LeadsWider ==
    ASSUME NEW S, NEW T, S \subseteq T, NEW s, NEW d, NEW e, Leads(S, d, s, e)
    PROVE  Leads(T, d, s, e)
BY DEF Leads

LEMMA LeadsFrom ==
    ASSUME NEW S, NEW s, Len(s) \in Nat, NEW d, NEW e, Leads(S, d, s, e)
    PROVE  d \in S /\ e \in S
<1>1. 1 \in 1 .. Len(s) + 1 /\ Len(s) + 1 \in 1 .. Len(s) + 1 OBVIOUS
<1>2. QED BY <1>1 DEF Leads

(* After the first write. *)
LEMMA LeadsRest ==
    ASSUME NEW S, NEW s \in Seq(Writes), s # << >>, NEW d, NEW e, Leads(S, d, s, e)
    PROVE  Leads(S, Do(d, s[1]), Tail(s), e)
<1> DEFINE n == Len(s)
<1>1. PICK D \in [1 .. n + 1 -> S] :
          D[1] = d /\ D[n + 1] = e /\ \A k \in 1 .. n : D[k + 1] = Do(D[k], s[k])
    BY DEF Leads
<1>2. /\ n \in Nat /\ n >= 1 /\ Len(Tail(s)) = n - 1
      /\ \A k \in 1 .. n - 1 : Tail(s)[k] = s[k + 1]
    BY EmptySeq, HeadTailProperties
<1> HIDE DEF n
<1> DEFINE E == [k \in 1 .. (n - 1) + 1 |-> D[k + 1]]
<1>3. E \in [1 .. (n - 1) + 1 -> S]
    <2>1. \A k \in 1 .. (n - 1) + 1 : k + 1 \in 1 .. n + 1 BY <1>2
    <2>2. QED BY <2>1, <1>1
<1>4. \A k \in 1 .. n : E[k] = D[k + 1] BY <1>2
<1> HIDE DEF E
<1>5. E[1] = Do(d, s[1])
    <2>1. 1 \in 1 .. n BY <1>2
    <2>2. QED BY <2>1, <1>1, <1>4
<1>6. E[(n - 1) + 1] = e
    <2>1. (n - 1) + 1 = n /\ n \in 1 .. n BY <1>2
    <2>2. QED BY <2>1, <1>1, <1>4
<1>7. ASSUME NEW k \in 1 .. n - 1 PROVE E[k + 1] = Do(E[k], Tail(s)[k])
    <2>1. k \in 1 .. n /\ k + 1 \in 1 .. n BY <1>2
    <2>2. D[(k + 1) + 1] = Do(D[k + 1], s[k + 1]) BY <2>1, <1>1
    <2>3. E[k + 1] = D[(k + 1) + 1] /\ E[k] = D[k + 1] BY <2>1, <1>4
    <2>4. QED BY <2>2, <2>3, <1>2
<1>8. QED BY <1>2, <1>3, <1>5, <1>6, <1>7 DEF Leads

-----------------------------------------------------------------------------
(* Disks, write by write *)

SlotArrays == [Clusters -> [Index -> AnySlots]]

LEMMA DiskFields ==
    ASSUME NEW d \in Disks
    PROVE  /\ d.slot \in SlotArrays /\ d.fat \in [Clusters -> Clusters \cup {0, END_OF_CHAIN}]
           /\ d.bitmap \in [Clusters -> BOOLEAN]
BY DEF Disks, SlotArrays

LEMMA AnyCleared ==
    ASSUME NEW s \in AnySlots
    PROVE  LET z == [s EXCEPT !.live = FALSE]
           IN  /\ z \in AnySlots /\ z.type = s.type /\ ~z.live
               /\ s.type = "stream" => z.first = s.first
<1> DEFINE Dead == [type |-> "system", live |-> FALSE]
           z == [s EXCEPT !.live = FALSE]
<1>1. CASE s \in FileSlots
    <2>1. z \in FileSlots /\ z.type = "file" /\ s.type = "file" /\ ~z.live BY <1>1 DEF FileSlots
    <2> HIDE DEF z
    <2>2. QED BY <2>1 DEF AnySlots, Slots, z
<1>2. CASE s \in StreamSlots
    <2>1. /\ z \in StreamSlots /\ z.type = "stream" /\ s.type = "stream" /\ ~z.live
          /\ z.first = s.first
        BY <1>2 DEF StreamSlots
    <2> HIDE DEF z
    <2>2. QED BY <2>1 DEF AnySlots, Slots, z
<1>3. CASE s \in NameSlots
    <2>1. z \in NameSlots /\ z.type = "name" /\ s.type = "name" /\ ~z.live BY <1>3 DEF NameSlots
    <2> HIDE DEF z
    <2>2. QED BY <2>1 DEF AnySlots, Slots, z
<1>4. CASE s = EndSlot
    <2>1. s \in [type : {"end"}, live : {FALSE}] BY <1>4 DEF EndSlot
    <2>2. z = s BY <2>1
    <2> HIDE DEF z
    <2>3. QED BY <1>4, <2>2 DEF EndSlot, z
<1>5. CASE s \in {SystemSlot, Dead}
    <2>1. s \in [type : {"system"}, live : BOOLEAN]
        <3>1. SystemSlot \in [type : {"system"}, live : BOOLEAN] BY DEF SystemSlot
        <3>2. Dead \in [type : {"system"}, live : BOOLEAN] OBVIOUS
        <3>3. QED BY <1>5, <3>1, <3>2
    <2>2. z = Dead
        <3>1. z \in [type : {"system"}, live : BOOLEAN] /\ z.type = "system" /\ z.live = FALSE
            BY <2>1
        <3> HIDE DEF z
        <3>2. z = [type |-> z.type, live |-> z.live] BY <3>1
        <3>3. QED BY <3>1, <3>2
    <2>3. Dead.type = "system" /\ ~Dead.live /\ s.type = "system" BY <2>1
    <2> HIDE DEF z
    <2>4. QED BY <2>2, <2>3 DEF AnySlots, z
<1>6. QED BY <1>1, <1>2, <1>3, <1>4, <1>5 DEF AnySlots, Slots

(* Each slot after a write. *)
LEMMA SlotPutBy ==
    ASSUME NEW u \in SlotArrays, NEW w \in Writes, w.op = "slot",
           NEW x \in Clusters, NEW y \in Index, w.at = <<x, y>>,
           NEW c \in Clusters, NEW i \in Index
    PROVE  SlotsBy(u, w)[c][i] = IF c = x /\ i = y THEN w.val ELSE u[c][i]
<1>1. w.at[1] = x /\ w.at[2] = y OBVIOUS
<1>2. SlotsBy(u, w) = [u EXCEPT ![x][y] = w.val] BY <1>1 DEF SlotsBy
<1>3. QED BY <1>2 DEF SlotArrays

LEMMA SlotClearedBy ==
    ASSUME NEW u \in SlotArrays, NEW w \in Writes, w.op = "clear",
           NEW x \in Clusters, NEW y \in Index, w.at = <<x, y>>,
           NEW c \in Clusters, NEW i \in Index
    PROVE  SlotsBy(u, w)[c][i] =
               IF c = x /\ i = y THEN [u[c][i] EXCEPT !.live = FALSE] ELSE u[c][i]
<1>1. w.at[1] = x /\ w.at[2] = y OBVIOUS
<1> DEFINE z == [u[x][y] EXCEPT !.live = FALSE]
<1>2. SlotsBy(u, w) = [u EXCEPT ![x][y].live = FALSE] BY <1>1 DEF SlotsBy
<1>3. SlotsBy(u, w) = [u EXCEPT ![x][y] = z] BY <1>2
<1>4. CASE c = x /\ i = y
    <2>1. SlotsBy(u, w)[c][i] = z
        <3> HIDE DEF z
        <3>1. QED BY <1>3, <1>4 DEF SlotArrays
    <2>2. QED BY <2>1, <1>4
<1>5. CASE ~(c = x /\ i = y)
    <2>1. SlotsBy(u, w)[c][i] = u[c][i]
        <3> HIDE DEF z
        <3>1. QED BY <1>3, <1>5 DEF SlotArrays
    <2>2. QED BY <2>1, <1>5
<1>6. QED BY <1>4, <1>5

LEMMA ClusterZeroedBy ==
    ASSUME NEW u \in SlotArrays, NEW w \in Writes, w.op = "zero",
           NEW c \in Clusters, NEW i \in Index
    PROVE  SlotsBy(u, w)[c][i] = IF c = w.cluster THEN EndSlot ELSE u[c][i]
<1>1. w.cluster \in Clusters BY WriteCases
<1>2. SlotsBy(u, w) = [u EXCEPT ![w.cluster] = [k \in Index |-> EndSlot]]
    BY DEF SlotsBy
<1>3. QED BY <1>1, <1>2 DEF SlotArrays

LEMMA SlotsByTyped ==
    ASSUME NEW u \in SlotArrays, NEW w \in Writes
    PROVE  SlotsBy(u, w) \in SlotArrays
<1>1. CASE w.op \in {"slot", "clear"}
    <2>1. PICK x \in Clusters, y \in Index : w.at = <<x, y>>
        BY <1>1, WriteCases DEF Addresses
    <2>2. w.at[1] = x /\ w.at[2] = y BY <2>1
    <2>3. u[x][y] \in AnySlots BY DEF SlotArrays
    <2>4. \E v \in AnySlots : SlotsBy(u, w) = [u EXCEPT ![x][y] = v]
        <3>1. CASE w.op = "slot"
            <4>1. SlotsBy(u, w) = [u EXCEPT ![x][y] = w.val] BY <2>2, <3>1 DEF SlotsBy
            <4>2. w.val \in AnySlots BY <3>1, WriteCases DEF AnySlots
            <4>3. QED BY <4>1, <4>2
        <3>2. CASE w.op = "clear"
            <4> DEFINE z == [u[x][y] EXCEPT !.live = FALSE]
            <4>1. SlotsBy(u, w) = [u EXCEPT ![x][y].live = FALSE] BY <2>2, <3>2 DEF SlotsBy
            <4>2. SlotsBy(u, w) = [u EXCEPT ![x][y] = z] BY <4>1
            <4>3. z \in AnySlots BY <2>3, AnyCleared
            <4>4. QED BY <4>2, <4>3
        <3>3. QED BY <3>1, <3>2, <1>1
    <2>5. PICK v \in AnySlots : SlotsBy(u, w) = [u EXCEPT ![x][y] = v] BY <2>4
    <2>6. QED BY <2>5 DEF SlotArrays
<1>2. CASE w.op = "zero"
    <2>1. w.cluster \in Clusters BY <1>2, WriteCases
    <2>2. SlotsBy(u, w) = [u EXCEPT ![w.cluster] = [k \in Index |-> EndSlot]]
        BY <1>2 DEF SlotsBy
    <2>3. [k \in Index |-> EndSlot] \in [Index -> AnySlots] BY DEF AnySlots, Slots
    <2>4. QED BY <2>1, <2>2, <2>3 DEF SlotArrays
<1>3. CASE w.op \notin {"slot", "clear", "zero"}
    BY <1>3 DEF SlotsBy
<1>4. QED BY <1>1, <1>2, <1>3

LEMMA DoFields ==
    ASSUME NEW d, NEW w
    PROVE  /\ Do(d, w).slot = SlotsBy(d.slot, w) /\ Do(d, w).fat = FatBy(d.fat, w)
           /\ Do(d, w).bitmap = BitsBy(d.bitmap, w)
           /\ w.op # "fat" => Do(d, w).fat = d.fat
           /\ w.op # "bit" => Do(d, w).bitmap = d.bitmap
           /\ w.op \notin {"slot", "clear", "zero"} => Do(d, w).slot = d.slot
BY DEF Do, FatBy, BitsBy, SlotsBy

LEMMA DoTyped ==
    ASSUME NEW d \in Disks, NEW w \in Writes
    PROVE  Do(d, w) \in Disks
<1>1. SlotsBy(d.slot, w) \in SlotArrays BY DiskFields, SlotsByTyped
<1>2. FatBy(d.fat, w) \in [Clusters -> Clusters \cup {0, END_OF_CHAIN}]
    <2>1. CASE w.op = "fat"
        <3>1. w.cluster \in Clusters /\ w.val \in Clusters \cup {0, END_OF_CHAIN}
            BY <2>1, WriteCases
        <3>2. QED BY <2>1, <3>1, DiskFields DEF FatBy
    <2>2. QED BY <2>1, DiskFields DEF FatBy
<1>3. BitsBy(d.bitmap, w) \in [Clusters -> BOOLEAN]
    <2>1. CASE w.op = "bit"
        <3>1. w.cluster \in Clusters /\ w.val \in BOOLEAN
            BY <2>1, WriteCases
        <3>2. QED BY <2>1, <3>1, DiskFields DEF BitsBy
    <2>2. QED BY <2>1, DiskFields DEF BitsBy
<1>4. QED BY <1>1, <1>2, <1>3 DEF Do, Disks, SlotArrays

(* The set at a is in v too, and says the same. *)
Same(u, v, a) ==
    /\ a \in Sets(v) /\ DirOf(u, a) = DirOf(v, a) /\ FirstOf(u, a) = FirstOf(v, a)
    /\ NameOf(u, a) = NameOf(v, a)
Within(u, v) == \A a \in Sets(u) : Same(u, v, a)

LEMMA WithinItself == ASSUME NEW u PROVE Within(u, u)
BY DEF Within, Same

LEMMA WithinChain ==
    ASSUME NEW u, NEW v, NEW w, Within(u, v), Within(v, w)
    PROVE  Within(u, w)
BY DEF Within, Same

LEMMA HeadsWithin ==
    ASSUME NEW u, NEW v, Within(u, v)
    PROVE  /\ \A a \in Heads(u) : a \in Heads(v) /\ FirstOf(u, a) = FirstOf(v, a)
           /\ Alive(u) \subseteq Alive(v)
<1>1. \A a \in Heads(u) : a \in Heads(v) /\ FirstOf(u, a) = FirstOf(v, a)
    BY DEF Heads, Within, Same
<1>2. QED BY <1>1 DEF Alive

LEMMA KeptWithin ==
    ASSUME NEW d, NEW x, Within(x.slot, d.slot), x.fat = d.fat, x.bitmap = d.bitmap,
           NEW own, NEW pos, Kept(d, own, pos)
    PROVE  Kept(x, own, pos)
<1>1. \A a \in Sets(x.slot) : DirOf(x.slot, a) <=> NameOf(x.slot, a) \in Dirs
    BY DEF Kept, Within, Same
<1>2. /\ \A a \in Heads(x.slot) : a \in Heads(d.slot) /\ FirstOf(x.slot, a) = FirstOf(d.slot, a)
      /\ Alive(x.slot) \subseteq Alive(d.slot)
    BY HeadsWithin
<1>3. QED BY <1>1, <1>2 DEF Kept

LEMMA ApartWithin ==
    ASSUME NEW d, NEW x, Within(x.slot, d.slot), Apart(d)
    PROVE  Apart(x)
BY HeadsWithin DEF Apart

LEMMA KemptWithin ==
    ASSUME NEW apart, NEW d \in Kempt(apart), NEW x \in Disks,
           Within(x.slot, d.slot), x.fat = d.fat, x.bitmap = d.bitmap
    PROVE  x \in Kempt(apart)
<1>1. PICK own \in Owners, pos \in Owners : Kept(d, own, pos) BY DEF Kempt
<1>2. Kept(x, own, pos) BY <1>1, KeptWithin
<1>3. apart => Apart(x) BY ApartWithin DEF Kempt
<1>4. QED BY <1>2, <1>3 DEF Kempt

(* A set is made of slots in use, but for a stream entry, of which only the
   type is read. *)
LEMMA FadedWithin ==
    ASSUME NEW u \in SlotArrays, NEW v \in SlotArrays,
           \A c \in Clusters : \A i \in Index :
               /\ u[c][i].live => u[c][i] = v[c][i]
               /\ u[c][i].type = "stream" => v[c][i].type = "stream" /\ u[c][i].first = v[c][i].first
    PROVE  Within(u, v)
<1> SUFFICES ASSUME NEW a \in Sets(u) PROVE Same(u, v, a)
    BY DEF Within
<1>1. PICK c \in Clusters, i \in Index : a = <<c, i>> BY DEF Sets, Addresses
<1>2. a[1] = c /\ a[2] = i /\ a \in Addresses BY <1>1 DEF Addresses
<1>3. i \in Index /\ i + 1 \in Index /\ i + 2 \in Index
    <2>1. i + 2 \in Index BY <1>2 DEF Sets, IsSet
    <2>2. QED BY <2>1, Sizes DEF Index
<1>4. IsFile(u[c][i]) /\ u[c][i + 1].type = "stream" /\ LiveName(u[c][i + 2])
    BY <1>2 DEF Sets, IsSet
<1>5. /\ u[c][i] = v[c][i] /\ u[c][i + 2] = v[c][i + 2]
      /\ v[c][i + 1].type = "stream" /\ u[c][i + 1].first = v[c][i + 1].first
    BY <1>3, <1>4 DEF IsFile, LiveName
<1>6. a \in Sets(v) BY <1>2, <1>3, <1>4, <1>5 DEF Sets, IsSet
<1>7. QED BY <1>2, <1>5, <1>6 DEF Same, DirOf, FirstOf, NameOf

LEMMA FadeWithin ==
    ASSUME NEW u \in SlotArrays, NEW w \in Writes, w.op # "slot"
    PROVE  Within(SlotsBy(u, w), u)
<1>1. SlotsBy(u, w) \in SlotArrays BY SlotsByTyped
<1>2. ASSUME NEW c \in Clusters, NEW i \in Index
      PROVE  LET n == SlotsBy(u, w)[c][i]
                 o == u[c][i]
             IN  /\ n.live => n = o
                 /\ n.type = "stream" => o.type = "stream" /\ n.first = o.first
    <2> DEFINE n == SlotsBy(u, w)[c][i]
               o == u[c][i]
               z == [o EXCEPT !.live = FALSE]
    <2>1. o \in AnySlots BY DEF SlotArrays
    <2>2. n = o \/ n = z \/ n = EndSlot
        <3>1. CASE w.op = "clear"
            <4>1. PICK x \in Clusters, y \in Index : w.at = <<x, y>>
                BY <3>1, WriteCases DEF Addresses
            <4>2. QED BY <3>1, <4>1, SlotClearedBy
        <3>2. CASE w.op = "zero" BY <3>2, ClusterZeroedBy
        <3>3. CASE w.op \notin {"slot", "clear", "zero"}
            <4>1. SlotsBy(u, w) = u BY <3>3 DEF SlotsBy
            <4>2. QED BY <4>1
        <3>4. QED BY <3>1, <3>2, <3>3
    <2>3. z.type = o.type /\ ~z.live /\ (o.type = "stream" => z.first = o.first)
        BY <2>1, AnyCleared
    <2>4. EndSlot.type = "end" /\ ~EndSlot.live BY DEF EndSlot
    <2> HIDE DEF n, o, z
    <2>5. (n.live => n = o) /\ (n.type = "stream" => o.type = "stream" /\ n.first = o.first)
        BY <2>2, <2>3, <2>4
    <2>6. QED BY <2>5 DEF n, o
<1>3. QED BY <1>1, <1>2, FadedWithin

(* A slot written over another one completes an entry set only if it is the
   name entry behind a file entry and a stream entry. *)
Overwrites(u, c, x, v) ==
    /\ v.type \in {"file", "stream", "name"}
    /\ v.type = "file" =>
          \/ x + 2 \in Index => ~LiveName(u[c][x + 2])
          \/ IsFile(u[c][x]) /\ u[c][x].dir = v.dir
    /\ v.type = "stream" =>
          \/ x + 1 \in Index => ~LiveName(u[c][x + 1])
          \/ u[c][x].type = "stream" /\ u[c][x].first = v.first

(* t is u with v written at index x of cluster c. *)
Put(t, u, c, x, v) ==
    /\ t[c][x] = v
    /\ \A b \in Clusters : \A i \in Index : ~(b = c /\ i = x) => t[b][i] = u[b][i]

(* The name entry v completes the set at a. *)
Completes(u, c, x, v, a) ==
    v.type = "name" /\ a = <<c, x - 2>> /\ IsFile(u[c][x - 2])

LEMMA PutSets ==
    ASSUME NEW u, NEW t, NEW c \in Clusters, NEW x \in Index, NEW v, Overwrites(u, c, x, v),
           Put(t, u, c, x, v), NEW a \in Sets(t)
    PROVE  Same(t, u, a) \/ Completes(u, c, x, v, a)
<1>0. /\ t[c][x] = v
      /\ \A b \in Clusters : \A i \in Index : ~(b = c /\ i = x) => t[b][i] = u[b][i]
    BY DEF Put
<1>1. PICK b \in Clusters, i \in Index : a = <<b, i>> BY DEF Sets, Addresses
<1>2. a[1] = b /\ a[2] = i /\ a \in Addresses BY <1>1 DEF Addresses
<1>3. i \in Index /\ i + 1 \in Index /\ i + 2 \in Index /\ i \in Nat /\ x \in Nat
    <2>1. i + 2 \in Index BY <1>2 DEF Sets, IsSet
    <2>2. QED BY <2>1, Sizes DEF Index
<1>4. IsFile(t[b][i]) /\ t[b][i + 1].type = "stream" /\ LiveName(t[b][i + 2])
    BY <1>2 DEF Sets, IsSet
<1>5. ASSUME IsFile(u[b][i]), u[b][i + 1].type = "stream", LiveName(u[b][i + 2]),
             t[b][i].dir = u[b][i].dir, t[b][i + 1].first = u[b][i + 1].first,
             t[b][i + 2].name = u[b][i + 2].name
      PROVE  Same(t, u, a)
    <2>1. a \in Sets(u) BY <1>2, <1>3, <1>5 DEF Sets, IsSet
    <2>2. QED BY <1>2, <1>5, <2>1 DEF Same, DirOf, FirstOf, NameOf
<1>6. CASE ~(b = c /\ x \in {i, i + 1, i + 2})
    <2>1. t[b][i] = u[b][i] /\ t[b][i + 1] = u[b][i + 1] /\ t[b][i + 2] = u[b][i + 2]
        BY <1>0, <1>3, <1>6
    <2>2. QED BY <2>1, <1>4, <1>5
<1>7. CASE b = c /\ x = i
    <2>1. t[b][i] = v /\ t[b][i + 1] = u[b][i + 1] /\ t[b][i + 2] = u[b][i + 2]
        BY <1>0, <1>3, <1>7
    <2>2. v.type = "file" BY <1>4, <2>1 DEF IsFile
    <2>3. LiveName(u[c][x + 2]) /\ x + 2 \in Index BY <1>3, <1>4, <1>7, <2>1
    <2>4. IsFile(u[c][x]) /\ u[c][x].dir = v.dir BY <2>2, <2>3 DEF Overwrites
    <2>5. QED BY <2>1, <2>4, <1>4, <1>5, <1>7
<1>8. CASE b = c /\ x = i + 1
    <2>1. t[b][i] = u[b][i] /\ t[b][i + 1] = v /\ t[b][i + 2] = u[b][i + 2]
        BY <1>0, <1>3, <1>8
    <2>2. v.type = "stream" BY <1>4, <2>1
    <2>3. LiveName(u[c][x + 1]) /\ x + 1 \in Index
        <3>1. x + 1 = i + 2 BY <1>3, <1>8
        <3>2. QED BY <3>1, <1>3, <1>4, <1>8, <2>1
    <2>4. u[c][x].type = "stream" /\ u[c][x].first = v.first BY <2>2, <2>3 DEF Overwrites
    <2>5. QED BY <2>1, <2>4, <1>4, <1>5, <1>8
<1>9. CASE b = c /\ x = i + 2
    <2>1. t[b][i] = u[b][i] /\ t[b][i + 1] = u[b][i + 1] /\ t[b][i + 2] = v
        BY <1>0, <1>3, <1>9
    <2>2. v.type = "name" BY <1>4, <2>1 DEF LiveName
    <2>3. x - 2 = i BY <1>3, <1>9
    <2>4. a = <<c, x - 2>> /\ IsFile(u[c][x - 2]) BY <2>1, <2>3, <1>1, <1>4, <1>9
    <2>5. QED BY <2>2, <2>4 DEF Completes
<1>10. QED BY <1>6, <1>7, <1>8, <1>9

(* No other one completes a set. *)
LEMMA PutWithin ==
    ASSUME NEW u, NEW t, NEW c \in Clusters, NEW x \in Index, NEW v, Overwrites(u, c, x, v),
           Put(t, u, c, x, v), v.type # "name"
    PROVE  Within(t, u)
<1> SUFFICES ASSUME NEW a \in Sets(t) PROVE Same(t, u, a)
    BY DEF Within
<1>1. Same(t, u, a) \/ Completes(u, c, x, v, a) BY PutSets
<1>2. QED BY <1>1 DEF Completes

(* A slot write as such an overwriting. *)
LEMMA PutBy ==
    ASSUME NEW u \in SlotArrays, NEW w \in Writes, w.op = "slot",
           NEW c \in Clusters, NEW x \in Index, w.at = <<c, x>>
    PROVE  Put(SlotsBy(u, w), u, c, x, w.val)
BY SlotPutBy DEF Put

-----------------------------------------------------------------------------
(* Chains of the directories on a kept disk *)

LEMMA AliveClusters ==
    ASSUME NEW d, NEW own, NEW pos, Kept(d, own, pos)
    PROVE  Alive(d.slot) \subseteq Clusters /\ RootCluster \in Alive(d.slot)
BY RootIsCluster DEF Kept, Alive

(* The clusters of a directory, as far as they have been read. *)
Path(own, pos, f, c) ==
    /\ c \in Chains /\ c[1] = f
    /\ \A i \in 1 .. Len(c) : own[c[i]] = f
    /\ \A i, j \in 1 .. Len(c) : i < j => pos[c[i]] < pos[c[j]]
Whole(c) == fat[c[Len(c)]] = END_OF_CHAIN

LEMMA PathExtended ==
    ASSUME NEW own \in Owners, NEW pos \in Owners, Kept(Disk, own, pos),
           NEW f \in Alive(slot), NEW c, Path(own, pos, f, c)
    PROVE  /\ Path(own, pos, f, Extended[c])
           /\ IF Whole(c) THEN Extended[c] = c ELSE Len(Extended[c]) = Len(c) + 1
<1> DEFINE last == c[Len(c)]
           next == fat[last]
<1>1. c \in Seq(Clusters) /\ Len(c) \in Nat /\ Len(c) >= 1 /\ c[1] = f
    BY DEF Path, Chains
<1>2. Extended[c] = IF next \in Clusters THEN Append(c, next) ELSE c
    BY <1>1 DEF Extended
<1>3. last \in Clusters /\ own[last] = f
    <2>1. Len(c) \in 1 .. Len(c) BY <1>1
    <2>2. QED BY <2>1, <1>1 DEF Path
<1>4. \/ next = END_OF_CHAIN
      \/ next \in Clusters /\ own[next] = f /\ pos[last] < pos[next]
    <2>1. Disk.slot = slot /\ Disk.fat = fat BY DEF Disk
    <2>2. QED BY <2>1, <1>3 DEF Kept
<1> HIDE DEF next, last
<1>5. CASE next \notin Clusters
    <2>1. next = END_OF_CHAIN /\ Extended[c] = c BY <1>2, <1>4, <1>5
    <2>2. QED BY <2>1 DEF Whole, next, last
<1>6. CASE next \in Clusters
    <2>1. next # END_OF_CHAIN BY <1>6, SizesAssumption DEF Clusters
    <2>2. own[next] = f /\ pos[last] < pos[next] BY <2>1, <1>4
    <2> DEFINE e == Append(c, next)
    <2>3. /\ e \in Seq(Clusters) /\ Len(e) = Len(c) + 1
          /\ \A i \in 1 .. Len(c) : e[i] = c[i]
          /\ e[Len(c) + 1] = next
        BY <1>1, <1>6, AppendProperties
    <2>4. Extended[c] = e BY <1>2, <1>6
    <2> HIDE DEF e
    <2>5. e \in Chains /\ e[1] = f
        <3>1. 1 \in 1 .. Len(c) /\ Len(e) >= 1 BY <1>1, <2>3
        <3>2. QED BY <3>1, <1>1, <2>3 DEF Chains
    <2>6. \A i \in 1 .. Len(e) : own[e[i]] = f
        <3> TAKE i \in 1 .. Len(e)
        <3>1. i \in 1 .. Len(c) \/ i = Len(c) + 1 BY <1>1, <2>3
        <3>2. QED BY <3>1, <2>2, <2>3 DEF Path
    <2>7. \A i, j \in 1 .. Len(e) : i < j => pos[e[i]] < pos[e[j]]
        <3> TAKE i, j \in 1 .. Len(e)
        <3> HAVE i < j
        <3>1. i \in 1 .. Len(c) /\ (j \in 1 .. Len(c) \/ j = Len(c) + 1) BY <1>1, <2>3
        <3>2. CASE j \in 1 .. Len(c) BY <3>1, <3>2, <2>3 DEF Path
        <3>3. CASE j = Len(c) + 1
            <4>1. i < Len(c) => pos[c[i]] < pos[c[Len(c)]]
                <5>1. Len(c) \in 1 .. Len(c) BY <1>1
                <5>2. QED BY <5>1, <3>1 DEF Path
            <4>2. pos[c[i]] \in Nat /\ pos[last] \in Nat /\ pos[next] \in Nat
                <5>1. c[i] \in Clusters BY <3>1, <1>1
                <5>2. QED BY <5>1, <1>3, <1>6 DEF Owners
            <4>3. i < Len(c) \/ i = Len(c) BY <3>1, <1>1
            <4>4. pos[c[i]] < pos[next]
                <5>1. pos[c[i]] < pos[last] \/ c[i] = last BY <4>1, <4>3 DEF last
                <5>2. QED BY <5>1, <4>2, <2>2
            <4>5. QED BY <4>4, <3>1, <3>3, <2>3
        <3>4. QED BY <3>1, <3>2, <3>3
    <2>8. ~Whole(c) BY <2>1 DEF Whole, next, last
    <2>9. QED BY <2>3, <2>4, <2>5, <2>6, <2>7, <2>8 DEF Path
<1>7. QED BY <1>5, <1>6

LEMMA ClustersCounted ==
    IsFiniteSet(Clusters) /\ Cardinality(Clusters) = ClusterCount
<1>1. 2 \in Int /\ ClusterCount + 1 \in Int /\ 2 <= ClusterCount + 1
      /\ (ClusterCount + 1) - 2 + 1 = ClusterCount
    BY Sizes
<1>2. QED BY <1>1, FS_Interval DEF Clusters

(* There are not more steps than clusters. *)
LEMMA PathShort ==
    ASSUME NEW own \in Owners, NEW pos \in Owners, NEW f, NEW c, Path(own, pos, f, c)
    PROVE  Len(c) <= ClusterCount
<1> SUFFICES ASSUME Len(c) > ClusterCount PROVE FALSE
    BY Sizes DEF Path, Chains
<1> DEFINE D == 1 .. Len(c)
<1>1. c \in [D -> Clusters] /\ Len(c) \in Nat BY DEF Path, Chains
<1>2. IsFiniteSet(D) /\ Cardinality(D) = Len(c)
    <2>1. 1 \in Int /\ Len(c) \in Int /\ 1 <= Len(c) /\ Len(c) - 1 + 1 = Len(c)
        BY <1>1, Sizes
    <2>2. QED BY <2>1, FS_Interval
<1> HIDE DEF D
<1>3. \E i, j \in D : i # j /\ c[i] = c[j]
    <2>1. Cardinality(Clusters) < Cardinality(D) BY <1>1, <1>2, ClustersCounted, Sizes
    <2>2. QED BY <2>1, <1>1, <1>2, ClustersCounted, FS_PigeonHole
<1>4. PICK i \in D, j \in D : i # j /\ c[i] = c[j] BY <1>3
<1>5. pos[c[i]] \in Nat /\ pos[c[j]] \in Nat
    BY <1>1 DEF Owners
<1>6. i < j \/ j < i BY <1>1, <1>4 DEF D
<1>7. i < j => pos[c[i]] < pos[c[j]] BY DEF D, Path
<1>8. j < i => pos[c[j]] < pos[c[i]] BY DEF D, Path
<1>9. QED BY <1>4, <1>5, <1>6, <1>7, <1>8

(* The chain of a directory is its own and is read to the end. *)
LEMMA ChainKept ==
    ASSUME NEW own \in Owners, NEW pos \in Owners, Kept(Disk, own, pos),
           NEW f \in Alive(slot)
    PROVE  Path(own, pos, f, Chain(f)) /\ Whole(Chain(f))
<1> DEFINE W == CHOOSE w : IsWalk(Extended, <<f>>, ClusterCount, w)
           T == {m \in Nat \ {0} : m <= ClusterCount =>
                    Path(own, pos, f, W[m]) /\ (Whole(W[m]) \/ Len(W[m]) >= m)}
<1>1. Chain(f) = W[ClusterCount] BY DEF Chain, IsWalk
<1>2. IsWalk(Extended, <<f>>, ClusterCount, W) BY Sizes, WalkExists
<1> HIDE DEF W
<1>3. \A k \in 1 .. ClusterCount : W[k] = IF k = 1 THEN <<f>> ELSE Extended[W[k - 1]]
    BY <1>2 DEF IsWalk
<1>4. f \in Clusters /\ own[f] = f
    <2>1. Disk.slot = slot BY DEF Disk
    <2>2. QED BY <2>1, AliveClusters DEF Kept
<1>5. 1 \in T
    <2>1. 1 \in 1 .. ClusterCount BY Sizes
    <2>2. W[1] = <<f>> BY <2>1, <1>3
    <2>3. /\ <<f>> \in Seq(Clusters) /\ Len(<<f>>) = 1 /\ <<f>>[1] = f
        BY <1>4
    <2>4. Path(own, pos, f, <<f>>)
        <3>1. \A i \in 1 .. 1 : i = 1 OBVIOUS
        <3>2. \A i, j \in 1 .. 1 : ~(i < j) OBVIOUS
        <3>3. 1 >= 1 OBVIOUS
        <3>4. QED BY <3>1, <3>2, <3>3, <2>3, <1>4 DEF Path, Chains
    <2>5. 1 \in Nat \ {0} /\ Len(W[1]) >= 1 BY <2>2, <2>3
    <2>6. QED BY <2>2, <2>4, <2>5
<1>6. ASSUME NEW m \in Nat \ {0}, m \in T PROVE m + 1 \in T
    <2> SUFFICES ASSUME m + 1 <= ClusterCount
                 PROVE  /\ Path(own, pos, f, W[m + 1])
                        /\ Whole(W[m + 1]) \/ Len(W[m + 1]) >= m + 1
        OBVIOUS
    <2>1. /\ m <= ClusterCount /\ m + 1 \in 1 .. ClusterCount /\ m + 1 # 1
          /\ (m + 1) - 1 = m
        BY Sizes
    <2>2. Path(own, pos, f, W[m]) /\ (Whole(W[m]) \/ Len(W[m]) >= m) BY <2>1, <1>6
    <2>3. W[m + 1] = Extended[W[m]] BY <2>1, <1>3
    <2>4. /\ Path(own, pos, f, W[m + 1])
          /\ IF Whole(W[m]) THEN W[m + 1] = W[m] ELSE Len(W[m + 1]) = Len(W[m]) + 1
        BY <2>2, <2>3, PathExtended
    <2>5. Len(W[m]) \in Nat BY <2>2 DEF Path, Chains
    <2>6. QED BY <2>2, <2>4, <2>5
<1>7. Nat \ {0} \subseteq T
    <2> HIDE DEF T
    <2>1. QED BY <1>5, <1>6, CountingUp
<1> DEFINE c == Chain(f)
<1>8. Path(own, pos, f, c) /\ (Whole(c) \/ Len(c) >= ClusterCount) BY <1>1, <1>7, Sizes
<1> HIDE DEF c, T
<1>9. Whole(c)
    <2> SUFFICES ASSUME ~Whole(c) PROVE FALSE
        OBVIOUS
    <2>1. Path(own, pos, f, Extended[c]) /\ Len(Extended[c]) = Len(c) + 1
        BY <1>8, PathExtended
    <2>2. Len(Extended[c]) <= ClusterCount BY <2>1, PathShort
    <2>3. Len(c) \in Nat BY <1>8 DEF Path, Chains
    <2>4. QED BY <2>1, <2>2, <2>3, <1>8, Sizes
<1>10. QED BY <1>8, <1>9 DEF c

-----------------------------------------------------------------------------
(* Scripts from a kept disk *)

(* Disks with no entry set that d has not, the FAT and bitmap entries of U
   apart. *)
Near(d, own, pos, U) ==
    {x \in Disks :
        /\ Within(x.slot, d.slot) /\ Kept(x, own, pos)
        /\ \A c \in Clusters \ U : x.fat[c] = d.fat[c] /\ x.bitmap[c] = d.bitmap[c]}

LEMMA NearItself ==
    ASSUME NEW d \in Disks, NEW own, NEW pos, Kept(d, own, pos), NEW U
    PROVE  d \in Near(d, own, pos, U)
BY WithinItself DEF Near

LEMMA NearKempt ==
    ASSUME NEW apart \in BOOLEAN, NEW d \in Disks, apart => Apart(d),
           NEW own \in Owners, NEW pos \in Owners, NEW U
    PROVE  Near(d, own, pos, U) \subseteq Kempt(apart)
<1> SUFFICES ASSUME NEW x \in Near(d, own, pos, U) PROVE x \in Kempt(apart)
    OBVIOUS
<1>1. x \in Disks /\ Within(x.slot, d.slot) /\ Kept(x, own, pos) BY DEF Near
<1>2. apart => Apart(x) BY <1>1, ApartWithin
<1>3. QED BY <1>1, <1>2 DEF Kempt

LEMMA NearChain ==
    ASSUME NEW d, NEW own, NEW pos, NEW U, NEW x \in Near(d, own, pos, U), NEW v, NEW p,
           NEW V, NEW y \in Near(x, v, p, V)
    PROVE  /\ Within(y.slot, d.slot)
           /\ \A c \in Clusters \ (U \cup V) : y.fat[c] = d.fat[c] /\ y.bitmap[c] = d.bitmap[c]
<1>1. Within(y.slot, d.slot) BY WithinChain DEF Near
<1>2. QED BY <1>1 DEF Near

(* Only the clusters of directories count. *)
LEMMA KeptElsewhere ==
    ASSUME NEW d, NEW x, NEW own, NEW pos, Kept(d, own, pos), x.slot = d.slot,
           \A c \in Clusters :
               own[c] \in Alive(d.slot) => x.fat[c] = d.fat[c] /\ x.bitmap[c] = d.bitmap[c]
    PROVE  Kept(x, own, pos)
BY DEF Kept

Quiet(w, U) ==
    w.op \in {"clear", "zero", "flush"} \/ (w.op \in {"bit", "fat"} /\ w.cluster \in U)

LEMMA QuietStep ==
    ASSUME NEW d \in Disks, NEW own \in Owners, NEW pos \in Owners,
           NEW U, \A c \in U : own[c] \notin Alive(d.slot),
           NEW x \in Near(d, own, pos, U), NEW w \in Writes, Quiet(w, U)
    PROVE  Do(x, w) \in Near(d, own, pos, U)
<1> DEFINE y == Do(x, w)
<1>1. /\ x \in Disks /\ Within(x.slot, d.slot) /\ Kept(x, own, pos)
      /\ \A c \in Clusters \ U : x.fat[c] = d.fat[c] /\ x.bitmap[c] = d.bitmap[c]
    BY DEF Near
<1>2. y \in Disks BY <1>1, DoTyped
<1>3. /\ y.slot = SlotsBy(x.slot, w) /\ y.fat = FatBy(x.fat, w) /\ y.bitmap = BitsBy(x.bitmap, w)
      /\ w.op # "fat" => y.fat = x.fat
      /\ w.op # "bit" => y.bitmap = x.bitmap
      /\ w.op \notin {"slot", "clear", "zero"} => y.slot = x.slot
    BY DoFields
<1>4. w.op # "slot" BY DEF Quiet
<1>5. Within(y.slot, x.slot)
    <2>1. x.slot \in SlotArrays BY <1>1, DiskFields
    <2>2. QED BY <2>1, <1>3, <1>4, FadeWithin
<1> HIDE DEF y
<1>6. Within(y.slot, d.slot) BY <1>1, <1>5, WithinChain
<1>7. CASE w.op \in {"clear", "zero", "flush"}
    <2>1. y.fat = x.fat /\ y.bitmap = x.bitmap BY <1>3, <1>7
    <2>2. Kept(y, own, pos) BY <2>1, <1>1, <1>5, KeptWithin
    <2>3. QED BY <2>1, <2>2, <1>1, <1>2, <1>6 DEF Near, y
<1>8. CASE w.op \in {"bit", "fat"} /\ w.cluster \in U
    <2>1. y.slot = x.slot BY <1>3, <1>8
    <2>2. \A c \in Clusters \ {w.cluster} : y.fat[c] = x.fat[c] /\ y.bitmap[c] = x.bitmap[c]
        <3>1. /\ x.fat \in [Clusters -> Clusters \cup {0, END_OF_CHAIN}]
              /\ x.bitmap \in [Clusters -> BOOLEAN]
            BY <1>1, DiskFields
        <3>2. QED BY <3>1, <1>3, <1>8 DEF FatBy, BitsBy
    <2>3. Alive(x.slot) \subseteq Alive(d.slot) BY <1>1, HeadsWithin
    <2>4. own[w.cluster] \notin Alive(x.slot) BY <2>3, <1>8
    <2>5. Kept(y, own, pos) BY <2>1, <2>2, <2>4, <1>1, KeptElsewhere
    <2>6. \A c \in Clusters \ U : y.fat[c] = d.fat[c] /\ y.bitmap[c] = d.bitmap[c]
        BY <2>2, <1>1, <1>8
    <2>7. QED BY <2>5, <2>6, <1>2, <1>6 DEF Near, y
<1>9. QED BY <1>7, <1>8 DEF Quiet

LEMMA QuietRun ==
    ASSUME NEW d \in Disks, NEW own \in Owners, NEW pos \in Owners, Kept(d, own, pos),
           NEW apart \in BOOLEAN, apart => Apart(d),
           NEW U, \A c \in U : own[c] \notin Alive(d.slot),
           NEW s \in Seq(Writes), \A k \in 1 .. Len(s) : Quiet(s[k], U)
    PROVE  \E x \in Near(d, own, pos, U) : Leads(Kempt(apart), d, s, x)
<1> DEFINE N == Near(d, own, pos, U)
           J == [k \in 1 .. Len(s) + 1 |-> N]
<1>1. Len(s) \in Nat /\ \A k \in 1 .. Len(s) : s[k] \in Writes OBVIOUS
<1>2. d \in N /\ N \subseteq Kempt(apart) BY NearItself, NearKempt
<1>3. \A k \in 1 .. Len(s) : \A x \in N : Do(x, s[k]) \in N
    BY <1>1, QuietStep
<1> HIDE DEF N
<1>4. \A k \in 1 .. Len(s) + 1 : J[k] = N OBVIOUS
<1>5. 1 \in 1 .. Len(s) + 1 /\ Len(s) + 1 \in 1 .. Len(s) + 1
      /\ \A k \in 1 .. Len(s) : k \in 1 .. Len(s) + 1 /\ k + 1 \in 1 .. Len(s) + 1
    BY <1>1
<1> HIDE DEF J
<1>6. \E x \in J[Len(s) + 1] : Leads(Kempt(apart), d, s, x)
    <2>1. d \in J[1] BY <1>2, <1>4, <1>5
    <2>2. \A k \in 1 .. Len(s) : \A x \in J[k] : Do(x, s[k]) \in J[k + 1] BY <1>3, <1>4, <1>5
    <2>3. \A k \in 1 .. Len(s) + 1 : J[k] \subseteq Kempt(apart) BY <1>2, <1>4
    <2>4. QED BY <2>1, <2>2, <2>3, <1>1, LeadsThrough
<1>7. QED BY <1>4, <1>5, <1>6 DEF N

LEMMA LeadsOne ==
    ASSUME NEW S, NEW d \in S, NEW w, Do(d, w) \in S
    PROVE  Leads(S, d, << w >>, Do(d, w))
<1> DEFINE x == Do(d, w)
           D == [k \in 1 .. 2 |-> IF k = 1 THEN d ELSE x]
           s == << w >>
<1>1. Len(s) + 1 = 2 /\ s[1] = w /\ Len(s) = 1 OBVIOUS
<1>2. D \in [1 .. 2 -> S] /\ D[1] = d /\ D[2] = x OBVIOUS
<1> HIDE DEF D, s
<1>3. \A k \in 1 .. Len(s) : D[k + 1] = Do(D[k], s[k])
    <2>1. \A k \in 1 .. Len(s) : k = 1 /\ k + 1 = 2 BY <1>1
    <2>2. QED BY <2>1, <1>1, <1>2
<1>4. Leads(S, d, s, x)
    <2> HIDE DEF x
    <2>1. QED BY <1>1, <1>2, <1>3 DEF Leads
<1>5. QED BY <1>4 DEF s

LEMMA LeadsTwo ==
    ASSUME NEW S, NEW d \in S, NEW v \in Writes, Do(d, v) \in S,
           NEW w \in Writes, Do(Do(d, v), w) \in S
    PROVE  Leads(S, d, << v, w >>, Do(Do(d, v), w))
<1>1. << v >> \in Seq(Writes) /\ << w >> \in Seq(Writes) /\ << v, w >> = << v >> \o << w >>
    OBVIOUS
<1>2. Leads(S, d, << v >>, Do(d, v)) BY LeadsOne
<1>3. Leads(S, Do(d, v), << w >>, Do(Do(d, v), w)) BY LeadsOne
<1>4. QED BY <1>1, <1>2, <1>3, LeadsOn

(* The slots of an entry set are cleared, its file entry first. *)
LEMMA ClearRun ==
    ASSUME NEW d \in Disks, NEW own \in Owners, NEW pos \in Owners, Kept(d, own, pos),
           NEW apart \in BOOLEAN, apart => Apart(d),
           NEW e \in EntryLocs, Len(e.at) >= 1, Clear(e) \in Seq(Writes)
    PROVE  \E x \in Near(d, own, pos, {}) :
              Leads(Kempt(apart), d, Clear(e), x) /\ e.at[1] \notin Sets(x.slot)
<1> DEFINE s == Clear(e)
           f == [k \in 1 .. Len(e.at) |-> ClearSlot(e.at[k])]
<1>1. e.at \in Seq(Addresses) /\ Len(e.at) \in Nat BY DEF EntryLocs
<1>2. f \in Seq(Writes) /\ Len(f) = Len(e.at)
    <2>1. \A k \in 1 .. Len(e.at) : ClearSlot(e.at[k]) \in Writes BY <1>1, OtherWritesTyped
    <2>2. f \in [1 .. Len(e.at) -> Writes] BY <2>1
    <2> HIDE DEF f
    <2>3. QED BY <1>1, <2>2, IsASeq
<1>3. s = f \o << Flush >> BY DEF Clear
<1>4. /\ s \in Seq(Writes) /\ Len(s) = Len(e.at) + 1 /\ Len(s) \in Nat
      /\ \A k \in 1 .. Len(e.at) : s[k] = ClearSlot(e.at[k])
      /\ s[Len(e.at) + 1] = Flush
    <2>1. \A k \in 1 .. Len(e.at) : f[k] = ClearSlot(e.at[k]) OBVIOUS
    <2> HIDE DEF f, s
    <2>2. << Flush >> \in Seq(Writes) /\ Len(<< Flush >>) = 1 /\ << Flush >>[1] = Flush
        BY FlushScript
    <2>3. QED BY <1>1, <1>2, <1>3, <2>1, <2>2
<1> HIDE DEF s, f
<1>5. PICK b \in Clusters, j \in Index : e.at[1] = <<b, j>>
    <2>1. e.at[1] \in Addresses BY <1>1
    <2>2. QED BY <2>1 DEF Addresses
<1> DEFINE N == Near(d, own, pos, {})
           J == [k \in 1 .. Len(s) + 1 |-> {x \in N : k >= 2 => ~x.slot[b][j].live}]
<1>6. d \in N /\ N \subseteq Kempt(apart) BY NearItself, NearKempt
<1>7. ASSUME NEW k \in 1 .. Len(s), NEW x \in J[k]
      PROVE  Do(x, s[k]) \in J[k + 1]
    <2>1. x \in N /\ (k >= 2 => ~x.slot[b][j].live) BY <1>7
    <2>2. s[k] \in Writes /\ s[k].op \in {"clear", "flush"}
          /\ (k = 1 => s[k].op = "clear" /\ s[k].at = <<b, j>>)
        <3>1. k \in 1 .. Len(e.at) \/ k = Len(e.at) + 1 BY <1>1, <1>4
        <3>2. CASE k \in 1 .. Len(e.at)
            <4>1. s[k] = ClearSlot(e.at[k]) /\ e.at[k] \in Addresses BY <3>2, <1>1, <1>4
            <4>2. s[k].at = e.at[k] BY <4>1 DEF ClearSlot
            <4>3. QED BY <4>1, <4>2, <1>5, OtherWritesTyped
        <3>3. CASE k = Len(e.at) + 1
            <4>1. k # 1 BY <3>3, <1>1
            <4>2. QED BY <3>3, <4>1, <1>4, OtherWritesTyped
        <3>4. QED BY <3>1, <3>2, <3>3
    <2>3. Do(x, s[k]) \in N
        <3>1. Quiet(s[k], {}) BY <2>2 DEF Quiet
        <3>2. QED BY <2>1, <2>2, <3>1, QuietStep
    <2>4. ~Do(x, s[k]).slot[b][j].live
        <3>1. x.slot \in SlotArrays BY <2>1, DiskFields DEF Near
        <3>2. Do(x, s[k]).slot = SlotsBy(x.slot, s[k]) BY DoFields
        <3> DEFINE o == x.slot[b][j]
                   z == [o EXCEPT !.live = FALSE]
                   n == SlotsBy(x.slot, s[k])[b][j]
        <3>3. o \in AnySlots BY <3>1 DEF SlotArrays
        <3>4. ~z.live BY <3>3, AnyCleared
        <3>5. n = z \/ (n = o /\ k # 1)
            <4>1. CASE s[k].op = "clear"
                <5>1. PICK p \in Clusters, q \in Index : s[k].at = <<p, q>>
                    BY <2>2, <4>1, WriteCases DEF Addresses
                <5>2. n = IF b = p /\ j = q THEN z ELSE o
                    <6>1. PICK u \in SlotArrays, w \in Writes : u = x.slot /\ w = s[k]
                        BY <3>1, <2>2
                    <6>2. w.op = "clear" /\ w.at = <<p, q>> BY <4>1, <5>1, <6>1
                    <6>3. SlotsBy(u, w)[b][j] =
                              IF b = p /\ j = q THEN [u[b][j] EXCEPT !.live = FALSE] ELSE u[b][j]
                        BY <6>2, SlotClearedBy
                    <6>4. QED BY <6>1, <6>3
                <5>3. k = 1 => b = p /\ j = q BY <2>2, <5>1
                <5> HIDE DEF n, z, o
                <5>4. QED BY <5>2, <5>3
            <4>2. CASE s[k].op = "flush"
                <5>1. SlotsBy(x.slot, s[k]) = x.slot BY <4>2 DEF SlotsBy
                <5>2. k # 1 BY <4>2, <2>2
                <5>3. QED BY <5>1, <5>2
            <4>3. QED BY <4>1, <4>2, <2>2
        <3>6. k # 1 => ~o.live BY <2>1, <1>4
        <3> HIDE DEF o, z, n
        <3>7. ~n.live BY <3>4, <3>5, <3>6
        <3>8. QED BY <3>2, <3>7 DEF n
    <2>5. k + 1 \in 1 .. Len(s) + 1 BY <1>4
    <2> HIDE DEF N
    <2>6. QED BY <2>3, <2>4, <2>5
<1>8. \E x \in J[Len(s) + 1] : Leads(Kempt(apart), d, s, x)
    <2>1. 1 \in 1 .. Len(s) + 1 BY <1>4
    <2>2. d \in J[1]
        <3> HIDE DEF N
        <3>1. QED BY <2>1, <1>6
    <2>3. \A k \in 1 .. Len(s) + 1 : J[k] \subseteq Kempt(apart)
        <3> HIDE DEF N
        <3>1. QED BY <1>6
    <2> HIDE DEF J, N
    <2>4. QED BY <2>2, <2>3, <1>4, <1>7, LeadsThrough
<1>9. PICK x \in N : ~x.slot[b][j].live /\ Leads(Kempt(apart), d, s, x)
    <2>1. Len(s) + 1 \in 1 .. Len(s) + 1 /\ Len(s) + 1 >= 2 BY <1>1, <1>4
    <2> HIDE DEF N
    <2>2. QED BY <2>1, <1>8
<1>10. e.at[1] \notin Sets(x.slot)
    <2>1. e.at[1][1] = b /\ e.at[1][2] = j BY <1>5
    <2>2. QED BY <2>1, <1>9 DEF Sets, IsSet, IsFile
<1>11. QED BY <1>9, <1>10 DEF s

(* A cluster of no directory is taken and ends a chain. *)
Take(c) == << SetBit(c, TRUE), SetFat(c, END_OF_CHAIN) >>

LEMMA TakeRun ==
    ASSUME NEW d \in Disks, NEW own \in Owners, NEW pos \in Owners, Kept(d, own, pos),
           NEW apart \in BOOLEAN, apart => Apart(d),
           NEW c \in Clusters, own[c] \notin Alive(d.slot)
    PROVE  \E x \in Near(d, own, pos, {c}) :
              /\ Leads(Kempt(apart), d, Take(c), x)
              /\ x.slot = d.slot /\ x.bitmap[c] /\ x.fat[c] = END_OF_CHAIN
<1> DEFINE v == SetBit(c, TRUE)
           w == SetFat(c, END_OF_CHAIN)
           y == Do(d, v)
           x == Do(y, w)
           N == Near(d, own, pos, {c})
<1>1. /\ v \in Writes /\ v.op = "bit" /\ v.cluster = c /\ v.val = TRUE
      /\ w \in Writes /\ w.op = "fat" /\ w.cluster = c /\ w.val = END_OF_CHAIN
    <2>1. v \in Writes /\ v.op = "bit" /\ w \in Writes /\ w.op = "fat" BY OtherWritesTyped
    <2>2. v.cluster = c /\ v.val = TRUE /\ w.cluster = c /\ w.val = END_OF_CHAIN
        BY DEF SetBit, SetFat
    <2>3. QED BY <2>1, <2>2
<1> HIDE DEF v, w
<1>2. d \in N /\ N \subseteq Kempt(apart) BY NearItself, NearKempt
<1>3. y \in N
    <2>1. Quiet(v, {c}) BY <1>1 DEF Quiet
    <2>2. QED BY <2>1, <1>1, <1>2, QuietStep
<1>4. x \in N
    <2>1. Quiet(w, {c}) BY <1>1 DEF Quiet
    <2> HIDE DEF y
    <2>2. QED BY <2>1, <1>1, <1>3, QuietStep
<1>5. Leads(Kempt(apart), d, << v, w >>, x)
    <2> HIDE DEF N
    <2>1. QED BY <1>1, <1>2, <1>3, <1>4, LeadsTwo
<1>6. y.slot = d.slot /\ y.bitmap[c]
    <2>1. y.slot = d.slot /\ y.bitmap = BitsBy(d.bitmap, v) BY <1>1, DoFields
    <2>2. d.bitmap \in [Clusters -> BOOLEAN] BY DiskFields
    <2> HIDE DEF y
    <2>3. QED BY <2>1, <2>2, <1>1 DEF BitsBy
<1>7. x.slot = d.slot /\ x.bitmap[c] /\ x.fat[c] = END_OF_CHAIN
    <2>1. x.slot = y.slot /\ x.bitmap = y.bitmap /\ x.fat = FatBy(y.fat, w) BY <1>1, DoFields
    <2>2. y.fat \in [Clusters -> Clusters \cup {0, END_OF_CHAIN}] BY <1>3, DiskFields DEF Near
    <2> HIDE DEF x, y
    <2>3. QED BY <2>1, <2>2, <1>1, <1>6 DEF FatBy
<1> HIDE DEF x, N
<1>8. QED BY <1>4, <1>5, <1>7 DEF Take, v, w, N

(* A cluster is zeroed. *)
Blank(c) == << ZeroCluster(c), Flush >>

LEMMA BlankRun ==
    ASSUME NEW d \in Disks, NEW own \in Owners, NEW pos \in Owners, Kept(d, own, pos),
           NEW apart \in BOOLEAN, apart => Apart(d), NEW c \in Clusters
    PROVE  \E x \in Near(d, own, pos, {}) :
              /\ Leads(Kempt(apart), d, Blank(c), x)
              /\ \A b \in Clusters : \A i \in Index :
                    x.slot[b][i] = IF b = c THEN EndSlot ELSE d.slot[b][i]
<1> DEFINE v == ZeroCluster(c)
           y == Do(d, v)
           x == Do(y, Flush)
           N == Near(d, own, pos, {})
<1>1. v \in Writes /\ v.op = "zero" /\ v.cluster = c /\ Flush \in Writes /\ Flush.op = "flush"
    BY OtherWritesTyped
<1> HIDE DEF v
<1>2. d \in N /\ N \subseteq Kempt(apart) BY NearItself, NearKempt
<1>3. y \in N
    <2>1. Quiet(v, {}) BY <1>1 DEF Quiet
    <2>2. QED BY <2>1, <1>1, <1>2, QuietStep
<1>4. x \in N
    <2>1. Quiet(Flush, {}) BY <1>1 DEF Quiet
    <2> HIDE DEF y
    <2>2. QED BY <2>1, <1>1, <1>3, QuietStep
<1>5. Leads(Kempt(apart), d, << v, Flush >>, x)
    <2> HIDE DEF N
    <2>1. QED BY <1>1, <1>2, <1>3, <1>4, LeadsTwo
<1>6. x.slot = SlotsBy(d.slot, v)
    <2>1. y.slot = SlotsBy(d.slot, v) /\ x.slot = y.slot BY <1>1, DoFields
    <2>2. QED BY <2>1
<1>7. \A b \in Clusters : \A i \in Index :
          SlotsBy(d.slot, v)[b][i] = IF b = c THEN EndSlot ELSE d.slot[b][i]
    <2> TAKE b \in Clusters
    <2> TAKE i \in Index
    <2>1. d.slot \in SlotArrays BY DiskFields
    <2>2. QED BY <2>1, <1>1, ClusterZeroedBy
<1> HIDE DEF x, N
<1>8. QED BY <1>4, <1>5, <1>6, <1>7 DEF Blank, v, N

(* The end of a chain is linked to a cluster that was taken. *)
Link(l, c) == << SetFat(l, c) >>

LEMMA LinkRun ==
    ASSUME NEW d \in Disks, NEW own \in Owners, NEW pos \in Owners, Kept(d, own, pos),
           NEW apart \in BOOLEAN, apart => Apart(d),
           NEW l \in Clusters, own[l] \in Alive(d.slot),
           NEW c \in Clusters, own[c] \notin Alive(d.slot), d.bitmap[c], d.fat[c] = END_OF_CHAIN
    PROVE  \E o, p \in Owners : \E x \in Near(d, o, p, {l}) :
              /\ Leads(Kempt(apart), d, Link(l, c), x)
              /\ x.slot = d.slot /\ x.bitmap = d.bitmap
              /\ \A b \in Clusters \ {c} : o[b] = own[b]
<1> DEFINE w == SetFat(l, c)
           x == Do(d, w)
           o == [own EXCEPT ![c] = own[l]]
           p == [pos EXCEPT ![c] = pos[l] + 1]
<1>1. w \in Writes /\ w.op = "fat" /\ w.cluster = l /\ w.val = c
    <2>1. w \in Writes /\ w.op = "fat" BY OtherWritesTyped
    <2>2. QED BY <2>1 DEF SetFat
<1> HIDE DEF w
<1>2. /\ x.slot = d.slot /\ x.bitmap = d.bitmap /\ x \in Disks
      /\ x.fat[l] = c /\ \A b \in Clusters \ {l} : x.fat[b] = d.fat[b]
    <2>1. x.slot = d.slot /\ x.bitmap = d.bitmap /\ x.fat = FatBy(d.fat, w) BY <1>1, DoFields
    <2>2. d.fat \in [Clusters -> Clusters \cup {0, END_OF_CHAIN}] BY DiskFields
    <2>3. x \in Disks BY <1>1, DoTyped
    <2> HIDE DEF x
    <2>4. QED BY <2>1, <2>2, <2>3, <1>1 DEF FatBy
<1> HIDE DEF x
<1>3. /\ o \in Owners /\ o[c] = own[l] /\ \A b \in Clusters \ {c} : o[b] = own[b]
      /\ p \in Owners /\ p[c] = pos[l] + 1 /\ \A b \in Clusters \ {c} : p[b] = pos[b]
      /\ pos[l] \in Nat /\ l # c
    BY DEF Owners
<1> HIDE DEF o, p
<1>4. \A f \in Alive(d.slot) : f \in Clusters /\ own[f] = f /\ f # c
    BY AliveClusters DEF Kept
<1>5. \A b \in Clusters : own[b] \in Alive(d.slot) =>
          /\ d.bitmap[b]
          /\ \/ d.fat[b] = END_OF_CHAIN
             \/ d.fat[b] \in Clusters /\ own[d.fat[b]] = own[b] /\ pos[b] < pos[d.fat[b]]
    BY DEF Kept
<1>6. ASSUME NEW b \in Clusters, o[b] \in Alive(d.slot)
      PROVE  /\ d.bitmap[b]
             /\ \/ x.fat[b] = END_OF_CHAIN
                \/ x.fat[b] \in Clusters /\ o[x.fat[b]] = o[b] /\ p[b] < p[x.fat[b]]
    <2>1. CASE b = c BY <2>1, <1>2, <1>3
    <2>2. CASE b = l BY <2>2, <1>2, <1>3, <1>5
    <2>3. CASE b # c /\ b # l
        <3>1. own[b] \in Alive(d.slot) /\ o[b] = own[b] /\ p[b] = pos[b] /\ x.fat[b] = d.fat[b]
            BY <2>3, <1>2, <1>3, <1>6
        <3>2. CASE d.fat[b] = END_OF_CHAIN BY <3>1, <3>2, <1>5
        <3>3. CASE d.fat[b] # END_OF_CHAIN
            <4>1. d.fat[b] \in Clusters /\ own[d.fat[b]] = own[b] /\ pos[b] < pos[d.fat[b]]
                BY <3>1, <3>3, <1>5
            <4>2. d.fat[b] # c BY <3>1, <4>1
            <4>3. QED BY <3>1, <4>1, <4>2, <1>3, <1>5
        <3>4. QED BY <3>2, <3>3
    <2>4. QED BY <2>1, <2>2, <2>3
<1>7. Kept(x, o, p)
    <2>1. \A f \in Alive(d.slot) : o[f] = f BY <1>3, <1>4
    <2>2. QED BY <2>1, <1>2, <1>6 DEF Kept
<1>8. x \in Near(d, o, p, {l}) BY <1>2, <1>7, WithinItself DEF Near
<1>9. Leads(Kempt(apart), d, << w >>, x)
    <2>1. d \in Kempt(apart) BY DEF Kempt
    <2>2. x \in Kempt(apart)
        <3>1. apart => Apart(x) BY <1>2 DEF Apart
        <3>2. QED BY <3>1, <1>2, <1>3, <1>7 DEF Kempt
    <2>3. x = Do(d, w) BY DEF x
    <2>4. QED BY <2>1, <2>2, <2>3, LeadsOne
<1>10. QED BY <1>2, <1>3, <1>8, <1>9 DEF Link, w

(* The file entry and the stream entry of a set are written again. *)
LEMMA RewriteRun ==
    ASSUME SlotTyped, NEW d \in Disks, NEW own \in Owners, NEW pos \in Owners,
           Kept(d, own, pos), NEW apart \in BOOLEAN, apart => Apart(d),
           NEW e \in EntryLocs, NEW b \in Clusters, NEW j \in Index, j + 1 \in Index,
           e.at[1] = <<b, j>>, e.at[2] = <<b, j + 1>>,
           d.slot[b][j] = slot[b][j], d.slot[b][j + 1] = slot[b][j + 1],
           IsFile(slot[b][j]), slot[b][j + 1].type = "stream",
           NEW len \in Nat, RewriteStream(e, len) \in Seq(Writes)
    PROVE  \E x \in Near(d, own, pos, {}) :
              /\ Leads(Kempt(apart), d, RewriteStream(e, len), x)
              /\ \A c \in Clusters \ {b} : \A i \in Index : x.slot[c][i] = d.slot[c][i]
<1> DEFINE f0 == slot[b][j]
           s0 == slot[b][j + 1]
           stream == [s0 EXCEPT !.len = len]
           rest == [k \in 1 .. (Len(e.at) - 1) |-> IF k = 1 THEN stream ELSE At(e.at[k + 1])]
           file == [f0 EXCEPT !.sum = rest]
           v == WriteSlot(e.at[1], file)
           w == WriteSlot(e.at[2], stream)
<1>1. At(e.at[1]) = f0 /\ At(e.at[2]) = s0 BY DEF At
<1>2. RewriteStream(e, len) = << v, w >> BY <1>1 DEF RewriteStream
<1>3. f0 \in FileSlots /\ s0 \in StreamSlots
    <2>1. f0 \in Slots /\ s0 \in Slots BY DEF SlotTyped
    <2>2. QED BY <2>1, SlotKinds DEF IsFile
<1>4. stream.type = "stream" /\ stream.first = s0.first /\ s0.type = "stream"
    <2> HIDE DEF s0
    <2>1. QED BY <1>3 DEF StreamSlots
<1>5. file.type = "file" /\ file.dir = f0.dir
    <2> HIDE DEF f0, rest
    <2>1. QED BY <1>3 DEF FileSlots
<1>6. /\ v.op = "slot" /\ v.at = <<b, j>> /\ v.val = file
      /\ w.op = "slot" /\ w.at = <<b, j + 1>> /\ w.val = stream
    <2> HIDE DEF file, stream
    <2>1. QED BY DEF WriteSlot
<1>7. v \in Writes /\ w \in Writes
    <2> HIDE DEF v, w
    <2>1. << v, w >>[1] = v /\ << v, w >>[2] = w /\ DOMAIN << v, w >> = 1 .. 2 OBVIOUS
    <2>2. << v, w >> \in Seq(Writes) BY <1>2
    <2>3. QED BY <2>1, <2>2
<1> HIDE DEF v, w
<1>8. IsFile(f0) /\ f0.type = "file" BY DEF IsFile
<1> HIDE DEF f0, s0, rest, file, stream
<1> DEFINE y == Do(d, v)
           x == Do(y, w)
<1>9. d.slot \in SlotArrays /\ y \in Disks /\ y.slot \in SlotArrays /\ x \in Disks
    <2>1. y \in Disks BY <1>7, DoTyped
    <2> HIDE DEF y
    <2>2. QED BY <2>1, <1>7, DoTyped, DiskFields
<1>10. /\ y.slot = SlotsBy(d.slot, v) /\ y.fat = d.fat /\ y.bitmap = d.bitmap
       /\ x.slot = SlotsBy(y.slot, w) /\ x.fat = d.fat /\ x.bitmap = d.bitmap
    <2>1. y.slot = SlotsBy(d.slot, v) /\ y.fat = d.fat /\ y.bitmap = d.bitmap
        BY <1>6, DoFields
    <2> HIDE DEF y
    <2>2. QED BY <2>1, <1>6, DoFields
<1> DEFINE t == y.slot
           z == x.slot
<1>11. Put(t, d.slot, b, j, file)
    <2>1. PICK u, r : u = d.slot /\ r = v /\ u \in SlotArrays /\ r \in Writes BY <1>7, <1>9
    <2> HIDE DEF y, x
    <2>2. Put(SlotsBy(u, r), u, b, j, r.val) BY <1>6, <2>1, PutBy
    <2>3. QED BY <2>1, <2>2, <1>6, <1>10
<1>12. Put(z, t, b, j + 1, stream)
    <2>1. PICK u, r, i : /\ u = y.slot /\ r = w /\ u \in SlotArrays /\ r \in Writes
                         /\ i = j + 1 /\ i \in Index
        BY <1>7, <1>9
    <2> HIDE DEF y, x
    <2>2. r.op = "slot" /\ r.at = <<b, i>> BY <2>1, <1>6
    <2>3. Put(SlotsBy(u, r), u, b, i, r.val) BY <2>1, <2>2, PutBy
    <2>4. QED BY <2>1, <2>3, <1>6, <1>10
<1>13. Within(t, d.slot)
    <2>1. Overwrites(d.slot, b, j, file) BY <1>5, <1>8 DEF Overwrites, f0
    <2>2. PICK u, r, g : u = d.slot /\ r = t /\ g = file OBVIOUS
    <2> HIDE DEF t
    <2>3. Overwrites(u, b, j, g) /\ Put(r, u, b, j, g) /\ g.type # "name"
        BY <1>5, <1>11, <2>1, <2>2
    <2>4. Within(r, u) BY <2>3, PutWithin
    <2>5. QED BY <2>2, <2>4
<1>14. Within(z, t)
    <2>1. t[b][j + 1] = s0
        <3>1. j # j + 1 BY Sizes DEF Index
        <3> HIDE DEF t
        <3>2. QED BY <3>1, <1>11 DEF s0, Put
    <2>2. PICK u, r, g, i : u = t /\ r = z /\ g = stream /\ i = j + 1 /\ i \in Index OBVIOUS
    <2> HIDE DEF t, z
    <2>3. Overwrites(u, b, i, g) BY <2>1, <2>2, <1>4 DEF Overwrites
    <2>4. Put(r, u, b, i, g) /\ g.type # "name" BY <1>4, <1>12, <2>2
    <2>5. Within(r, u) BY <2>2, <2>3, <2>4, PutWithin
    <2>6. QED BY <2>2, <2>5
<1>15. Within(z, d.slot) BY <1>13, <1>14, WithinChain
<1> HIDE DEF x, y
<1> DEFINE N == Near(d, own, pos, {})
<1>16. y \in N
    <2>1. Kept(y, own, pos) BY <1>10, <1>13, KeptWithin
    <2>2. QED BY <2>1, <1>9, <1>10, <1>13 DEF Near
<1>17. x \in N
    <2>1. Kept(x, own, pos) BY <1>10, <1>15, KeptWithin
    <2>2. QED BY <2>1, <1>9, <1>10, <1>15 DEF Near
<1>18. d \in N /\ N \subseteq Kempt(apart) BY NearItself, NearKempt
<1>19. Leads(Kempt(apart), d, << v, w >>, x)
    <2> HIDE DEF N
    <2>1. y = Do(d, v) /\ x = Do(Do(d, v), w) BY DEF x, y
    <2>2. QED BY <2>1, <1>7, <1>16, <1>17, <1>18, LeadsTwo
<1>20. \A c \in Clusters \ {b} : \A i \in Index : z[c][i] = d.slot[c][i]
    BY <1>11, <1>12 DEF Put
<1>21. QED BY <1>2, <1>17, <1>19, <1>20 DEF N

(* Every set of t is one of u, but for one that may be at g. *)
Plus(t, u, g, dir, first, n) ==
    \A a \in Sets(t) :
        \/ Same(t, u, a)
        \/ a = g /\ DirOf(t, a) = dir /\ FirstOf(t, a) = first /\ NameOf(t, a) = n
Added(d, g, dir, first, n) ==
    {x \in Disks : x.fat = d.fat /\ x.bitmap = d.bitmap /\ Plus(x.slot, d.slot, g, dir, first, n)}

LEMMA PlusChain ==
    ASSUME NEW t, NEW u, NEW v, NEW g, NEW dir, NEW first, NEW n,
           Plus(t, u, g, dir, first, n), Plus(u, v, g, dir, first, n)
    PROVE  Plus(t, v, g, dir, first, n)
<1> SUFFICES ASSUME NEW a \in Sets(t)
             PROVE  \/ Same(t, v, a)
                    \/ a = g /\ DirOf(t, a) = dir /\ FirstOf(t, a) = first /\ NameOf(t, a) = n
    BY DEF Plus
<1>1. \/ Same(t, u, a)
      \/ a = g /\ DirOf(t, a) = dir /\ FirstOf(t, a) = first /\ NameOf(t, a) = n
    BY DEF Plus
<1>2. CASE Same(t, u, a)
    <2>1. /\ a \in Sets(u) /\ DirOf(t, a) = DirOf(u, a) /\ FirstOf(t, a) = FirstOf(u, a)
          /\ NameOf(t, a) = NameOf(u, a)
        BY <1>2 DEF Same
    <2>2. \/ Same(u, v, a)
          \/ a = g /\ DirOf(u, a) = dir /\ FirstOf(u, a) = first /\ NameOf(u, a) = n
        BY <2>1 DEF Plus
    <2>3. QED BY <2>1, <2>2 DEF Same
<1>3. QED BY <1>1, <1>2

LEMMA WithinPlus ==
    ASSUME NEW t, NEW u, Within(t, u), NEW g, NEW dir, NEW first, NEW n
    PROVE  Plus(t, u, g, dir, first, n)
BY DEF Within, Plus

(* One more set: that of a file, of a directory that has one already, or of
   a cluster that was taken for it. *)
LEMMA AddedKempt ==
    ASSUME NEW d \in Disks, NEW own \in Owners, NEW pos \in Owners, Kept(d, own, pos),
           NEW apart \in BOOLEAN, apart => Apart(d),
           NEW g, NEW dir \in BOOLEAN, NEW first, NEW n, dir <=> n \in Dirs,
           dir => /\ first \in Clusters \ {RootCluster}
                  /\ \/ first \in Alive(d.slot)
                     \/ own[first] \notin Alive(d.slot) /\ d.bitmap[first]
                        /\ d.fat[first] = END_OF_CHAIN
                  /\ apart => first \notin Alive(d.slot)
    PROVE  Added(d, g, dir, first, n) \subseteq Kempt(apart)
<1> SUFFICES ASSUME NEW x \in Added(d, g, dir, first, n) PROVE x \in Kempt(apart)
    OBVIOUS
<1>1. x \in Disks /\ x.fat = d.fat /\ x.bitmap = d.bitmap
      /\ \A a \in Sets(x.slot) :
            \/ Same(x.slot, d.slot, a)
            \/ /\ a = g /\ DirOf(x.slot, a) = dir /\ FirstOf(x.slot, a) = first
               /\ NameOf(x.slot, a) = n
    BY DEF Added, Plus
<1>2. \A a \in Sets(x.slot) : DirOf(x.slot, a) <=> NameOf(x.slot, a) \in Dirs
    BY <1>1 DEF Kept, Same
<1>3. \A a \in Heads(x.slot) :
          \/ a \in Heads(d.slot) /\ FirstOf(x.slot, a) = FirstOf(d.slot, a)
          \/ a = g /\ dir /\ FirstOf(x.slot, a) = first
    BY <1>1 DEF Heads, Same
<1>4. \A a \in Heads(x.slot) : FirstOf(x.slot, a) \in Clusters \ {RootCluster}
    BY <1>3 DEF Kept
<1>5. apart => Apart(x)
    <2>1. \A a \in Heads(d.slot) : FirstOf(d.slot, a) \in Alive(d.slot) BY DEF Alive
    <2>2. QED BY <1>3, <2>1 DEF Apart
<1>6. \A f \in Alive(x.slot) : f \in Alive(d.slot) \/ (dir /\ f = first)
    BY <1>3 DEF Alive
<1>7. CASE ~dir \/ first \in Alive(d.slot)
    <2>1. Alive(x.slot) \subseteq Alive(d.slot) BY <1>6, <1>7
    <2>2. Kept(x, own, pos) BY <2>1, <1>1, <1>2, <1>4 DEF Kept
    <2>3. QED BY <2>2, <1>1, <1>5 DEF Kempt
<1>8. CASE dir /\ first \notin Alive(d.slot)
    <2> DEFINE o == [c \in Clusters |->
                        IF c = first THEN first ELSE IF own[c] = first THEN 0 ELSE own[c]]
    <2>1. first \in Clusters /\ Clusters \subseteq Nat /\ 0 \notin Clusters
        BY <1>8, Sizes DEF Clusters
    <2>2. own[first] \notin Alive(d.slot) /\ d.bitmap[first] /\ d.fat[first] = END_OF_CHAIN
        BY <1>8
    <2>3. o \in Owners BY <2>1 DEF Owners
    <2>4. \A c \in Clusters :
              o[c] = IF c = first THEN first ELSE IF own[c] = first THEN 0 ELSE own[c]
        OBVIOUS
    <2> HIDE DEF o
    <2>5. Alive(d.slot) \subseteq Clusters /\ 0 \notin Alive(d.slot) BY <2>1, AliveClusters
    <2>6. \A f \in Alive(x.slot) : o[f] = f
        <3> TAKE f \in Alive(x.slot)
        <3>1. CASE f = first BY <3>1, <2>1, <2>4
        <3>2. CASE f # first
            <4>1. f \in Alive(d.slot) BY <3>2, <1>6
            <4>2. f \in Clusters /\ own[f] = f BY <4>1, <2>5 DEF Kept
            <4>3. QED BY <3>2, <4>2, <2>4
        <3>3. QED BY <3>1, <3>2
    <2>7. ASSUME NEW c \in Clusters, o[c] \in Alive(x.slot)
          PROVE  /\ x.bitmap[c]
                 /\ \/ x.fat[c] = END_OF_CHAIN
                    \/ x.fat[c] \in Clusters /\ o[x.fat[c]] = o[c] /\ pos[c] < pos[x.fat[c]]
        <3>1. CASE c = first BY <3>1, <2>2, <1>1
        <3>2. CASE c # first
            <4>1. own[c] # first /\ o[c] = own[c]
                <5>1. o[c] # 0 BY <2>1, <2>5, <2>7, <1>6
                <5>2. QED BY <5>1, <3>2, <2>4
            <4>2. own[c] \in Alive(d.slot) BY <4>1, <2>7, <1>6
            <4>3. /\ d.bitmap[c]
                  /\ \/ d.fat[c] = END_OF_CHAIN
                     \/ /\ d.fat[c] \in Clusters /\ own[d.fat[c]] = own[c]
                        /\ pos[c] < pos[d.fat[c]]
                BY <4>2 DEF Kept
            <4>4. CASE d.fat[c] = END_OF_CHAIN BY <4>3, <4>4, <1>1
            <4>5. CASE d.fat[c] # END_OF_CHAIN
                <5>1. d.fat[c] \in Clusters /\ own[d.fat[c]] = own[c] /\ pos[c] < pos[d.fat[c]]
                    BY <4>3, <4>5
                <5>2. d.fat[c] # first BY <5>1, <4>2, <2>2
                <5>3. o[d.fat[c]] = o[c] BY <5>1, <5>2, <4>1, <2>4
                <5>4. QED BY <5>1, <5>3, <4>3, <1>1
            <4>6. QED BY <4>4, <4>5
        <3>3. QED BY <3>1, <3>2
    <2>8. Kept(x, o, pos) BY <2>6, <2>7, <1>2, <1>4 DEF Kept
    <2>9. QED BY <2>3, <2>8, <1>1, <1>5 DEF Kempt
<1>9. QED BY <1>7, <1>8

(* An entry set is written into slots that are free, its file entry first:
   k - 1 of its slots are written. *)
Filled(u, set, c, j, k) ==
    \A i \in 1 .. Len(set) :
        IF i < k THEN u[c][j + i - 1] = set[i] ELSE ~u[c][j + i - 1].live

LEMMA FillMore ==
    ASSUME NEW set, Len(set) \in Nat, NEW c \in Clusters, NEW j \in Nat \ {0},
           j + Len(set) - 1 \in Index, NEW k \in 1 .. Len(set), NEW l, l = k + 1,
           NEW x \in Index, x = j + k - 1, NEW v, v = set[k], NEW u, NEW t,
           Filled(u, set, c, j, k), Put(t, u, c, x, v)
    PROVE  Filled(t, set, c, j, l)
<1> SUFFICES ASSUME NEW i \in 1 .. Len(set)
             PROVE  IF i < l THEN t[c][j + i - 1] = set[i] ELSE ~t[c][j + i - 1].live
    BY DEF Filled
<1>1. j + i - 1 \in Index /\ i \in Nat /\ k \in Nat
    <2>1. j + Len(set) - 1 \in 1 .. PerCluster BY DEF Index
    <2>2. PerCluster \in Nat BY Sizes
    <2>3. j + i - 1 \in 1 .. PerCluster /\ i \in Nat /\ k \in Nat BY <2>1, <2>2
    <2>4. QED BY <2>3 DEF Index
<1>2. t[c][j + i - 1] = IF i = k THEN set[k] ELSE u[c][j + i - 1]
    <2>1. i # k => j + i - 1 # x BY <1>1
    <2>2. i = k => j + i - 1 = x OBVIOUS
    <2>3. QED BY <2>1, <2>2, <1>1 DEF Put
<1>3. IF i < k THEN u[c][j + i - 1] = set[i] ELSE ~u[c][j + i - 1].live
    BY DEF Filled
<1>4. CASE i < k BY <1>1, <1>2, <1>3, <1>4
<1>5. CASE i = k BY <1>1, <1>2, <1>5
<1>6. CASE i > k BY <1>1, <1>2, <1>3, <1>6
<1>7. QED BY <1>1, <1>4, <1>5, <1>6

LEMMA FillPlus ==
    ASSUME NEW n, NEW dir, NEW first, NEW set, EntrySlots(set, n, dir, first),
           NEW c \in Clusters, NEW j \in Nat \ {0}, j + Len(set) - 1 \in Index,
           NEW k \in 1 .. Len(set), NEW x \in Index, x = j + k - 1, NEW v, v = set[k],
           NEW u, NEW t, Filled(u, set, c, j, k), Put(t, u, c, x, v)
    PROVE  Plus(t, u, <<c, j>>, dir, first, n)
<1> DEFINE m == Len(set)
<1>0. \A i \in 1 .. m : IF i < k THEN u[c][j + i - 1] = set[i] ELSE ~u[c][j + i - 1].live
    BY DEF Filled
<1>1. /\ m \in 3 .. 4 /\ m \in Nat /\ set[1].type = "file" /\ set[2].type = "stream"
      /\ set[1].dir = dir /\ set[2].first = first /\ set[3].name = n
      /\ \A i \in 3 .. m : set[i].type = "name"
    BY KindsOfSlots DEF EntrySlots
<1>a. 1 \in 1 .. m /\ 2 \in 1 .. m /\ 3 \in 1 .. m BY <1>1
<1>4. \A i \in 1 .. m :
          IF i < k + 1 THEN t[c][j + i - 1] = set[i] ELSE ~t[c][j + i - 1].live
    <2>1. PICK l : l = k + 1 OBVIOUS
    <2>2. Filled(t, set, c, j, l) BY <1>1, <2>1, FillMore
    <2>3. QED BY <2>1, <2>2 DEF Filled
<1>6. Overwrites(u, c, x, v)
    <2>1. CASE k = 1
        <3>1. x + 2 = j + 3 - 1 BY <2>1
        <3>2. ~u[c][j + 3 - 1].live
            <4>1. ~(3 < k) BY <2>1
            <4> HIDE DEF m
            <4>2. QED BY <4>1, <1>0, <1>a
        <3>3. v.type = "file" BY <2>1, <1>1
        <3>4. QED BY <3>1, <3>2, <3>3 DEF Overwrites, LiveName
    <2>2. CASE k = 2
        <3>1. x + 1 = j + 3 - 1 BY <2>2
        <3>2. ~u[c][j + 3 - 1].live
            <4>1. ~(3 < k) BY <2>2
            <4> HIDE DEF m
            <4>2. QED BY <4>1, <1>0, <1>a
        <3>3. v.type = "stream" BY <2>2, <1>1
        <3>4. QED BY <3>1, <3>2, <3>3 DEF Overwrites, LiveName
    <2>3. CASE k > 2
        <3>1. k \in 3 .. m BY <2>3
        <3>2. v.type = "name" BY <3>1, <1>1
        <3>3. QED BY <3>2 DEF Overwrites
    <2>4. QED BY <2>1, <2>2, <2>3
<1>8. ASSUME NEW a \in Sets(t), v.type = "name", a = <<c, x - 2>>, IsFile(u[c][x - 2])
      PROVE  a = <<c, j>> /\ DirOf(t, a) = dir /\ FirstOf(t, a) = first /\ NameOf(t, a) = n
    <2>1. k = 3
        <3>1. k # 1 /\ k # 2 BY <1>1, <1>8
        <3>2. k # 4
            <4> SUFFICES ASSUME k = 4 PROVE FALSE
                OBVIOUS
            <4>1. x - 2 = j + 2 - 1 /\ 2 < k BY <1>8
            <4>2. u[c][j + 2 - 1] = set[2] BY <4>1, <1>0, <1>a
            <4>3. IsFile(u[c][j + 2 - 1]) BY <4>1, <1>8
            <4>4. IsFile(set[2]) BY <4>2, <4>3
            <4>5. QED BY <4>4, <1>1 DEF IsFile
        <3>3. k \in {1, 2, 3, 4}
            <4>1. k \in 1 .. m OBVIOUS
            <4> HIDE DEF m
            <4>2. QED BY <4>1, <1>1
        <3>4. QED BY <3>1, <3>2, <3>3
    <2>2. x - 2 = j /\ j + 1 - 1 = j /\ j + 2 - 1 = j + 1 /\ j + 3 - 1 = j + 2 BY <2>1
    <2>3. t[c][j + 1 - 1] = set[1] /\ t[c][j + 2 - 1] = set[2] /\ t[c][j + 3 - 1] = set[3]
        <3>1. 1 < k + 1 /\ 2 < k + 1 /\ 3 < k + 1 BY <2>1
        <3>2. QED BY <3>1, <1>4, <1>a
    <2>4. t[c][j] = set[1] /\ t[c][j + 1] = set[2] /\ t[c][j + 2] = set[3]
        BY <2>2, <2>3
    <2>5. a[1] = c /\ a[2] = j /\ a = <<c, j>> BY <2>2, <1>8
    <2>6. QED BY <2>4, <2>5, <1>1 DEF DirOf, FirstOf, NameOf
<1> HIDE DEF m
<1>9. ASSUME NEW a \in Sets(t)
      PROVE  \/ Same(t, u, a)
             \/ /\ a = <<c, j>> /\ DirOf(t, a) = dir /\ FirstOf(t, a) = first
                /\ NameOf(t, a) = n
    <2>1. Same(t, u, a) \/ Completes(u, c, x, v, a) BY <1>6, PutSets
    <2>2. QED BY <2>1, <1>8 DEF Completes
<1>10. QED BY <1>9 DEF Plus


LEMMA FillRun ==
    ASSUME NEW n, NEW dir, NEW first, NEW set, EntrySlots(set, n, dir, first),
           NEW c \in Clusters, NEW j \in Nat \ {0}, j + Len(set) - 1 \in Index,
           NEW at, \A k \in 1 .. Len(set) : at[k] = <<c, j + k - 1>>,
           NEW d \in Disks, \A k \in 1 .. Len(set) : ~d.slot[c][j + k - 1].live,
           NEW S, Added(d, <<c, j>>, dir, first, n) \subseteq S
    PROVE  \E x \in Added(d, <<c, j>>, dir, first, n) : Leads(S, d, Fill(at, set), x)
<1> DEFINE m == Len(set)
           s == Fill(at, set)
           f == [k \in 1 .. m |-> WriteSlot(at[k], set[k])]
<1>1. /\ m \in 3 .. 4 /\ m \in Nat
      /\ set[1] \in FileSlots /\ set[2] \in StreamSlots
      /\ \A k \in 3 .. m : set[k] \in NameSlots
    BY DEF EntrySlots
<1>2. \A k \in 1 .. m : j + k - 1 \in Index
    <2> TAKE i \in 1 .. m
    <2>1. j + m - 1 \in 1 .. PerCluster BY DEF Index
    <2>2. m \in Nat /\ PerCluster \in Nat BY <1>1, Sizes
    <2> HIDE DEF m
    <2>3. j + i - 1 \in 1 .. PerCluster BY <2>1, <2>2
    <2>4. QED BY <2>3 DEF Index
<1>3. ASSUME NEW k \in 1 .. m
      PROVE  /\ f[k] \in Writes /\ f[k].op = "slot" /\ f[k].at = <<c, j + k - 1>>
             /\ f[k].val = set[k]
    <2>1. at[k] = <<c, j + k - 1>> OBVIOUS
    <2>a. at[k] \in Addresses
        <3>1. PICK i \in Index : i = j + k - 1 BY <1>2
        <3>2. at[k] = <<c, i>> BY <3>1, <2>1
        <3>3. QED BY <3>2 DEF Addresses
    <2>2. set[k] \in Entries
        <3>1. k = 1 \/ k = 2 \/ k \in 3 .. m BY <1>1
        <3>2. QED BY <3>1, <1>1, KindsOfSlots
    <2>3. PICK a \in Addresses, v \in Entries : a = at[k] /\ v = set[k] BY <2>a, <2>2
    <2>4. f[k] = WriteSlot(a, v) BY <2>3
    <2>5. /\ WriteSlot(a, v) \in Writes /\ WriteSlot(a, v).op = "slot"
          /\ WriteSlot(a, v).at = a /\ WriteSlot(a, v).val = v
        BY SlotWriteTyped
    <2> HIDE DEF f
    <2>6. QED BY <2>1, <2>3, <2>4, <2>5
<1>4. f \in Seq(Writes) /\ Len(f) = m
    <2>1. f \in [1 .. m -> Writes] BY <1>3
    <2> HIDE DEF f, m
    <2>2. QED BY <1>1, <2>1, IsASeq
<1>5. s = f \o << Flush >> BY DEF Fill
<1> HIDE DEF s, f
<1>6. /\ s \in Seq(Writes) /\ Len(s) = m + 1 /\ Len(s) \in Nat
      /\ \A k \in 1 .. m : s[k] = f[k]
      /\ s[m + 1] = Flush
    <2> HIDE DEF m
    <2>1. << Flush >> \in Seq(Writes) /\ Len(<< Flush >>) = 1 /\ << Flush >>[1] = Flush
        BY FlushScript
    <2>2. QED BY <1>1, <1>4, <1>5, <2>1
<1> DEFINE N == Added(d, <<c, j>>, dir, first, n)
           J == [k \in 1 .. m + 2 |-> {x \in N : Filled(x.slot, set, c, j, k)}]
<1>7. d \in N BY WithinItself, WithinPlus DEF Added
<1>8. d \in J[1]
    <2>1. 1 \in 1 .. m + 2 /\ \A i \in 1 .. m : ~(i < 1) BY <1>1
    <2>2. Filled(d.slot, set, c, j, 1) BY <2>1 DEF Filled
    <2> HIDE DEF N
    <2>3. QED BY <2>1, <2>2, <1>7
<1>9. ASSUME NEW k \in 1 .. m + 1, NEW x \in J[k]
      PROVE  Do(x, s[k]) \in J[k + 1]
    <2> DEFINE y == Do(x, s[k])
    <2>1. k \in 1 .. m + 2 /\ k + 1 \in 1 .. m + 2 /\ k \in Nat BY <1>1
    <2>2. x \in N /\ Filled(x.slot, set, c, j, k)
        <3> HIDE DEF N
        <3>1. QED BY <2>1, <1>9
    <2>3. x \in Disks /\ x.fat = d.fat /\ x.bitmap = d.bitmap
          /\ Plus(x.slot, d.slot, <<c, j>>, dir, first, n)
        BY <2>2 DEF Added
    <2>4. s[k] \in Writes BY <1>1, <1>6
    <2>5. y \in Disks /\ y.slot = SlotsBy(x.slot, s[k]) BY <2>3, <2>4, DoTyped, DoFields
    <2>6. SUFFICES y \in N /\ Filled(y.slot, set, c, j, k + 1)
        <3> HIDE DEF N
        <3>1. QED BY <2>1, <2>6
    <2>7. CASE k \in 1 .. m
        <3>1. s[k].op = "slot" /\ s[k].at = <<c, j + k - 1>> /\ s[k].val = set[k]
            BY <2>7, <1>3, <1>6
        <3>2. y.fat = d.fat /\ y.bitmap = d.bitmap BY <3>1, <2>3, DoFields
        <3>3. PICK u, t, w : /\ u = x.slot /\ t = y.slot /\ w = s[k]
                            /\ u \in SlotArrays /\ w \in Writes
            BY <2>3, <2>4, DiskFields
        <3>4. PICK i : i = j + k - 1 OBVIOUS
        <3>5. i \in Index BY <3>4, <2>7, <1>2
        <3>6. t = SlotsBy(u, w) /\ w.op = "slot" /\ w.at = <<c, i>> /\ w.val = set[k]
            BY <3>1, <3>3, <3>4, <2>5
        <3>7. Put(t, u, c, i, w.val)
            <4>1. u \in SlotArrays /\ w \in Writes BY <3>3
            <4>2. Put(SlotsBy(u, w), u, c, i, w.val) BY <4>1, <3>5, <3>6, PutBy
            <4>3. QED BY <4>2, <3>6
        <3>8. Filled(u, set, c, j, k) BY <3>3, <2>2
        <3>9. Plus(t, u, <<c, j>>, dir, first, n) /\ Filled(t, set, c, j, k + 1)
            <4>1. PICK l, v : l = k + 1 /\ v = set[k] OBVIOUS
            <4>2. k \in 1 .. Len(set) /\ Len(set) \in Nat BY <2>7, <1>1
            <4>3. v = set[k] /\ Put(t, u, c, i, v) BY <3>6, <3>7, <4>1
            <4>4. Filled(t, set, c, j, l) BY <3>4, <3>5, <3>8, <4>1, <4>2, <4>3, FillMore
            <4>5. Plus(t, u, <<c, j>>, dir, first, n)
                BY <3>4, <3>5, <3>8, <4>2, <4>3, FillPlus
            <4>6. QED BY <4>1, <4>4, <4>5
        <3>10. Plus(y.slot, d.slot, <<c, j>>, dir, first, n)
            BY <3>3, <3>9, <2>3, PlusChain
        <3> HIDE DEF y, m
        <3>11. y \in N BY <3>2, <3>10, <2>5 DEF Added
        <3>12. QED BY <3>3, <3>9, <3>11
    <2>8. CASE k = m + 1
        <3>1. s[k].op = "flush" BY <2>8, <1>6, OtherWritesTyped
        <3>2. y.fat = d.fat /\ y.bitmap = d.bitmap /\ y.slot = x.slot BY <3>1, <2>3, DoFields
        <3> HIDE DEF y, m
        <3>3. y \in N BY <3>2, <2>3, <2>5 DEF Added
        <3>4. \A i \in 1 .. m : i < k /\ i < k + 1 BY <2>8, <1>1
        <3>5. Filled(x.slot, set, c, j, k + 1) BY <3>4, <2>2 DEF Filled, m
        <3>6. QED BY <3>2, <3>3, <3>5
    <2>9. QED BY <2>7, <2>8, <1>1
<1>10. \A k \in 1 .. Len(s) + 1 : J[k] \subseteq S
    <2>1. Len(s) + 1 = m + 2 BY <1>1, <1>6
    <2>2. \A k \in 1 .. m + 2 : J[k] \subseteq N
        <3> HIDE DEF N
        <3>1. QED OBVIOUS
    <2> HIDE DEF J
    <2>3. QED BY <2>1, <2>2
<1>11. \E x \in J[Len(s) + 1] : Leads(S, d, s, x)
    <2>1. \A k \in 1 .. Len(s) : \A x \in J[k] : Do(x, s[k]) \in J[k + 1]
        <3>1. 1 .. Len(s) = 1 .. m + 1 BY <1>6
        <3> HIDE DEF J
        <3>2. QED BY <3>1, <1>9
    <2> HIDE DEF J
    <2>2. QED BY <2>1, <1>6, <1>8, <1>10, LeadsThrough
<1>12. \A x \in J[Len(s) + 1] : x \in N
    <2>1. Len(s) + 1 = m + 2 /\ m + 2 \in 1 .. m + 2 BY <1>1, <1>6
    <2> HIDE DEF N, s, m
    <2>2. QED BY <2>1
<1>13. QED
    <2> HIDE DEF J
    <2>1. QED BY <1>11, <1>12 DEF s

LEMMA FlushLeads ==
    ASSUME NEW S, NEW d \in S, d \in Disks
    PROVE  Leads(S, d, << Flush >>, d)
<1>1. Flush.op = "flush" BY OtherWritesTyped
<1>2. Do(d, Flush) = d
    <2>1. /\ Do(d, Flush).slot = d.slot /\ Do(d, Flush).fat = d.fat
          /\ Do(d, Flush).bitmap = d.bitmap
        BY <1>1, DoFields
    <2>2. Flush \in Writes BY OtherWritesTyped
    <2>3. Do(d, Flush) \in Disks BY <2>2, DoTyped
    <2>4. QED BY <2>1, <2>3 DEF Disks
<1>3. QED BY <1>2, LeadsOne

LEMMA ScriptOfOne ==
    ASSUME NEW a \in Writes
    PROVE  << a >> \in Seq(Writes)
OBVIOUS

LEMMA ScriptOfTwo ==
    ASSUME NEW a \in Writes, NEW b \in Writes
    PROVE  << a, b >> \in Seq(Writes)
OBVIOUS

LEMMA Joined ==
    ASSUME NEW S, NEW s \in Seq(S), NEW t \in Seq(S)
    PROVE  /\ s \o t \in Seq(S) /\ Len(s \o t) = Len(s) + Len(t)
           /\ \A i \in 1 .. Len(s) : (s \o t)[i] = s[i]
           /\ \A i \in 1 .. Len(t) : (s \o t)[Len(s) + i] = t[i]
OBVIOUS

LEMMA FiveWrites ==
    ASSUME NEW a \in Writes, NEW b \in Writes, NEW c \in Writes, NEW d \in Writes,
           NEW e \in Writes
    PROVE  (<< a, b >> \o << c >>) \o << d, e >> = << a, b, c, d, e >>
<1> DEFINE s == << a, b >>
           t == << c >>
           u == << d, e >>
           r == << a, b, c, d, e >>
           v == s \o t
           w == v \o u
<1>1. /\ s \in Seq(Writes) /\ Len(s) = 2 /\ s[1] = a /\ s[2] = b
      /\ t \in Seq(Writes) /\ Len(t) = 1 /\ t[1] = c
      /\ u \in Seq(Writes) /\ Len(u) = 2 /\ u[1] = d /\ u[2] = e
      /\ r \in Seq(Writes) /\ Len(r) = 5
      /\ r[1] = a /\ r[2] = b /\ r[3] = c /\ r[4] = d /\ r[5] = e
    OBVIOUS
<1> HIDE DEF s, t, u, r
<1>a. s \in Seq(Writes) /\ t \in Seq(Writes) /\ u \in Seq(Writes) BY <1>1
<1>2. /\ v \in Seq(Writes) /\ Len(v) = Len(s) + Len(t)
      /\ \A i \in 1 .. Len(s) : v[i] = s[i]
      /\ \A i \in 1 .. Len(t) : v[Len(s) + i] = t[i]
    BY <1>a, Joined
<1> HIDE DEF v
<1>3. v \in Seq(Writes) /\ Len(v) = 3 /\ v[1] = a /\ v[2] = b /\ v[3] = c
    <2>1. 1 \in 1 .. 2 /\ 2 \in 1 .. 2 /\ 1 \in 1 .. 1 /\ 2 + 1 = 3 OBVIOUS
    <2>2. QED BY <2>1, <1>1, <1>2
<1>b. v \in Seq(Writes) BY <1>3
<1>4. /\ w \in Seq(Writes) /\ Len(w) = Len(v) + Len(u)
      /\ \A i \in 1 .. Len(v) : w[i] = v[i]
      /\ \A i \in 1 .. Len(u) : w[Len(v) + i] = u[i]
    BY <1>a, <1>b, Joined
<1> HIDE DEF w
<1>5. \A i \in 1 .. 5 : w[i] = r[i]
    <2>1. /\ 1 \in 1 .. 3 /\ 2 \in 1 .. 3 /\ 3 \in 1 .. 3 /\ 3 + 1 = 4 /\ 3 + 2 = 5
          /\ 1 \in 1 .. 2 /\ 2 \in 1 .. 2
        OBVIOUS
    <2>2. w[1] = a /\ w[2] = b /\ w[3] = c /\ w[4] = d /\ w[5] = e
        BY <2>1, <1>1, <1>3, <1>4
    <2>3. \A i \in 1 .. 5 : i \in {1, 2, 3, 4, 5} OBVIOUS
    <2>4. QED BY <2>2, <2>3, <1>1
<1>6. Len(w) = 5 BY <1>1, <1>3, <1>4
<1>7. w = r
    <2>1. w \in Seq(Writes) /\ r \in Seq(Writes) BY <1>1, <1>4
    <2>2. Len(w) = Len(r) BY <1>1, <1>6
    <2>3. \A i \in 1 .. Len(w) : w[i] = r[i] BY <1>5, <1>6
    <2> HIDE DEF r
    <2>4. QED BY <2>1, <2>2, <2>3, SeqEqual
<1>8. QED BY <1>7 DEF w, v, s, t, u, r

(* The new length of a directory that grew. *)
LEMMA RecordRun ==
    ASSUME SlotTyped, SlotsInv, NEW m, NEW h, HandleAt(h, m), h.entry # None,
           NEW d \in Disks, NEW own \in Owners, NEW pos \in Owners, Kept(d, own, pos),
           NEW apart \in BOOLEAN, apart => Apart(d),
           NEW b \in Clusters, h.entry.at[1][1] = b,
           \A i \in Index : d.slot[b][i] = slot[b][i]
    PROVE  \E x \in Near(d, own, pos, {}) :
              /\ Leads(Kempt(apart), d, RecordGrowth(h), x)
              /\ \A c \in Clusters \ {b} : \A i \in Index : x.slot[c][i] = d.slot[c][i]
<1> DEFINE e == h.entry
           len == e.len + PerCluster
           s == RewriteStream(e, len)
<1>1. e \in EntryLocs /\ m \in Names /\ HitAt(e, m) /\ len \in Nat
    BY Sizes DEF HandleAt, EntryLocs
<1>2. RecordGrowth(h) = Append(s, Flush) BY DEF RecordGrowth
<1> HIDE DEF e, len
<1>3. s \in Seq(Writes)
    <2>1. Script({}, s) BY <1>1, RewriteFacts
    <2>2. QED BY <2>1 DEF Script
<1>4. NameEntries(m) \in 1 .. 2 BY DEF NameEntries
<1>5. PICK c \in Clusters, j \in Index :
          /\ j + NameEntries(m) + 1 \in Index
          /\ \A k \in 1 .. NameEntries(m) + 2 : e.at[k] = <<c, j + k - 1>>
          /\ IsFile(slot[c][j]) /\ slot[c][j + 1].type = "stream"
    BY <1>1 DEF HitAt
<1>6. e.at[1] = <<c, j>> /\ e.at[2] = <<c, j + 1>> /\ j + 1 \in Index
    <2>1. 1 \in 1 .. NameEntries(m) + 2 /\ 2 \in 1 .. NameEntries(m) + 2 BY <1>4
    <2>2. j + 1 - 1 = j /\ j + 2 - 1 = j + 1 /\ j \in Nat BY DEF Index
    <2>3. e.at[1] = <<c, j + 1 - 1>> /\ e.at[2] = <<c, j + 2 - 1>> BY <2>1, <1>5
    <2>4. j + 1 \in Index BY <1>4, <1>5, Sizes DEF Index
    <2>5. QED BY <2>2, <2>3, <2>4
<1>7. c = b BY <1>6 DEF e
<1>8. PICK x \in Near(d, own, pos, {}) :
          /\ Leads(Kempt(apart), d, s, x)
          /\ \A a \in Clusters \ {b} : \A i \in Index : x.slot[a][i] = d.slot[a][i]
    <2>1. d.slot[b][j] = slot[b][j] /\ d.slot[b][j + 1] = slot[b][j + 1] BY <1>6
    <2>2. QED BY <2>1, <1>1, <1>3, <1>5, <1>6, <1>7, RewriteRun
<1>9. x \in Disks /\ x \in Kempt(apart) BY NearKempt DEF Near
<1>10. Leads(Kempt(apart), x, << Flush >>, x) BY <1>9, FlushLeads
<1>11. Leads(Kempt(apart), d, s \o << Flush >>, x)
    <2>1. << Flush >> \in Seq(Writes) BY FlushScript
    <2> HIDE DEF s
    <2>2. QED BY <2>1, <1>3, <1>8, <1>10, LeadsOn
<1>12. Append(s, Flush) = s \o << Flush >>
    <2>1. Flush \in Writes BY OtherWritesTyped
    <2> HIDE DEF s
    <2>2. QED BY <2>1, <1>3, AppendIsConcat
<1>13. QED BY <1>2, <1>8, <1>11, <1>12

(* x is d after a directory has grown by cluster c. *)
Grown(x, d, c, own, o, p, root) ==
    /\ x \in Disks /\ Kept(x, o, p) /\ Within(x.slot, d.slot)
    /\ \A i \in Index : ~x.slot[c][i].live
    /\ \A b \in Clusters \ {c} : o[b] = own[b]
    /\ \A b \in Clusters \ {c} :
          own[b] \notin Alive(d.slot) => x.fat[b] = d.fat[b] /\ x.bitmap[b] = d.bitmap[b]
    /\ root => \A b \in Clusters \ {c} : \A i \in Index : x.slot[b][i] = d.slot[b][i]

LEMMA GrowRun ==
    ASSUME SlotTyped, SlotsInv, NEW m, NEW h, HandleAt(h, m),
           NEW own \in Owners, NEW pos \in Owners, Kept(Disk, own, pos), h.first \in Alive(slot),
           NEW d \in Disks, Kept(d, own, pos), h.first \in Alive(d.slot),
           NEW apart \in BOOLEAN, apart => Apart(d),
           h.entry # None => d = Disk /\ own[h.entry.at[1][1]] \in Alive(slot),
           NEW c \in Clusters, own[c] \notin Alive(d.slot)
    PROVE  \E o, p \in Owners : \E x : /\ Grown(x, d, c, own, o, p, h.entry = None)
                                       /\ Leads(Kempt(apart), d, Grow(h, c), x)
<1> DEFINE K == Kempt(apart)
           ch == Chain(h.first)
           l == ch[Len(ch)]
           r == RecordGrowth(h)
           s1 == Take(c)
           s2 == Link(l, c)
           s3 == Blank(c)
<1>1. l \in Clusters /\ own[l] = h.first
    <2>1. Path(own, pos, h.first, ch) BY ChainKept
    <2> HIDE DEF ch
    <2>2. ch \in Seq(Clusters) /\ Len(ch) \in 1 .. Len(ch) /\ own[ch[Len(ch)]] = h.first
        BY <2>1 DEF Path, Chains
    <2>3. QED BY <2>2
<1>2. /\ SetBit(c, TRUE) \in Writes /\ SetFat(c, END_OF_CHAIN) \in Writes
      /\ SetFat(l, c) \in Writes /\ ZeroCluster(c) \in Writes /\ Flush \in Writes
    BY <1>1, OtherWritesTyped
<1>3. s1 \in Seq(Writes) /\ s2 \in Seq(Writes) /\ s3 \in Seq(Writes)
    BY <1>2, ScriptOfOne, ScriptOfTwo DEF Take, Link, Blank
<1>b. Grow(h, c) = ((s1 \o s2) \o s3) \o r
    <2>1. Grow(h, c) = << SetBit(c, TRUE), SetFat(c, END_OF_CHAIN), SetFat(l, c),
                          ZeroCluster(c), Flush >> \o r
        BY DEF Grow
    <2>2. (s1 \o s2) \o s3 = << SetBit(c, TRUE), SetFat(c, END_OF_CHAIN), SetFat(l, c),
                                ZeroCluster(c), Flush >>
        <3> DEFINE a == SetBit(c, TRUE)
                   b == SetFat(c, END_OF_CHAIN)
                   f == SetFat(l, c)
                   z == ZeroCluster(c)
        <3>1. a \in Writes /\ b \in Writes /\ f \in Writes /\ z \in Writes /\ Flush \in Writes
            BY <1>2
        <3>2. s1 = << a, b >> /\ s2 = << f >> /\ s3 = << z, Flush >>
            BY DEF Take, Link, Blank
        <3> HIDE DEF a, b, f, z, s1, s2, s3
        <3>3. (<< a, b >> \o << f >>) \o << z, Flush >> = << a, b, f, z, Flush >>
            BY <3>1, FiveWrites
        <3>4. QED BY <3>2, <3>3 DEF a, b, f, z
    <2> HIDE DEF s1, s2, s3, r, l
    <2>3. QED BY <2>1, <2>2
<1> HIDE DEF l, ch
<1>4. PICK x1 \in Near(d, own, pos, {c}) :
          /\ Leads(K, d, s1, x1)
          /\ x1.slot = d.slot /\ x1.bitmap[c] /\ x1.fat[c] = END_OF_CHAIN
    BY TakeRun
<1>5. /\ x1 \in Disks /\ Kept(x1, own, pos) /\ (apart => Apart(x1))
      /\ \A b \in Clusters \ {c} : x1.fat[b] = d.fat[b] /\ x1.bitmap[b] = d.bitmap[b]
    BY <1>4 DEF Near, Apart
<1> HIDE DEF K, s1, s2, s3
<1>a. PICK o \in Owners, p \in Owners : \E x2 \in Near(x1, o, p, {l}) :
          /\ Leads(K, x1, s2, x2)
          /\ x2.slot = x1.slot /\ x2.bitmap = x1.bitmap
          /\ \A b \in Clusters \ {c} : o[b] = own[b]
    <2>1. own[l] \in Alive(x1.slot) /\ own[c] \notin Alive(x1.slot) BY <1>1, <1>4
    <2>2. PICK y, k, a : y = x1 /\ k = l /\ a = apart /\ y \in Disks /\ k \in Clusters /\ a \in BOOLEAN
        BY <1>1, <1>5
    <2>3. /\ Kept(y, own, pos) /\ (a => Apart(y)) /\ own[k] \in Alive(y.slot)
          /\ own[c] \notin Alive(y.slot) /\ y.bitmap[c] /\ y.fat[c] = END_OF_CHAIN
        BY <2>1, <2>2, <1>4, <1>5
    <2>4. \E q, r1 \in Owners : \E x \in Near(y, q, r1, {k}) :
              /\ Leads(Kempt(a), y, Link(k, c), x)
              /\ x.slot = y.slot /\ x.bitmap = y.bitmap
              /\ \A b \in Clusters \ {c} : q[b] = own[b]
        BY <2>2, <2>3, LinkRun, SMTT(60)
    <2>5. QED BY <2>2, <2>4 DEF K, s2
<1>6. PICK x2 \in Near(x1, o, p, {l}) :
          /\ Leads(K, x1, s2, x2)
          /\ x2.slot = x1.slot /\ x2.bitmap = x1.bitmap
          /\ \A b \in Clusters \ {c} : o[b] = own[b]
    BY <1>a
<1>7. /\ x2 \in Disks /\ Kept(x2, o, p) /\ (apart => Apart(x2))
      /\ \A b \in Clusters \ {l} : x2.fat[b] = x1.fat[b]
    BY <1>5, <1>6 DEF Near, Apart
<1>8. PICK x3 \in Near(x2, o, p, {}) :
          /\ Leads(K, x2, s3, x3)
          /\ \A b \in Clusters : \A i \in Index :
                x3.slot[b][i] = IF b = c THEN EndSlot ELSE x2.slot[b][i]
    BY <1>7, BlankRun DEF K, s3
<1>9. /\ x3 \in Disks /\ Kept(x3, o, p) /\ (apart => Apart(x3)) /\ Within(x3.slot, d.slot)
      /\ \A b \in Clusters : x3.fat[b] = x2.fat[b] /\ x3.bitmap[b] = x2.bitmap[b]
    BY <1>4, <1>6, <1>7, <1>8, ApartWithin DEF Near
<1>10. Leads(K, d, (s1 \o s2) \o s3, x3)
    <2>1. Leads(K, d, s1 \o s2, x2) BY <1>3, <1>4, <1>6, LeadsOn
    <2>2. s1 \o s2 \in Seq(Writes) BY <1>3
    <2>3. QED BY <2>1, <2>2, <1>3, <1>8, LeadsOn
<1>11. Grown(x3, d, c, own, o, p, TRUE)
    <2>1. \A i \in Index : ~x3.slot[c][i].live BY <1>8 DEF EndSlot
    <2>2. \A b \in Clusters \ {c} : \A i \in Index : x3.slot[b][i] = d.slot[b][i]
        BY <1>4, <1>6, <1>8
    <2>3. ASSUME NEW b \in Clusters \ {c}, own[b] \notin Alive(d.slot)
          PROVE  x3.fat[b] = d.fat[b] /\ x3.bitmap[b] = d.bitmap[b]
        <3>1. b # l BY <2>3, <1>1
        <3>2. QED BY <3>1, <1>5, <1>6, <1>7, <1>9
    <2>4. QED BY <2>1, <2>2, <2>3, <1>6, <1>9 DEF Grown
<1>12. CASE h.entry = None
    <2>1. r = << >> BY <1>12 DEF RecordGrowth
    <2>2. ((s1 \o s2) \o s3) \o r = (s1 \o s2) \o s3 BY <2>1, <1>3
    <2>3. Grown(x3, d, c, own, o, p, h.entry = None) BY <1>11 DEF Grown
    <2>4. QED BY <2>2, <2>3, <1>b, <1>10 DEF K
<1>13. CASE h.entry # None
    <2> DEFINE b == h.entry.at[1][1]
    <2>1. b \in Clusters
        <3>1. h.entry \in EntryLocs /\ m \in Names /\ HitAt(h.entry, m) BY <1>13 DEF HandleAt
        <3>2. h.entry.at \in Seq(Addresses) /\ Len(h.entry.at) >= 1
            <4>1. NameEntries(m) \in 1 .. 2 BY DEF NameEntries
            <4>2. QED BY <3>1, <4>1 DEF EntryLocs, HitAt
        <3>3. h.entry.at[1] \in Addresses BY <3>2
        <3>4. QED BY <3>3 DEF Addresses
    <2>2. b # c
        <3>1. Disk.slot = slot BY DEF Disk
        <3>2. QED BY <3>1, <1>13
    <2> HIDE DEF b
    <2>3. \A i \in Index : x3.slot[b][i] = slot[b][i]
        <3>1. d.slot = slot BY <1>13 DEF Disk
        <3>2. QED BY <3>1, <2>1, <2>2, <1>11 DEF Grown
    <2>4. PICK x4 \in Near(x3, o, p, {}) :
              /\ Leads(K, x3, r, x4)
              /\ \A a \in Clusters \ {b} : \A i \in Index : x4.slot[a][i] = x3.slot[a][i]
        <3>1. h.entry.at[1][1] = b BY DEF b
        <3>2. QED BY <3>1, <2>1, <2>3, <1>9, <1>13, RecordRun DEF K
    <2>5. r \in Seq(Writes)
        <3>1. h.entry \in EntryLocs /\ m \in Names /\ HitAt(h.entry, m) BY <1>13 DEF HandleAt
        <3>2. h.entry.len + PerCluster \in Nat BY <3>1, Sizes DEF EntryLocs
        <3>3. Script({}, RewriteStream(h.entry, h.entry.len + PerCluster))
            BY <3>1, <3>2, RewriteFacts
        <3>4. RewriteStream(h.entry, h.entry.len + PerCluster) \in Seq(Writes)
            BY <3>3 DEF Script
        <3>5. Flush \in Writes BY OtherWritesTyped
        <3>6. QED BY <3>4, <3>5, <1>13 DEF RecordGrowth
    <2>6. Leads(K, d, ((s1 \o s2) \o s3) \o r, x4)
        <3>1. (s1 \o s2) \o s3 \in Seq(Writes) BY <1>3
        <3> HIDE DEF r
        <3>2. QED BY <3>1, <2>4, <2>5, <1>10, LeadsOn
    <2>7. Grown(x4, d, c, own, o, p, h.entry = None)
        <3>1. /\ x4 \in Disks /\ Kept(x4, o, p) /\ Within(x4.slot, x3.slot)
              /\ \A a \in Clusters : x4.fat[a] = x3.fat[a] /\ x4.bitmap[a] = x3.bitmap[a]
            BY <2>4 DEF Near
        <3>2. Within(x4.slot, d.slot) BY <3>1, <1>9, WithinChain
        <3>3. \A i \in Index : ~x4.slot[c][i].live BY <2>2, <2>4, <1>11 DEF Grown
        <3>4. QED BY <3>1, <3>2, <3>3, <1>11, <1>13 DEF Grown
    <2>8. QED BY <2>6, <2>7, <1>b DEF K
<1>14. QED BY <1>12, <1>13

-----------------------------------------------------------------------------
(* place_entry_set *)

(* An entry that locate finds is in the chain it searched. *)
LEMMA LocateOwn ==
    ASSUME SlotTyped, SlotsInv, NEW own \in Owners, NEW pos \in Owners, Kept(Disk, own, pos),
           NEW first \in Alive(slot), NEW n \in Names, Locate(first, n) # None
    PROVE  own[Locate(first, n).at[1][1]] = first
<1> DEFINE ch == Chain(first)
           e == Locate(first, n)
<1>1. first \in Clusters
    <2>1. Disk.slot = slot BY DEF Disk
    <2>2. QED BY <2>1, AliveClusters
<1>2. Path(own, pos, first, ch) BY ChainKept
<1>3. \E q \in 1 .. Len(ch) : e.at[1][1] = ch[q] BY <1>1, LocateFacts
<1> HIDE DEF ch, e
<1>4. own[e.at[1][1]] = first BY <1>2, <1>3 DEF Path
<1>5. QED BY <1>4 DEF e

(* The directory whose set is written is there already, or its cluster has
   been taken for it. *)
Homed(d, own, first, apart) ==
    /\ first \in Clusters \ {RootCluster}
    /\ \/ first \in Alive(d.slot)
       \/ own[first] \notin Alive(d.slot) /\ d.bitmap[first] /\ d.fat[first] = END_OF_CHAIN
    /\ apart => first \notin Alive(d.slot)

LEMMA GrownHomed ==
    ASSUME NEW x, NEW d \in Disks, NEW c \in Clusters, NEW own, NEW o, NEW p,
           Grown(x, d, c, own, o, p, TRUE), NEW first, first # c,
           NEW apart, Homed(d, own, first, apart),
           first \in Alive(d.slot) =>
               \E a \in Heads(d.slot) : FirstOf(d.slot, a) = first /\ a[1] # c
    PROVE  Homed(x, o, first, apart)
<1>1. /\ Within(x.slot, d.slot) /\ \A b \in Clusters \ {c} : o[b] = own[b]
      /\ \A b \in Clusters \ {c} :
            own[b] \notin Alive(d.slot) => x.fat[b] = d.fat[b] /\ x.bitmap[b] = d.bitmap[b]
      /\ \A b \in Clusters \ {c} : \A i \in Index : x.slot[b][i] = d.slot[b][i]
    BY DEF Grown
<1>2. Alive(x.slot) \subseteq Alive(d.slot) BY <1>1, HeadsWithin
<1>3. first \in Clusters \ {RootCluster} /\ (apart => first \notin Alive(x.slot))
    BY <1>2 DEF Homed
<1>4. CASE first \in Alive(d.slot)
    <2>1. PICK a \in Heads(d.slot) : FirstOf(d.slot, a) = first /\ a[1] # c BY <1>4
    <2>2. PICK b \in Clusters, i \in Index : a = <<b, i>>
        BY <2>1 DEF Heads, Sets, Addresses
    <2>3. a[1] = b /\ a[2] = i /\ b # c /\ a \in Addresses BY <2>1, <2>2 DEF Addresses
    <2>4. i + 1 \in Index /\ i + 2 \in Index
        <3>1. a[2] + 2 \in Index BY <2>1 DEF Heads, Sets, IsSet
        <3>2. QED BY <3>1, <2>3, Sizes DEF Index
    <2>5. /\ x.slot[b][i] = d.slot[b][i] /\ x.slot[b][i + 1] = d.slot[b][i + 1]
          /\ x.slot[b][i + 2] = d.slot[b][i + 2]
        BY <2>3, <2>4, <1>1
    <2>6. IsSet(d.slot, a) /\ DirOf(d.slot, a) BY DEF Heads, Sets
    <2>7. IsSet(x.slot, a) /\ DirOf(x.slot, a) /\ FirstOf(x.slot, a) = first
        BY <2>1, <2>3, <2>5, <2>6 DEF IsSet, DirOf, FirstOf
    <2>8. a \in Heads(x.slot) BY <2>3, <2>7 DEF Heads, Sets
    <2>9. first \in Alive(x.slot) BY <2>7, <2>8 DEF Alive
    <2>10. QED BY <2>9, <1>3 DEF Homed
<1>5. CASE first \notin Alive(d.slot)
    <2>1. own[first] \notin Alive(d.slot) /\ d.bitmap[first] /\ d.fat[first] = END_OF_CHAIN
        BY <1>5 DEF Homed
    <2>2. o[first] = own[first] /\ x.fat[first] = d.fat[first] /\ x.bitmap[first] = d.bitmap[first]
        BY <2>1, <1>1, <1>3
    <2>3. QED BY <2>1, <2>2, <1>2, <1>3 DEF Homed
<1>6. QED BY <1>4, <1>5

(* The addresses of at are free slots in a row. *)
Spot(d, at, set, c, j) ==
    /\ j + Len(set) - 1 \in Index
    /\ \A k \in 1 .. Len(set) : at[k] = <<c, j + k - 1>>
    /\ \A k \in 1 .. Len(set) : ~d.slot[c][j + k - 1].live

(* A set of name n can be added to a kept disk. *)
Ready(d, own, pos, apart, n, dir, first) ==
    /\ n \in Names /\ dir \in BOOLEAN /\ (dir <=> n \in Dirs)
    /\ d \in Disks /\ own \in Owners /\ pos \in Owners /\ Kept(d, own, pos)
    /\ apart \in BOOLEAN /\ (apart => Apart(d))
    /\ dir => Homed(d, own, first, apart)

(* An entry set is filled in on a kept disk. *)
LEMMA FillKept ==
    ASSUME NEW d, NEW own, NEW pos, NEW apart, NEW n, NEW dir, NEW first,
           Ready(d, own, pos, apart, n, dir, first), NEW set, EntrySlots(set, n, dir, first),
           NEW c \in Clusters, NEW j \in Index, NEW at, Spot(d, at, set, c, j)
    PROVE  \E g, x : /\ x \in Disks /\ Plus(x.slot, d.slot, g, dir, first, n)
                     /\ Leads(Kempt(apart), d, Fill(at, set), x)
<1>1. /\ n \in Names /\ dir \in BOOLEAN /\ (dir <=> n \in Dirs)
      /\ d \in Disks /\ own \in Owners /\ pos \in Owners /\ Kept(d, own, pos)
      /\ apart \in BOOLEAN /\ (apart => Apart(d)) /\ (dir => Homed(d, own, first, apart))
    BY DEF Ready
<1> DEFINE N == Added(d, <<c, j>>, dir, first, n)
<1>2. N \subseteq Kempt(apart)
    <2>1. dir => /\ first \in Clusters \ {RootCluster}
                 /\ \/ first \in Alive(d.slot)
                    \/ own[first] \notin Alive(d.slot) /\ d.bitmap[first]
                       /\ d.fat[first] = END_OF_CHAIN
                 /\ apart => first \notin Alive(d.slot)
        BY <1>1 DEF Homed
    <2>2. QED BY <2>1, <1>1, AddedKempt
<1>3. j \in Nat \ {0} BY Sizes DEF Index
<1>4. \E x \in N : Leads(Kempt(apart), d, Fill(at, set), x)
    <2> PICK S : S = Kempt(apart) OBVIOUS
    <2>1. Added(d, <<c, j>>, dir, first, n) \subseteq S BY <1>2
    <2>2. \E x \in Added(d, <<c, j>>, dir, first, n) : Leads(S, d, Fill(at, set), x)
        BY <2>1, <1>1, <1>3, FillRun DEF Spot
    <2>3. QED BY <2>2
<1>5. \A x \in N : x \in Disks /\ Plus(x.slot, d.slot, <<c, j>>, dir, first, n) BY DEF Added
<1> HIDE DEF N
<1>6. QED BY <1>4, <1>5

(* What PlaceRun asks for. *)
Placeable(m, h, own, pos, d, apart, n, dir, first, len, set, taken) ==
    /\ HandleAt(h, m) /\ own \in Owners /\ pos \in Owners
    /\ Kept(Disk, own, pos) /\ h.first \in Alive(slot)
    /\ d \in Disks /\ Kept(d, own, pos) /\ h.first \in Alive(d.slot)
    /\ apart \in BOOLEAN /\ (apart => Apart(d))
    /\ h.entry # None => d = Disk /\ own[h.entry.at[1][1]] \in Alive(slot)
    /\ n \in Names /\ dir \in BOOLEAN /\ first \in Clusters \cup {0} /\ len \in Nat
    /\ (dir <=> n \in Dirs)
    /\ set = EntrySet(n, dir, first, len) /\ Room(h, set, taken)
    /\ \A c \in Clusters : \A i \in Index : d.slot[c][i] \in {slot[c][i], EndSlot}
    /\ \A c \in Clusters \ taken : d.bitmap[c] = bitmap[c]
    /\ dir => /\ h.entry = None /\ Homed(d, own, first, apart)
              /\ IF first \in Alive(d.slot)
                 THEN \E a \in Heads(d.slot) :
                          FirstOf(d.slot, a) = first /\ own[a[1]] \in Alive(d.slot)
                 ELSE first \in taken

LEMMA PlaceRun ==
    ASSUME SlotTyped, SlotsInv, NEW m, NEW h, NEW own, NEW pos, NEW d, NEW apart, NEW n,
           NEW dir, NEW first, NEW len, NEW set, NEW taken,
           Placeable(m, h, own, pos, d, apart, n, dir, first, len, set, taken)
    PROVE  \E g, x : /\ x \in Disks /\ Plus(x.slot, d.slot, g, dir, first, n)
                     /\ Leads(Kempt(apart), d, Place(h, set, taken), x)
<1> SUFFICES
        ASSUME HandleAt(h, m), own \in Owners, pos \in Owners,
               Kept(Disk, own, pos), h.first \in Alive(slot),
               d \in Disks, Kept(d, own, pos), h.first \in Alive(d.slot),
               apart \in BOOLEAN, apart => Apart(d),
               h.entry # None => d = Disk /\ own[h.entry.at[1][1]] \in Alive(slot),
               n \in Names, dir \in BOOLEAN, first \in Clusters \cup {0}, len \in Nat,
               dir <=> n \in Dirs,
               set = EntrySet(n, dir, first, len), Room(h, set, taken),
               \A c \in Clusters : \A i \in Index : d.slot[c][i] \in {slot[c][i], EndSlot},
               \A c \in Clusters \ taken : d.bitmap[c] = bitmap[c],
               dir => /\ h.entry = None /\ Homed(d, own, first, apart)
                      /\ IF first \in Alive(d.slot)
                         THEN \E a \in Heads(d.slot) :
                                  FirstOf(d.slot, a) = first /\ own[a[1]] \in Alive(d.slot)
                         ELSE first \in taken
        PROVE  \E g, x : /\ x \in Disks /\ Plus(x.slot, d.slot, g, dir, first, n)
                         /\ Leads(Kempt(apart), d, Place(h, set, taken), x)
    BY DEF Placeable
<1> DEFINE k == Len(set)
           K == Kempt(apart)
<1>a. EntrySlots(set, n, dir, first) BY EntrySetFacts
<1>1. k = NameEntries(n) + 2 /\ k \in 3 .. 4 /\ k <= PerCluster
    BY <1>a DEF EntrySlots
<1>2. h.first \in Clusters BY DEF HandleAt, Handles
<1>3. CASE Runs(h.first, k) # {}
    <2> DEFINE at == FirstRun(h.first, k)
    <2>1. Place(h, set, taken) = Fill(at, set) BY <1>3 DEF Place
    <2>2. PICK c \in Clusters, j \in Index :
              /\ j + k - 1 \in Index
              /\ \A i \in 1 .. k : at[i] = <<c, j + i - 1>> /\ ~slot[c][j + i - 1].live
              /\ Tame(c, j)
        <3> HIDE DEF k
        <3>1. PICK f \in Clusters, q \in 3 .. 4 : f = h.first /\ q = k BY <1>1, <1>2
        <3>2. Runs(f, q) # {} BY <3>1, <1>3
        <3>3. \E c \in Clusters : \E j \in Index :
                  /\ j + q - 1 \in Index
                  /\ \A i \in 1 .. q : /\ FirstRun(f, q)[i] = <<c, j + i - 1>>
                                      /\ ~slot[c][j + i - 1].live
                  /\ Tame(c, j)
            BY <3>2, FirstRunFacts
        <3>4. QED BY <3>1, <3>3
    <2>3. \A i \in 1 .. k : ~d.slot[c][j + i - 1].live
        <3> TAKE i \in 1 .. k
        <3>1. j + i - 1 \in Index
            <4>1. PerCluster \in Nat /\ k \in Nat BY <1>1, Sizes
            <4> HIDE DEF k
            <4>2. QED BY <4>1, <2>2 DEF Index
        <3>2. PICK y \in Index : y = j + i - 1 BY <3>1
        <3>3. d.slot[c][y] \in {slot[c][y], EndSlot} /\ ~slot[c][y].live BY <3>2, <2>2
        <3>4. ~d.slot[c][y].live BY <3>3 DEF EndSlot
        <3>5. QED BY <3>2, <3>4
    <2> HIDE DEF at
    <2>4. Ready(d, own, pos, apart, n, dir, first) BY DEF Ready
    <2>5. Spot(d, at, set, c, j) BY <2>2, <2>3 DEF Spot
    <2>6. \E g, x : /\ x \in Disks /\ Plus(x.slot, d.slot, g, dir, first, n)
                    /\ Leads(Kempt(apart), d, Fill(at, set), x)
        <3>1. PICK a : a = at OBVIOUS
        <3>2. Spot(d, a, set, c, j) BY <2>5, <3>1
        <3>3. \E g, x : /\ x \in Disks /\ Plus(x.slot, d.slot, g, dir, first, n)
                        /\ Leads(Kempt(apart), d, Fill(a, set), x)
            BY <1>a, <2>4, <3>2, FillKept
        <3>4. QED BY <3>1, <3>3
    <2>7. QED BY <2>1, <2>6
<1>4. CASE Runs(h.first, k) = {}
    <2> DEFINE c == FirstFree(taken)
               at == [i \in 1 .. k |-> <<c, i>>]
    <2>1. FreeClusters(taken) # {} BY <1>4 DEF Room
    <2>2. c \in Clusters /\ c \notin taken /\ ~bitmap[c]
        BY <2>1, FirstFreeTyped DEF FreeClusters
    <2>3. Place(h, set, taken) = Grow(h, c) \o Fill(at, set) BY <1>4 DEF Place
    <2> HIDE DEF c
    <2>4. own[c] \notin Alive(d.slot)
        <3>1. ~d.bitmap[c] BY <2>2
        <3>2. QED BY <3>1, <2>2 DEF Kept
    <2>5. PICK o \in Owners, p \in Owners : \E x :
              /\ Grown(x, d, c, own, o, p, h.entry = None)
              /\ Leads(K, d, Grow(h, c), x)
        BY <2>2, <2>4, GrowRun
    <2>6. PICK y : /\ Grown(y, d, c, own, o, p, h.entry = None)
                   /\ Leads(K, d, Grow(h, c), y)
        BY <2>5
    <2>7. /\ y \in Disks /\ Kept(y, o, p) /\ Within(y.slot, d.slot)
          /\ \A i \in Index : ~y.slot[c][i].live
        BY <2>6 DEF Grown
    <2>8. apart => Apart(y) BY <2>7, ApartWithin
    <2>9. dir => Homed(y, o, first, apart)
        <3> HAVE dir
        <3>1. Homed(d, own, first, apart) /\ Grown(y, d, c, own, o, p, TRUE) BY <2>6 DEF Grown
        <3>2. first # c
            <4>1. first \in Alive(d.slot) => own[first] = first BY DEF Kept
            <4>2. QED BY <4>1, <2>2, <2>4
        <3>3. first \in Alive(d.slot) =>
                  \E a \in Heads(d.slot) : FirstOf(d.slot, a) = first /\ a[1] # c
            BY <2>4
        <3>4. QED BY <3>1, <3>2, <3>3, <2>2, GrownHomed
    <2>10. 1 \in Index /\ 1 + k - 1 \in Index
        <3>1. 1 + k - 1 = k /\ k \in Nat BY <1>1
        <3>2. QED BY <3>1, <1>1, Sizes DEF Index
    <2>11. \A i \in 1 .. k : at[i] = <<c, 1 + i - 1>> /\ ~y.slot[c][1 + i - 1].live
        <3> TAKE i \in 1 .. k
        <3>1. 1 + i - 1 = i /\ i \in Index BY <1>1, Sizes DEF Index
        <3>2. QED BY <3>1, <2>7
    <2> HIDE DEF at
    <2>12. Spot(y, at, set, c, 1) BY <2>10, <2>11 DEF Spot
    <2>a. Ready(y, o, p, apart, n, dir, first) BY <2>7, <2>8, <2>9 DEF Ready
    <2>13. PICK g, x : /\ x \in Disks /\ Plus(x.slot, y.slot, g, dir, first, n)
                       /\ Leads(Kempt(apart), y, Fill(at, set), x)
        <3>1. PICK a, b, j : a = at /\ b = c /\ j = 1 OBVIOUS
        <3>2. Spot(y, a, set, b, j) /\ b \in Clusters /\ j \in Index
            BY <2>2, <2>10, <2>12, <3>1
        <3>3. \E g, x : /\ x \in Disks /\ Plus(x.slot, y.slot, g, dir, first, n)
                        /\ Leads(Kempt(apart), y, Fill(a, set), x)
            BY <1>a, <2>a, <3>2, FillKept
        <3>4. QED BY <3>1, <3>3
    <2>14. Plus(x.slot, d.slot, g, dir, first, n)
        <3>1. Plus(y.slot, d.slot, g, dir, first, n) BY <2>7, WithinPlus
        <3>2. QED BY <3>1, <2>13, PlusChain
    <2>15. Grow(h, c) \in Seq(Writes) BY <2>2, GrowFacts DEF Script
    <2>16. Fill(at, set) \in Seq(Writes)
        <3>1. dir => first \in Clusters BY DEF Homed
        <3>2. 1 + NameEntries(n) + 1 \in Index /\ c \in {c}
            <4>1. NameEntries(n) \in 1 .. 2 BY DEF NameEntries
            <4>2. 1 + NameEntries(n) + 1 = 1 + k - 1
                <5> HIDE DEF k
                <5>1. QED BY <4>1, <1>1
            <4>3. QED BY <4>2, <2>10
        <3>3. \A i \in 1 .. NameEntries(n) + 2 : at[i] = <<c, 1 + i - 1>> BY <2>11, <1>1
        <3>4. Script({c}, Fill(at, EntrySet(n, dir, first, len)))
            BY <3>1, <3>2, <3>3, <2>2, <2>10, FillFacts
        <3>5. QED BY <3>4 DEF Script
    <2>17. Leads(K, d, Grow(h, c) \o Fill(at, set), x)
        <3> HIDE DEF K
        <3>1. Leads(K, y, Fill(at, set), x) BY <2>13 DEF K
        <3>2. QED BY <3>1, <2>6, <2>15, <2>16, LeadsOn
    <2>18. QED BY <2>3, <2>13, <2>14, <2>17
<1>5. QED BY <1>3, <1>4

-----------------------------------------------------------------------------
(* The scripts of the calls *)

Steady(own, pos) ==
    /\ SlotTyped /\ SlotsInv /\ Disk \in Disks /\ own \in Owners /\ pos \in Owners
    /\ Kept(Disk, own, pos) /\ Apart(Disk)
Reaches(h, m, own) ==
    /\ HandleAt(h, m) /\ h.first \in Alive(slot)
    /\ h.entry # None => own[h.entry.at[1][1]] \in Alive(slot)
(* The script s is safe; it ends with one entry set for each directory. *)
Safe(apart, s) == \E x \in Kempt(TRUE) : Leads(Kempt(apart), Disk, s, x)

LEMMA DiskParts == Disk.slot = slot /\ Disk.fat = fat /\ Disk.bitmap = bitmap
BY DEF Disk

LEMMA HitHead ==
    ASSUME NEW n \in Names, NEW e, HitAt(e, n)
    PROVE  /\ e.at[1] \in Sets(slot) /\ DirOf(slot, e.at[1]) = e.dir
           /\ FirstOf(slot, e.at[1]) = e.first /\ NameOf(slot, e.at[1]) = n
           /\ Len(e.at) >= 1
<1> DEFINE m == NameEntries(n)
           a == e.at[1]
<1>1. m \in 1 .. 2 BY DEF NameEntries
<1>2. PICK c \in Clusters, j \in Index :
          /\ j + m + 1 \in Index /\ Len(e.at) = m + 2
          /\ \A k \in 1 .. m + 2 : e.at[k] = <<c, j + k - 1>>
          /\ IsFile(slot[c][j]) /\ slot[c][j + 1].type = "stream"
          /\ \A k \in 1 .. m : slot[c][j + 1 + k] = NameSlot(n, k)
          /\ e.dir = slot[c][j].dir /\ e.first = slot[c][j + 1].first
    BY DEF HitAt
<1> HIDE DEF m
<1>3. j \in Nat /\ j + 2 \in Index BY <1>1, <1>2, Sizes DEF Index
<1>4. e.at[1] = <<c, j>>
    <2>1. 1 \in 1 .. m + 2 /\ j + 1 - 1 = j BY <1>1, <1>3
    <2>2. QED BY <2>1, <1>2
<1>5. slot[c][j + 2] = NameSlot(n, 1)
    <2>1. 1 \in 1 .. m /\ j + 1 + 1 = j + 2 BY <1>1, <1>3
    <2>2. QED BY <2>1, <1>2
<1>6. NameSlot(n, 1).name = n /\ LiveName(NameSlot(n, 1)) BY DEF NameSlot, LiveName
<1>7. a[1] = c /\ a[2] = j /\ a \in Addresses BY <1>4 DEF Addresses
<1> HIDE DEF a
<1>8. a \in Sets(slot) BY <1>2, <1>3, <1>5, <1>6, <1>7 DEF Sets, IsSet
<1>9. DirOf(slot, a) = e.dir /\ FirstOf(slot, a) = e.first /\ NameOf(slot, a) = n
    BY <1>2, <1>5, <1>6, <1>7 DEF DirOf, FirstOf, NameOf
<1>10. Len(e.at) >= 1 BY <1>1, <1>2
<1>11. QED BY <1>8, <1>9, <1>10 DEF a

LEMMA HandleReaches ==
    ASSUME NEW own, NEW pos, Steady(own, pos), NEW m \in Dirs \cup {Root}, DirHandle(m) # None
    PROVE  /\ Reaches(DirHandle(m), m, own)
           /\ m = Root => DirHandle(m).entry = None /\ DirHandle(m).first = RootCluster
<1>0. SlotTyped /\ SlotsInv /\ own \in Owners /\ pos \in Owners /\ Kept(Disk, own, pos)
    BY DEF Steady
<1>1. HandleAt(DirHandle(m), m) BY <1>0, HandleFacts
<1>2. RootCluster \in Alive(slot) BY DEF Alive
<1>3. CASE m = Root
    <2>1. DirHandle(m) = [first |-> RootCluster, entry |-> None] BY <1>3 DEF DirHandle
    <2>2. DirHandle(m).first = RootCluster /\ DirHandle(m).entry = None BY <2>1
    <2>3. QED BY <2>2, <1>1, <1>2 DEF Reaches
<1>4. CASE m # Root
    <2> DEFINE e == Locate(RootCluster, m)
    <2>1. m \in Names BY <1>4 DEF Names
    <2>2. e # None => e \in EntryLocs /\ HitAt(e, m)
        BY <1>0, <2>1, RootIsCluster, LocateFacts
    <2>3. e # None => own[e.at[1][1]] = RootCluster BY <1>0, <1>2, <2>1, LocateOwn
    <2>4. DirHandle(m) = HandleOf[e] BY <1>4 DEF DirHandle
    <2> HIDE DEF e
    <2>5. e \in EntryLocs \cup {None} BY <2>2
    <2>6. HandleOf[e] = IF e # None /\ e.dir THEN [first |-> e.first, entry |-> e] ELSE None
        BY <2>5 DEF HandleOf
    <2>7. e # None /\ e.dir /\ DirHandle(m) = [first |-> e.first, entry |-> e]
        BY <2>4, <2>6
    <2>8. DirHandle(m).first = e.first /\ DirHandle(m).entry = e BY <2>7
    <2>9. e.first \in Alive(slot)
        <3>1. e.at[1] \in Sets(slot) /\ DirOf(slot, e.at[1]) /\ FirstOf(slot, e.at[1]) = e.first
            BY <2>1, <2>2, <2>7, HitHead
        <3>2. QED BY <3>1 DEF Alive, Heads
    <2>10. QED BY <1>1, <1>2, <1>4, <2>3, <2>7, <2>8, <2>9 DEF Reaches
<1>5. QED BY <1>3, <1>4

(* A script that ends with one entry set for each directory. *)
LEMMA SafeScript ==
    ASSUME NEW apart \in BOOLEAN, NEW s \in Seq(Writes), NEW d, d = Disk, NEW x,
           Leads(Kempt(apart), d, s, x), Apart(x)
    PROVE  Safe(apart, s)
<1>1. PICK S : S = Kempt(apart) OBVIOUS
<1>2. Len(s) \in Nat OBVIOUS
<1>3. Leads(S, d, s, x) BY <1>1
<1>4. x \in S BY <1>2, <1>3, LeadsFrom
<1>5. x \in Kempt(TRUE) BY <1>1, <1>4 DEF Kempt
<1>6. QED BY <1>5 DEF Safe
LEMMA KemptApart ==
    ASSUME NEW s \in Seq(Writes), NEW d, NEW x, Leads(Kempt(TRUE), d, s, x)
    PROVE  Apart(x)
<1>1. PICK S : S = Kempt(TRUE) OBVIOUS
<1>2. Len(s) \in Nat OBVIOUS
<1>3. Leads(S, d, s, x) BY <1>1
<1>4. x \in S BY <1>2, <1>3, LeadsFrom
<1>5. QED BY <1>1, <1>4 DEF Kempt

LEMMA CreateRun ==
    ASSUME NEW own, NEW pos, Steady(own, pos), NEW m, NEW h, Reaches(h, m, own),
           NEW n \in Names, n \notin Dirs, NEW set, set = EntrySet(n, FALSE, 0, 0),
           Room(h, set, {})
    PROVE  Safe(TRUE, Place(h, set, {}))
<1>1. /\ SlotTyped /\ SlotsInv /\ own \in Owners /\ pos \in Owners
      /\ Kept(Disk, own, pos) /\ Apart(Disk) /\ Disk \in Disks
      /\ HandleAt(h, m) /\ h.first \in Alive(slot)
      /\ (h.entry # None => own[h.entry.at[1][1]] \in Alive(slot))
    BY DEF Steady, Reaches
<1>2. PICK d : d = Disk OBVIOUS
<1>3. d.slot = slot /\ d.bitmap = bitmap BY <1>2, DiskParts
<1>4. /\ d \in Disks /\ Kept(d, own, pos) /\ Apart(d) /\ h.first \in Alive(d.slot)
      /\ \A c \in Clusters : \A i \in Index : d.slot[c][i] \in {slot[c][i], EndSlot}
      /\ \A c \in Clusters \ {} : d.bitmap[c] = bitmap[c]
    BY <1>1, <1>2, <1>3
<1>5. PICK g, x : /\ x \in Disks /\ Plus(x.slot, d.slot, g, FALSE, 0, n)
                  /\ Leads(Kempt(TRUE), d, Place(h, set, {}), x)
    <2>1. 0 \in Nat /\ TRUE \in BOOLEAN /\ FALSE \in BOOLEAN OBVIOUS
    <2>2. Placeable(m, h, own, pos, d, TRUE, n, FALSE, 0, 0, set, {})
        BY <2>1, <1>1, <1>2, <1>4 DEF Placeable
    <2>3. QED BY <2>2, <1>1, PlaceRun
<1>6. PICK s : s = Place(h, set, {}) OBVIOUS
<1>7. s \in Seq(Writes)
    <2>1. FALSE \in BOOLEAN /\ 0 \in Nat /\ 0 \in Clusters \cup {0} OBVIOUS
    <2>2. Script({}, Place(h, EntrySet(n, FALSE, 0, 0), {})) BY <2>1, <1>1, PlaceFacts
    <2>3. QED BY <1>6, <2>2 DEF Script
<1>8. Apart(x) BY <1>5, <1>6, <1>7, KemptApart
<1>9. Safe(TRUE, s)
    <2>1. Leads(Kempt(TRUE), d, s, x) BY <1>5, <1>6
    <2>2. QED BY <2>1, <1>2, <1>7, <1>8, SafeScript
<1>10. QED BY <1>6, <1>9

LEMMA UpdateRun ==
    ASSUME NEW own, NEW pos, Steady(own, pos), NEW n \in Names, NEW e \in EntryLocs, HitAt(e, n),
           NEW len \in Nat
    PROVE  Safe(TRUE, RewriteStream(e, len) \o << Flush >>)
<1> DEFINE s == RewriteStream(e, len)
           t == << Flush >>
<1>1. /\ SlotTyped /\ SlotsInv /\ own \in Owners /\ pos \in Owners
      /\ Kept(Disk, own, pos) /\ Apart(Disk) /\ Disk \in Disks
    BY DEF Steady
<1>2. PICK d : d = Disk OBVIOUS
<1>3. d.slot = slot /\ d \in Disks /\ Kept(d, own, pos) /\ Apart(d) BY <1>1, <1>2, DiskParts
<1>4. s \in Seq(Writes) BY <1>1, RewriteFacts DEF Script
<1>5. NameEntries(n) \in 1 .. 2 BY DEF NameEntries
<1>6. PICK c \in Clusters, j \in Index :
          /\ j + NameEntries(n) + 1 \in Index
          /\ \A k \in 1 .. NameEntries(n) + 2 : e.at[k] = <<c, j + k - 1>>
          /\ IsFile(slot[c][j]) /\ slot[c][j + 1].type = "stream"
    BY DEF HitAt
<1>7. e.at[1] = <<c, j>> /\ e.at[2] = <<c, j + 1>> /\ j + 1 \in Index
    <2>1. 1 \in 1 .. NameEntries(n) + 2 /\ 2 \in 1 .. NameEntries(n) + 2 BY <1>5
    <2>2. j + 1 - 1 = j /\ j + 2 - 1 = j + 1 /\ j \in Nat BY DEF Index
    <2>3. e.at[1] = <<c, j + 1 - 1>> /\ e.at[2] = <<c, j + 2 - 1>> BY <2>1, <1>6
    <2>4. j + 1 \in Index BY <1>5, <1>6, Sizes DEF Index
    <2>5. QED BY <2>2, <2>3, <2>4
<1>8. PICK x \in Near(d, own, pos, {}) : Leads(Kempt(TRUE), d, s, x)
    <2>1. d.slot[c][j] = slot[c][j] /\ d.slot[c][j + 1] = slot[c][j + 1] BY <1>3
    <2>2. PICK apart \in BOOLEAN : apart = TRUE OBVIOUS
    <2>3. \E x \in Near(d, own, pos, {}) :
              /\ Leads(Kempt(apart), d, s, x)
              /\ \A a \in Clusters \ {c} : \A i \in Index : x.slot[a][i] = d.slot[a][i]
        BY <2>1, <1>1, <1>3, <1>4, <1>6, <1>7, RewriteRun
    <2>4. QED BY <2>2, <2>3
<1>9. x \in Disks /\ Within(x.slot, d.slot) /\ Apart(x) BY <1>3, <1>8, ApartWithin DEF Near
<1>10. x \in Kempt(TRUE)
    <2>1. TRUE \in BOOLEAN OBVIOUS
    <2>2. Near(d, own, pos, {}) \subseteq Kempt(TRUE) BY <2>1, <1>1, <1>3, NearKempt
    <2>3. QED BY <2>2, <1>8
<1>11. Leads(Kempt(TRUE), x, t, x) BY <1>9, <1>10, FlushLeads
<1>12. t \in Seq(Writes) BY FlushScript
<1> HIDE DEF s, t
<1>13. PICK u, S : u = s \o t /\ S = Kempt(TRUE) OBVIOUS
<1>14. Leads(S, d, u, x)
    <2>1. Leads(S, d, s, x) /\ Leads(S, x, t, x) BY <1>8, <1>11, <1>13
    <2>2. PICK v : v = s OBVIOUS
    <2>3. v \in Seq(Writes) /\ Leads(S, d, v, x) BY <2>1, <2>2, <1>4
    <2>4. Leads(S, d, v \o t, x) BY <2>1, <2>3, <1>12, LeadsOn
    <2>5. QED BY <2>2, <2>4, <1>13
<1>15. Safe(TRUE, u)
    <2>1. u \in Seq(Writes) BY <1>4, <1>12, <1>13
    <2>2. Leads(Kempt(TRUE), d, u, x) /\ TRUE \in BOOLEAN BY <1>13, <1>14
    <2>3. QED BY <2>1, <2>2, <1>2, <1>9, SafeScript
<1>16. QED BY <1>13, <1>15 DEF s, t

(* free_chain touches the clusters of the directory only. *)
LEMMA FreeChainQuiet ==
    ASSUME NEW own \in Owners, NEW pos \in Owners, Kept(Disk, own, pos), NEW f \in Alive(slot),
           NEW k \in 1 .. Len(FreeChain(f))
    PROVE  Quiet(FreeChain(f)[k], {c \in Clusters : own[c] = f})
<1> DEFINE ch == Chain(f)
           m == 2 * Len(ch)
           U == {c \in Clusters : own[c] = f}
           F == [i \in 1 .. m |-> IF i % 2 = 1 THEN SetBit(ch[(i + 1) \div 2], FALSE)
                                  ELSE SetFat(ch[i \div 2], 0)]
<1>1. Path(own, pos, f, ch) BY ChainKept
<1>2. FreeChain(f) = F \o << Flush >> BY DEF FreeChain
<1> HIDE DEF ch
<1>3. ch \in Seq(Clusters) /\ Len(ch) \in Nat /\ \A i \in 1 .. Len(ch) : ch[i] \in U
    BY <1>1 DEF Path, Chains
<1>4. m \in Nat /\ \A i \in 1 .. m :
          /\ i % 2 = 1 => (i + 1) \div 2 \in 1 .. Len(ch)
          /\ i % 2 # 1 => i \div 2 \in 1 .. Len(ch)
    BY <1>3
<1>5. \A i \in 1 .. m : F[i] \in Writes /\ Quiet(F[i], U)
    <2> TAKE i \in 1 .. m
    <2>1. CASE i % 2 = 1
        <3>1. PICK c : c = ch[(i + 1) \div 2] OBVIOUS
        <3>2. c \in U BY <3>1, <2>1, <1>3, <1>4
        <3>3. F[i] = SetBit(c, FALSE) BY <2>1, <3>1
        <3>4. SetBit(c, FALSE).op = "bit" /\ SetBit(c, FALSE).cluster = c BY DEF SetBit
        <3>5. SetBit(c, FALSE) \in Writes BY <3>2, OtherWritesTyped
        <3> HIDE DEF F, U
        <3>6. QED BY <3>2, <3>3, <3>4, <3>5 DEF Quiet
    <2>2. CASE i % 2 # 1
        <3>1. PICK c : c = ch[i \div 2] OBVIOUS
        <3>2. c \in U BY <3>1, <2>2, <1>3, <1>4
        <3>3. F[i] = SetFat(c, 0) BY <2>2, <3>1
        <3>4. SetFat(c, 0).op = "fat" /\ SetFat(c, 0).cluster = c BY DEF SetFat
        <3>5. SetFat(c, 0) \in Writes BY <3>2, OtherWritesTyped
        <3> HIDE DEF F, U
        <3>6. QED BY <3>2, <3>3, <3>4, <3>5 DEF Quiet
    <2>3. QED BY <2>1, <2>2
<1> HIDE DEF U
<1>6. F \in Seq(Writes) /\ Len(F) = m
    <2>1. F \in [1 .. m -> Writes] BY <1>5
    <2> HIDE DEF F, m
    <2>2. QED BY <2>1, <1>4, SeqDef, LenProperties
<1> HIDE DEF F, m
<1>7. << Flush >> \in Seq(Writes) /\ Len(<< Flush >>) = 1 /\ << Flush >>[1] = Flush
    BY FlushScript
<1>8. PICK t : t = << Flush >> OBVIOUS
<1>9. t \in Seq(Writes) /\ Len(t) = 1 /\ t[1] = Flush BY <1>7, <1>8
<1>10. /\ Len(F \o t) = m + 1
       /\ \A i \in 1 .. m : (F \o t)[i] = F[i]
       /\ \A i \in 1 .. 1 : (F \o t)[m + i] = t[i]
    <2>1. PICK v : v = F OBVIOUS
    <2>2. v \in Seq(Writes) /\ Len(v) = m BY <2>1, <1>6
    <2>3. /\ Len(v \o t) = Len(v) + Len(t)
          /\ \A i \in 1 .. Len(v) : (v \o t)[i] = v[i]
          /\ \A i \in 1 .. Len(t) : (v \o t)[Len(v) + i] = t[i]
        BY <2>2, <1>9, Joined
    <2>4. QED BY <2>1, <2>2, <2>3, <1>9
<1>11. PICK u : u = FreeChain(f) OBVIOUS
<1>12. u = F \o t /\ k \in 1 .. Len(u) BY <1>2, <1>8, <1>11
<1>13. k \in 1 .. m \/ k = m + 1
    <2>1. Len(u) = m + 1 BY <1>10, <1>12
    <2>2. QED BY <2>1, <1>4, <1>12
<1>14. Quiet(u[k], U)
    <2>1. CASE k \in 1 .. m BY <2>1, <1>5, <1>10, <1>12
    <2>2. CASE k = m + 1
        <3>1. u[k] = Flush BY <2>2, <1>9, <1>10, <1>12
        <3>2. QED BY <3>1, OtherWritesTyped DEF Quiet
    <2>3. QED BY <1>13, <2>1, <2>2
<1>15. QED BY <1>11, <1>14 DEF U

LEMMA RemoveRun ==
    ASSUME NEW own, NEW pos, Steady(own, pos), NEW n \in Names, NEW e \in EntryLocs, HitAt(e, n)
    PROVE  Safe(TRUE, Clear(e) \o (IF e.dir THEN FreeChain(e.first) ELSE << >>))
<1> DEFINE f == e.first
           U == IF e.dir THEN {c \in Clusters : own[c] = f} ELSE {}
<1>1. /\ SlotTyped /\ own \in Owners /\ pos \in Owners
      /\ Kept(Disk, own, pos) /\ Apart(Disk) /\ Disk \in Disks
    BY DEF Steady
<1>2. PICK d, apart : d = Disk /\ apart = TRUE OBVIOUS
<1>3. /\ d.slot = slot /\ d \in Disks /\ Kept(d, own, pos) /\ Apart(d) /\ apart \in BOOLEAN
      /\ apart => Apart(d)
    BY <1>1, <1>2, DiskParts
<1>4. /\ e.at[1] \in Sets(slot) /\ DirOf(slot, e.at[1]) = e.dir
      /\ FirstOf(slot, e.at[1]) = f /\ Len(e.at) >= 1
    BY HitHead
<1>5. e.dir => f \in Alive(slot) BY <1>4 DEF Alive, Heads
<1>6. PICK s : s = Clear(e) OBVIOUS
<1>7. s \in Seq(Writes) BY <1>1, <1>6, ClearFacts
<1>8. PICK t : t = IF e.dir THEN FreeChain(f) ELSE << >> OBVIOUS
<1>9. t \in Seq(Writes)
    <2>1. e.dir => f \in Clusters BY DEF HitAt
    <2>2. QED BY <2>1, <1>8, FreeChainFacts, EmptyScript
<1>10. \A k \in 1 .. Len(t) : Quiet(t[k], U)
    <2>1. CASE e.dir BY <2>1, <1>1, <1>5, <1>8, FreeChainQuiet
    <2>2. CASE ~e.dir BY <2>2, <1>8
    <2>3. QED BY <2>1, <2>2
<1>11. PICK x \in Near(d, own, pos, {}) : Leads(Kempt(apart), d, s, x) /\ e.at[1] \notin Sets(x.slot)
    <2>1. Clear(e) \in Seq(Writes) BY <1>6, <1>7
    <2>2. \E x \in Near(d, own, pos, {}) :
              Leads(Kempt(apart), d, Clear(e), x) /\ e.at[1] \notin Sets(x.slot)
        BY <2>1, <1>1, <1>3, <1>4, ClearRun
    <2>3. QED BY <2>2, <1>6
<1>12. x \in Disks /\ Kept(x, own, pos) /\ Within(x.slot, slot) /\ Apart(x)
    BY <1>3, <1>11, ApartWithin DEF Near
<1>13. \A c \in U : own[c] \notin Alive(x.slot)
    <2> SUFFICES ASSUME e.dir, f \in Alive(x.slot) PROVE FALSE
        OBVIOUS
    <2>1. e.at[1] \in Heads(slot) BY <1>4 DEF Heads
    <2>2. f # RootCluster
        <3>1. \A a \in Heads(slot) : FirstOf(slot, a) \in Clusters \ {RootCluster}
            BY <1>3 DEF Kept
        <3>2. QED BY <2>1, <3>1, <1>4
    <2>3. PICK a \in Heads(x.slot) : FirstOf(x.slot, a) = f BY <2>2 DEF Alive
    <2>4. a \in Heads(slot) /\ FirstOf(slot, a) = f BY <2>3, <1>12, HeadsWithin
    <2>5. a = e.at[1] BY <2>1, <2>4, <1>3, <1>4 DEF Apart
    <2>6. QED BY <2>3, <2>5, <1>11 DEF Heads
<1> HIDE DEF U
<1>14. PICK V : V = U OBVIOUS
<1>15. PICK y \in Near(x, own, pos, V) : Leads(Kempt(apart), x, t, y)
    <2>1. (\A k \in 1 .. Len(t) : Quiet(t[k], V)) /\ \A c \in V : own[c] \notin Alive(x.slot)
        BY <1>10, <1>13, <1>14
    <2>2. apart => Apart(x) BY <1>12
    <2>3. QED BY <2>1, <2>2, <1>1, <1>3, <1>9, <1>12, QuietRun
<1>16. Apart(y)
    <2>1. Within(y.slot, x.slot) BY <1>15 DEF Near
    <2>2. QED BY <2>1, <1>12, ApartWithin
<1>17. PICK S : S = Kempt(apart) OBVIOUS
<1>18. Leads(S, d, s \o t, y)
    <2>1. Leads(S, d, s, x) /\ Leads(S, x, t, y) BY <1>11, <1>15, <1>17
    <2>2. QED BY <2>1, <1>7, <1>9, LeadsOn
<1>19. Safe(apart, s \o t)
    <2>1. s \o t \in Seq(Writes) BY <1>7, <1>9
    <2>2. PICK u : u = s \o t OBVIOUS
    <2>3. u \in Seq(Writes) /\ Leads(Kempt(apart), d, u, y) BY <2>1, <2>2, <1>17, <1>18
    <2>4. Safe(apart, u) BY <2>3, <1>2, <1>3, <1>16, SafeScript
    <2>5. QED BY <2>2, <2>4
<1>20. QED BY <1>2, <1>6, <1>8, <1>19

LEMMA FourWrites ==
    ASSUME NEW a \in Writes, NEW b \in Writes, NEW c \in Writes, NEW d \in Writes
    PROVE  << a, b >> \o << c, d >> = << a, b, c, d >>
<1> DEFINE s == << a, b >>
           t == << c, d >>
           r == << a, b, c, d >>
           v == s \o t
<1>1. /\ s \in Seq(Writes) /\ Len(s) = 2 /\ s[1] = a /\ s[2] = b
      /\ t \in Seq(Writes) /\ Len(t) = 2 /\ t[1] = c /\ t[2] = d
      /\ r \in Seq(Writes) /\ Len(r) = 4
      /\ r[1] = a /\ r[2] = b /\ r[3] = c /\ r[4] = d
    OBVIOUS
<1> HIDE DEF s, t, r
<1>a. s \in Seq(Writes) /\ t \in Seq(Writes) BY <1>1
<1>2. /\ v \in Seq(Writes) /\ Len(v) = Len(s) + Len(t)
      /\ \A i \in 1 .. Len(s) : v[i] = s[i]
      /\ \A i \in 1 .. Len(t) : v[Len(s) + i] = t[i]
    BY <1>a, Joined
<1> HIDE DEF v
<1>3. Len(v) = 4 /\ v[1] = a /\ v[2] = b /\ v[3] = c /\ v[4] = d
    <2>1. v[1] = s[1] /\ v[2] = s[2] BY <1>1, <1>2
    <2>2. v[2 + 1] = t[1] /\ v[2 + 2] = t[2] BY <1>1, <1>2
    <2>3. QED BY <2>1, <2>2, <1>1, <1>2
<1>4. v = r
    <2>1. \A i \in 1 .. 4 : i = 1 \/ i = 2 \/ i = 3 \/ i = 4 OBVIOUS
    <2>2. \A i \in 1 .. 4 : v[i] = r[i] BY <2>1, <1>1, <1>3
    <2>3. QED BY <2>2, <1>1, <1>2, <1>3, SeqEqual
<1>5. QED BY <1>4 DEF v, s, t, r

LEMMA MakeDirRun ==
    ASSUME NEW own, NEW pos, Steady(own, pos), NEW m, NEW h, Reaches(h, m, own),
           h.entry = None, h.first = RootCluster, NEW n \in Dirs,
           NEW c, c = FirstFree({}), FreeClusters({}) # {},
           NEW set, set = EntrySet(n, TRUE, c, PerCluster)
    PROVE  Safe(TRUE, FirstCluster(c) \o (IF Room(h, set, {c}) THEN Place(h, set, {c}) ELSE << >>))
<1>1. /\ SlotTyped /\ SlotsInv /\ own \in Owners /\ pos \in Owners
      /\ Kept(Disk, own, pos) /\ Apart(Disk) /\ Disk \in Disks /\ HandleAt(h, m)
    BY DEF Steady, Reaches
<1>2. PICK d, apart : d = Disk /\ apart = TRUE OBVIOUS
<1>3. /\ d.slot = slot /\ d.bitmap = bitmap /\ d \in Disks /\ Kept(d, own, pos) /\ Apart(d)
      /\ apart \in BOOLEAN /\ (apart => Apart(d))
    BY <1>1, <1>2, DiskParts
<1>4. c \in Clusters /\ ~d.bitmap[c] BY <1>3, FirstFreeTyped DEF FreeClusters
<1>5. own[c] \notin Alive(d.slot) BY <1>3, <1>4 DEF Kept
<1>6. c # RootCluster
    <2>1. RootCluster \in Alive(d.slot) BY DEF Alive
    <2>2. own[RootCluster] = RootCluster BY <2>1, <1>3 DEF Kept
    <2>3. QED BY <2>1, <2>2, <1>5
<1> DEFINE s1 == Take(c)
           s2 == Blank(c)
<1>7. s1 \in Seq(Writes) /\ s2 \in Seq(Writes)
    BY <1>4, OtherWritesTyped, ScriptOfTwo DEF Take, Blank
<1>8. FirstCluster(c) = s1 \o s2 /\ FirstCluster(c) \in Seq(Writes)
    <2>1. FirstCluster(c) \in Seq(Writes) BY <1>4, FirstClusterFacts
    <2>2. FirstCluster(c) = << SetBit(c, TRUE), SetFat(c, END_OF_CHAIN), ZeroCluster(c), Flush >>
        BY DEF FirstCluster
    <2>3. s1 = << SetBit(c, TRUE), SetFat(c, END_OF_CHAIN) >> /\ s2 = << ZeroCluster(c), Flush >>
        BY DEF Take, Blank
    <2> DEFINE a == SetBit(c, TRUE)
               b == SetFat(c, END_OF_CHAIN)
               z == ZeroCluster(c)
    <2>4. a \in Writes /\ b \in Writes /\ z \in Writes /\ Flush \in Writes
        BY <1>4, OtherWritesTyped
    <2> HIDE DEF a, b, z, s1, s2
    <2>5. s1 = << a, b >> /\ s2 = << z, Flush >> BY <2>3 DEF a, b, z
    <2>6. << a, b >> \o << z, Flush >> = << a, b, z, Flush >> BY <2>4, FourWrites
    <2>7. QED BY <2>1, <2>2, <2>5, <2>6 DEF a, b, z
<1> HIDE DEF s1, s2
<1>9. PICK x1 \in Near(d, own, pos, {c}) :
          /\ Leads(Kempt(apart), d, s1, x1)
          /\ x1.slot = d.slot /\ x1.bitmap[c] /\ x1.fat[c] = END_OF_CHAIN
    BY <1>1, <1>3, <1>4, <1>5, TakeRun DEF s1
<1>10. /\ x1 \in Disks /\ Kept(x1, own, pos) /\ Apart(x1) /\ (apart => Apart(x1))
       /\ \A b \in Clusters \ {c} : x1.bitmap[b] = d.bitmap[b]
    BY <1>3, <1>9 DEF Near, Apart
<1>11. PICK x2 \in Near(x1, own, pos, {}) :
          /\ Leads(Kempt(apart), x1, s2, x2)
          /\ \A b \in Clusters : \A i \in Index :
                x2.slot[b][i] = IF b = c THEN EndSlot ELSE x1.slot[b][i]
    BY <1>1, <1>3, <1>4, <1>10, BlankRun DEF s2
<1>12. /\ x2 \in Disks /\ Kept(x2, own, pos) /\ Within(x2.slot, d.slot) /\ Apart(x2)
       /\ x2.bitmap[c] /\ x2.fat[c] = END_OF_CHAIN
       /\ \A b \in Clusters \ {c} : x2.bitmap[b] = bitmap[b]
       /\ \A b \in Clusters : \A i \in Index : x2.slot[b][i] \in {slot[b][i], EndSlot}
    BY <1>3, <1>4, <1>9, <1>10, <1>11, ApartWithin DEF Near
<1>13. Leads(Kempt(apart), d, FirstCluster(c), x2)
    <2>1. PICK S : S = Kempt(apart) OBVIOUS
    <2>2. PICK u, v : u = s1 /\ v = s2 OBVIOUS
    <2>3. /\ u \in Seq(Writes) /\ v \in Seq(Writes)
          /\ Leads(S, d, u, x1) /\ Leads(S, x1, v, x2)
        BY <2>1, <2>2, <1>7, <1>9, <1>11
    <2>4. Leads(S, d, u \o v, x2) BY <2>3, LeadsOn
    <2>5. QED BY <2>1, <2>2, <2>4, <1>8
<1>14. PICK s : s = FirstCluster(c) OBVIOUS
<1>15. s \in Seq(Writes) /\ Leads(Kempt(apart), d, s, x2) BY <1>8, <1>13, <1>14
<1>16. CASE ~Room(h, set, {c})
    <2>1. Safe(apart, s) BY <1>2, <1>3, <1>12, <1>15, SafeScript
    <2>2. s \o << >> = s BY <1>15
    <2>3. QED BY <2>1, <2>2, <1>2, <1>14, <1>16
<1>17. CASE Room(h, set, {c})
    <2>1. own[c] \notin Alive(x2.slot) /\ c \notin Alive(x2.slot)
        <3>1. Alive(x2.slot) \subseteq Alive(d.slot) BY <1>12, HeadsWithin
        <3>2. \A f \in Alive(d.slot) : own[f] = f BY <1>3 DEF Kept
        <3>3. QED BY <3>1, <3>2, <1>5
    <2>2. Homed(x2, own, c, apart) BY <2>1, <1>4, <1>6, <1>12 DEF Homed
    <2>3. h.first \in Alive(x2.slot) /\ h.first \in Alive(slot) BY DEF Alive
    <2>4. PICK dir, taken, len : dir = TRUE /\ taken = {c} /\ len = PerCluster OBVIOUS
    <2>5. n \in Names /\ (dir <=> n \in Dirs) /\ dir \in BOOLEAN BY <2>4 DEF Names
    <2>6. len \in Nat /\ c \in Clusters \cup {0} /\ set = EntrySet(n, dir, c, len)
        BY <2>4, <1>4, Sizes
    <2>7. PICK g, y : /\ y \in Disks /\ Plus(y.slot, x2.slot, g, dir, c, n)
                      /\ Leads(Kempt(apart), x2, Place(h, set, taken), y)
        <3>1. /\ Room(h, set, taken) /\ c \in taken
              /\ \A b \in Clusters \ taken : x2.bitmap[b] = bitmap[b]
            BY <2>4, <1>12, <1>17
        <3>2. apart => Apart(x2) BY <1>12
        <3>3. dir => /\ h.entry = None /\ Homed(x2, own, c, apart)
                     /\ IF c \in Alive(x2.slot)
                        THEN \E a \in Heads(x2.slot) :
                                 FirstOf(x2.slot, a) = c /\ own[a[1]] \in Alive(x2.slot)
                        ELSE c \in taken
            BY <2>1, <2>2, <3>1
        <3>4. h.entry # None => x2 = Disk /\ own[h.entry.at[1][1]] \in Alive(slot) OBVIOUS
        <3>5. /\ SlotTyped /\ SlotsInv /\ HandleAt(h, m) /\ own \in Owners /\ pos \in Owners
              /\ Kept(Disk, own, pos) /\ x2 \in Disks /\ Kept(x2, own, pos)
              /\ \A b \in Clusters : \A i \in Index : x2.slot[b][i] \in {slot[b][i], EndSlot}
            BY <1>1, <1>12
        <3>6. n \in Names /\ dir \in BOOLEAN /\ c \in Clusters \cup {0} /\ len \in Nat
            BY <2>5, <2>6
        <3>7. Placeable(m, h, own, pos, x2, apart, n, dir, c, len, set, taken)
            BY <3>1, <3>2, <3>3, <3>4, <3>5, <3>6, <2>3, <2>5, <2>6, <1>3 DEF Placeable
        <3>8. \E g, x : /\ x \in Disks /\ Plus(x.slot, x2.slot, g, dir, c, n)
                        /\ Leads(Kempt(apart), x2, Place(h, set, taken), x)
            BY <3>5, <3>7, PlaceRun
        <3>9. QED BY <3>8
    <2>8. PICK t : t = Place(h, set, taken) OBVIOUS
    <2>9. t \in Seq(Writes)
        <3>1. (dir => c \in Clusters) /\ Room(h, EntrySet(n, dir, c, len), taken)
            BY <2>4, <2>6, <1>4, <1>17
        <3>2. Script({}, Place(h, EntrySet(n, dir, c, len), taken))
            BY <3>1, <2>5, <2>6, <1>1, PlaceFacts
        <3>3. QED BY <3>2, <2>6, <2>8 DEF Script
    <2>10. PICK S : S = Kempt(apart) OBVIOUS
    <2>11. Leads(S, d, s \o t, y)
        <3>1. Leads(S, d, s, x2) /\ Leads(S, x2, t, y) BY <2>7, <2>8, <2>10, <1>15
        <3>2. QED BY <3>1, <2>9, <1>15, LeadsOn
    <2>12. PICK u : u = s \o t OBVIOUS
    <2>13. u \in Seq(Writes) /\ Leads(Kempt(apart), d, u, y)
        BY <2>9, <2>10, <2>11, <2>12, <1>15
    <2>14. Apart(y) BY <2>13, <1>2, KemptApart
    <2>15. Safe(apart, u) BY <2>13, <2>14, <1>2, <1>3, SafeScript
    <2>16. QED BY <2>4, <2>8, <2>12, <2>15, <1>2, <1>14, <1>17
<1>18. QED BY <1>16, <1>17

LEMMA RenameRun ==
    ASSUME NEW own, NEW pos, Steady(own, pos), NEW n \in Names, NEW e \in EntryLocs, HitAt(e, n),
           own[e.at[1][1]] \in Alive(slot), NEW m, NEW h, Reaches(h, m, own),
           NEW q \in Names, n \in Dirs <=> q \in Dirs, e.dir => h.entry = None,
           NEW set, set = EntrySet(q, e.dir, e.first, e.len), Room(h, set, {})
    PROVE  Safe(~e.dir, Place(h, set, {}) \o Clear(e)) /\ (e.dir <=> n \in Dirs)
<1>1. /\ SlotTyped /\ SlotsInv /\ own \in Owners /\ pos \in Owners
      /\ Kept(Disk, own, pos) /\ Apart(Disk) /\ Disk \in Disks
      /\ HandleAt(h, m) /\ h.first \in Alive(slot)
      /\ h.entry # None => own[h.entry.at[1][1]] \in Alive(slot)
    BY DEF Steady, Reaches
<1>2. PICK d, dir, f, apart : d = Disk /\ dir = e.dir /\ f = e.first /\ apart = ~e.dir OBVIOUS
<1>3. /\ d.slot = slot /\ d.bitmap = bitmap /\ d \in Disks /\ Kept(d, own, pos) /\ Apart(d)
      /\ apart \in BOOLEAN /\ (apart => Apart(d)) /\ dir \in BOOLEAN /\ (apart <=> ~dir)
    BY <1>1, <1>2, DiskParts DEF EntryLocs
<1>4. PICK a : a = e.at[1] OBVIOUS
<1>5. /\ a \in Sets(d.slot) /\ DirOf(d.slot, a) = dir /\ FirstOf(d.slot, a) = f
      /\ NameOf(d.slot, a) = n /\ Len(e.at) >= 1
    BY <1>2, <1>3, <1>4, HitHead
<1>6. dir <=> n \in Dirs BY <1>3, <1>5 DEF Kept
<1>7. dir => a \in Heads(d.slot) BY <1>5 DEF Heads
<1>8. dir => f \in Alive(d.slot) BY <1>5, <1>7 DEF Alive
<1>9. dir => f \in Clusters \ {RootCluster} BY <1>3, <1>5, <1>7 DEF Kept
<1>10. PICK g, x : /\ x \in Disks /\ Plus(x.slot, d.slot, g, dir, f, q)
                   /\ Leads(Kempt(apart), d, Place(h, set, {}), x)
    <2>1. PICK len, taken : len = e.len /\ taken = {} OBVIOUS
    <2>2. f \in Clusters \cup {0} /\ len \in Nat BY <2>1, <1>2 DEF EntryLocs
    <2>3. set = EntrySet(q, dir, f, len) /\ Room(h, set, taken) BY <2>1, <1>2
    <2>4. dir => /\ h.entry = None /\ Homed(d, own, f, apart)
                 /\ IF f \in Alive(d.slot)
                    THEN \E b \in Heads(d.slot) :
                             FirstOf(d.slot, b) = f /\ own[b[1]] \in Alive(d.slot)
                    ELSE f \in taken
        <3> HAVE dir
        <3>1. Homed(d, own, f, apart) BY <1>3, <1>8, <1>9 DEF Homed
        <3>2. own[a[1]] \in Alive(d.slot) BY <1>3, <1>4
        <3>3. QED BY <3>1, <3>2, <1>2, <1>5, <1>7, <1>8
    <2>5. /\ \A c \in Clusters : \A i \in Index : d.slot[c][i] \in {slot[c][i], EndSlot}
          /\ \A c \in Clusters \ taken : d.bitmap[c] = bitmap[c]
          /\ h.first \in Alive(d.slot) /\ (dir <=> q \in Dirs)
          /\ h.entry # None => d = Disk /\ own[h.entry.at[1][1]] \in Alive(slot)
        BY <1>1, <1>2, <1>3, <1>6
    <2>6. Placeable(m, h, own, pos, d, apart, q, dir, f, len, set, taken)
        BY <2>2, <2>3, <2>4, <2>5, <1>1, <1>3 DEF Placeable
    <2>7. \E g, x : /\ x \in Disks /\ Plus(x.slot, d.slot, g, dir, f, q)
                    /\ Leads(Kempt(apart), d, Place(h, set, taken), x)
        BY <2>6, <1>1, PlaceRun
    <2>8. QED BY <2>1, <2>7
<1>11. PICK s : s = Place(h, set, {}) OBVIOUS
<1>12. s \in Seq(Writes)
    <2>1. e.dir => e.first \in Clusters BY DEF HitAt
    <2>2. e.dir \in BOOLEAN /\ e.first \in Clusters \cup {0} /\ e.len \in Nat BY DEF EntryLocs
    <2>3. Script({}, Place(h, EntrySet(q, e.dir, e.first, e.len), {}))
        BY <2>1, <2>2, <1>1, PlaceFacts
    <2>4. QED BY <2>3, <1>11 DEF Script
<1>13. x \in Kempt(apart)
    <2>1. PICK S : S = Kempt(apart) OBVIOUS
    <2>2. Leads(S, d, s, x) /\ Len(s) \in Nat BY <2>1, <1>10, <1>11, <1>12
    <2>3. QED BY <2>1, <2>2, LeadsFrom
<1>14. PICK o, p \in Owners : Kept(x, o, p) BY <1>13 DEF Kempt
<1>15. apart => Apart(x) BY <1>13 DEF Kempt
<1>16. PICK t : t = Clear(e) OBVIOUS
<1>17. t \in Seq(Writes) BY <1>1, <1>16, ClearFacts
<1>18. PICK y \in Near(x, o, p, {}) : Leads(Kempt(apart), x, t, y) /\ a \notin Sets(y.slot)
    <2>1. Clear(e) \in Seq(Writes) BY <1>16, <1>17
    <2>2. \E y \in Near(x, o, p, {}) :
              Leads(Kempt(apart), x, Clear(e), y) /\ e.at[1] \notin Sets(y.slot)
        BY <2>1, <1>3, <1>5, <1>10, <1>14, <1>15, ClearRun
    <2>3. QED BY <2>2, <1>4, <1>16
<1>19. Within(y.slot, x.slot) BY <1>18 DEF Near
<1>20. Apart(y)
    <2>1. CASE ~dir BY <2>1, <1>3, <1>15, <1>19, ApartWithin
    <2>2. CASE dir
        <3>1. \A b \in Heads(y.slot) :
                  /\ b # a
                  /\ \/ b \in Heads(d.slot) /\ FirstOf(d.slot, b) = FirstOf(y.slot, b)
                     \/ b = g /\ FirstOf(y.slot, b) = f
            <4> TAKE b \in Heads(y.slot)
            <4>1. b # a BY <1>18 DEF Heads
            <4>2. b \in Heads(x.slot) /\ FirstOf(x.slot, b) = FirstOf(y.slot, b)
                BY <1>19, HeadsWithin
            <4>3. b \in Sets(x.slot) /\ DirOf(x.slot, b) BY <4>2 DEF Heads
            <4>4. CASE Same(x.slot, d.slot, b)
                <5>1. b \in Heads(d.slot) /\ FirstOf(x.slot, b) = FirstOf(d.slot, b)
                    BY <4>3, <4>4 DEF Same, Heads
                <5>2. QED BY <4>1, <4>2, <5>1
            <4>5. CASE b = g /\ FirstOf(x.slot, b) = f BY <4>1, <4>2, <4>5
            <4>6. QED BY <4>3, <4>4, <4>5, <1>10 DEF Plus
        <3>2. \A b \in Heads(d.slot) : FirstOf(d.slot, b) = f => b = a
            BY <2>2, <1>3, <1>5, <1>7 DEF Apart
        <3>3. \A b, c \in Heads(y.slot) : FirstOf(y.slot, b) = FirstOf(y.slot, c) => b = c
            <4> TAKE b, c \in Heads(y.slot)
            <4> HAVE FirstOf(y.slot, b) = FirstOf(y.slot, c)
            <4>1. CASE b \in Heads(d.slot) /\ FirstOf(d.slot, b) = FirstOf(y.slot, b)
                       /\ c \in Heads(d.slot) /\ FirstOf(d.slot, c) = FirstOf(y.slot, c)
                BY <4>1, <1>3 DEF Apart
            <4>2. QED BY <4>1, <3>1, <3>2
        <3>4. QED BY <3>3 DEF Apart
    <2>3. QED BY <2>1, <2>2
<1>21. PICK S : S = Kempt(apart) OBVIOUS
<1>22. Leads(S, d, s \o t, y)
    <2>1. Leads(S, d, s, x) /\ Leads(S, x, t, y) BY <1>10, <1>11, <1>18, <1>21
    <2>2. QED BY <2>1, <1>12, <1>17, LeadsOn
<1>23. Safe(apart, s \o t)
    <2>1. PICK u : u = s \o t OBVIOUS
    <2>2. u \in Seq(Writes) /\ Leads(Kempt(apart), d, u, y)
        BY <2>1, <1>12, <1>17, <1>21, <1>22
    <2>3. Safe(apart, u) BY <2>2, <1>2, <1>3, <1>20, SafeScript
    <2>4. QED BY <2>1, <2>3
<1>24. QED BY <1>2, <1>6, <1>11, <1>16, <1>23

-----------------------------------------------------------------------------
(* The directories stay sound *)

LEMMA SoundNext ==
    ASSUME NEW apart \in BOOLEAN, NEW d, NEW s, NEW e, e \in Kempt(TRUE),
           Leads(Kempt(apart), d, s, e), d = Disk', s = todo', apart <=> ~(Renaming'),
           DirInv', Idle' => s = << >>, call'.kind \in Ops \cup {"none"},
           ~apart => \E m, n \in Dirs : m # n
    PROVE  SoundInv'
<1>1. PICK r \in BOOLEAN : r <=> ~(Renaming') OBVIOUS
<1>2. r = apart BY <1>1
<1>3. Leads(Kempt(r), d, s, e) BY <1>2
<1>4. Kempt(~Renaming)' = Kempt(r)
    <2>1. (~Renaming)' = r BY <1>1
    <2>2. QED BY <2>1
<1>5. Leads(Kempt(~Renaming), Disk, todo, e)' BY <1>3, <1>4
<1>6. (\E x \in Kempt(TRUE) : Leads(Kempt(~Renaming), Disk, todo, x))' BY <1>5
<1>7. (Renaming => \E m, n \in Dirs : m # n)' BY <1>1, <1>2
<1>8. (Idle => todo = << >>)' OBVIOUS
<1>9. QED BY <1>6, <1>7, <1>8 DEF SoundInv

LEMMA BeginSound ==
    ASSUME DirInv', NEW kind \in Kinds, NEW p \in Paths, NEW to, NEW len, NEW ok, NEW s,
           Begin(kind, p, to, len, ok, s),
           NEW apart \in BOOLEAN, apart <=> ~(kind = "rename" /\ p[2] \in Dirs), Safe(apart, s),
           ~apart => \E m, n \in Dirs : m # n
    PROVE  SoundInv'
<1>1. /\ kind \in Ops /\ todo' = s /\ slot' = slot /\ fat' = fat /\ bitmap' = bitmap
      /\ call'.kind = kind /\ call'.path = p
    BY DEF Begin, disk
<1>2. PICK d : d = Disk OBVIOUS
<1>3. d = Disk' BY <1>1, <1>2 DEF Disk
<1>4. PICK e \in Kempt(TRUE) : Leads(Kempt(apart), d, s, e) BY <1>2 DEF Safe
<1>5. ~Idle' BY <1>1 DEF Idle, Kinds
<1>6. Renaming' <=> ~apart BY <1>1 DEF Renaming
<1>7. call'.kind \in Ops \cup {"none"} BY <1>1
<1>8. apart <=> ~(Renaming') BY <1>6
<1>9. s = todo' /\ (Idle' => s = << >>) BY <1>1, <1>5
<1>10. QED BY <1>3, <1>4, <1>7, <1>8, <1>9, SoundNext

LEMMA IdleSteady ==
    ASSUME SoundInv, Idle
    PROVE  \E own, pos : Steady(own, pos)
<1>1. /\ SlotTyped /\ SlotsInv BY TypeParts DEF SoundInv, DirInv, DiskTyped, SlotTyped
<1>2. ~Renaming BY DEF Renaming, Idle
<1>3. PICK S, r, d : S = Kempt(r) /\ r = TRUE /\ d = Disk OBVIOUS
<1>4. PICK e \in Kempt(TRUE) : Leads(Kempt(~Renaming), Disk, todo, e) BY DEF SoundInv
<1>5. Leads(S, d, << >>, e)
    <2>1. todo = << >> BY DEF SoundInv
    <2>2. (~Renaming) = TRUE BY <1>2
    <2>3. QED BY <2>1, <2>2, <1>3, <1>4
<1>6. d \in S
    <2>1. Len(<< >>) \in Nat OBVIOUS
    <2>2. PICK s : s = << >> OBVIOUS
    <2>3. Leads(S, d, s, e) /\ Len(s) \in Nat BY <2>1, <2>2, <1>5
    <2>4. QED BY <2>3, LeadsFrom
<1>7. /\ Disk \in Disks /\ Apart(Disk) /\ \E own, pos \in Owners : Kept(Disk, own, pos)
    BY <1>3, <1>6 DEF Kempt
<1>8. QED BY <1>1, <1>7 DEF Steady

LEMMA CallSound ==
    ASSUME SoundInv, Call
    PROVE  SoundInv'
<1>0. DirInv' /\ Idle BY CallKeeps DEF SoundInv, Call
<1>1. PICK own, pos : Steady(own, pos) BY <1>0, IdleSteady
<1>2. SlotTyped /\ SlotsInv /\ own \in Owners /\ pos \in Owners /\ Kept(Disk, own, pos)
    BY <1>1 DEF Steady
<1> DEFINE H(p) == DirHandle(p[1])
           E(p) == FindIn(p[2])[H(p)]
<1>3. PICK p \in Paths :
          /\ H(p) # None
          /\ \/ p[2] \in Files /\ Create(p, H(p), E(p))
             \/ p[2] \in Dirs /\ MakeDir(p, H(p), E(p))
             \/ \E len \in Lens : Update(p, E(p), len)
             \/ Remove(p, E(p))
             \/ \E q \in Paths \ {p} :
                   (p[2] \in Dirs <=> q[2] \in Dirs) /\ Rename(p, E(p), q)
    BY DEF Call
<1> DEFINE h == H(p)
           e == E(p)
           n == p[2]
<1>4. \A q \in Paths : q[1] \in Dirs \cup {Root} /\ q[2] \in Names
    BY DEF Paths, Names
<1>5. \A q \in Paths : q[2] \in Dirs => q[1] = Root
    BY NamesAssumption DEF Paths, Names
<1>6. \A q \in Paths : H(q) # None =>
          Reaches(H(q), q[1], own) /\ (q[1] = Root => H(q).entry = None /\ H(q).first = RootCluster)
    BY <1>1, <1>4, HandleReaches
<1>7. Reaches(h, p[1], own) /\ (p[1] = Root => h.entry = None /\ h.first = RootCluster)
    BY <1>3, <1>6
<1>8. h \in Handles /\ h.first \in Alive(slot) BY <1>7 DEF Reaches, HandleAt
<1>9. n \in Names BY <1>4
<1>10. e # None => e \in EntryLocs /\ HitAt(e, n) /\ own[e.at[1][1]] \in Alive(slot)
    <2>1. e = Locate(h.first, n) BY <1>3, <1>8 DEF FindIn
    <2>2. PICK f : f = h.first OBVIOUS
    <2>3. f \in Alive(slot) /\ e = Locate(f, n) BY <2>1, <2>2, <1>8
    <2>4. Locate(f, n) # None => own[Locate(f, n).at[1][1]] = f BY <2>3, <1>2, <1>9, LocateOwn
    <2>5. e # None => e \in EntryLocs /\ HitAt(e, n) BY <1>2, <1>8, <1>9, FindInFacts
    <2> HIDE DEF e, h
    <2>6. QED BY <2>3, <2>4, <2>5
<1>11. Kinds = {"create", "mkdir", "update", "remove", "rename"} /\ Lens \subseteq Nat
    BY Sizes DEF Kinds
<1> HIDE DEF h, e, H, E, n
<1>12. PICK k, f, name : k = h /\ f = e /\ name = n OBVIOUS
<1>13. CASE n \in Files /\ Create(p, h, e)
    <2> DEFINE set == EntrySet(name, FALSE, 0, 0)
               s == Place(k, set, {})
    <2>1. Room(k, set, {}) /\ Begin("create", p, None, 0, TRUE, s)
        BY <1>12, <1>13 DEF Create, n
    <2>2. name \in Names /\ name \notin Dirs BY <1>12, <1>13, NamesAssumption DEF Names
    <2>3. Reaches(k, p[1], own) BY <1>7, <1>12
    <2> HIDE DEF s
    <2>4. Safe(TRUE, s)
        <3>1. PICK t : t = set OBVIOUS
        <3>2. Safe(TRUE, Place(k, t, {})) BY <3>1, <2>1, <2>2, <2>3, <1>1, CreateRun
        <3>3. QED BY <3>1, <3>2 DEF s
    <2>5. PICK kind, apart, to, len, ok, t :
              kind = "create" /\ apart = TRUE /\ to = None /\ len = 0 /\ ok = TRUE /\ t = s
        BY <1>11
    <2>6. /\ Begin(kind, p, to, len, ok, t) /\ Safe(apart, t)
          /\ kind \in Kinds /\ apart \in BOOLEAN
          /\ (apart <=> ~(kind = "rename" /\ p[2] \in Dirs))
          /\ (~apart => \E x, y \in Dirs : x # y)
        BY <1>11, <2>1, <2>4, <2>5
    <2>7. QED BY <2>6, <1>0, BeginSound
<1>14. CASE n \in Dirs /\ MakeDir(p, h, e)
    <2>1. PICK c : c = FirstFree({}) OBVIOUS
    <2>2. PICK set : set = EntrySet(name, TRUE, c, PerCluster) OBVIOUS
    <2> DEFINE u == FirstCluster(c) \o (IF Room(k, set, {c}) THEN Place(k, set, {c}) ELSE << >>)
    <2>3. FreeClusters({}) # {} /\ Begin("mkdir", p, None, 0, Room(k, set, {c}), u)
        BY <2>1, <2>2, <1>12, <1>14 DEF MakeDir, n
    <2>4. name \in Dirs /\ p[1] = Root BY <1>5, <1>12, <1>14 DEF n
    <2>5. Reaches(k, p[1], own) /\ k.entry = None /\ k.first = RootCluster
        BY <2>4, <1>7, <1>12
    <2>6. Safe(TRUE, u) BY <2>1, <2>2, <2>3, <2>4, <2>5, <1>1, MakeDirRun
    <2> HIDE DEF u
    <2>7. PICK kind, apart, to, len, ok, t :
              /\ kind = "mkdir" /\ apart = TRUE /\ to = None /\ len = 0
              /\ ok = Room(k, set, {c}) /\ t = u
        BY <1>11
    <2>8. /\ Begin(kind, p, to, len, ok, t) /\ Safe(apart, t)
          /\ kind \in Kinds /\ apart \in BOOLEAN
          /\ (apart <=> ~(kind = "rename" /\ p[2] \in Dirs))
          /\ (~apart => \E x, y \in Dirs : x # y)
        BY <1>11, <2>3, <2>6, <2>7
    <2>9. QED BY <2>8, <1>0, BeginSound
<1>15. ASSUME NEW len \in Lens, Update(p, e, len) PROVE SoundInv'
    <2> DEFINE s == RewriteStream(f, len) \o << Flush >>
    <2>1. f # None /\ Begin("update", p, None, len, TRUE, s) BY <1>12, <1>15 DEF Update
    <2>2. f \in EntryLocs /\ HitAt(f, name) /\ name \in Names /\ len \in Nat
        BY <2>1, <1>9, <1>10, <1>11, <1>12
    <2>3. Safe(TRUE, s) BY <2>2, <1>1, UpdateRun
    <2> HIDE DEF s
    <2>4. PICK kind, apart, to, ok, t :
              kind = "update" /\ apart = TRUE /\ to = None /\ ok = TRUE /\ t = s
        BY <1>11
    <2>5. /\ Begin(kind, p, to, len, ok, t) /\ Safe(apart, t)
          /\ kind \in Kinds /\ apart \in BOOLEAN
          /\ (apart <=> ~(kind = "rename" /\ p[2] \in Dirs))
          /\ (~apart => \E x, y \in Dirs : x # y)
        BY <1>11, <2>1, <2>3, <2>4
    <2>6. QED BY <2>5, <1>0, BeginSound
<1>16. CASE Remove(p, e)
    <2> DEFINE s == Clear(f) \o (IF f.dir THEN FreeChain(f.first) ELSE << >>)
    <2>1. f # None /\ Begin("remove", p, None, 0, TRUE, s) BY <1>12, <1>16 DEF Remove
    <2>2. f \in EntryLocs /\ HitAt(f, name) /\ name \in Names BY <2>1, <1>9, <1>10, <1>12
    <2>3. Safe(TRUE, s) BY <2>2, <1>1, RemoveRun
    <2> HIDE DEF s
    <2>4. PICK kind, apart, to, len, ok, t :
              kind = "remove" /\ apart = TRUE /\ to = None /\ len = 0 /\ ok = TRUE /\ t = s
        BY <1>11
    <2>5. /\ Begin(kind, p, to, len, ok, t) /\ Safe(apart, t)
          /\ kind \in Kinds /\ apart \in BOOLEAN
          /\ (apart <=> ~(kind = "rename" /\ p[2] \in Dirs))
          /\ (~apart => \E x, y \in Dirs : x # y)
        BY <1>11, <2>1, <2>3, <2>4
    <2>6. QED BY <2>5, <1>0, BeginSound
<1>17. ASSUME NEW q \in Paths \ {p}, p[2] \in Dirs <=> q[2] \in Dirs, Rename(p, e, q)
       PROVE  SoundInv'
    <2>1. PICK l, set, b : l = DirHandle(q[1]) /\ set = EntrySet(b, f.dir, f.first, f.len) /\ b = q[2]
        OBVIOUS
    <2> DEFINE s == Place(l, set, {}) \o Clear(f)
    <2>2. /\ f # None /\ l # None /\ Room(l, set, {})
          /\ Begin("rename", p, q, 0, TRUE, s)
        BY <2>1, <1>12, <1>17 DEF Rename
    <2>3. /\ f \in EntryLocs /\ HitAt(f, name) /\ name \in Names /\ b \in Names
          /\ own[f.at[1][1]] \in Alive(slot) /\ (name \in Dirs <=> b \in Dirs)
        BY <2>1, <2>2, <1>4, <1>9, <1>10, <1>12, <1>17 DEF n
    <2>4. Reaches(l, q[1], own) /\ (q[1] = Root => l.entry = None)
        BY <2>1, <2>2, <1>6, <1>17 DEF H
    <2>5. DirOf(slot, f.at[1]) = f.dir /\ NameOf(slot, f.at[1]) = name /\ f.at[1] \in Sets(slot)
        BY <2>3, HitHead
    <2>6. f.dir <=> name \in Dirs BY <2>5, <1>2, DiskParts DEF Kept
    <2>7. f.dir => l.entry = None BY <2>1, <2>3, <2>4, <2>6, <1>5, <1>17
    <2>8. Safe(~f.dir, s)
        BY <2>1, <2>2, <2>3, <2>4, <2>7, <1>1, RenameRun
    <2> HIDE DEF s
    <2>9. f.dir => \E x, y \in Dirs : x # y
        <3> HAVE f.dir
        <3>1. p[2] \in Dirs /\ q[2] \in Dirs /\ p[1] = Root /\ q[1] = Root
            BY <2>6, <1>5, <1>12, <1>17 DEF n
        <3>2. p = <<p[1], p[2]>> /\ q = <<q[1], q[2]>> BY <1>17 DEF Paths
        <3>3. p[2] # q[2] BY <3>1, <3>2, <1>17
        <3>4. QED BY <3>1, <3>3
    <2>10. f.dir \in BOOLEAN BY <2>3 DEF EntryLocs
    <2>11. PICK kind, apart, len, ok, t :
              kind = "rename" /\ apart = ~f.dir /\ len = 0 /\ ok = TRUE /\ t = s
        BY <1>11
    <2>12. /\ Begin(kind, p, q, len, ok, t) /\ Safe(apart, t)
           /\ kind \in Kinds /\ apart \in BOOLEAN
           /\ (apart <=> ~(kind = "rename" /\ p[2] \in Dirs))
           /\ (~apart => \E x, y \in Dirs : x # y)
        BY <1>11, <2>2, <2>6, <2>8, <2>9, <2>10, <2>11, <1>12 DEF n
    <2>13. QED BY <2>12, <1>0, BeginSound
<1>18. QED BY <1>3, <1>13, <1>14, <1>15, <1>16, <1>17 DEF h, e, n

LEMMA LeadsNowhereElse ==
    ASSUME NEW S, NEW d, NEW e, Leads(S, d, << >>, e)
    PROVE  d = e
<1>1. Len(<< >>) + 1 = 1 OBVIOUS
<1>2. QED BY <1>1 DEF Leads

(* One device write of the call in progress. *)
LEMMA WriteSound ==
    ASSUME SoundInv, DirInv', todo # << >>, Step(Head(todo)), Proceed,
           fat' = FatBy(fat, Head(todo)), bitmap' = BitsBy(bitmap, Head(todo))
    PROVE  SoundInv'
<1>1. /\ todo \in Seq(Writes) /\ TypeOK /\ call.kind \in Ops \cup {"none"} /\ ~Idle
      /\ Renaming => \E m, n \in Dirs : m # n
    BY DEF SoundInv, DirInv
<1>2. PICK S, s, d, w : S = Kempt(~Renaming) /\ s = todo /\ d = Disk /\ w = Head(todo) OBVIOUS
<1>3. s \in Seq(Writes) /\ s # << >> /\ w = s[1] /\ Len(s) \in Nat \ {0}
    BY <1>1, <1>2, TailFacts
<1>4. PICK e \in Kempt(TRUE) : Leads(S, d, s, e) BY <1>2 DEF SoundInv
<1>5. Do(d, w) = Disk'
    <2>1. d.slot = slot /\ d.fat = fat /\ d.bitmap = bitmap BY <1>2, DiskParts
    <2>2. slot' = SlotsBy(slot, w) BY <1>2 DEF Step, SlotsBy
    <2>3. QED BY <2>1, <2>2, <1>2 DEF Do, Disk
<1>6. PICK x, t : x = Do(d, w) /\ t = Tail(s) OBVIOUS
<1>7. Leads(S, x, t, e)
    <2>1. Leads(S, Do(d, s[1]), Tail(s), e) BY <1>3, <1>4, LeadsRest
    <2>2. QED BY <2>1, <1>3, <1>6
<1>8. x = Disk' BY <1>5, <1>6
<1>9. todo' = t BY <1>1, <1>2, <1>6, ProceedFacts
<1>10. CASE Len(s) > 1
    <2>1. call' = call BY <1>2, <1>10 DEF Proceed
    <2>2. PICK apart \in BOOLEAN : apart <=> ~Renaming OBVIOUS
    <2>3. Leads(Kempt(apart), x, t, e)
        <3>1. apart = (~Renaming) BY <2>2
        <3>2. QED BY <3>1, <1>2, <1>7
    <2>4. apart <=> ~(Renaming') BY <2>1, <2>2 DEF Renaming
    <2>5. (Idle' => t = << >>) /\ call'.kind \in Ops \cup {"none"} BY <2>1, <1>1 DEF Idle
    <2>6. ~apart => \E m, n \in Dirs : m # n BY <2>2, <1>1
    <2>7. QED BY <2>3, <2>4, <2>5, <2>6, <1>4, <1>8, <1>9, SoundNext
<1>11. CASE ~(Len(s) > 1)
    <2>1. call' = NoCall /\ t = << >> BY <1>2, <1>9, <1>11 DEF Proceed, Return
    <2>2. PICK apart \in BOOLEAN : apart = TRUE OBVIOUS
    <2>3. x = e BY <2>1, <1>7, LeadsNowhereElse
    <2>4. Leads(Kempt(apart), x, t, e)
        <3>1. x \in Kempt(apart) BY <2>2, <2>3, <1>4
        <3>2. Leads(Kempt(apart), x, << >>, x) BY <3>1, LeadsNowhere
        <3>3. QED BY <3>2, <2>1, <2>3
    <2>5. apart <=> ~(Renaming') BY <2>1, <2>2 DEF Renaming, NoCall
    <2>6. (Idle' => t = << >>) /\ call'.kind \in Ops \cup {"none"} BY <2>1 DEF NoCall
    <2>7. ~apart => \E m, n \in Dirs : m # n BY <2>2
    <2>8. QED BY <2>4, <2>5, <2>6, <2>7, <1>4, <1>8, <1>9, SoundNext
<1>12. QED BY <1>10, <1>11

(* A cut during the rename of a directory leaves two entry sets of it. *)
CutsHarmless == "rename" \notin Ops \/ MaxCuts = 0 \/ \A d, e \in Dirs : d = e

LEMMA CutSound ==
    ASSUME SoundInv, CutsHarmless, PowerCut
    PROVE  SoundInv'
<1>1. DirInv' BY CutKeeps DEF SoundInv
<1>2. todo' = << >> /\ call' = NoCall /\ slot' = slot /\ fat' = fat /\ bitmap' = bitmap
    BY DEF PowerCut, Return, disk
<1>3. ~Renaming
    <2>1. MaxCuts # 0
        <3>1. cuts \in Nat BY TypeParts DEF SoundInv, DirInv
        <3>2. cuts < MaxCuts BY DEF PowerCut
        <3>3. QED BY <3>1, <3>2
    <2>2. CASE "rename" \notin Ops
        <3>1. call.kind # "rename" BY <2>2 DEF SoundInv
        <3>2. QED BY <3>1 DEF Renaming
    <2>3. CASE \A d, e \in Dirs : d = e BY <2>3 DEF SoundInv
    <2>4. QED BY <2>1, <2>2, <2>3 DEF CutsHarmless
<1>4. PICK s, d, apart : s = todo /\ d = Disk /\ apart = TRUE OBVIOUS
<1>5. PICK e \in Kempt(TRUE) : Leads(Kempt(apart), d, s, e)
    <2>1. apart = (~Renaming) BY <1>3, <1>4
    <2>2. QED BY <2>1, <1>4 DEF SoundInv
<1>6. Len(s) \in Nat BY <1>4 DEF SoundInv, DirInv
<1>7. d \in Kempt(apart)
    <2>1. PICK S : S = Kempt(apart) OBVIOUS
    <2>2. Leads(S, d, s, e) BY <2>1, <1>5
    <2>3. d \in S BY <2>2, <1>6, LeadsFrom
    <2>4. QED BY <2>1, <2>3
<1>8. PICK t : t = << >> OBVIOUS
<1>9. Leads(Kempt(apart), d, t, d) BY <1>7, <1>8, LeadsNowhere
<1>10. d = Disk' BY <1>2, <1>4 DEF Disk
<1>11. apart <=> ~(Renaming') BY <1>2, <1>4 DEF Renaming, NoCall
<1>12. (Idle' => t = << >>) /\ t = todo' /\ call'.kind \in Ops \cup {"none"}
    BY <1>2, <1>8 DEF NoCall
<1>13. d \in Kempt(TRUE) BY <1>4, <1>7
<1>14. ~apart => \E m, n \in Dirs : m # n BY <1>4
<1>15. QED BY <1>1, <1>9, <1>10, <1>11, <1>12, <1>13, <1>14, SoundNext

LEMMA StutterSound ==
    ASSUME SoundInv, UNCHANGED vars
    PROVE  SoundInv'
<1>1. DirInv' BY StutterKeeps DEF SoundInv
<1>2. /\ todo' = todo /\ call' = call /\ slot' = slot /\ fat' = fat /\ bitmap' = bitmap
    BY DEF vars, disk
<1>3. PICK s, d, apart : s = todo /\ d = Disk /\ apart = ~Renaming /\ apart \in BOOLEAN OBVIOUS
<1>4. PICK e \in Kempt(TRUE) : Leads(Kempt(apart), d, s, e)
    <2>1. apart = (~Renaming) BY <1>3
    <2>2. QED BY <2>1, <1>3 DEF SoundInv
<1>5. d = Disk' /\ s = todo' BY <1>2, <1>3 DEF Disk
<1>6. apart <=> ~(Renaming') BY <1>2, <1>3 DEF Renaming
<1>7. (Idle' => s = << >>) /\ call'.kind \in Ops \cup {"none"}
    BY <1>2, <1>3 DEF SoundInv, Idle
<1>8. ~apart => \E m, n \in Dirs : m # n BY <1>3 DEF SoundInv
<1>9. QED BY <1>1, <1>4, <1>5, <1>6, <1>7, <1>8, SoundNext

LEMMA InitSound == Init => SoundInv
<1> SUFFICES ASSUME Init PROVE SoundInv
    OBVIOUS
<1>1. DirInv BY InitKeeps
<1>2. PICK s \in {EndSlot, StaleSlot} :
        slot = [c \in Clusters |-> [i \in Index |->
                   IF c # RootCluster THEN s
                   ELSE IF i <= SystemSlots THEN SystemSlot ELSE EndSlot]]
    BY DEF Init
<1>3. /\ fat = [c \in Clusters |-> IF c = RootCluster THEN END_OF_CHAIN ELSE 0]
      /\ bitmap = [c \in Clusters |-> c = RootCluster]
      /\ todo = << >> /\ call = NoCall
    BY DEF Init
<1>4. PICK d : d = Disk OBVIOUS
<1>5. d.slot = slot /\ d.fat = fat /\ d.bitmap = bitmap BY <1>4, DiskParts
<1>6. d \in Disks
    <2>1. DiskTyped BY <1>1, TypeParts DEF DirInv
    <2>2. slot \in [Clusters -> [Index -> AnySlots]] BY <2>1 DEF DiskTyped, AnySlots
    <2>3. QED BY <2>1, <2>2, <1>4 DEF DiskTyped, Disk, Disks
<1>7. Sets(d.slot) = {}
    <2>1. \A x \in {EndSlot, StaleSlot, SystemSlot} : ~LiveName(x)
        BY DEF EndSlot, StaleSlot, SystemSlot, LiveName
    <2>2. \A c \in Clusters : \A i \in Index : slot[c][i] \in {EndSlot, StaleSlot, SystemSlot}
        BY <1>2
    <2>3. \A c \in Clusters : \A i \in Index : ~LiveName(slot[c][i]) BY <2>1, <2>2
    <2>4. ASSUME NEW a \in Addresses, IsSet(slot, a) PROVE FALSE
        <3>1. a[1] \in Clusters /\ a[2] + 2 \in Index /\ LiveName(slot[a[1]][a[2] + 2])
            BY <2>4 DEF IsSet, Addresses
        <3>2. QED BY <3>1, <2>3
    <2>5. QED BY <2>4, <1>5 DEF Sets
<1>8. Heads(d.slot) = {} /\ Alive(d.slot) = {RootCluster} BY <1>7 DEF Heads, Alive
<1>9. PICK own : own = [c \in Clusters |-> c] OBVIOUS
<1>10. own \in Owners /\ \A c \in Clusters : own[c] = c
    <2>1. Clusters \subseteq Nat BY Sizes DEF Clusters
    <2>2. QED BY <2>1, <1>9 DEF Owners
<1>11. Kept(d, own, own)
    <2>1. \A f \in Alive(d.slot) : own[f] = f BY <1>8, <1>10, RootIsCluster
    <2>2. \A c \in Clusters : own[c] \in Alive(d.slot) =>
              d.bitmap[c] /\ d.fat[c] = END_OF_CHAIN
        <3> TAKE c \in Clusters
        <3> HAVE own[c] \in Alive(d.slot)
        <3>1. c = RootCluster BY <1>8, <1>10
        <3>2. d.fat[c] = END_OF_CHAIN BY <3>1, <1>3, <1>5
        <3>3. bitmap[c] = (c = RootCluster) BY <1>3
        <3>4. d.bitmap[c] BY <3>1, <3>3, <1>5
        <3>5. QED BY <3>2, <3>4
    <2>3. QED BY <2>1, <2>2, <1>7, <1>8 DEF Kept
<1>12. Apart(d) BY <1>8 DEF Apart
<1>13. PICK apart : apart = TRUE OBVIOUS
<1>14. d \in Kempt(apart) BY <1>6, <1>10, <1>11, <1>12 DEF Kempt
<1>15. Leads(Kempt(apart), d, << >>, d) BY <1>14, LeadsNowhere
<1>16. ~Renaming /\ call.kind = "none" BY <1>3 DEF Renaming, NoCall
<1>17. \E e \in Kempt(TRUE) : Leads(Kempt(~Renaming), Disk, todo, e)
    <2>1. (~Renaming) = apart BY <1>13, <1>16
    <2>2. Leads(Kempt(~Renaming), Disk, todo, d) BY <2>1, <1>3, <1>4, <1>15
    <2>3. d \in Kempt(TRUE) BY <1>13, <1>14
    <2>4. QED BY <2>2, <2>3
<1>18. QED BY <1>1, <1>3, <1>16, <1>17 DEF SoundInv

LEMMA NextSound ==
    ASSUME SoundInv, CutsHarmless, [Next]_vars
    PROVE  SoundInv'
<1>1. DirInv BY DEF SoundInv
<1>2. DirInv' BY <1>1, NextKeeps
<1> DEFINE w == Head(todo)
           Wrote == /\ todo # << >> /\ Proceed /\ Step(w)
                      /\ fat' = FatBy(fat, w) /\ bitmap' = BitsBy(bitmap, w)
<1>3. Wrote => SoundInv' BY <1>2, WriteSound
<1>4. CASE DoSlot
    <2>1. Wrote BY <1>4 DEF DoSlot, Doing, Step, FatBy, BitsBy
    <2>2. QED BY <2>1, <1>3
<1>5. CASE DoClear
    <2>1. Wrote BY <1>5 DEF DoClear, Doing, Step, FatBy, BitsBy
    <2>2. QED BY <2>1, <1>3
<1>6. CASE DoZero
    <2>1. Wrote BY <1>6 DEF DoZero, Doing, Step, FatBy, BitsBy
    <2>2. QED BY <2>1, <1>3
<1>7. CASE DoFat
    <2>1. Wrote BY <1>7 DEF DoFat, Doing, Step, FatBy, BitsBy
    <2>2. QED BY <2>1, <1>3
<1>8. CASE DoBit
    <2>1. Wrote BY <1>8 DEF DoBit, Doing, Step, FatBy, BitsBy
    <2>2. QED BY <2>1, <1>3
<1>9. CASE DoFlush
    <2>1. Wrote BY <1>9 DEF DoFlush, Doing, Step, FatBy, BitsBy, disk
    <2>2. QED BY <2>1, <1>3
<1>10. QED BY <1>4, <1>5, <1>6, <1>7, <1>8, <1>9, CallSound, CutSound, StutterSound DEF Next

(* What a caller can reach on a kept disk. *)
LEMMA ListingsAlive ==
    ASSUME SlotTyped, SlotsInv, NEW l \in Listings,
           \A a \in Sets(slot) : DirOf(slot, a) <=> NameOf(slot, a) \in Dirs
    PROVE  l[1] \in Alive(slot)
<1>1. CASE l = <<RootCluster, Unbounded>> BY <1>1 DEF Alive
<1>2. ASSUME NEW m \in Dirs, Find(<<Root, m>>) # None,
             l = <<Find(<<Root, m>>).first, Find(<<Root, m>>).len>>
      PROVE  l[1] \in Alive(slot)
    <2>1. m \in Names BY DEF Names
    <2> DEFINE h == DirHandle(Root)
               e == Find(<<Root, m>>)
    <2>2. h = [first |-> RootCluster, entry |-> None] BY DEF DirHandle
    <2>3. h \in Handles BY <2>2, RootIsCluster DEF Handles
    <2>4. e = FindIn(m)[h] BY DEF Find
    <2> HIDE DEF h
    <2>5. e \in EntryLocs /\ HitAt(e, m) BY <2>1, <2>3, <2>4, <1>2, FindInFacts
    <2> HIDE DEF e
    <2>6. PICK f : f = e OBVIOUS
    <2>7. f \in EntryLocs /\ HitAt(f, m) BY <2>5, <2>6
    <2>8. f.at[1] \in Sets(slot) /\ FirstOf(slot, f.at[1]) = f.first /\ NameOf(slot, f.at[1]) = m
        BY <2>1, <2>7, HitHead
    <2>9. f.first \in Alive(slot) BY <2>8, <1>2 DEF Alive, Heads
    <2>10. l[1] = f.first BY <1>2, <2>6 DEF e
    <2>11. QED BY <2>9, <2>10
<1>3. QED BY <1>1, <1>2 DEF Listings

LEMMA SoundEnough == SoundInv => DirectoriesSound
<1> SUFFICES ASSUME SoundInv PROVE DirectoriesSound
    OBVIOUS
<1>1. SlotTyped /\ SlotsInv BY TypeParts DEF SoundInv, DirInv, DiskTyped, SlotTyped
<1>2. PICK d, s, apart : d = Disk /\ s = todo /\ apart = ~Renaming OBVIOUS
<1>3. PICK e \in Kempt(TRUE) : Leads(Kempt(apart), d, s, e) BY <1>2 DEF SoundInv
<1>4. d \in Kempt(apart)
    <2>1. PICK S : S = Kempt(apart) OBVIOUS
    <2>2. Len(s) \in Nat BY <1>2 DEF SoundInv, DirInv
    <2>3. Leads(S, d, s, e) BY <2>1, <1>3
    <2>4. QED BY <2>1, <2>2, <2>3, LeadsFrom
<1>5. PICK own \in Owners, pos \in Owners : Kept(Disk, own, pos)
    BY <1>2, <1>4 DEF Kempt
<1>6. \A a \in Sets(slot) : DirOf(slot, a) <=> NameOf(slot, a) \in Dirs
    BY <1>5, DiskParts DEF Kept
<1>7. \A l \in Listings : l[1] \in Alive(slot) BY <1>1, <1>6, ListingsAlive
<1>8. \A f \in Alive(slot) : Path(own, pos, f, Chain(f)) /\ Whole(Chain(f))
    BY <1>5, ChainKept
<1>9. ASSUME NEW f \in Alive(slot)
      PROVE  /\ \A k \in DOMAIN Chain(f) : own[Chain(f)[k]] = f /\ bitmap[Chain(f)[k]]
             /\ fat[Chain(f)[Len(Chain(f))]] = END_OF_CHAIN
    <2>1. PICK c : c = Chain(f) OBVIOUS
    <2>2. Path(own, pos, f, c) /\ Whole(c) BY <2>1, <1>8
    <2>3. c \in Seq(Clusters) /\ \A k \in 1 .. Len(c) : own[c[k]] = f BY <2>2 DEF Path, Chains
    <2>4. \A k \in DOMAIN c : own[c[k]] = f /\ bitmap[c[k]]
        <3> TAKE k \in DOMAIN c
        <3>1. k \in 1 .. Len(c) /\ c[k] \in Clusters BY <2>3
        <3>2. own[c[k]] = f BY <2>3, <3>1
        <3>3. bitmap[c[k]] BY <3>1, <3>2, <1>5, DiskParts DEF Kept
        <3>4. QED BY <3>2, <3>3
    <2>5. QED BY <2>1, <2>2, <2>4 DEF Whole
<1>10. QED BY <1>7, <1>9 DEF DirectoriesSound

(* The directories a caller can reach are marked, end in an end mark and share
   no cluster, for every set of names, every size of the heap and of a cluster,
   zeroed free clusters or not, and wherever a call is cut short.  The one thing
   that must not be cut short is the rename of a directory: it leaves two names
   of it, and removing either frees the clusters of both. *)
THEOREM DirectoriesAreSound ==
    ASSUME "rename" \notin Ops \/ MaxCuts = 0 \/ \A d, e \in Dirs : d = e
    PROVE  Spec => []DirectoriesSound
<1>1. CutsHarmless BY DEF CutsHarmless
<1>2. SoundInv /\ [Next]_vars => SoundInv' BY <1>1, NextSound
<1>3. QED BY <1>2, InitSound, SoundEnough, PTL DEF Spec

=============================================================================
