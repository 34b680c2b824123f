-------------------------- MODULE ExfatStoreProofs --------------------------
(***************************************************************************)
(* The exFAT driver is the file store it promises to be: theorems about    *)
(* ExfatVolume that need the length of every chain and the bytes in it,    *)
(* for any number of names, clusters, bytes and power cuts.                *)
(***************************************************************************)
EXTENDS ExfatStoreInv, ExfatVolumeProofs, WellFoundedInduction

-----------------------------------------------------------------------------
(* Induction over the natural numbers, for sets: a set of naturals without
   a least element is empty. *)
LEMMA LeastNumber ==
    ASSUME NEW T \in SUBSET Nat, T # {}
    PROVE  \E x \in T : \A y \in T : x <= y
  <1> DEFINE R == OpToRel(<, Nat)
  <1>1. IsWellFoundedOn(R, Nat)
    BY NatLessThanWellFounded
  <1>2. \E x \in T : \A y \in T : <<y, x>> \notin R
    <2> HIDE DEF R
    <2>1. QED BY <1>1, WFMin
  <1>3. PICK x \in T : \A y \in T : <<y, x>> \notin R
    BY <1>2
  <1>4. \A y \in T : ~(y < x)
    BY <1>3 DEF OpToRel
  <1> HIDE DEF R
  <1>5. x \in T
    BY <1>3
  <1>6. \A y \in T : x <= y
    BY <1>4, <1>5
  <1>7. QED BY <1>5, <1>6

LEMMA Induction ==
    ASSUME NEW S, 0 \in S, \A i \in Nat : i \in S => i + 1 \in S
    PROVE  Nat \subseteq S
  <1> SUFFICES ASSUME Nat \ S # {} PROVE FALSE
    OBVIOUS
  <1>1. PICK x \in Nat \ S : \A y \in Nat \ S : x <= y
    <2>1. Nat \ S \in SUBSET Nat
      OBVIOUS
    <2>2. QED BY <2>1, LeastNumber
  <1>2. x # 0 /\ x - 1 \in Nat /\ x - 1 + 1 = x /\ ~(x <= x - 1)
    BY <1>1
  <1>3. x - 1 \in S
    BY <1>1, <1>2
  <1>4. QED BY <1>1, <1>2, <1>3

-----------------------------------------------------------------------------
(* Chains of a given length *)

IsChain(w, f, h, k) ==
    w = [i \in 1 .. k |-> IF i = 1 THEN h
                          ELSE IF w[i - 1] \in Clusters THEN f[w[i - 1]] ELSE 0]

(* The recursion that defines a chain has a solution. *)
LEMMA ChainExists ==
    ASSUME NEW f, NEW h, NEW k \in Nat
    PROVE  \E w : IsChain(w, f, h, k)
  <1> DEFINE S == {m \in Nat : \E w : IsChain(w, f, h, m)}
  <1>1. 0 \in S
    <2>1. IsChain([i \in 1 .. 0 |-> h], f, h, 0)
      BY DEF IsChain
    <2>2. QED BY <2>1
  <1>2. ASSUME NEW m \in Nat, m \in S PROVE m + 1 \in S
    <2>1. PICK w : IsChain(w, f, h, m)
      BY <1>2
    <2> DEFINE last == IF m = 0 THEN h ELSE IF w[m] \in Clusters THEN f[w[m]] ELSE 0
               v == [i \in 1 .. m + 1 |-> IF i <= m THEN w[i] ELSE last]
    <2>2. \A i \in 1 .. m : w[i] = IF i = 1 THEN h
                                   ELSE IF w[i - 1] \in Clusters THEN f[w[i - 1]] ELSE 0
      BY <2>1 DEF IsChain
    <2>3. \A i \in 1 .. m + 1 : v[i] = IF i = 1 THEN h
                                       ELSE IF v[i - 1] \in Clusters THEN f[v[i - 1]] ELSE 0
      BY <2>2
    <2>4. IsChain(v, f, h, m + 1)
      BY <2>3 DEF IsChain
    <2>5. QED BY <2>4
  <1>3. Nat \subseteq S
    <2> HIDE DEF S
    <2>1. QED BY <1>1, <1>2, Induction
  <1>4. QED BY <1>3

LEMMA ChainUnfolds ==
    ASSUME NEW f, NEW h, NEW k \in Nat
    PROVE  IsChain(ChainFrom(f, h, k), f, h, k)
  <1>1. ChainFrom(f, h, k) = CHOOSE w : IsChain(w, f, h, k)
    BY DEF ChainFrom, IsChain
  <1>2. IsChain(CHOOSE w : IsChain(w, f, h, k), f, h, k)
    BY ChainExists
  <1>3. QED BY <1>1, <1>2

(* Its first cluster is h, and each further one the successor. *)
LEMMA ChainSteps ==
    ASSUME NEW f, NEW h, NEW k \in Nat
    PROVE  /\ k > 0 => ChainFrom(f, h, k)[1] = h
           /\ \A i \in 1 .. k - 1 :
                 ChainFrom(f, h, k)[i + 1] =
                     IF ChainFrom(f, h, k)[i] \in Clusters
                     THEN f[ChainFrom(f, h, k)[i]] ELSE 0
  <1> DEFINE w == ChainFrom(f, h, k)
  <1>1. \A i \in 1 .. k : w[i] = IF i = 1 THEN h
                                 ELSE IF w[i - 1] \in Clusters THEN f[w[i - 1]] ELSE 0
    <2> HIDE DEF w
    <2>1. IsChain(w, f, h, k)
      BY ChainUnfolds DEF w
    <2>2. QED BY <2>1 DEF IsChain
  <1> HIDE DEF w
  <1>2. k > 0 => w[1] = h
    BY <1>1
  <1>3. ASSUME NEW i \in 1 .. k - 1
        PROVE  w[i + 1] = IF w[i] \in Clusters THEN f[w[i]] ELSE 0
    <2>1. i + 1 \in 1 .. k /\ i + 1 # 1 /\ i + 1 - 1 = i
      OBVIOUS
    <2>2. QED BY <1>1, <2>1
  <1>4. QED BY <1>2, <1>3 DEF w

(* Whatever starts at h and follows the table is that chain. *)
LEMMA ChainUnique ==
    ASSUME NEW f, NEW h, NEW k \in Nat, NEW s,
           k > 0 => s[1] = h,
           \A i \in 1 .. k - 1 : s[i + 1] = IF s[i] \in Clusters THEN f[s[i]] ELSE 0
    PROVE  \A i \in 1 .. k : ChainFrom(f, h, k)[i] = s[i]
  <1> DEFINE w == ChainFrom(f, h, k)
             S == {i \in Nat : i + 1 \in 1 .. k => w[i + 1] = s[i + 1]}
  <1>1. /\ k > 0 => w[1] = h
        /\ \A i \in 1 .. k - 1 : w[i + 1] = IF w[i] \in Clusters THEN f[w[i]] ELSE 0
    BY ChainSteps
  <1> HIDE DEF w
  <1>2. 0 \in S
    BY <1>1
  <1>3. ASSUME NEW i \in Nat, i \in S PROVE i + 1 \in S
    <2> SUFFICES ASSUME i + 1 + 1 \in 1 .. k PROVE w[i + 1 + 1] = s[i + 1 + 1]
      OBVIOUS
    <2>1. i + 1 \in 1 .. k - 1 /\ i + 1 \in 1 .. k
      OBVIOUS
    <2>2. w[i + 1] = s[i + 1]
      BY <1>3, <2>1
    <2>3. QED BY <1>1, <2>1, <2>2
  <1>4. Nat \subseteq S
    <2> HIDE DEF S
    <2>1. QED BY <1>2, <1>3, Induction
  <1>5. ASSUME NEW i \in 1 .. k PROVE w[i] = s[i]
    <2>1. i - 1 \in Nat /\ i - 1 + 1 = i
      OBVIOUS
    <2>2. QED BY <1>4, <2>1
  <1>6. QED BY <1>5 DEF w

(* A shorter chain is the beginning of a longer one. *)
LEMMA ChainPrefix ==
    ASSUME NEW f, NEW h, NEW k \in Nat, NEW j \in Nat, j <= k
    PROVE  \A i \in 1 .. j : ChainFrom(f, h, j)[i] = ChainFrom(f, h, k)[i]
  <1> DEFINE s == ChainFrom(f, h, k)
  <1>1. /\ k > 0 => s[1] = h
        /\ \A i \in 1 .. k - 1 : s[i + 1] = IF s[i] \in Clusters THEN f[s[i]] ELSE 0
    BY ChainSteps
  <1> HIDE DEF s
  <1>2. /\ j > 0 => s[1] = h
        /\ \A i \in 1 .. j - 1 : s[i + 1] = IF s[i] \in Clusters THEN f[s[i]] ELSE 0
    BY <1>1
  <1>3. \A i \in 1 .. j : ChainFrom(f, h, j)[i] = s[i]
    BY <1>2, ChainUnique
  <1>4. QED BY <1>3 DEF s

(* Two tables that agree on a chain, but for its last cluster, have it both. *)
LEMMA ChainSame ==
    ASSUME NEW f, NEW g, NEW h, NEW k \in Nat,
           \A i \in 1 .. k - 1 : g[ChainFrom(f, h, k)[i]] = f[ChainFrom(f, h, k)[i]]
    PROVE  \A i \in 1 .. k : ChainFrom(g, h, k)[i] = ChainFrom(f, h, k)[i]
  <1> DEFINE s == ChainFrom(f, h, k)
  <1>1. /\ k > 0 => s[1] = h
        /\ \A i \in 1 .. k - 1 : s[i + 1] = IF s[i] \in Clusters THEN f[s[i]] ELSE 0
    BY ChainSteps
  <1> HIDE DEF s
  <1>2. \A i \in 1 .. k - 1 : s[i + 1] = IF s[i] \in Clusters THEN g[s[i]] ELSE 0
    BY <1>1 DEF s
  <1>3. \A i \in 1 .. k : ChainFrom(g, h, k)[i] = s[i]
    BY <1>1, <1>2, ChainUnique
  <1>4. QED BY <1>3 DEF s

(* A chain of clusters stays in the set of what h leads to. *)
LEMMA ChainInTree ==
    ASSUME NEW f, NEW h, NEW k \in Nat, Chained(f, h, k)
    PROVE  \A i \in 1 .. k : ChainFrom(f, h, k)[i] \in Tree(f, h)
  <1> DEFINE w == ChainFrom(f, h, k)
             S == {i \in Nat : i + 1 \in 1 .. k => w[i + 1] \in Tree(f, h)}
  <1>1. /\ k > 0 => w[1] = h
        /\ \A i \in 1 .. k - 1 : w[i + 1] = IF w[i] \in Clusters THEN f[w[i]] ELSE 0
    BY ChainSteps
  <1>2. \A i \in 1 .. k : w[i] \in Clusters
    BY DEF Chained
  <1> HIDE DEF w
  <1>3. k > 0 => h \in Clusters /\ h \in Tree(f, h) /\ Closed(f, Tree(f, h))
    BY <1>1, <1>2, TreeClosed
  <1>4. 0 \in S
    BY <1>1, <1>3
  <1>5. ASSUME NEW i \in Nat, i \in S PROVE i + 1 \in S
    <2> SUFFICES ASSUME i + 1 + 1 \in 1 .. k PROVE w[i + 1 + 1] \in Tree(f, h)
      OBVIOUS
    <2>1. i + 1 \in 1 .. k - 1 /\ i + 1 \in 1 .. k /\ k > 0
      OBVIOUS
    <2>2. w[i + 1] \in Tree(f, h) /\ w[i + 1 + 1] = f[w[i + 1]] /\ w[i + 1 + 1] \in Clusters
      BY <1>1, <1>2, <1>5, <2>1
    <2>3. QED BY <1>3, <2>1, <2>2 DEF Closed
  <1>6. Nat \subseteq S
    <2> HIDE DEF S
    <2>1. QED BY <1>4, <1>5, Induction
  <1>7. ASSUME NEW i \in 1 .. k PROVE w[i] \in Tree(f, h)
    <2>1. i - 1 \in Nat /\ i - 1 + 1 = i
      OBVIOUS
    <2>2. QED BY <1>6, <2>1
  <1>8. QED BY <1>7 DEF w

(* A chain on a path never comes back to a cluster. *)
LEMMA ChainInjective ==
    ASSUME NEW f, NEW h, NEW k \in Nat, Chained(f, h, k), Path(f, h)
    PROVE  \A i, j \in 1 .. k : ChainFrom(f, h, k)[i] = ChainFrom(f, h, k)[j] => i = j
  <1> DEFINE w == ChainFrom(f, h, k)
             S == {i \in Nat : \A j \in 1 .. k :
                      i + 1 \in 1 .. k /\ i + 1 < j => w[i + 1] # w[j]}
  <1>1. /\ k > 0 => w[1] = h
        /\ \A i \in 1 .. k - 1 : w[i + 1] = IF w[i] \in Clusters THEN f[w[i]] ELSE 0
    BY ChainSteps
  <1>2. \A i \in 1 .. k : w[i] \in Clusters /\ w[i] \in Tree(f, h)
    BY ChainInTree DEF Chained
  <1> HIDE DEF w
  <1>3. \A i \in 1 .. k - 1 : w[i + 1] = f[w[i]]
    BY <1>1, <1>2
  <1>4. 0 \in S
    <2> SUFFICES ASSUME NEW j \in 1 .. k, 1 < j PROVE w[1] # w[j]
      OBVIOUS
    <2>1. j - 1 \in 1 .. k - 1 /\ j - 1 + 1 = j /\ j - 1 \in 1 .. k /\ k > 0
      OBVIOUS
    <2>2. w[j] = f[w[j - 1]] /\ w[j - 1] \in Tree(f, h)
      BY <1>2, <1>3, <2>1
    <2>3. QED BY <1>1, <2>1, <2>2 DEF Path
  <1>5. ASSUME NEW i \in Nat, i \in S PROVE i + 1 \in S
    <2> SUFFICES ASSUME NEW j \in 1 .. k, i + 1 + 1 \in 1 .. k, i + 1 + 1 < j,
                        w[i + 1 + 1] = w[j]
                 PROVE  FALSE
      OBVIOUS
    <2>1. /\ j - 1 \in 1 .. k - 1 /\ j - 1 + 1 = j /\ j - 1 \in 1 .. k
          /\ i + 1 \in 1 .. k - 1 /\ i + 1 \in 1 .. k /\ i + 1 < j - 1
      OBVIOUS
    <2>2. w[i + 1 + 1] = f[w[i + 1]] /\ w[j] = f[w[j - 1]]
      BY <1>3, <2>1
    <2>3. w[i + 1] = w[j - 1]
      BY <1>2, <2>1, <2>2 DEF Path
    <2>4. QED BY <1>5, <2>1, <2>3
  <1>6. Nat \subseteq S
    <2> HIDE DEF S
    <2>1. QED BY <1>4, <1>5, Induction
  <1>7. ASSUME NEW i \in 1 .. k, NEW j \in 1 .. k, i < j PROVE w[i] # w[j]
    <2>1. i - 1 \in Nat /\ i - 1 + 1 = i
      OBVIOUS
    <2>2. QED BY <1>6, <1>7, <2>1
  <1>8. \A i, j \in 1 .. k : w[i] = w[j] => i = j
    BY <1>7
  <1>9. QED BY <1>8 DEF w

(* A chain that ends after k clusters is all that h leads to. *)
LEMMA ChainIsTree ==
    ASSUME NEW f, NEW h, NEW k \in Nat, k > 0, Chained(f, h, k), Ends(f, h, k)
    PROVE  \A c \in Tree(f, h) : \E i \in 1 .. k : c = ChainFrom(f, h, k)[i]
  <1> DEFINE w == ChainFrom(f, h, k)
             S == {w[i] : i \in 1 .. k}
  <1>1. /\ w[1] = h
        /\ \A i \in 1 .. k - 1 : w[i + 1] = IF w[i] \in Clusters THEN f[w[i]] ELSE 0
    BY ChainSteps
  <1>2. (\A i \in 1 .. k : w[i] \in Clusters) /\ f[w[k]] \notin Clusters
    BY DEF Chained, Ends
  <1> HIDE DEF w
  <1>3. S \in SUBSET Clusters /\ h \in S
    BY <1>1, <1>2
  <1>4. Closed(f, S)
    <2> SUFFICES ASSUME NEW i \in 1 .. k, f[w[i]] \in Clusters PROVE f[w[i]] \in S
      BY DEF Closed
    <2>1. i \in 1 .. k - 1 /\ i + 1 \in 1 .. k
      BY <1>2
    <2>2. QED BY <1>1, <1>2, <2>1
  <1>5. Tree(f, h) \subseteq S
    BY <1>3, <1>4, TreeLeast
  <1>6. QED BY <1>5 DEF w

(* A table that has the same entries on all that h leads to has the chain. *)
LEMMA ChainKept ==
    ASSUME NEW f, NEW g, NEW h, NEW k \in Nat, Chained(f, h, k),
           \A c \in Tree(f, h) : g[c] = f[c]
    PROVE  /\ \A i \in 1 .. k : ChainFrom(g, h, k)[i] = ChainFrom(f, h, k)[i]
           /\ Chained(g, h, k)
           /\ k > 0 /\ Ends(f, h, k) => Ends(g, h, k)
  <1>1. \A i \in 1 .. k : ChainFrom(f, h, k)[i] \in Tree(f, h)
    BY ChainInTree
  <1>2. \A i \in 1 .. k - 1 : i \in 1 .. k
    OBVIOUS
  <1>3. \A i \in 1 .. k : ChainFrom(g, h, k)[i] = ChainFrom(f, h, k)[i]
    BY <1>1, <1>2, ChainSame
  <1>4. k > 0 => k \in 1 .. k
    OBVIOUS
  <1>5. QED BY <1>1, <1>3, <1>4 DEF Chained, Ends

(* Cutting a path after its first clusters leaves them, and they end there. *)
LEMMA ChainCut ==
    ASSUME NEW f, NEW g, NEW h, NEW k \in Nat, Chained(f, h, k), Path(f, h),
           NEW m \in 1 .. k,
           \A c \in Tree(f, h) : c # ChainFrom(f, h, k)[m] => g[c] = f[c]
    PROVE  /\ \A i \in 1 .. m : ChainFrom(g, h, m)[i] = ChainFrom(f, h, k)[i]
           /\ Chained(g, h, m)
  <1>1. m \in Nat /\ m <= k /\ \A i \in 1 .. m : i \in 1 .. k
    OBVIOUS
  <1>2. \A i \in 1 .. m : ChainFrom(f, h, m)[i] = ChainFrom(f, h, k)[i]
    BY <1>1, ChainPrefix
  <1>3. ASSUME NEW i \in 1 .. m - 1 PROVE g[ChainFrom(f, h, m)[i]] = f[ChainFrom(f, h, m)[i]]
    <2>1. i \in 1 .. m /\ i # m /\ i \in 1 .. k
      OBVIOUS
    <2>2. ChainFrom(f, h, k)[i] \in Tree(f, h)
      BY <2>1, ChainInTree
    <2>3. ChainFrom(f, h, k)[i] # ChainFrom(f, h, k)[m]
      BY <2>1, ChainInjective
    <2>4. QED BY <1>2, <2>1, <2>2, <2>3
  <1>4. \A i \in 1 .. m : ChainFrom(g, h, m)[i] = ChainFrom(f, h, m)[i]
    BY <1>1, <1>3, ChainSame
  <1>5. QED BY <1>1, <1>2, <1>4 DEF Chained

(* A shorter part of a chain of clusters is one. *)
LEMMA ChainedPrefix ==
    ASSUME NEW f, NEW h, NEW k \in Nat, Chained(f, h, k), NEW j \in Nat, j <= k
    PROVE  Chained(f, h, j)
  <1>1. \A i \in 1 .. j : i \in 1 .. k
    OBVIOUS
  <1>2. QED BY <1>1, ChainPrefix DEF Chained

-----------------------------------------------------------------------------
(* Dividing offsets into clusters *)

LEMMA DivMod ==
    ASSUME NEW a \in Nat, NEW b \in Nat \ {0}
    PROVE  /\ a \div b \in Nat /\ a % b \in Nat
           /\ a = (a \div b) * b + (a % b) /\ a % b < b
  OBVIOUS

LEMMA MulMonotone ==
    ASSUME NEW x \in Nat, NEW y \in Nat, NEW b \in Nat, x <= y
    PROVE  x * b \in Nat /\ y * b \in Nat /\ x * b <= y * b
  OBVIOUS

(* The quotient and the remainder are the only ones. *)
LEMMA DivUnique ==
    ASSUME NEW a \in Nat, NEW q \in Nat, NEW b \in Nat \ {0}, q * b <= a, a < q * b + b
    PROVE  a \div b = q /\ a % b = a - q * b
  <1> DEFINE d == a \div b
  <1>1. d \in Nat /\ a % b \in Nat /\ a = d * b + (a % b) /\ a % b < b
    BY DivMod
  <1> HIDE DEF d
  <1>2. d * b \in Nat /\ q * b \in Nat
    BY <1>1
  <1>3. ~(d < q)
    <2> SUFFICES ASSUME d + 1 <= q PROVE FALSE
      BY <1>1
    <2>1. (d + 1) * b <= q * b
      BY <1>1, MulMonotone
    <2>2. (d + 1) * b = d * b + b
      BY <1>1
    <2>3. QED BY <1>1, <1>2, <2>1, <2>2
  <1>4. ~(q < d)
    <2> SUFFICES ASSUME q + 1 <= d PROVE FALSE
      BY <1>1
    <2>1. (q + 1) * b <= d * b
      BY <1>1, MulMonotone
    <2>2. (q + 1) * b = q * b + b
      OBVIOUS
    <2>3. QED BY <1>1, <1>2, <2>1, <2>2
  <1>5. d = q
    BY <1>1, <1>3, <1>4
  <1>6. QED BY <1>1, <1>2, <1>5 DEF d

(* A longer file has as many clusters or more, an empty one none, and a file
   has a cluster for each of its bytes. *)
LEMMA ClustersForMonotone ==
    ASSUME NEW a \in Nat, NEW b \in Nat, a <= b
    PROVE  ClustersFor(a) <= ClustersFor(b)
  BY SizesAssumption DEF ClustersFor, CeilDiv

LEMMA ClustersForZero == ClustersFor(0) = 0
  <1>1. ClusterBytes - 1 \in Nat /\ 0 * ClusterBytes <= ClusterBytes - 1
        /\ ClusterBytes - 1 < 0 * ClusterBytes + ClusterBytes /\ 0 \in Nat
    BY SizesAssumption
  <1>2. (ClusterBytes - 1) \div ClusterBytes = 0
    BY <1>1, SizesAssumption, DivUnique
  <1>3. QED BY <1>2, SizesAssumption DEF ClustersFor, CeilDiv

LEMMA ByteHasCluster ==
    ASSUME NEW p \in Nat, NEW len \in Nat, p < len
    PROVE  p \div ClusterBytes + 1 \in 1 .. ClustersFor(len) /\ p % ClusterBytes \in ClusterIndex
  <1>1. p \div ClusterBytes + 1 <= (len + ClusterBytes - 1) \div ClusterBytes
    BY SizesAssumption
  <1>2. p \div ClusterBytes \in Nat /\ p % ClusterBytes \in ClusterIndex
    BY SizesAssumption, DivMod DEF ClusterIndex
  <1>3. ClustersFor(len) \in Nat /\ ClustersFor(len) = (len + ClusterBytes - 1) \div ClusterBytes
    BY ClustersForType DEF ClustersFor, CeilDiv
  <1>4. QED BY <1>1, <1>2, <1>3

(* The bitmap has a bit for every cluster. *)
LEMMA BitmapCovers == \A c \in Clusters : c < BitmapBits + 2
  <1> DEFINE q == (ClusterCount + BitsPerByte - 1) \div BitsPerByte
  <1>1. /\ q \in Nat /\ (ClusterCount + BitsPerByte - 1) % BitsPerByte \in Nat
        /\ ClusterCount + BitsPerByte - 1 =
               q * BitsPerByte + ((ClusterCount + BitsPerByte - 1) % BitsPerByte)
        /\ (ClusterCount + BitsPerByte - 1) % BitsPerByte < BitsPerByte
    <2>1. ClusterCount + BitsPerByte - 1 \in Nat
      BY SizesAssumption
    <2>2. QED BY <2>1, SizesAssumption, DivMod
  <1>2. BitmapBits = BitsPerByte * q
    BY DEF BitmapBits, CeilDiv
  <1> HIDE DEF q
  <1>3. BitsPerByte * q = q * BitsPerByte /\ q * BitsPerByte \in Nat
    BY <1>1, SizesAssumption
  <1>4. ClusterCount <= BitmapBits
    BY <1>1, <1>2, <1>3, SizesAssumption
  <1>5. QED BY <1>2, <1>3, <1>4, SizesAssumption DEF Clusters

-----------------------------------------------------------------------------
(* The chains of the files *)

(* The chain of a file: clusters of its own, none of them twice. *)
LEMMA FileChains ==
    ASSUME IInv, WholeInv, NEW n \in Names, dir[n].used
    PROVE  /\ Kept(n) \in Nat /\ ClustersFor(dir[n].len) \in Nat
           /\ dir[n].len \in Nat /\ dir[n].first \in Clusters \cup {0}
           /\ Chained(fat, dir[n].first, Kept(n))
           /\ Path(fat, dir[n].first)
           /\ Reach(n) = Tree(fat, dir[n].first)
           /\ \A i \in 1 .. Kept(n) : ChainFrom(fat, dir[n].first, Kept(n))[i] \in Reach(n)
  <1>1. dir[n].len \in Nat /\ call.count \in Nat /\ dir[n].first \in Clusters \cup {0}
    BY Types DEF IInv, Entry
  <1>2. Kept(n) \in Nat /\ ClustersFor(dir[n].len) \in Nat
    BY <1>1, ClustersForType DEF Kept
  <1>3. Chained(fat, dir[n].first, Kept(n))
    BY DEF WholeInv
  <1>4. Path(fat, dir[n].first)
    BY DEF IInv, FilesInv, Paths
  <1>5. Reach(n) = Tree(fat, dir[n].first)
    BY DEF Reach
  <1>6. QED BY <1>1, <1>2, <1>3, <1>4, <1>5, ChainInTree

(* A step that writes no entry set and no FAT entry of a file keeps every
   chain. *)
LEMMA WholeKept ==
    ASSUME IInv, WholeInv, UNCHANGED dir,
           \A n \in Names : dir[n].used => Kept(n)' = Kept(n),
           \A n \in Names : \A c \in Reach(n) : fat'[c] = fat[c]
    PROVE  /\ WholeInv'
           /\ \A n \in Names : dir[n].used =>
                 /\ \A i \in 1 .. Kept(n) :
                       ChainFrom(fat', dir[n].first, Kept(n))[i]
                           = ChainFrom(fat, dir[n].first, Kept(n))[i]
                 /\ Kept(n) > 0 /\ Ends(fat, dir[n].first, Kept(n))
                       => Ends(fat', dir[n].first, Kept(n))
  <1>1. ASSUME NEW n \in Names, dir[n].used
        PROVE  /\ Chained(fat', dir[n].first, Kept(n))
               /\ \A i \in 1 .. Kept(n) :
                     ChainFrom(fat', dir[n].first, Kept(n))[i]
                         = ChainFrom(fat, dir[n].first, Kept(n))[i]
               /\ Kept(n) > 0 /\ Ends(fat, dir[n].first, Kept(n))
                     => Ends(fat', dir[n].first, Kept(n))
    <2> DEFINE k == Kept(n)
               h == dir[n].first
               g == fat'
    <2>1. k \in Nat /\ Chained(fat, h, k) /\ \A c \in Tree(fat, h) : g[c] = fat[c]
      BY <1>1, FileChains
    <2> HIDE DEF k, h, g
    <2>2. /\ \A i \in 1 .. k : ChainFrom(g, h, k)[i] = ChainFrom(fat, h, k)[i]
          /\ Chained(g, h, k)
          /\ k > 0 /\ Ends(fat, h, k) => Ends(g, h, k)
      BY <2>1, ChainKept
    <2>3. QED BY <2>2 DEF g, h, k
  <1>2. WholeInv'
    BY <1>1 DEF WholeInv
  <1>3. QED BY <1>1, <1>2

(* Between calls the files are whole when no cut is half made. *)
LEMMA EndStore ==
    ASSUME IInv, StoreInv, Ended, UNCHANGED disk, \A n \in Names : ~Cutting(n)
    PROVE  StoreInv'
  <1>1. fat' = fat /\ dir' = dir /\ data' = data
    BY DEF disk
  <1>2. /\ pc' = "idle" /\ call'.kind = "none" /\ todo' = << >>
    BY DEF Ended, NoCall, NameCall
  <1>3. \A n \in Names : Kept(n)' = Kept(n)
    BY <1>1, <1>2 DEF Kept, Cutting
  <1>4. WholeInv'
    BY <1>1, <1>3, WholeKept DEF StoreInv
  <1>5. SizesInv' /\ VectorInv' /\ FillInv' /\ TwoNamesInv' /\ TodoInv'
    BY <1>2 DEF SizesInv, VectorInv, FillInv, TwoNamesInv, TodoInv, Filling
  <1>6. QED BY <1>4, <1>5 DEF StoreInv

(* Steps of a call that write nothing but bits, and keep its sizes. *)
LEMMA ChainsStay ==
    ASSUME IInv, StoreInv, UNCHANGED <<fat, dir, call>>,
           \A n \in Names : Cutting(n)' <=> Cutting(n)
    PROVE  WholeInv' /\ \A n \in Names : Kept(n)' = Kept(n)
  <1>1. \A n \in Names : Kept(n)' = Kept(n)
    BY DEF Kept
  <1>2. QED BY <1>1, WholeKept DEF StoreInv

-----------------------------------------------------------------------------
(* Calls begin, entry sets change *)

LEMMA NothingToFree ==
    ASSUME todo' = << >>
    PROVE  TodoInv'
  BY DEF TodoInv

(* A call that works on entry sets only knows nothing about a chain. *)
LEMMA NothingComputed ==
    ASSUME IInv', pc' \in {"flush", "clear flush", "clear"},
           call'.kind \in {"create", "remove", "rename"} \/ pc' = "flush"
    PROVE  SizesInv' /\ VectorInv' /\ FillInv' /\ TodoInv'
  <1>1. todo' = << >>
    BY DEF IInv, CallInv, LocalsInv
  <1>2. ~Filling'
    BY DEF Filling
  <1>3. SizesInv'
    BY DEF SizesInv
  <1>4. TodoInv'
    BY <1>1, NothingToFree
  <1>5. VectorInv'
    BY <1>2 DEF VectorInv
  <1>6. FillInv'
    BY <1>2 DEF FillInv
  <1>7. QED BY <1>3, <1>4, <1>5, <1>6

(* The whole-chain invariant, entry by entry. *)
LEMMA WholeEntries ==
    ASSUME WholeInv, fat' = fat,
           \A n \in Names : dir'[n].used =>
               \/ dir[n].used /\ dir'[n] = dir[n] /\ Kept(n)' = Kept(n)
               \/ Chained(fat, dir'[n].first, Kept(n)')
    PROVE  WholeInv'
  BY DEF WholeInv

LEMMA StoreCreate ==
    ASSUME IInv, IInv', StoreInv, NEW n \in Names, Create(n)
    PROVE  StoreInv'
  <1>1. /\ pc = "idle" /\ pc' = "flush" /\ fat' = fat
        /\ dir' = [dir EXCEPT ![n] = NewEntry(0, 0)]
        /\ call'.kind = "create"
    BY DEF Create, Idle, NameCall
  <1>2. dir \in [Names -> Entry]
    BY Types DEF IInv
  <1>3. SizesInv' /\ VectorInv' /\ FillInv' /\ TodoInv'
    BY <1>1, NothingComputed
  <1>4. TwoNamesInv'
    BY <1>1 DEF TwoNamesInv
  <1>5. \A m \in Names : Kept(m)' = ClustersFor(dir'[m].len) /\ Kept(m) = ClustersFor(dir[m].len)
    BY <1>1 DEF Kept, Cutting
  <1>6. ASSUME NEW m \in Names, m # n PROVE dir'[m] = dir[m] /\ Kept(m)' = Kept(m)
    BY <1>1, <1>2, <1>5, <1>6
  <1>7. dir'[n].first = 0 /\ dir'[n].len = 0
    BY <1>1, <1>2 DEF NewEntry
  <1>8. Chained(fat, dir'[n].first, Kept(n)')
    <2>1. Kept(n)' = 0
      BY <1>5, <1>7, ClustersForZero
    <2>2. QED BY <2>1 DEF Chained
  <1>9. WholeInv'
    BY <1>1, <1>6, <1>8, WholeEntries DEF StoreInv
  <1>10. QED BY <1>3, <1>4, <1>9 DEF StoreInv

LEMMA StoreRemove ==
    ASSUME IInv, IInv', StoreInv, NEW n \in Names, Remove(n)
    PROVE  StoreInv'
  <1>1. /\ pc = "idle" /\ pc' \in {"flush", "clear flush"} /\ fat' = fat
        /\ dir' = [dir EXCEPT ![n] = NoEntry]
        /\ call'.kind = "remove"
    BY DEF Remove, Idle, NameCall
  <1>2. dir \in [Names -> Entry]
    BY Types DEF IInv
  <1>3. SizesInv' /\ VectorInv' /\ FillInv' /\ TodoInv'
    BY <1>1, NothingComputed
  <1>4. TwoNamesInv'
    BY <1>1 DEF TwoNamesInv
  <1>5. \A m \in Names : Kept(m)' = ClustersFor(dir'[m].len) /\ Kept(m) = ClustersFor(dir[m].len)
    BY <1>1 DEF Kept, Cutting
  <1>6. ASSUME NEW m \in Names, dir'[m].used
        PROVE  dir[m].used /\ dir'[m] = dir[m] /\ Kept(m)' = Kept(m)
    BY <1>1, <1>2, <1>5, <1>6 DEF NoEntry
  <1>7. WholeInv'
    BY <1>1, <1>6, WholeEntries DEF StoreInv
  <1>8. QED BY <1>3, <1>4, <1>7 DEF StoreInv

LEMMA StoreRename ==
    ASSUME IInv, IInv', StoreInv, NEW m \in Names, NEW n \in Names, m # n, Rename(m, n)
    PROVE  StoreInv'
  <1>1. /\ pc = "idle" /\ pc' = "clear flush" /\ fat' = fat
        /\ dir' = [dir EXCEPT ![n] = NewEntry(dir[m].first, dir[m].len)]
        /\ call'.kind = "rename" /\ call'.name = m /\ call'.to = n /\ dir[m].used
    BY DEF Rename, Idle, NameCall
  <1>2. dir \in [Names -> Entry]
    BY Types DEF IInv
  <1>3. SizesInv' /\ VectorInv' /\ FillInv' /\ TodoInv'
    BY <1>1, NothingComputed
  <1>4. dir'[n] = dir[m] /\ \A k \in Names \ {n} : dir'[k] = dir[k]
    <2>1. dir[m] = NewEntry(dir[m].first, dir[m].len)
      BY <1>1, <1>2 DEF Entry, NewEntry
    <2>2. QED BY <1>1, <1>2, <2>1
  <1>5. TwoNamesInv'
    BY <1>1, <1>4 DEF TwoNamesInv
  <1>6. \A k \in Names : Kept(k)' = ClustersFor(dir'[k].len) /\ Kept(k) = ClustersFor(dir[k].len)
    BY <1>1 DEF Kept, Cutting
  <1>7. Chained(fat, dir'[n].first, Kept(n)')
    <2>1. Chained(fat, dir[m].first, Kept(m))
      BY <1>1 DEF StoreInv, WholeInv
    <2>2. QED BY <1>4, <1>6, <2>1
  <1>8. WholeInv'
    <2>1. \A k \in Names \ {n} : Kept(k)' = Kept(k)
      BY <1>4, <1>6
    <2>2. QED BY <1>1, <1>4, <1>7, <2>1, WholeEntries DEF StoreInv
  <1>9. QED BY <1>3, <1>5, <1>8 DEF StoreInv

(* What write_file computes before its first loop. *)
LEMMA StoreStartWrite ==
    ASSUME IInv, IInv', StoreInv, pc = "idle", NEW n \in Names, NEW off \in Nat, NEW cnt \in Nat,
           NEW v \in Bytes, cnt > 0, dir[n].used, StartWrite(n, off, cnt, v)
    PROVE  StoreInv'
  <1> DEFINE len == dir[n].len
             size == IF off + cnt > len THEN off + cnt ELSE len
             old == ClustersFor(len)
             new == ClustersFor(size)
  <1>1. /\ fat' = fat /\ dir' = dir /\ chain' = chain /\ got' = got /\ todo' = todo
        /\ call'.kind = "write" /\ call'.name = n /\ call'.off = off /\ call'.cnt = cnt
        /\ call'.first = dir[n].first /\ call'.len = size /\ call'.old = old
        /\ call'.count = IF new > old THEN new - old ELSE 0
        /\ pc' = IF len = 0 THEN "alloc" ELSE "read"
        /\ pos' = FillStart(len, off) /\ cur' = dir[n].first
    BY DEF StartWrite, SizeCall, disk
  <1>2. chain = << >> /\ got = << >> /\ todo = << >>
    BY DEF IInv, CallInv, LocalsInv
  <1>3. len \in Nat /\ old \in Nat /\ (len > 0 => old > 0)
    BY ClustersForType, Types DEF IInv, Entry
  <1>4. size \in Nat /\ size > 0 /\ len <= size /\ new \in Nat /\ new > 0 /\ old <= new
    BY <1>3, ClustersForType, ClustersForMonotone
  <1>5. call'.count = new - old
    BY <1>1, <1>3, <1>4
  <1>6. \A m \in Names : Kept(m)' = Kept(m)
    BY <1>1 DEF Kept, Cutting
  <1>7. WholeInv'
    BY <1>1, <1>6, WholeEntries DEF StoreInv, WholeInv
  <1>8. SizesInv'
    BY <1>1, <1>5 DEF SizesInv
  <1>9. VectorInv'
    <2>1. CASE len = 0
      <3>1. old = 0 /\ pc' = "alloc"
        BY <1>1, <2>1, ClustersForZero
      <3>2. QED BY <1>1, <1>2, <1>4, <1>5, <3>1 DEF VectorInv, Filling
    <2>2. CASE len # 0
      <3>1. old > 0 /\ pc' = "read"
        BY <1>1, <1>3, <2>2
      <3>2. ChainFrom(fat, dir[n].first, old)[1] = dir[n].first
        BY <1>3, <3>1, ChainSteps
      <3>3. QED BY <1>1, <1>2, <1>3, <3>1, <3>2 DEF VectorInv, Filling
    <2>3. QED BY <2>1, <2>2
  <1>10. FillInv' /\ TwoNamesInv' /\ TodoInv'
    BY <1>1, <1>2 DEF FillInv, Start, Filling, TwoNamesInv, TodoInv
  <1>11. QED BY <1>7, <1>8, <1>9, <1>10 DEF StoreInv

LEMMA StoreShrink ==
    ASSUME SoundOps, IInv, IInv', StoreInv, NEW n \in Names, NEW len \in Nat, Shrink(n, len)
    PROVE  StoreInv'
  <1> DEFINE old == ClustersFor(dir[n].len)
  <1>1. /\ fat' = fat /\ dir' = dir /\ chain' = chain /\ got' = got /\ todo' = todo
        /\ call'.kind = "shrink" /\ call'.name = n
        /\ call'.first = dir[n].first /\ call'.len = len /\ call'.old = old
        /\ call'.count = ClustersFor(len)
        /\ pc = "idle" /\ pc' = "read" /\ cur' = dir[n].first
        /\ len > 0 /\ len <= dir[n].len /\ dir[n].len > 0
    BY DEF Shrink, SizeCall, disk, Idle, SoundOps
  <1>2. chain = << >> /\ got = << >> /\ todo = << >>
    BY <1>1 DEF IInv, CallInv, LocalsInv
  <1>3. dir[n].len \in Nat /\ old \in Nat /\ old > 0
    BY <1>1, ClustersForType, Types DEF IInv, Entry
  <1>4. \A m \in Names : Kept(m)' = Kept(m)
    BY <1>1 DEF Kept, Cutting
  <1>5. WholeInv'
    BY <1>1, <1>4, WholeEntries DEF StoreInv, WholeInv
  <1>6. SizesInv'
    BY <1>1 DEF SizesInv
  <1>7. VectorInv'
    <2>1. ChainFrom(fat, dir[n].first, old)[1] = dir[n].first
      BY <1>3, ChainSteps
    <2>2. QED BY <1>1, <1>2, <1>3, <2>1 DEF VectorInv, Filling
  <1>8. FillInv' /\ TwoNamesInv' /\ TodoInv'
    BY <1>1, <1>2 DEF FillInv, Filling, TwoNamesInv, TodoInv
  <1>9. QED BY <1>5, <1>6, <1>7, <1>8 DEF StoreInv

LEMMA NothingFreed ==
    ASSUME IInv', pc' \notin {"walk", "free bit", "free fat"}
    PROVE  TodoInv'
  <1>1. todo' = << >>
    BY DEF IInv, CallInv, LocalsInv
  <1>2. QED BY <1>1, NothingToFree

-----------------------------------------------------------------------------
(* The vector of the call is the chain of its file *)

(* While it reads, a call works on the chain of its file. *)
LEMMA CallChain ==
    ASSUME IInv, StoreInv, pc \in {"read", "alloc", "link", "tail", "cut"}
    PROVE  /\ call.kind \in {"write", "shrink"} /\ call.name \in Names /\ dir[call.name].used
           /\ call.first = dir[call.name].first /\ call.old = ClustersFor(dir[call.name].len)
           /\ call.old \in Nat /\ call.old = Kept(call.name)
           /\ Chained(fat, call.first, call.old) /\ Path(fat, call.first)
           /\ Reach(call.name) = Tree(fat, call.first)
  <1>1. call.kind \in {"write", "shrink"} /\ call.name \in Names /\ dir[call.name].used
    <2>1. pc = "cut" => call.kind = "shrink"
      BY DEF IInv, LoopsInv
    <2>2. QED BY <2>1 DEF IInv, CallInv, KindInv
  <1>2. call.first = dir[call.name].first
    BY DEF IInv, CallInv, ReadInv
  <1>3. call.old = ClustersFor(dir[call.name].len)
    BY <1>1 DEF StoreInv, SizesInv
  <1>4. Kept(call.name) = call.old
    BY <1>3 DEF Kept, Cutting
  <1>5. QED BY <1>1, <1>2, <1>3, <1>4, FileChains DEF StoreInv

LEMMA StoreReadChain ==
    ASSUME IInv, IInv', StoreInv, ReadChain
    PROVE  StoreInv'
  <1> DEFINE w == ChainFrom(fat, call.first, call.old)
  <1>1. /\ pc = "read" /\ cur \in Clusters
        /\ fat' = fat /\ dir' = dir /\ data' = data /\ call' = call /\ pos' = pos /\ got' = got
        /\ chain' = Append(chain, cur)
        /\ \/ /\ fat[cur] = END_OF_CHAIN \/ Len(chain) + 1 = call.old
              /\ pc' = IF call.kind = "shrink" THEN "cut"
                       ELSE IF call.count > 0 THEN "alloc" ELSE "data"
           \/ /\ ~(fat[cur] = END_OF_CHAIN \/ Len(chain) + 1 = call.old)
              /\ cur' = fat[cur] /\ pc' = "read"
    BY DEF ReadChain, disk
  <1>2. /\ call.kind \in {"write", "shrink"} /\ call.name \in Names
        /\ call.first = dir[call.name].first /\ call.old = ClustersFor(dir[call.name].len)
        /\ call.old \in Nat /\ Chained(fat, call.first, call.old)
    BY <1>1, CallChain
  <1>3. /\ Len(chain) \in Nat /\ Len(chain) < call.old /\ cur = w[Len(chain) + 1]
        /\ \A i \in 1 .. Len(chain) : chain[i] = w[i]
    BY <1>1, Types DEF StoreInv, VectorInv, IInv
  <1>4. /\ call.old > 0 => w[1] = call.first
        /\ \A i \in 1 .. call.old - 1 : w[i + 1] = IF w[i] \in Clusters THEN fat[w[i]] ELSE 0
        /\ \A i \in 1 .. call.old : w[i] \in Clusters
    BY <1>2, ChainSteps DEF Chained
  <1> HIDE DEF w
  <1>5. Len(chain') = Len(chain) + 1 /\ \A i \in 1 .. Len(chain') : chain'[i] = w[i]
    <2>1. chain \in Seq(Clusters)
      BY Types DEF IInv
    <2>2. Len(chain') = Len(chain) + 1 /\ \A i \in 1 .. Len(chain') :
              chain'[i] = IF i = Len(chain) + 1 THEN cur ELSE chain[i]
      BY <1>1, <2>1, AppendProperties
    <2>3. QED BY <1>3, <2>2
  <1>6. Len(chain) + 1 < call.old =>
            w[Len(chain) + 2] = fat[cur] /\ fat[cur] # END_OF_CHAIN
    <2> SUFFICES ASSUME Len(chain) + 1 < call.old
                 PROVE  w[Len(chain) + 2] = fat[cur] /\ fat[cur] # END_OF_CHAIN
      OBVIOUS
    <2>1. Len(chain) + 1 \in 1 .. call.old - 1 /\ Len(chain) + 1 + 1 \in 1 .. call.old
          /\ Len(chain) + 1 + 1 = Len(chain) + 2
      BY <1>2, <1>3
    <2>2. w[Len(chain) + 2] = fat[cur] /\ w[Len(chain) + 2] \in Clusters
      BY <1>1, <1>3, <1>4, <2>1
    <2>3. QED BY <2>2, MarksAreNotClusters
  <1>7. WholeInv'
    <2>1. \A n \in Names : Cutting(n)' <=> Cutting(n)
      BY <1>1 DEF Cutting
    <2>2. QED BY <1>1, <2>1, ChainsStay
  <1>8. SizesInv'
    BY <1>1 DEF StoreInv, SizesInv
  <1>9. TwoNamesInv' /\ TodoInv'
    <2>1. TwoNamesInv'
      BY <1>1, <1>2 DEF TwoNamesInv
    <2>2. pc' \notin {"walk", "free bit", "free fat"}
      BY <1>1
    <2>3. QED BY <2>1, <2>2, NothingFreed
  <1>10. CASE pc' = "read"
    <2>1. Len(chain) + 1 < call.old /\ cur' = fat[cur]
      BY <1>1, <1>2, <1>3, <1>10
    <2>2. Len(chain') < call.old /\ cur' = w[Len(chain') + 1]
      BY <1>3, <1>5, <1>6, <2>1
    <2>3. VectorInv'
      BY <1>1, <1>5, <1>10, <2>2 DEF VectorInv, Filling, w
    <2>4. FillInv'
      BY <1>1, <1>10 DEF StoreInv, FillInv, Filling, Start
    <2>5. QED BY <1>7, <1>8, <1>9, <2>3, <2>4 DEF StoreInv
  <1>11. CASE pc' # "read"
    <2>1. Len(chain') = call.old /\ \A i \in 1 .. Len(chain') : chain'[i] = w[i]
      BY <1>1, <1>2, <1>3, <1>5, <1>6, <1>11
    <2>2. CASE pc' = "cut"
      <3>1. VectorInv'
        BY <1>1, <2>1, <2>2 DEF VectorInv, Filling, w
      <3>2. FillInv'
        BY <1>1, <2>2 DEF FillInv, Filling
      <3>3. QED BY <1>7, <1>8, <1>9, <3>1, <3>2 DEF StoreInv
    <2>3. CASE pc' = "alloc"
      <3>1. got = << >> /\ Len(got) = 0 /\ call.count > 0
        BY <1>1, <1>11, <2>3 DEF IInv, CallInv, LocalsInv
      <3>2. VectorInv'
        BY <1>1, <2>1, <2>3, <3>1 DEF VectorInv, Filling, w
      <3>3. FillInv'
        BY <1>1, <2>3 DEF StoreInv, FillInv, Filling, Start
      <3>4. QED BY <1>7, <1>8, <1>9, <3>2, <3>3 DEF StoreInv
    <2>4. CASE pc' = "data"
      <3>1. call.kind = "write" /\ ~(call.count > 0) /\ call.count \in Nat
        BY <1>1, <1>2, <1>11, <2>4, Types DEF IInv
      <3>2. /\ call.cnt > 0
            /\ call.len = IF call.off + call.cnt > dir[call.name].len
                          THEN call.off + call.cnt ELSE dir[call.name].len
            /\ call.count = ClustersFor(call.len) - call.old
        BY <1>1, <3>1 DEF StoreInv, SizesInv
      <3>3. /\ dir[call.name].len \in Nat /\ call.len \in Nat /\ call.off \in Nat
            /\ call.cnt \in Nat /\ ClustersFor(call.len) \in Nat
        BY <1>2, Types, ClustersForType DEF IInv, CallType, Entry
      <3>4. Len(chain') = ClustersFor(call.len)
        BY <1>2, <2>1, <3>1, <3>2, <3>3
      <3>5. VectorInv'
        BY <1>1, <1>2, <2>1, <2>4, <3>4 DEF VectorInv, Filling, w
      <3>6. pos = Start /\ Start <= call.off /\ Start \in Nat
        BY <1>1, <3>1, <3>3 DEF StoreInv, FillInv, Start, FillStart
      <3>7. FillInv'
        <4>1. pos' = pos /\ Start' = Start /\ pos' < call'.off + call'.cnt
              /\ \A p \in Start .. pos - 1 : FALSE
          BY <1>1, <3>2, <3>3, <3>6 DEF Start
        <4>2. QED BY <1>1, <2>4, <3>6, <4>1 DEF FillInv
      <3>8. QED BY <1>7, <1>8, <1>9, <3>5, <3>7 DEF StoreInv
    <2>5. QED BY <1>1, <1>11, <2>2, <2>3, <2>4
  <1>12. QED BY <1>10, <1>11

-----------------------------------------------------------------------------
(* New clusters *)

LEMMA StoreAllocCluster ==
    ASSUME IInv, IInv', StoreInv, NEW c \in Clusters, AllocCluster(c)
    PROVE  StoreInv'
  <1>1. /\ pc = "alloc" /\ fat' = fat /\ dir' = dir /\ call' = call /\ pos' = pos /\ cur' = cur
        /\ chain' = chain /\ got' = Append(got, c)
        /\ pc' = IF Len(got) + 1 = call.count THEN "link" ELSE "alloc"
    BY DEF AllocCluster
  <1>2. call.kind = "write"
    BY <1>1 DEF IInv, CallInv, KindInv
  <1>3. Len(got) \in Nat /\ call.count \in Nat /\ Len(got) < call.count /\ Len(got') = Len(got) + 1
    <2>1. got \in Seq(Clusters)
      BY Types DEF IInv
    <2>2. Len(got') = Len(got) + 1
      BY <1>1, <2>1, AppendProperties
    <2>3. QED BY <1>1, <2>2, Types DEF IInv, StoreInv, VectorInv
  <1>4. WholeInv'
    <2>1. \A n \in Names : Cutting(n)' <=> Cutting(n)
      BY <1>1, <1>2 DEF Cutting
    <2>2. QED BY <1>1, <2>1, ChainsStay
  <1>5. SizesInv'
    BY <1>1 DEF StoreInv, SizesInv
  <1>6. VectorInv'
    BY <1>1, <1>3 DEF StoreInv, VectorInv, Filling
  <1>7. FillInv'
    BY <1>1 DEF StoreInv, FillInv, Filling, Start
  <1>8. TwoNamesInv' /\ TodoInv'
    <2>1. TwoNamesInv'
      BY <1>1, <1>2 DEF TwoNamesInv
    <2>2. pc' \notin {"walk", "free bit", "free fat"}
      BY <1>1
    <2>3. QED BY <2>1, <2>2, NothingFreed
  <1>9. QED BY <1>4, <1>5, <1>6, <1>7, <1>8 DEF StoreInv

(* The next cluster to link is one of those taken, and in no file's chain. *)
LEMMA NextLink ==
    ASSUME IInv, pc = "link"
    PROVE  linked + 1 \in 1 .. Len(got) /\ \A n \in Names : got[linked + 1] \notin Reach(n)
  <1>1. linked \in Nat /\ Len(got) \in Nat
    BY Types DEF IInv
  <1>2. AllocInv
    BY DEF IInv, CallInv
  <1>3. /\ linked < Len(got)
        /\ \A i \in 1 .. Len(got) : \A n \in Names : got[i] \notin Reach(n)
    BY <1>2 DEF AllocInv
  <1>4. linked + 1 \in 1 .. Len(got)
    BY <1>1, <1>3
  <1>5. QED BY <1>3, <1>4

(* The FAT entry of a new cluster is in no file's chain. *)
LEMMA LinkKeeps ==
    ASSUME IInv, LinkCluster
    PROVE  \A n \in Names : \A c \in Reach(n) : fat'[c] = fat[c]
  <1> DEFINE x == got[linked + 1]
  <1>1. pc = "link" /\ fat' = [fat EXCEPT ![x] = Successor(linked + 1)]
    BY DEF LinkCluster
  <1>2. linked + 1 \in 1 .. Len(got) /\ \A n \in Names : x \notin Reach(n)
    BY <1>1, NextLink
  <1>3. \A n \in Names : Reach(n) \subseteq Clusters
    BY ReachClosed
  <1>4. fat \in [Clusters -> FatValues]
    BY Types DEF IInv
  <1> HIDE DEF x
  <1>5. QED BY <1>1, <1>2, <1>3, <1>4

LEMMA StoreLinkCluster ==
    ASSUME IInv, IInv', StoreInv, LinkCluster
    PROVE  StoreInv'
  <1> DEFINE x == got[linked + 1]
             w == ChainFrom(fat, call.first, call.old)
             v == ChainFrom(fat', call.first, call.old)
  <1>1. /\ pc = "link" /\ dir' = dir /\ call' = call /\ pos' = pos /\ cur' = cur /\ data' = data
        /\ chain' = chain /\ got' = got
        /\ fat' = [fat EXCEPT ![x] = Successor(linked + 1)]
        /\ pc' \in {"link", "tail"}
    BY DEF LinkCluster
  <1>2. call.kind = "write" /\ call.name \in Names /\ dir[call.name].used
        /\ call.first = dir[call.name].first /\ call.old = Kept(call.name)
    BY <1>1, CallChain DEF IInv, CallInv, KindInv
  <1>3. linked + 1 \in 1 .. Len(got) /\ \A n \in Names : x \notin Reach(n)
    BY <1>1, NextLink
  <1>4. \A n \in Names : \A c \in Reach(n) : fat'[c] = fat[c]
    BY LinkKeeps
  <1>5. \A n \in Names : Kept(n)' = Kept(n)
    BY <1>1, <1>2 DEF Kept, Cutting
  <1> HIDE DEF x
  <1>6. WholeInv' /\ \A i \in 1 .. call.old : v[i] = w[i]
    <2>1. /\ WholeInv'
          /\ \A n \in Names : dir[n].used =>
                \A i \in 1 .. Kept(n) :
                    ChainFrom(fat', dir[n].first, Kept(n))[i]
                        = ChainFrom(fat, dir[n].first, Kept(n))[i]
      BY <1>1, <1>4, <1>5, WholeKept DEF StoreInv
    <2>2. \A i \in 1 .. Kept(call.name) :
              ChainFrom(fat', dir[call.name].first, Kept(call.name))[i]
                  = ChainFrom(fat, dir[call.name].first, Kept(call.name))[i]
      BY <1>2, <2>1
    <2>3. QED BY <1>2, <2>1, <2>2
  <1>7. SizesInv'
    BY <1>1 DEF StoreInv, SizesInv
  <1>8. VectorInv'
    <2>1. /\ Len(chain) = call.old /\ Len(got) = call.count
          /\ \A i \in 1 .. Len(chain) : chain[i] = w[i]
      BY <1>1 DEF StoreInv, VectorInv
    <2>2. \A i \in 1 .. Len(chain) : chain[i] = v[i]
      BY <1>6, <2>1
    <2>3. QED BY <1>1, <2>1, <2>2 DEF VectorInv, Filling
  <1>9. FillInv'
    BY <1>1 DEF StoreInv, FillInv, Filling, Start
  <1>10. TwoNamesInv' /\ TodoInv'
    <2>1. TwoNamesInv'
      BY <1>1, <1>2 DEF TwoNamesInv
    <2>2. pc' \notin {"walk", "free bit", "free fat"}
      BY <1>1
    <2>3. QED BY <2>1, <2>2, NothingFreed
  <1>11. QED BY <1>6, <1>7, <1>8, <1>9, <1>10 DEF StoreInv

(* What is true at "tail": the new clusters are a chain of their own. *)
LEMMA TailFacts ==
    ASSUME IInv, StoreInv, pc = "tail"
    PROVE  /\ call.kind = "write" /\ call.cnt > 0
           /\ call.off \in Nat /\ call.cnt \in Nat /\ dir[call.name].len \in Nat
           /\ Len(got) = call.count /\ Len(got) \in Nat /\ Len(got) > 0
           /\ Len(chain) = call.old /\ Len(chain) \in Nat
           /\ ClustersFor(call.len) = call.old + Len(got)
           /\ \A i \in 1 .. Len(got) :
                 got[i] \in Clusters /\ \A n \in Names : got[i] \notin Reach(n)
           /\ \A i \in 1 .. Len(got) - 1 : fat[got[i]] = got[i + 1]
           /\ fat[got[Len(got)]] = END_OF_CHAIN
           /\ pos = Start /\ Start \in Nat /\ Start <= call.off
  <1>1. call.kind = "write" /\ call.name \in Names /\ dir[call.name].used
    BY CallChain DEF IInv, CallInv, KindInv
  <1>2. /\ call.cnt > 0
        /\ call.len = IF call.off + call.cnt > dir[call.name].len
                      THEN call.off + call.cnt ELSE dir[call.name].len
        /\ call.old = ClustersFor(dir[call.name].len)
        /\ call.count = ClustersFor(call.len) - call.old
    BY <1>1 DEF StoreInv, SizesInv
  <1>3. /\ dir[call.name].len \in Nat /\ call.len \in Nat /\ call.off \in Nat
        /\ call.cnt \in Nat /\ call.old \in Nat /\ ClustersFor(call.len) \in Nat
    BY <1>1, Types, ClustersForType DEF IInv, CallType, Entry
  <1>4. Len(got) = call.count /\ Len(chain) = call.old
    BY DEF StoreInv, VectorInv
  <1>5. /\ linked = Len(got) /\ linked > 0 /\ \A j \in 1 .. linked : fat[got[j]] = Successor(j)
        /\ \A i \in 1 .. Len(got) : \A n \in Names : got[i] \notin Reach(n)
    BY DEF IInv, CallInv, AllocInv
  <1>6. Len(got) \in Nat /\ \A i \in 1 .. Len(got) : got[i] \in Clusters
    BY Types, ElementOfSeq DEF IInv
  <1>7. /\ \A i \in 1 .. Len(got) - 1 : fat[got[i]] = got[i + 1]
        /\ fat[got[Len(got)]] = END_OF_CHAIN
    BY <1>5, <1>6 DEF Successor
  <1>8. pos = Start /\ Start \in Nat /\ Start <= call.off
    BY <1>1, <1>3 DEF StoreInv, FillInv, Start, FillStart
  <1>9. ClustersFor(call.len) = call.old + Len(got) /\ Len(got) > 0
    <2> DEFINE a == ClustersFor(call.len)
    <2>1. a \in Nat /\ call.old \in Nat /\ Len(got) \in Nat /\ Len(got) = a - call.old
      BY <1>2, <1>3, <1>4, <1>6
    <2>2. linked = Len(got) /\ linked > 0
      BY <1>5
    <2> HIDE DEF a
    <2>3. a = call.old + Len(got)
      BY <2>1
    <2>4. QED BY <2>2, <2>3 DEF a
  <1>10. Len(chain) \in Nat /\ call.cnt > 0
    BY <1>2, <1>3, <1>4
  <1>11. \A i \in 1 .. Len(got) :
            got[i] \in Clusters /\ \A n \in Names : got[i] \notin Reach(n)
    BY <1>5, <1>6
  <1>12. QED BY <1>1, <1>3, <1>4, <1>6, <1>7, <1>8, <1>9, <1>10, <1>11

(* The data writes begin at the start of the range. *)
LEMMA FillBegins ==
    ASSUME IInv, StoreInv, pc = "tail", pc' = "data", call'.kind = "write",
           call'.off = call.off, call'.cnt = call.cnt, call'.name = call.name,
           UNCHANGED <<dir, pos>>
    PROVE  FillInv'
  <1>1. /\ pos = Start /\ Start \in Nat /\ Start <= call.off /\ call.off \in Nat
        /\ call.cnt \in Nat /\ call.cnt > 0
    BY TailFacts
  <1>2. Start' = Start
    BY DEF Start
  <1>3. /\ Start' <= pos' /\ pos' < call'.off + call'.cnt /\ pos' = Start'
        /\ Start' .. pos' - 1 = {}
    BY <1>1, <1>2
  <1>4. QED BY <1>3 DEF FillInv

LEMMA StoreStartChain ==
    ASSUME IInv, IInv', StoreInv, StartChain
    PROVE  StoreInv'
  <1> DEFINE w == ChainFrom(fat, got[1], Len(got))
  <1>1. /\ pc = "tail" /\ pc' = "data" /\ chain = << >>
        /\ fat' = fat /\ dir' = dir /\ data' = data /\ pos' = pos /\ chain' = got
        /\ call' = [call EXCEPT !.first = got[1]]
    BY DEF StartChain, disk
  <1>2. /\ call'.kind = call.kind /\ call'.off = call.off /\ call'.cnt = call.cnt
        /\ call'.name = call.name /\ call'.len = call.len /\ call'.old = call.old
        /\ call'.count = call.count /\ call'.first = got[1]
    BY <1>1, Types DEF IInv, CallType
  <1>3. /\ call.kind = "write" /\ Len(got) \in Nat /\ Len(got) > 0
        /\ call.old = 0 /\ Len(got) = ClustersFor(call.len)
        /\ \A i \in 1 .. Len(got) : got[i] \in Clusters
        /\ \A i \in 1 .. Len(got) - 1 : fat[got[i]] = got[i + 1]
    BY <1>1, TailFacts
  <1>4. \A i \in 1 .. Len(got) : w[i] = got[i]
    <2>1. \A i \in 1 .. Len(got) - 1 : i \in 1 .. Len(got)
      BY <1>3
    <2>2. QED BY <1>3, <2>1, ChainUnique
  <1>5. WholeInv'
    <2>1. \A n \in Names : Kept(n)' = Kept(n)
      BY <1>1, <1>2, <1>3 DEF Kept, Cutting
    <2>2. QED BY <1>1, <2>1, WholeEntries DEF StoreInv, WholeInv
  <1>6. SizesInv'
    BY <1>1, <1>2, <1>3 DEF StoreInv, SizesInv
  <1>7. VectorInv'
    BY <1>1, <1>2, <1>3, <1>4 DEF VectorInv, Filling
  <1>8. FillInv'
    BY <1>1, <1>2, <1>3, FillBegins
  <1>9. TwoNamesInv' /\ TodoInv'
    BY <1>1, <1>2, <1>3, NothingFreed DEF TwoNamesInv
  <1>10. QED BY <1>5, <1>6, <1>7, <1>8, <1>9 DEF StoreInv

(* The file's chain and the new one are joined. *)
LEMMA LinkTailChains ==
    ASSUME IInv, StoreInv, LinkTail
    PROVE  /\ \A i \in 1 .. Len(chain') :
                 ChainFrom(fat', call.first, Len(chain'))[i] = chain'[i] /\ chain'[i] \in Clusters
           /\ Len(chain') = ClustersFor(call.len) /\ Len(chain') \in Nat /\ Len(chain') > Len(chain)
           /\ Len(chain') = Len(chain) + Len(got)
           /\ fat'[chain'[Len(chain')]] = END_OF_CHAIN
           /\ \A i \in 1 .. Len(chain) : chain'[i] = chain[i]
           /\ \A i \in 1 .. Len(got) : got[i] = chain'[Len(chain) + i]
           /\ Chained(fat', call.first, call.old)
           /\ \A n \in Names \ {call.name} : \A c \in Reach(n) : fat'[c] = fat[c]
  <1> DEFINE me == call.name
             h == call.first
             k == call.old
             w == ChainFrom(fat, h, k)
             g == fat'
             s == chain'
             L == Len(chain')
             tail == chain[Len(chain)]
  <1>1. /\ pc = "tail" /\ chain # << >> /\ s = chain \o got
        /\ g = [fat EXCEPT ![tail] = got[1]]
    BY DEF LinkTail
  <1>2. /\ me \in Names /\ dir[me].used /\ k \in Nat /\ Chained(fat, h, k) /\ Path(fat, h)
        /\ Reach(me) = Tree(fat, h)
    BY <1>1, CallChain
  <1>3. /\ call.kind = "write" /\ Len(chain) = k /\ Len(got) \in Nat /\ Len(got) > 0
        /\ ClustersFor(call.len) = k + Len(got)
        /\ \A i \in 1 .. Len(got) : got[i] \in Clusters /\ got[i] \notin Reach(me)
        /\ \A i \in 1 .. Len(got) - 1 : fat[got[i]] = got[i + 1]
        /\ fat[got[Len(got)]] = END_OF_CHAIN
    BY <1>1, <1>2, TailFacts
  <1>4. /\ chain \in Seq(Clusters) /\ got \in Seq(Clusters) /\ fat \in [Clusters -> FatValues]
    BY Types DEF IInv
  <1>5. k > 0
    BY <1>1, <1>3, <1>4, EmptySeq
  <1>6. /\ L = k + Len(got)
        /\ \A i \in 1 .. L : s[i] = IF i <= k THEN chain[i] ELSE got[i - k]
    BY <1>1, <1>3, <1>4, ConcatProperties
  <1>7. \A i \in 1 .. k : chain[i] = w[i] /\ w[i] \in Clusters /\ w[i] \in Reach(me)
    <2>1. \A i \in 1 .. k : w[i] \in Tree(fat, h) /\ w[i] \in Clusters
      BY <1>2, ChainInTree DEF Chained
    <2>2. \A i \in 1 .. Len(chain) : chain[i] = w[i]
      BY <1>1 DEF StoreInv, VectorInv
    <2>3. QED BY <1>2, <1>3, <2>1, <2>2
  <1>8. /\ w[1] = h
        /\ \A i \in 1 .. k - 1 : w[i + 1] = IF w[i] \in Clusters THEN fat[w[i]] ELSE 0
        /\ \A i, j \in 1 .. k : w[i] = w[j] => i = j
    BY <1>2, <1>5, ChainSteps, ChainInjective
  <1>9. tail = w[k] /\ tail \in Reach(me) /\ tail \in Clusters
    BY <1>3, <1>5, <1>7
  <1>10. /\ g[tail] = got[1]
         /\ \A c \in Clusters : c # tail => g[c] = fat[c]
    BY <1>1, <1>4, <1>9
  <1>11. \A n \in Names \ {me} : \A c \in Reach(n) : g[c] = fat[c]
    <2> SUFFICES ASSUME NEW n \in Names \ {me}, NEW c \in Reach(n) PROVE g[c] = fat[c]
      OBVIOUS
    <2>1. Reach(n) \cap Reach(me) = {} /\ c \in Clusters
      BY <1>2, <1>3, ReachClosed DEF IInv, FilesInv, NoSharedClusters, BeingRenamed
    <2>2. QED BY <1>9, <1>10, <2>1
  <1>12. /\ \A c \in Tree(fat, h) : c # w[k] => g[c] = fat[c]
         /\ k \in 1 .. k
    BY <1>2, <1>5, <1>9, <1>10, ReachClosed
  <1> HIDE DEF g, w, h, k, s, L, tail
  <1>13. Chained(g, h, k)
    BY <1>2, <1>12, ChainCut DEF w
  <1>20. \A i \in 1 .. Len(got) : s[k + i] = got[i]
    <2> SUFFICES ASSUME NEW i \in 1 .. Len(got) PROVE s[k + i] = got[i]
      OBVIOUS
    <2>1. k + i \in 1 .. L /\ ~(k + i <= k) /\ k + i - k = i
      BY <1>2, <1>3, <1>6
    <2>2. QED BY <1>3, <1>6, <2>1
  <1>14. \A i \in 1 .. L : s[i] \in Clusters
    <2> SUFFICES ASSUME NEW i \in 1 .. L PROVE s[i] \in Clusters
      OBVIOUS
    <2>1. CASE i <= k
      BY <1>5, <1>6, <1>7, <2>1
    <2>2. CASE ~(i <= k)
      <3>1. i - k \in 1 .. Len(got)
        BY <1>2, <1>3, <1>6, <2>2
      <3>2. QED BY <1>3, <1>6, <2>2, <3>1
    <2>3. QED BY <2>1, <2>2
  <1>15. ASSUME NEW i \in 1 .. L - 1 PROVE s[i + 1] = g[s[i]]
    <2>1. i \in 1 .. L /\ i + 1 \in 1 .. L /\ L \in Nat
      BY <1>2, <1>3, <1>6
    <2>2. CASE i < k
      <3>1. i \in 1 .. k /\ i + 1 \in 1 .. k /\ i \in 1 .. k - 1 /\ k \in 1 .. k /\ i # k
        BY <1>2, <2>2
      <3>2. s[i] = w[i] /\ s[i + 1] = w[i + 1]
        BY <1>6, <1>7, <2>1, <3>1
      <3>3. w[i + 1] = fat[w[i]] /\ w[i] # tail /\ w[i] \in Clusters
        BY <1>7, <1>8, <1>9, <3>1
      <3>4. QED BY <1>10, <3>2, <3>3
    <2>3. CASE i = k
      <3>1. s[i] = tail /\ s[i + 1] = got[1]
        <4>1. i <= k /\ ~(i + 1 <= k) /\ i + 1 - k = 1 /\ k \in 1 .. k
          BY <1>2, <1>5, <2>3
        <4>2. QED BY <1>6, <1>7, <1>9, <2>1, <2>3, <4>1
      <3>2. QED BY <1>10, <3>1
    <2>4. CASE i > k
      <3> DEFINE j == i - k
      <3>1. /\ j \in 1 .. Len(got) - 1 /\ j \in 1 .. Len(got) /\ j + 1 \in 1 .. Len(got)
            /\ i = k + j /\ i + 1 = k + (j + 1)
        BY <1>2, <1>3, <1>6, <2>4
      <3> HIDE DEF j
      <3>2. s[i] = got[j] /\ s[i + 1] = got[j + 1]
        BY <1>20, <3>1
      <3>3. got[j] # tail /\ got[j] \in Clusters
        BY <1>3, <1>9, <3>1
      <3>4. QED BY <1>3, <1>10, <3>1, <3>2, <3>3
    <2>5. QED BY <1>2, <2>2, <2>3, <2>4
  <1>16. s[1] = h
    <2>1. 1 <= k /\ 1 \in 1 .. k /\ 1 \in 1 .. L
      BY <1>2, <1>3, <1>5, <1>6
    <2>2. QED BY <1>6, <1>7, <1>8, <2>1
  <1>17. \A i \in 1 .. L : ChainFrom(g, h, L)[i] = s[i]
    <2>1. \A i \in 1 .. L - 1 : s[i + 1] = IF s[i] \in Clusters THEN g[s[i]] ELSE 0
      <3>1. \A i \in 1 .. L - 1 : i \in 1 .. L
        BY <1>2, <1>3, <1>6
      <3>2. QED BY <1>14, <1>15, <3>1
    <2>2. L \in Nat
      BY <1>2, <1>3, <1>6
    <2>3. QED BY <1>16, <2>1, <2>2, ChainUnique
  <1>18. g[s[L]] = END_OF_CHAIN
    <2>1. L \in 1 .. L /\ ~(L <= k) /\ L - k = Len(got) /\ Len(got) \in 1 .. Len(got)
      BY <1>2, <1>3, <1>6
    <2>2. s[L] = got[Len(got)]
      BY <1>6, <2>1
    <2>3. s[L] # tail /\ s[L] \in Clusters
      BY <1>3, <1>9, <2>1, <2>2
    <2>4. QED BY <1>3, <1>10, <2>2, <2>3
  <1>19. \A i \in 1 .. Len(chain) : s[i] = chain[i]
    BY <1>2, <1>3, <1>6
  <1>21. /\ L \in Nat /\ L > Len(chain) /\ L = ClustersFor(call.len)
         /\ L = Len(chain) + Len(got)
    BY <1>2, <1>3, <1>6
  <1>22. QED BY <1>3, <1>11, <1>13, <1>14, <1>17, <1>18, <1>19, <1>20, <1>21 DEF g, s, L, h, k

LEMMA StoreLinkTail ==
    ASSUME IInv, IInv', StoreInv, LinkTail
    PROVE  StoreInv'
  <1>1. /\ pc = "tail" /\ pc' = "data"
        /\ dir' = dir /\ data' = data /\ pos' = pos /\ call' = call
    BY DEF LinkTail
  <1>2. /\ call.kind = "write" /\ call.name \in Names /\ dir[call.name].used
        /\ call.first = dir[call.name].first /\ call.old = Kept(call.name)
    BY <1>1, CallChain, TailFacts
  <1>3. WholeInv'
    <2>1. \A n \in Names : Kept(n)' = Kept(n)
      BY <1>1, <1>2 DEF Kept, Cutting
    <2> SUFFICES ASSUME NEW n \in Names, dir[n].used
                 PROVE  Chained(fat', dir[n].first, Kept(n))
      BY <1>1, <2>1 DEF WholeInv
    <2>2. CASE n = call.name
      BY <1>2, <2>2, LinkTailChains
    <2>3. CASE n # call.name
      <3> DEFINE g == fat'
                 h == dir[n].first
                 k == Kept(n)
      <3>1. /\ k \in Nat /\ Chained(fat, h, k) /\ Reach(n) = Tree(fat, h)
        BY FileChains DEF StoreInv
      <3>2. \A c \in Tree(fat, h) : g[c] = fat[c]
        BY <2>3, <3>1, LinkTailChains
      <3> HIDE DEF g, h, k
      <3>3. Chained(g, h, k)
        BY <3>1, <3>2, ChainKept
      <3>4. QED BY <3>3 DEF g, h, k
    <2>4. QED BY <2>2, <2>3
  <1>4. SizesInv'
    BY <1>1 DEF StoreInv, SizesInv
  <1>5. VectorInv'
    BY <1>1, <1>2, LinkTailChains DEF VectorInv, Filling
  <1>6. FillInv'
    BY <1>1, <1>2, FillBegins
  <1>7. TwoNamesInv' /\ TodoInv'
    BY <1>1, <1>2, NothingFreed DEF TwoNamesInv
  <1>8. QED BY <1>3, <1>4, <1>5, <1>6, <1>7 DEF StoreInv

-----------------------------------------------------------------------------
(* The bytes *)

(* While a write fills its file, its vector is a path: no cluster twice. *)
LEMMA FillingChain ==
    ASSUME IInv, StoreInv, Filling
    PROVE  /\ Path(fat, call.first)
           /\ \A i \in 1 .. Len(chain) : chain[i] \in Tree(fat, call.first)
           /\ \A i, j \in 1 .. Len(chain) : chain[i] = chain[j] => i = j
  <1>1. Len(chain) \in Nat /\ \A i \in 1 .. Len(chain) : chain[i] \in Clusters
    BY Types, ElementOfSeq DEF IInv
  <1>2. \A i \in 1 .. Len(chain) : chain[i] = ChainFrom(fat, call.first, Len(chain))[i]
    BY DEF StoreInv, VectorInv
  <1>3. Chained(fat, call.first, Len(chain)) /\ Path(fat, call.first)
    BY <1>1, <1>2 DEF Filling, Chained, IInv, CallInv, PublishInv
  <1>4. \A i \in 1 .. Len(chain) : chain[i] \in Tree(fat, call.first)
    BY <1>1, <1>2, <1>3, ChainInTree
  <1>5. \A i, j \in 1 .. Len(chain) : chain[i] = chain[j] => i = j
    BY <1>1, <1>2, <1>3, ChainInjective
  <1>6. QED BY <1>3, <1>4, <1>5

(* What the bytes of the files rest on holds while the chains are apart. *)
LEMMA FrameIs == IInv /\ StoreInv => FrameInv
  BY FillingChain DEF IInv, CallInv, StoreInv, FrameInv

LEMMA FrameNext == IInv' /\ StoreInv' => FrameInv'
  BY FrameIs, PTL

(* The vector is the chain the write will publish, and begins with the chain
   the file has. *)
LEMMA FillingVector ==
    ASSUME FrameInv, Filling
    PROVE  /\ call.name \in Names /\ dir[call.name].used /\ call.cnt > 0
           /\ call.off \in Nat /\ call.cnt \in Nat /\ call.len \in Nat
           /\ dir[call.name].len \in Nat
           /\ call.len = IF call.off + call.cnt > dir[call.name].len
                         THEN call.off + call.cnt ELSE dir[call.name].len
           /\ Len(chain) \in Nat /\ Len(chain) > 0 /\ Len(chain) = ClustersFor(call.len)
           /\ Chained(fat, call.first, Len(chain))
           /\ \A i \in 1 .. Len(chain) :
                 /\ chain[i] = ChainFrom(fat, call.first, Len(chain))[i]
                 /\ chain[i] \in Clusters
           /\ \A i, j \in 1 .. Len(chain) : chain[i] = chain[j] => i = j
           /\ call.old = ClustersFor(dir[call.name].len) /\ call.old = Kept(call.name)
           /\ call.old \in Nat /\ call.old <= Len(chain)
           /\ \A i \in 1 .. call.old :
                 ChainFrom(fat, dir[call.name].first, call.old)[i] = chain[i]
  <1>1. call.kind = "write" /\ pc \in {"data", "data flush", "publish"}
    BY DEF Filling
  <1>2. call.name \in Names /\ dir[call.name].used
    BY <1>1 DEF FrameInv, KindInv
  <1>3. /\ call.cnt > 0
        /\ call.len = IF call.off + call.cnt > dir[call.name].len
                      THEN call.off + call.cnt ELSE dir[call.name].len
        /\ call.old = ClustersFor(dir[call.name].len)
    BY <1>1 DEF FrameInv, SizesInv
  <1>4. /\ dir[call.name].len \in Nat /\ call.len \in Nat /\ call.off \in Nat
        /\ call.cnt \in Nat /\ call.old \in Nat /\ call.len > 0
    BY <1>2, <1>3, Types DEF FrameInv, CallType, Entry
  <1>5. ClustersFor(call.len) \in Nat /\ ClustersFor(call.len) > 0
        /\ call.old <= ClustersFor(call.len)
    BY <1>3, <1>4, ClustersForType, ClustersForMonotone
  <1>6. /\ Len(chain) = ClustersFor(call.len)
        /\ \A i \in 1 .. Len(chain) : chain[i] = ChainFrom(fat, call.first, Len(chain))[i]
        /\ call.old > 0 => call.first = dir[call.name].first
        /\ \A i, j \in 1 .. Len(chain) : chain[i] = chain[j] => i = j
    BY DEF FrameInv, VectorInv
  <1>7. \A i \in 1 .. Len(chain) : chain[i] \in Clusters
    BY Types, ElementOfSeq DEF FrameInv
  <1>8. Chained(fat, call.first, Len(chain))
    BY <1>6, <1>7 DEF Chained
  <1>9. call.old = Kept(call.name)
    BY <1>1, <1>3 DEF Kept, Cutting
  <1>10. \A i \in 1 .. call.old : ChainFrom(fat, dir[call.name].first, call.old)[i] = chain[i]
    <2> SUFFICES ASSUME NEW i \in 1 .. call.old
                 PROVE  ChainFrom(fat, call.first, call.old)[i] = chain[i]
      BY <1>4, <1>6
    <2>1. i \in 1 .. Len(chain)
      BY <1>4, <1>5, <1>6
    <2>2. QED BY <1>4, <1>5, <1>6, <2>1, ChainPrefix
  <1>11. QED BY <1>2, <1>3, <1>4, <1>5, <1>6, <1>7, <1>8, <1>9, <1>10

(* Where one write of the loop begins and ends. *)
LEMMA PieceBounds ==
    ASSUME FrameInv, WriteData
    PROVE  /\ pos \in Nat /\ PieceEnd \in Nat /\ Filling
           /\ pos < PieceEnd /\ PieceEnd <= call.off + call.cnt
           /\ pos < call.off => PieceEnd <= call.off
           /\ pos \div ClusterBytes \in Nat
           /\ (pos \div ClusterBytes) * ClusterBytes \in Nat
           /\ (pos \div ClusterBytes) * ClusterBytes <= pos
           /\ PieceEnd <= (pos \div ClusterBytes) * ClusterBytes + ClusterBytes
           /\ pos \div ClusterBytes + 1 \in 1 .. Len(chain)
  <1> DEFINE q == pos \div ClusterBytes
             B == ClusterBytes
  <1>1. pc = "data" /\ call.kind = "write" /\ Filling
    BY DEF WriteData, FrameInv, KindInv, Filling
  <1>2. pos \in Nat /\ call.off \in Nat /\ call.cnt \in Nat /\ Len(chain) \in Nat
    BY <1>1, FillingVector, Types DEF FrameInv
  <1>3. q \in Nat /\ pos % B \in Nat /\ pos = q * B + (pos % B) /\ pos % B < B /\ B \in Nat
    BY <1>2, SizesAssumption, DivMod
  <1>4. q + 1 <= Len(chain)
    BY DEF WriteData
  <1>5. pos < call.off + call.cnt
    BY <1>1 DEF FrameInv, FillInv
  <1>6. PieceEnd = LET limit == IF pos < call.off THEN call.off ELSE call.off + call.cnt
                   IN  IF (q + 1) * B < limit THEN (q + 1) * B ELSE limit
    BY DEF PieceEnd
  <1> HIDE DEF q, B
  <1>7. q * B \in Nat /\ (q + 1) * B = q * B + B
    BY <1>3
  <1>8. QED BY <1>1, <1>2, <1>3, <1>4, <1>5, <1>6, <1>7 DEF q, B

(* One write changes the bytes of the file between its two ends, and no
   byte of a cluster outside the vector. *)
LEMMA WriteDataEffect ==
    ASSUME FrameInv, WriteData
    PROVE  /\ \A p \in Nat : p \div ClusterBytes + 1 \in 1 .. Len(chain) =>
                 data'[chain[p \div ClusterBytes + 1]][p % ClusterBytes] =
                     IF pos <= p /\ p < PieceEnd THEN PieceByte
                     ELSE data[chain[p \div ClusterBytes + 1]][p % ClusterBytes]
           /\ pos \div ClusterBytes + 1 \in 1 .. Len(chain)
           /\ \A c \in Clusters :
                 c # chain[pos \div ClusterBytes + 1] => data'[c] = data[c]
  <1> DEFINE B == ClusterBytes
             q == pos \div B
             base == q * B
             c0 == chain[q + 1]
  <1>1. /\ pos \in Nat /\ PieceEnd \in Nat /\ q \in Nat /\ base \in Nat
        /\ base <= pos /\ PieceEnd <= base + B /\ q + 1 \in 1 .. Len(chain) /\ Filling
    BY PieceBounds
  <1>2. /\ \A i \in 1 .. Len(chain) : chain[i] \in Clusters
        /\ \A i, j \in 1 .. Len(chain) : chain[i] = chain[j] => i = j
        /\ Len(chain) \in Nat
    BY <1>1, FillingVector
  <1>3. data' = [data EXCEPT ![c0] = [b \in ClusterIndex |->
                    IF base + b >= pos /\ base + b < PieceEnd THEN PieceByte ELSE @[b]]]
    BY DEF WriteData
  <1>4. data \in [Clusters -> [ClusterIndex -> Bytes \cup {Noise}]]
    BY DEF FrameInv, TypeOK
  <1>5. c0 \in Clusters
    BY <1>1, <1>2
  <1> HIDE DEF c0, base, q
  <1>6. /\ \A c \in Clusters : c # c0 => data'[c] = data[c]
        /\ \A b \in ClusterIndex :
              data'[c0][b] = IF base + b >= pos /\ base + b < PieceEnd THEN PieceByte
                             ELSE data[c0][b]
    BY <1>3, <1>4, <1>5
  <1>7. ASSUME NEW p \in Nat, p \div B + 1 \in 1 .. Len(chain)
        PROVE  data'[chain[p \div B + 1]][p % B] =
                   IF pos <= p /\ p < PieceEnd THEN PieceByte
                   ELSE data[chain[p \div B + 1]][p % B]
    <2> DEFINE r == p \div B
               b == p % B
    <2>1. r \in Nat /\ b \in Nat /\ p = r * B + b /\ b < B /\ B \in Nat \ {0} /\ b \in ClusterIndex
      BY SizesAssumption, DivMod DEF ClusterIndex
    <2>2. r + 1 \in 1 .. Len(chain)
      BY <1>7
    <2>3. pos <= p /\ p < PieceEnd => r = q
      <3> SUFFICES ASSUME pos <= p, p < PieceEnd PROVE r = q
        OBVIOUS
      <3>1. q * B <= p /\ p < q * B + B
        BY <1>1, <2>1 DEF base
      <3>2. QED BY <1>1, <2>1, <3>1, DivUnique
    <2> HIDE DEF r, b
    <2>4. CASE r = q
      <3>1. base + b = p
        BY <2>1, <2>4 DEF base
      <3>2. chain[r + 1] = c0
        BY <2>4 DEF c0
      <3>3. data'[chain[r + 1]][b] = IF pos <= p /\ p < PieceEnd THEN PieceByte
                                     ELSE data[chain[r + 1]][b]
        BY <1>1, <1>6, <2>1, <3>1, <3>2
      <3>4. QED BY <3>3 DEF r, b
    <2>5. CASE r # q
      <3>1. r + 1 # q + 1
        BY <1>1, <2>1, <2>5
      <3>2. chain[r + 1] # c0 /\ chain[r + 1] \in Clusters
        BY <1>1, <1>2, <2>2, <3>1 DEF c0
      <3>3. data'[chain[r + 1]][b] = IF pos <= p /\ p < PieceEnd THEN PieceByte
                                     ELSE data[chain[r + 1]][b]
        BY <1>6, <2>3, <2>5, <3>2
      <3>4. QED BY <3>3 DEF r, b
    <2>6. QED BY <2>4, <2>5
  <1>8. QED BY <1>1, <1>6, <1>7 DEF c0, q

(* So the bytes from the start of the range to the new position are those
   asked for. *)
LEMMA FillWriteData ==
    ASSUME FrameInv, WriteData
    PROVE  FillInv'
  <1>1. /\ pc = "data" /\ fat' = fat /\ dir' = dir /\ call' = call /\ chain' = chain
        /\ pos' = PieceEnd
        /\ pc' = IF PieceEnd = call.off + call.cnt THEN "data flush" ELSE "data"
    BY DEF WriteData
  <1>2. /\ Filling /\ Filling' /\ call.kind = "write"
    BY <1>1, PieceBounds DEF Filling
  <1>3. /\ pos \in Nat /\ PieceEnd \in Nat /\ pos < PieceEnd
        /\ PieceEnd <= call.off + call.cnt
        /\ pos < call.off => PieceEnd <= call.off
    BY PieceBounds
  <1>4. /\ call.off \in Nat /\ call.cnt \in Nat /\ call.len \in Nat
        /\ call.off + call.cnt <= call.len /\ Len(chain) = ClustersFor(call.len)
        /\ dir[call.name].len \in Nat
    BY <1>2, FillingVector
  <1>5. Start \in Nat /\ Start' = Start
    BY <1>1, <1>4 DEF Start, FillStart
  <1>6. /\ Start <= pos
        /\ \A p \in Start .. pos - 1 :
              data[chain[p \div ClusterBytes + 1]][p % ClusterBytes] =
                  IF p < call.off THEN Zero ELSE call.val
    BY <1>2 DEF FrameInv, FillInv
  <1>7. ASSUME NEW p \in Start .. PieceEnd - 1
        PROVE  data'[chain[p \div ClusterBytes + 1]][p % ClusterBytes] =
                   IF p < call.off THEN Zero ELSE call.val
    <2>1. p \in Nat /\ p < PieceEnd /\ p < call.len
      BY <1>3, <1>4, <1>5, <1>6
    <2>2. p \div ClusterBytes + 1 \in 1 .. Len(chain)
      BY <1>4, <2>1, ByteHasCluster
    <2>3. data'[chain[p \div ClusterBytes + 1]][p % ClusterBytes] =
              IF pos <= p /\ p < PieceEnd THEN PieceByte
              ELSE data[chain[p \div ClusterBytes + 1]][p % ClusterBytes]
      BY <2>1, <2>2, WriteDataEffect
    <2>4. CASE pos <= p
      BY <1>3, <1>4, <2>1, <2>3, <2>4 DEF PieceByte
    <2>5. CASE ~(pos <= p)
      <3>1. p \in Start .. pos - 1
        BY <1>3, <1>5, <1>6, <2>1, <2>5
      <3>2. QED BY <1>6, <2>3, <2>5, <3>1
    <2>6. QED BY <2>4, <2>5
  <1>8. /\ Start' <= pos'
        /\ pc' = "data" => pos' < call'.off + call'.cnt
        /\ pc' = "data flush" => pos' = call'.off + call'.cnt
    <2>1. Start' <= pos'
      <3>1. Start <= pos /\ pos' = PieceEnd
        BY <1>1, <1>6
      <3>2. QED BY <1>3, <1>5, <3>1
    <2>2. pc' = "data" => pos' < call'.off + call'.cnt
      BY <1>1, <1>3, <1>4
    <2>3. pc' = "data flush" => pos' = call'.off + call'.cnt
      BY <1>1
    <2>4. QED BY <2>1, <2>2, <2>3
  <1>9. \A p \in Start' .. pos' - 1 :
            data'[chain'[p \div ClusterBytes + 1]][p % ClusterBytes] =
                IF p < call'.off THEN Zero ELSE call'.val
    BY <1>1, <1>5, <1>6, <1>7
  <1>10. pc' \in {"data", "data flush"}
    BY <1>1
  <1>11. QED BY <1>8, <1>9, <1>10 DEF FillInv

LEMMA StoreWriteData ==
    ASSUME IInv, IInv', StoreInv, WriteData
    PROVE  StoreInv'
  <1>1. /\ pc = "data" /\ fat' = fat /\ dir' = dir /\ call' = call /\ chain' = chain
        /\ pos' = PieceEnd
        /\ pc' = IF PieceEnd = call.off + call.cnt THEN "data flush" ELSE "data"
    BY DEF WriteData
  <1>2. /\ Filling /\ Filling' /\ call.kind = "write"
    BY <1>1, FrameIs, PieceBounds DEF Filling
  <1>3. WholeInv'
    <2>1. \A n \in Names : Cutting(n)' <=> Cutting(n)
      BY <1>1, <1>2 DEF Cutting
    <2>2. QED BY <1>1, <2>1, ChainsStay
  <1>4. SizesInv'
    BY <1>1 DEF StoreInv, SizesInv
  <1>5. VectorInv'
    BY <1>1, <1>2 DEF StoreInv, VectorInv
  <1>6. FillInv'
    BY FrameIs, FillWriteData
  <1>7. TwoNamesInv' /\ TodoInv'
    BY <1>1, <1>2, NothingFreed DEF TwoNamesInv
  <1>8. QED BY <1>3, <1>4, <1>5, <1>6, <1>7 DEF StoreInv

-----------------------------------------------------------------------------
(* Clusters are given back *)

(* The chain is cut after the clusters that are kept. *)
LEMMA CutChainChains ==
    ASSUME IInv, StoreInv, CutChain
    PROVE  LET w == ChainFrom(fat, call.first, call.old)
           IN  /\ call.kind = "shrink" /\ call.count \in 1 .. call.old
               /\ Len(chain) = call.old /\ \A i \in 1 .. Len(chain) : chain[i] = w[i]
               /\ Chained(fat', call.first, call.count)
               /\ \A i \in 1 .. call.count :
                     ChainFrom(fat', call.first, call.count)[i] = w[i]
               /\ w[call.count] \in Clusters
               /\ fat'[w[call.count]] = END_OF_CHAIN
               /\ \A n \in Names \ {call.name} : \A c \in Reach(n) : fat'[c] = fat[c]
  <1> DEFINE me == call.name
             h == call.first
             k == call.old
             m == call.count
             w == ChainFrom(fat, h, k)
             g == fat'
             tail == chain[call.count]
  <1>1. /\ pc = "cut" /\ m > 0 /\ m <= Len(chain)
        /\ g = [fat EXCEPT ![tail] = END_OF_CHAIN]
    BY DEF CutChain
  <1>2. /\ me \in Names /\ dir[me].used /\ k \in Nat /\ Chained(fat, h, k) /\ Path(fat, h)
        /\ Reach(me) = Tree(fat, h) /\ call.kind = "shrink"
    BY <1>1, CallChain DEF IInv, LoopsInv
  <1>3. Len(chain) = k /\ \A i \in 1 .. Len(chain) : chain[i] = w[i]
    BY <1>1 DEF StoreInv, VectorInv
  <1>4. m \in Nat /\ m \in 1 .. k /\ fat \in [Clusters -> FatValues]
    BY <1>1, <1>2, <1>3, Types DEF IInv
  <1>5. tail = w[m] /\ tail \in Clusters /\ tail \in Reach(me)
    BY <1>2, <1>3, <1>4, ChainInTree DEF Chained
  <1>6. g[tail] = END_OF_CHAIN /\ \A c \in Clusters : c # tail => g[c] = fat[c]
    BY <1>1, <1>4, <1>5
  <1>7. \A n \in Names \ {me} : \A c \in Reach(n) : g[c] = fat[c]
    <2> SUFFICES ASSUME NEW n \in Names \ {me}, NEW c \in Reach(n) PROVE g[c] = fat[c]
      OBVIOUS
    <2>1. Reach(n) \cap Reach(me) = {} /\ c \in Clusters
      BY <1>2, ReachClosed DEF IInv, FilesInv, NoSharedClusters, BeingRenamed
    <2>2. QED BY <1>5, <1>6, <2>1
  <1>8. \A c \in Tree(fat, h) : c # w[m] => g[c] = fat[c]
    BY <1>2, <1>5, <1>6, ReachClosed
  <1> HIDE DEF g, h, k, m, w, tail
  <1>9. Chained(g, h, m) /\ \A i \in 1 .. m : ChainFrom(g, h, m)[i] = w[i]
    BY <1>2, <1>4, <1>8, ChainCut DEF w
  <1>10. QED BY <1>2, <1>3, <1>4, <1>5, <1>6, <1>7, <1>9 DEF g, h, k, m, w, me

LEMMA SuffixElements ==
    ASSUME NEW S, NEW s \in Seq(S), NEW k \in 0 .. Len(s)
    PROVE  /\ Suffix(s, k) \in Seq(S) /\ Len(Suffix(s, k)) = Len(s) - k
           /\ \A i \in 1 .. Len(s) - k : Suffix(s, k)[i] = s[k + i]
  <1>1. /\ k + 1 \in 1 .. Len(s) + 1 /\ Len(s) \in k + 1 - 1 .. Len(s)
    OBVIOUS
  <1>2. QED BY <1>1, SubSeqProperties DEF Suffix

LEMMA StoreCutChain ==
    ASSUME IInv, IInv', StoreInv, CutChain
    PROVE  StoreInv'
  <1>1. /\ pc = "cut" /\ dir' = dir /\ call' = call /\ chain' = << >>
        /\ todo' = Suffix(chain, call.count)
        /\ pc' \in {"free bit", "publish"}
    BY DEF CutChain
  <1>2. /\ call.kind = "shrink" /\ call.name \in Names /\ dir[call.name].used
        /\ call.first = dir[call.name].first /\ call.count \in 1 .. call.old
        /\ Len(chain) = call.old /\ Chained(fat', call.first, call.count)
        /\ \A n \in Names \ {call.name} : \A c \in Reach(n) : fat'[c] = fat[c]
    BY <1>1, CallChain, CutChainChains
  <1>3. \A n \in Names : Kept(n)' = IF n = call.name THEN call.count ELSE Kept(n)
    BY <1>1, <1>2 DEF Kept, Cutting
  <1>4. WholeInv'
    <2> SUFFICES ASSUME NEW n \in Names, dir[n].used
                 PROVE  Chained(fat', dir[n].first, Kept(n)')
      BY <1>1 DEF WholeInv
    <2>1. CASE n = call.name
      BY <1>2, <1>3, <2>1
    <2>2. CASE n # call.name
      <3> DEFINE g == fat'
                 h == dir[n].first
                 k == Kept(n)
      <3>1. /\ k \in Nat /\ Chained(fat, h, k) /\ Reach(n) = Tree(fat, h)
        BY FileChains DEF StoreInv
      <3>2. \A c \in Tree(fat, h) : g[c] = fat[c]
        BY <1>2, <2>2, <3>1
      <3> HIDE DEF g, h, k
      <3>3. Chained(g, h, k)
        BY <3>1, <3>2, ChainKept
      <3>4. QED BY <1>3, <2>2, <3>3 DEF g, h, k
    <2>3. QED BY <2>1, <2>2
  <1>5. SizesInv'
    BY <1>1, <1>2 DEF StoreInv, SizesInv
  <1>6. VectorInv' /\ FillInv' /\ TwoNamesInv'
    BY <1>1, <1>2 DEF VectorInv, FillInv, TwoNamesInv, Filling
  <1>7. TodoInv'
    <2>1. chain \in Seq(Clusters) /\ call.count \in 0 .. Len(chain)
      BY <1>2, Types DEF IInv
    <2>2. todo' \in Seq(Clusters)
      BY <1>1, <2>1, SuffixElements
    <2>3. QED BY <2>2, ElementOfSeq DEF TodoInv
  <1>8. QED BY <1>4, <1>5, <1>6, <1>7 DEF StoreInv

LEMMA StoreFreeBit ==
    ASSUME IInv, IInv', StoreInv, FreeBit
    PROVE  StoreInv'
  <1>1. /\ pc = "free bit" /\ pc' = "free fat" /\ fat' = fat /\ dir' = dir /\ data' = data
        /\ call' = call /\ chain' = chain /\ pos' = pos /\ todo' = todo /\ got' = got /\ cur' = cur
    BY DEF FreeBit, locals
  <1>2. call.kind \in {"shrink", "remove"}
    BY <1>1 DEF IInv, CallInv, KindInv
  <1>3. WholeInv'
    <2>1. \A n \in Names : Cutting(n)' <=> Cutting(n)
      BY <1>1 DEF Cutting
    <2>2. QED BY <1>1, <2>1, ChainsStay
  <1>4. SizesInv'
    BY <1>1 DEF StoreInv, SizesInv
  <1>5. VectorInv' /\ FillInv' /\ TwoNamesInv'
    BY <1>1, <1>2 DEF VectorInv, FillInv, TwoNamesInv, Filling
  <1>6. TodoInv'
    BY <1>1 DEF StoreInv, TodoInv
  <1>7. QED BY <1>3, <1>4, <1>5, <1>6 DEF StoreInv

(* The FAT entry of a cluster being freed is in no file's chain. *)
LEMMA FreeFatKeeps ==
    ASSUME IInv, FreeFat
    PROVE  /\ \A n \in Names : \A c \in Reach(n) : fat'[c] = fat[c]
           /\ todo # << >> /\ todo' = Tail(todo)
           /\ \A i \in 1 .. Len(todo') : todo'[i] = todo[i + 1] /\ i + 1 \in 1 .. Len(todo)
  <1>1. /\ pc = "free fat" /\ todo' = Tail(todo)
        /\ fat' = [c \in Clusters |-> IF c = Head(todo) THEN 0 ELSE fat[c]]
    BY DEF FreeFat
  <1>2. todo # << >> /\ todo \in Seq(Nat)
    BY <1>1, Types DEF IInv, LoopsInv
  <1>3. Head(todo) = todo[1] /\ 1 \in 1 .. Len(todo)
    BY <1>2
  <1>4. \A n \in Names : Head(todo) \notin Reach(n)
    BY <1>1, <1>3 DEF IInv, CallInv, FreeInv
  <1>5. \A n \in Names : Reach(n) \subseteq Clusters
    BY ReachClosed
  <1>6. \A n \in Names : \A c \in Reach(n) : fat'[c] = fat[c]
    BY <1>1, <1>4, <1>5
  <1>7. \A i \in 1 .. Len(todo') : todo'[i] = todo[i + 1] /\ i + 1 \in 1 .. Len(todo)
    BY <1>1, <1>2, TailElements
  <1>8. QED BY <1>1, <1>2, <1>6, <1>7

LEMMA StoreFreeFat ==
    ASSUME IInv, IInv', StoreInv, FreeFat
    PROVE  StoreInv'
  <1>1. /\ pc = "free fat" /\ dir' = dir /\ data' = data
        /\ call' = call /\ chain' = chain /\ pos' = pos /\ got' = got /\ cur' = cur
        /\ pc' = IF Tail(todo) # << >> THEN "free bit"
                 ELSE IF call.kind = "shrink" THEN "publish" ELSE "flush"
    BY DEF FreeFat
  <1>2. call.kind \in {"shrink", "remove"}
    BY <1>1 DEF IInv, CallInv, KindInv
  <1>3. WholeInv'
    <2>1. \A n \in Names : Kept(n)' = Kept(n)
      BY <1>1, <1>2 DEF Kept, Cutting
    <2>2. QED BY <1>1, <2>1, WholeKept, FreeFatKeeps DEF StoreInv
  <1>4. SizesInv'
    BY <1>1 DEF StoreInv, SizesInv
  <1>5. VectorInv' /\ FillInv' /\ TwoNamesInv'
    BY <1>1, <1>2 DEF VectorInv, FillInv, TwoNamesInv, Filling
  <1>6. TodoInv'
    BY FreeFatKeeps DEF StoreInv, TodoInv
  <1>7. QED BY <1>3, <1>4, <1>5, <1>6 DEF StoreInv

LEMMA StoreWalkChain ==
    ASSUME IInv, IInv', StoreInv, WalkChain
    PROVE  StoreInv'
  <1>1. /\ pc = "walk" /\ pc' \in {"walk", "free bit"} /\ fat' = fat /\ dir' = dir /\ data' = data
        /\ call' = call /\ chain' = chain /\ cur \in Clusters /\ todo' = Append(todo, cur)
    BY DEF WalkChain, disk
  <1>2. call.kind = "remove"
    BY <1>1 DEF IInv, CallInv, KindInv
  <1>3. WholeInv'
    <2>1. \A n \in Names : Cutting(n)' <=> Cutting(n)
      BY <1>1, <1>2 DEF Cutting
    <2>2. QED BY <1>1, <2>1, ChainsStay
  <1>4. SizesInv' /\ VectorInv' /\ FillInv' /\ TwoNamesInv'
    BY <1>1, <1>2 DEF SizesInv, VectorInv, FillInv, TwoNamesInv, Filling
  <1>5. TodoInv'
    <2>1. todo \in Seq(Nat) /\ cur \in Nat /\ Len(todo) \in Nat
      BY Types DEF IInv
    <2>2. /\ Len(todo') = Len(todo) + 1
          /\ todo'[Len(todo) + 1] = cur
          /\ \A i \in 1 .. Len(todo) : todo'[i] = todo[i]
      <3>1. todo' = Append(todo, cur)
        BY <1>1
      <3>2. QED BY <2>1, <3>1, AppendProperties
    <2>3. \A i \in 1 .. Len(todo) : todo[i] \in Clusters
      BY DEF StoreInv, TodoInv
    <2>4. cur \in Clusters
      BY <1>1
    <2>5. \A i \in 1 .. Len(todo') : todo'[i] \in Clusters
      BY <2>1, <2>2, <2>3, <2>4
    <2>6. QED BY <2>5 DEF TodoInv
  <1>6. QED BY <1>3, <1>4, <1>5 DEF StoreInv

-----------------------------------------------------------------------------
(* The entry is rewritten, the call goes on or ends *)

LEMMA StorePublish ==
    ASSUME IInv, IInv', StoreInv, Publish
    PROVE  StoreInv'
  <1>1. /\ pc = "publish" /\ pc' = "flush" /\ fat' = fat /\ data' = data /\ call' = call
        /\ dir' = [dir EXCEPT ![call.name] = NewEntry(call.first, call.len)]
    BY DEF Publish, locals
  <1>2. call.kind \in {"write", "shrink"} /\ call.name \in Names /\ dir[call.name].used
    BY <1>1 DEF IInv, CallInv, KindInv
  <1>3. dir \in [Names -> Entry]
    BY Types DEF IInv
  <1>4. /\ dir'[call.name].first = call.first /\ dir'[call.name].len = call.len
        /\ \A n \in Names : n # call.name => dir'[n] = dir[n]
    BY <1>1, <1>2, <1>3 DEF NewEntry
  <1>5. \A n \in Names : Kept(n)' = ClustersFor(dir'[n].len)
    BY <1>1 DEF Kept, Cutting
  <1>6. \A n \in Names : n # call.name => Kept(n)' = Kept(n)
    BY <1>4, <1>5 DEF Kept, Cutting
  <1>7. Chained(fat, call.first, ClustersFor(call.len))
    <2>1. CASE call.kind = "write"
      BY <1>1, <2>1, FrameIs, FillingVector DEF Filling
    <2>2. CASE call.kind = "shrink"
      <3>1. call.first = dir[call.name].first /\ call.count = ClustersFor(call.len)
        BY <1>1, <2>2 DEF StoreInv, SizesInv
      <3>2. Kept(call.name) = call.count
        BY <1>1, <2>2 DEF Kept, Cutting
      <3>3. QED BY <1>2, <3>1, <3>2, FileChains DEF StoreInv
    <2>3. QED BY <1>2, <2>1, <2>2
  <1>8. WholeInv'
    <2>1. ASSUME NEW n \in Names, dir'[n].used
          PROVE  \/ dir[n].used /\ dir'[n] = dir[n] /\ Kept(n)' = Kept(n)
                 \/ Chained(fat, dir'[n].first, Kept(n)')
      <3>1. CASE n = call.name
        <4>1. dir'[n].first = call.first /\ Kept(n)' = ClustersFor(call.len)
          BY <1>4, <1>5, <3>1
        <4>2. QED BY <1>7, <4>1
      <3>2. CASE n # call.name
        BY <1>4, <1>6, <2>1, <3>2
      <3>3. QED BY <3>1, <3>2
    <2>2. QED BY <1>1, <2>1, WholeEntries DEF StoreInv
  <1>9. SizesInv' /\ VectorInv' /\ FillInv' /\ TodoInv'
    BY <1>1, NothingComputed
  <1>10. TwoNamesInv'
    BY <1>1 DEF TwoNamesInv
  <1>11. QED BY <1>8, <1>9, <1>10 DEF StoreInv

LEMMA StoreClearOld ==
    ASSUME IInv, IInv', StoreInv, ClearOld
    PROVE  StoreInv'
  <1>1. /\ pc = "clear" /\ pc' = "flush" /\ fat' = fat /\ data' = data /\ call' = call
        /\ dir' = [dir EXCEPT ![call.name] = NoEntry]
    BY DEF ClearOld, locals
  <1>2. call.kind = "rename" /\ dir \in [Names -> Entry]
    BY <1>1, Types DEF IInv, CallInv, KindInv
  <1>3. \A n \in Names : dir'[n].used => dir[n].used /\ dir'[n] = dir[n]
    BY <1>1, <1>2 DEF NoEntry
  <1>4. \A n \in Names : dir'[n].used => Kept(n)' = Kept(n)
    BY <1>1, <1>2, <1>3 DEF Kept, Cutting
  <1>5. WholeInv'
    BY <1>1, <1>3, <1>4, WholeEntries DEF StoreInv
  <1>6. SizesInv' /\ VectorInv' /\ FillInv' /\ TodoInv'
    BY <1>1, NothingComputed
  <1>7. TwoNamesInv'
    BY <1>1 DEF TwoNamesInv
  <1>8. QED BY <1>5, <1>6, <1>7 DEF StoreInv

LEMMA StoreFlushAndGoOn ==
    ASSUME IInv, IInv', StoreInv, FlushAndGoOn
    PROVE  StoreInv'
  <1>1. /\ fat' = fat /\ dir' = dir /\ data' = data /\ call' = call /\ chain' = chain
        /\ pos' = pos /\ todo' = todo
        /\ \/ pc = "data flush" /\ pc' = "publish"
           \/ pc = "clear flush" /\ pc' = IF call.kind = "rename" THEN "clear" ELSE "walk"
    BY DEF FlushAndGoOn, FlushPCs, disk, locals
  <1>2. /\ pc = "data flush" => call.kind = "write"
        /\ pc = "clear flush" => call.kind \in {"remove", "rename"}
    BY DEF IInv, CallInv, KindInv
  <1>3. WholeInv'
    <2>1. \A n \in Names : Cutting(n)' <=> Cutting(n)
      BY <1>1, <1>2 DEF Cutting
    <2>2. QED BY <1>1, <2>1, ChainsStay
  <1>4. SizesInv'
    BY <1>1 DEF StoreInv, SizesInv
  <1>5. Filling' <=> Filling
    BY <1>1, <1>2 DEF Filling
  <1>6. VectorInv' /\ FillInv'
    BY <1>1, <1>2, <1>5 DEF StoreInv, VectorInv, FillInv, Start, Filling
  <1>7. TwoNamesInv' /\ TodoInv'
    BY <1>1 DEF StoreInv, TwoNamesInv, TodoInv
  <1>8. QED BY <1>3, <1>4, <1>6, <1>7 DEF StoreInv

-----------------------------------------------------------------------------
(* Every step keeps the files whole *)

(* An extension is a write of zero bytes that ends at the new length. *)
LEMMA ExtendIsWrite ==
    ASSUME TypeOK, NEW n \in Names, NEW len \in 0 .. MaxLen, Extend(n, len)
    PROVE  \E off \in 0 .. MaxLen, cnt \in 1 .. MaxLen :
               off + cnt = len /\ StartWrite(n, off, cnt, Zero)
  <1> DEFINE pad == len - dir[n].len
             filler == IF pad < ClusterBytes THEN pad ELSE ClusterBytes
  <1>1. dir[n].len \in Nat /\ len > dir[n].len /\ StartWrite(n, len - filler, filler, Zero)
    BY Types DEF Entry, Extend
  <1>2. len - filler \in 0 .. MaxLen /\ filler \in 1 .. MaxLen /\ (len - filler) + filler = len
    BY <1>1, SizesAssumption
  <1> HIDE DEF filler
  <1>3. QED BY <1>1, <1>2

LEMMA StoreBegin ==
    ASSUME SoundOps, IInv, IInv', StoreInv, NEW n \in Names, Call(n)
    PROVE  StoreInv'
  <1>1. ASSUME NEW off \in Nat, NEW cnt \in Nat, NEW v \in Bytes, cnt > 0, dir[n].used, Idle,
               StartWrite(n, off, cnt, v)
        PROVE  StoreInv'
    BY <1>1, StoreStartWrite DEF Idle
  <1>2. CASE Create(n) \/ Remove(n) \/ \E m \in Names \ {n} : Rename(m, n)
    BY <1>2, StoreCreate, StoreRemove, StoreRename
  <1>3. CASE \E len \in 0 .. MaxLen : Extend(n, len)
    <2>1. PICK len \in 0 .. MaxLen : Extend(n, len)
      BY <1>3
    <2>2. PICK off \in 0 .. MaxLen, cnt \in 1 .. MaxLen : StartWrite(n, off, cnt, Zero)
      BY <2>1, ExtendIsWrite DEF IInv
    <2>3. dir[n].used /\ Idle
      BY <2>1 DEF Extend
    <2>4. QED BY <1>1, <2>2, <2>3, BytesAssumption, SizesAssumption
  <1>4. CASE \E len \in 0 .. MaxLen : Shrink(n, len)
    BY <1>4, StoreShrink, SizesAssumption
  <1>5. CASE \E off \in 0 .. MaxLen, cnt \in 0 .. MaxLen, v \in Bytes : WriteFile(n, off, cnt, v)
    BY <1>1, <1>5, SizesAssumption DEF WriteFile
  <1>6. QED BY <1>2, <1>3, <1>4, <1>5 DEF Call

(* The steps that end a call. *)
EndOfCall ==
    \/ ReadChainFails \/ AllocFails \/ WritePastChain \/ CutPanics
    \/ FreeBitFails \/ WalkFails \/ FlushAndReturn \/ PowerCut

(* free_chain finds a bit for every cluster it is given. *)
LEMMA BitsAreFound == IInv /\ StoreInv => ~FreeBitFails
  <1> SUFFICES ASSUME IInv, StoreInv, FreeBitFails PROVE FALSE
    OBVIOUS
  <1> DEFINE h == Head(todo)
  <1>1. pc = "free bit" /\ h >= BitmapBits + 2
    BY DEF FreeBitFails
  <1>2. todo # << >> /\ todo \in Seq(Nat)
    BY <1>1, Types DEF IInv, LoopsInv
  <1>3. h = todo[1] /\ 1 \in 1 .. Len(todo)
    BY <1>2
  <1>4. h \in Clusters
    BY <1>3 DEF StoreInv, TodoInv
  <1> HIDE DEF h
  <1>5. \A m \in Nat, k \in Nat : m >= k => ~(m < k)
    OBVIOUS
  <1>6. h < BitmapBits + 2
    BY <1>4, BitmapCovers
  <1>7. h \in Nat
    BY <1>4, SizesAssumption DEF Clusters
  <1>8. BitmapBits + 2 \in Nat
    <2>1. CeilDiv(ClusterCount, BitsPerByte) \in Nat
      BY SizesAssumption, CeilDivType
    <2>2. QED BY <2>1, SizesAssumption DEF BitmapBits
  <1>9. QED BY <1>1, <1>5, <1>7, <1>8, <1>6

LEMMA EndsAreEnds ==
    ASSUME EndOfCall
    PROVE  Ended /\ UNCHANGED disk
  BY DEF EndOfCall, ReadChainFails, AllocFails, WritePastChain, CutPanics, FreeBitFails,
         WalkFails, FlushAndReturn, PowerCut, Return, Abandon

(* A call that ends has finished its truncation. *)
LEMMA EndsWhole ==
    ASSUME IInv, StoreInv, EndOfCall, Healthy'
    PROVE  \A n \in Names : ~Cutting(n)
  <1>1. CASE PowerCut
    <2>1. /\ mishap' = TRUE /\ cuts < MaxCuts /\ cuts \in Nat /\ call.kind \in CutKinds
      BY <1>1 DEF PowerCut, Abandon, IInv, TypeOK
    <2>2. MaxCuts > 0 /\ ShrinksComplete
      BY <2>1, OpsAssumption DEF Healthy, ShrinksComplete
    <2>3. call.kind # "shrink"
      BY <2>1, <2>2 DEF ShrinksComplete
    <2>4. QED BY <2>3 DEF Cutting
  <1>2. CASE ~PowerCut
    <2>1. pc \in {"read", "alloc", "data", "cut", "walk", "flush"}
      BY <1>2, BitsAreFound DEF EndOfCall, ReadChainFails, AllocFails, WritePastChain,
         CutPanics, WalkFails, FlushAndReturn
    <2>2. QED BY <2>1 DEF Cutting
  <1>3. QED BY <1>1, <1>2

LEMMA StoreEnd ==
    ASSUME IInv, StoreInv, EndOfCall, Healthy'
    PROVE  StoreInv'
  <1>1. Ended /\ UNCHANGED disk
    BY EndsAreEnds
  <1>2. \A n \in Names : ~Cutting(n)
    BY EndsWhole
  <1>3. QED BY <1>1, <1>2, EndStore

(* A mishap is remembered. *)
LEMMA HealthyBefore ==
    ASSUME [Next]_vars, TypeOK
    PROVE  /\ Healthy' => Healthy
           /\ ~mishap' => ~mishap
  <1>1. mishap' = mishap \/ mishap' = TRUE
    <2>1. CASE Begin
      <3>1. PICK n \in Names : Call(n)
        BY <2>1 DEF Begin
      <3>2. \A off, cnt, v : StartWrite(n, off, cnt, v) => mishap' = mishap
        BY DEF StartWrite
      <3>3. (\E len \in 0 .. MaxLen : Extend(n, len)) => mishap' = mishap
        BY <3>2 DEF Extend
      <3>4. QED BY <3>1, <3>2, <3>3 DEF Call, Create, Remove, Rename, Shrink, WriteFile
    <2>2. CASE Advance
      BY <2>2 DEF Advance, Step, ReadChain, ReadChainFails, AllocCluster, AllocFails, LinkCluster,
         StartChain, LinkTail, WriteData, WritePastChain, CutToNothing, CutChain, CutPanics,
         FreeBit, FreeBitFails, FreeFat, WalkChain, WalkFails, Publish, ClearOld, FlushAndGoOn,
         FlushAndReturn, Return, Abandon
    <2>3. CASE PowerCut
      BY <2>3 DEF PowerCut, Abandon
    <2>4. CASE UNCHANGED vars
      BY <2>4 DEF vars
    <2>5. QED BY <2>1, <2>2, <2>3, <2>4 DEF Next
  <1>2. QED BY <1>1 DEF Healthy, ShrinksComplete

(* truncate_file to a length above zero never frees by position. *)
LEMMA NoCutToNothing == IInv => ~CutToNothing
  <1> SUFFICES ASSUME IInv, CutToNothing PROVE FALSE
    OBVIOUS
  <1>1. pc = "cut" /\ call.count = 0
    BY DEF CutToNothing
  <1>2. call.kind = "shrink"
    BY <1>1 DEF IInv, LoopsInv
  <1>3. call.count > 0
    BY <1>2 DEF IInv, CallInv, FreeInv
  <1>4. QED BY <1>1, <1>3

(* The steps that are not the beginning of a call and not its end. *)
Inside ==
    \/ ReadChain \/ (\E c \in Clusters : AllocCluster(c)) \/ LinkCluster \/ StartChain
    \/ LinkTail \/ WriteData \/ CutChain \/ FreeBit \/ FreeFat \/ WalkChain
    \/ Publish \/ ClearOld \/ FlushAndGoOn

LEMMA StepsAre ==
    ASSUME IInv, [Next]_vars
    PROVE  (\E n \in Names : Call(n)) \/ Inside \/ EndOfCall \/ UNCHANGED vars
  BY NoCutToNothing DEF Next, Begin, Advance, Step, Inside, EndOfCall

LEMMA StoreAdvance ==
    ASSUME SoundOps, IInv, IInv', StoreInv, Healthy', [Next]_vars
    PROVE  StoreInv'
  <1>1. CASE \E n \in Names : Call(n)
    BY <1>1, StoreBegin
  <1>2. CASE Inside
    BY <1>2, StoreReadChain, StoreAllocCluster, StoreLinkCluster, StoreStartChain, StoreLinkTail,
       StoreWriteData, StoreCutChain, StoreFreeBit, StoreFreeFat, StoreWalkChain, StorePublish,
       StoreClearOld, StoreFlushAndGoOn DEF Inside
  <1>3. CASE EndOfCall
    BY <1>3, StoreEnd
  <1>4. CASE UNCHANGED vars
    <2>1. /\ fat' = fat /\ data' = data /\ dir' = dir /\ pc' = pc /\ call' = call /\ pos' = pos
          /\ cur' = cur /\ chain' = chain /\ got' = got /\ todo' = todo
      BY <1>4 DEF vars, disk, locals
    <2>2. (Filling' <=> Filling) /\ Start' = Start /\ \A n \in Names : Kept(n)' = Kept(n)
      BY <2>1 DEF Filling, Start, Kept, Cutting
    <2>3. WholeInv' /\ SizesInv' /\ TwoNamesInv' /\ TodoInv'
      BY <2>1, <2>2 DEF StoreInv, WholeInv, SizesInv, TwoNamesInv, TodoInv
    <2>4. VectorInv'
      BY <2>1, <2>2 DEF StoreInv, VectorInv
    <2>5. FillInv'
      BY <2>1, <2>2 DEF StoreInv, FillInv
    <2>6. QED BY <2>3, <2>4, <2>5 DEF StoreInv
  <1>5. QED BY <1>1, <1>2, <1>3, <1>4, StepsAre

-----------------------------------------------------------------------------
(* Chains end where the length says, as long as no call was cut short *)

(* A file with bytes has clusters. *)
LEMMA KeptSome ==
    ASSUME IInv, NEW n \in Names, dir[n].used, dir[n].len > 0
    PROVE  Kept(n) > 0
  <1>1. dir[n].len \in Nat
    BY Types DEF IInv, Entry
  <1>2. Cutting(n) => call.count > 0
    BY DEF Cutting, IInv, CallInv, FreeInv
  <1>3. QED BY <1>1, <1>2, ClustersForType DEF Kept

(* A chain nobody wrote to ends where it did. *)
LEMMA EndsKept ==
    ASSUME IInv, StoreInv, NEW n \in Names, dir[n].used, dir[n].len > 0,
           Ends(fat, dir[n].first, Kept(n)), \A c \in Reach(n) : fat'[c] = fat[c]
    PROVE  Ends(fat', dir[n].first, Kept(n))
  <1> DEFINE g == fat'
             h == dir[n].first
             k == Kept(n)
  <1>1. /\ k \in Nat /\ k > 0 /\ Chained(fat, h, k) /\ Ends(fat, h, k)
        /\ \A c \in Tree(fat, h) : g[c] = fat[c]
    BY FileChains, KeptSome DEF StoreInv
  <1> HIDE DEF g, h, k
  <1>2. Ends(g, h, k)
    BY <1>1, ChainKept
  <1>3. QED BY <1>2 DEF g, h, k

(* A step that rewrites no entry. *)
LEMMA ExactKept ==
    ASSUME IInv, StoreInv, ExactFiles, UNCHANGED dir,
           \A n \in Names : dir[n].used /\ ~(Filling' /\ call'.name = n) =>
               /\ ~(Filling /\ call.name = n)
               /\ \/ Kept(n)' = Kept(n) /\ \A c \in Reach(n) : fat'[c] = fat[c]
                  \/ Ends(fat', dir[n].first, Kept(n)')
    PROVE  ExactFiles'
  <1> SUFFICES ASSUME NEW n \in Names, dir[n].used
               PROVE  /\ dir[n].len = 0 => dir[n].first = 0
                      /\ dir[n].len > 0 /\ ~(Filling' /\ call'.name = n)
                            => Ends(fat', dir[n].first, Kept(n)')
    BY DEF ExactFiles
  <1>1. dir[n].len = 0 => dir[n].first = 0
    BY DEF ExactFiles
  <1>2. ASSUME dir[n].len > 0, ~(Filling' /\ call'.name = n), ~Ends(fat', dir[n].first, Kept(n)')
        PROVE  FALSE
    <2>1. /\ ~(Filling /\ call.name = n)
          /\ Kept(n)' = Kept(n) /\ \A c \in Reach(n) : fat'[c] = fat[c]
      BY <1>2
    <2>2. Ends(fat, dir[n].first, Kept(n))
      BY <1>2, <2>1 DEF ExactFiles
    <2>3. Ends(fat', dir[n].first, Kept(n))
      BY <1>2, <2>1, <2>2, EndsKept
    <2>4. QED BY <1>2, <2>1, <2>3
  <1>3. QED BY <1>1, <1>2

(* A step that leaves the FAT alone. *)
LEMMA ExactEntries ==
    ASSUME ExactFiles, fat' = fat, ~Filling', ~Filling,
           \A n \in Names : dir'[n].used =>
               \/ dir[n].used /\ dir'[n] = dir[n] /\ Kept(n)' = Kept(n)
               \/ /\ dir'[n].len = 0 => dir'[n].first = 0
                  /\ dir'[n].len > 0 => Ends(fat, dir'[n].first, Kept(n)')
    PROVE  ExactInv'
  BY DEF ExactInv, ExactFiles, ExactVector

LEMMA ExactBegin ==
    ASSUME SoundOps, IInv, IInv', StoreInv, ExactInv, NEW n \in Names, Call(n)
    PROVE  ExactInv'
  <1>1. pc = "idle" /\ fat' = fat /\ pc' \in {"flush", "clear flush", "alloc", "read"}
    <2>1. \A off, cnt, v : StartWrite(n, off, cnt, v) =>
              fat' = fat /\ pc' \in {"flush", "clear flush", "alloc", "read"}
      BY DEF StartWrite, disk
    <2>2. (\E len \in 0 .. MaxLen : Extend(n, len)) =>
              fat' = fat /\ pc' \in {"flush", "clear flush", "alloc", "read"}
      BY <2>1 DEF Extend
    <2>3. pc = "idle"
      BY DEF Call, Create, Remove, Rename, Extend, Shrink, WriteFile, Idle
    <2>4. QED BY <2>1, <2>2, <2>3 DEF Call, Create, Remove, Rename, Shrink, WriteFile, disk
  <1>2. ~Filling /\ ~Filling'
    BY <1>1 DEF Filling
  <1>3. \A m \in Names : Kept(m) = ClustersFor(dir[m].len) /\ Kept(m)' = ClustersFor(dir'[m].len)
    BY <1>1 DEF Kept, Cutting
  <1>4. ExactFiles /\ dir \in [Names -> Entry]
    BY Types DEF ExactInv, IInv
  <1>5. \A m \in Names : dir'[m] = dir[m] => Kept(m)' = Kept(m)
    BY <1>3
  <1>6. CASE Create(n)
    <2>1. dir' = [dir EXCEPT ![n] = NewEntry(0, 0)]
      BY <1>6 DEF Create
    <2>2. dir'[n].first = 0 /\ dir'[n].len = 0 /\ \A m \in Names \ {n} : dir'[m] = dir[m]
      BY <1>4, <2>1 DEF NewEntry
    <2>3. ~(dir'[n].len > 0) /\ (dir'[n].len = 0 => dir'[n].first = 0)
      BY <2>2
    <2>4. QED BY <1>1, <1>2, <1>4, <1>5, <2>2, <2>3, ExactEntries
  <1>7. CASE Remove(n)
    <2>1. dir' = [dir EXCEPT ![n] = NoEntry]
      BY <1>7 DEF Remove
    <2>2. ~dir'[n].used /\ \A m \in Names \ {n} : dir'[m] = dir[m]
      BY <1>4, <2>1 DEF NoEntry
    <2>3. QED BY <1>1, <1>2, <1>4, <1>5, <2>2, ExactEntries
  <1>8. CASE \E m \in Names \ {n} : Rename(m, n)
    <2>1. PICK m \in Names \ {n} : Rename(m, n)
      BY <1>8
    <2>2. dir' = [dir EXCEPT ![n] = NewEntry(dir[m].first, dir[m].len)] /\ dir[m].used
      BY <2>1 DEF Rename
    <2>3. /\ dir'[n].first = dir[m].first /\ dir'[n].len = dir[m].len
          /\ \A k \in Names \ {n} : dir'[k] = dir[k]
      BY <1>4, <2>2 DEF NewEntry
    <2>4. /\ dir[m].len = 0 => dir[m].first = 0
          /\ dir[m].len > 0 => Ends(fat, dir[m].first, Kept(m))
      BY <1>2, <1>4, <2>2 DEF ExactFiles
    <2>5. Kept(n)' = Kept(m)
      BY <1>3, <2>3
    <2>6. QED BY <1>1, <1>2, <1>4, <1>5, <2>3, <2>4, <2>5, ExactEntries
  <1>9. CASE UNCHANGED dir
    BY <1>1, <1>2, <1>4, <1>5, <1>9, ExactEntries
  <1>10. (\E len \in 0 .. MaxLen : Extend(n, len) \/ Shrink(n, len))
         \/ (\E off \in 0 .. MaxLen, cnt \in 0 .. MaxLen, v \in Bytes : WriteFile(n, off, cnt, v))
           => UNCHANGED dir
    <2>1. \A off, cnt, v : StartWrite(n, off, cnt, v) => UNCHANGED dir
      BY DEF StartWrite, disk
    <2>2. \A len : Extend(n, len) => UNCHANGED dir
      BY <2>1 DEF Extend
    <2>3. QED BY <2>1, <2>2 DEF Shrink, WriteFile, disk
  <1>11. QED BY <1>6, <1>7, <1>8, <1>9, <1>10 DEF Call

LEMMA ExactReadChain ==
    ASSUME IInv, StoreInv, StoreInv', ExactInv, ReadChain
    PROVE  ExactInv'
  <1>1. /\ pc = "read" /\ pc' \in {"read", "cut", "alloc", "data"}
        /\ fat' = fat /\ dir' = dir /\ call' = call
        /\ pc' = "data" => call.kind # "shrink" /\ ~(call.count > 0)
    BY DEF ReadChain, disk
  <1>2. /\ call.kind \in {"write", "shrink"} /\ call.name \in Names /\ dir[call.name].used
        /\ call.first = dir[call.name].first /\ call.old = ClustersFor(dir[call.name].len)
        /\ call.old = Kept(call.name) /\ call.old \in Nat
    BY <1>1, CallChain
  <1>3. ~Filling /\ \A n \in Names : Kept(n)' = Kept(n)
    BY <1>1 DEF Filling, Kept, Cutting
  <1>4. ExactFiles'
    BY <1>1, <1>3, ExactKept DEF ExactInv
  <1>5. ExactVector'
    <2> SUFFICES ASSUME Filling' PROVE Ends(fat, call.first, Len(chain'))
      BY <1>1 DEF ExactVector
    <2>1. pc' = "data" /\ call.kind = "write"
      BY <1>1 DEF Filling
    <2>2. call.count = ClustersFor(call.len) - call.old /\ ~(call.count > 0) /\ call.count \in Nat
      BY <1>1, <2>1, Types DEF StoreInv, SizesInv, IInv
    <2>3. Len(chain') = ClustersFor(call.len)
      BY <1>1 DEF StoreInv, VectorInv
    <2>4. call.len \in Nat /\ dir[call.name].len \in Nat
      BY <1>2, Types DEF IInv, CallType, Entry
    <2>5. ClustersFor(call.len) = call.old
      BY <1>2, <2>2, <2>4, ClustersForType
    <2>6. Len(chain) \in Nat /\ Len(chain) < call.old
      BY <1>1, Types DEF StoreInv, VectorInv, IInv
    <2>7. dir[call.name].len > 0
      <3>1. dir[call.name].len = 0 => call.old = 0
        BY <1>2, ClustersForZero
      <3>2. QED BY <1>2, <2>4, <2>6, <3>1
    <2>8. Ends(fat, dir[call.name].first, Kept(call.name))
      BY <1>2, <1>3, <2>7 DEF ExactInv, ExactFiles
    <2>9. QED BY <1>2, <2>3, <2>5, <2>8
  <1>6. QED BY <1>4, <1>5 DEF ExactInv

(* Steps before the vector is complete, or after the entry is written. *)
LEMMA ExactQuiet ==
    ASSUME IInv, StoreInv, ExactInv, UNCHANGED <<dir, call>>, ~Filling, ~Filling',
           \A n \in Names : Cutting(n)' <=> Cutting(n),
           \A n \in Names : \A c \in Reach(n) : fat'[c] = fat[c]
    PROVE  ExactInv'
  <1>1. \A n \in Names : Kept(n)' = Kept(n)
    BY DEF Kept
  <1>2. ExactFiles'
    BY <1>1, ExactKept DEF ExactInv
  <1>3. QED BY <1>2 DEF ExactInv, ExactVector

LEMMA ExactAlloc ==
    ASSUME IInv, StoreInv, ExactInv,
           (\E c \in Clusters : AllocCluster(c)) \/ LinkCluster
    PROVE  ExactInv'
  <1>1. /\ pc \in {"alloc", "link"} /\ pc' \in {"alloc", "link", "tail"}
        /\ dir' = dir /\ call' = call
    BY DEF AllocCluster, LinkCluster
  <1>2. \A n \in Names : \A c \in Reach(n) : fat'[c] = fat[c]
    <2>1. CASE \E c \in Clusters : AllocCluster(c)
      BY <2>1 DEF AllocCluster
    <2>2. CASE LinkCluster
      <3> DEFINE x == got[linked + 1]
      <3>1. pc = "link" /\ fat' = [fat EXCEPT ![x] = Successor(linked + 1)]
        BY <2>2 DEF LinkCluster
      <3>2. linked + 1 \in 1 .. Len(got) /\ \A n \in Names : x \notin Reach(n)
        <4>1. linked \in Nat /\ Len(got) \in Nat /\ linked < Len(got)
          BY <3>1, Types DEF IInv, CallInv, AllocInv
        <4>2. linked + 1 \in 1 .. Len(got)
          BY <4>1
        <4>3. QED BY <3>1, <4>2 DEF IInv, CallInv, AllocInv
      <3>3. \A n \in Names : Reach(n) \subseteq Clusters
        BY ReachClosed
      <3> HIDE DEF x
      <3>4. fat \in [Clusters -> FatValues]
        BY Types DEF IInv
      <3>5. QED BY <3>1, <3>2, <3>3, <3>4
    <2>3. QED BY <2>1, <2>2
  <1>3. /\ ~Filling /\ ~Filling' /\ \A n \in Names : Cutting(n)' <=> Cutting(n)
    BY <1>1 DEF Filling, Cutting
  <1>4. QED BY <1>1, <1>2, <1>3, ExactQuiet

LEMMA ExactStartChain ==
    ASSUME IInv, StoreInv, StoreInv', ExactInv, StartChain
    PROVE  ExactInv'
  <1>1. /\ pc = "tail" /\ pc' = "data" /\ chain = << >> /\ fat' = fat /\ dir' = dir
        /\ chain' = got /\ call' = [call EXCEPT !.first = got[1]]
    BY DEF StartChain, disk
  <1>2. call'.kind = call.kind /\ call'.name = call.name /\ call'.first = got[1]
    BY <1>1, Types DEF IInv, CallType
  <1>3. /\ call.kind = "write" /\ Len(got) \in Nat /\ Len(got) > 0
        /\ fat[got[Len(got)]] = END_OF_CHAIN
    BY <1>1, TailFacts
  <1>4. ~Filling /\ \A n \in Names : Kept(n)' = Kept(n)
    BY <1>1, <1>2, <1>3 DEF Filling, Kept, Cutting
  <1>5. ExactFiles'
    BY <1>1, <1>4, ExactKept DEF ExactInv
  <1>6. ExactVector'
    <2>1. \A i \in 1 .. Len(got) : got[i] = ChainFrom(fat, got[1], Len(got))[i]
      <3>1. Filling'
        BY <1>1, <1>2, <1>3 DEF Filling
      <3>2. QED BY <1>1, <1>2, <3>1 DEF StoreInv, VectorInv
    <2>2. Len(got) \in 1 .. Len(got)
      BY <1>3
    <2>3. Ends(fat, got[1], Len(got))
      BY <1>3, <2>1, <2>2, MarksAreNotClusters DEF Ends
    <2>4. QED BY <1>1, <1>2, <2>3 DEF ExactVector
  <1>7. QED BY <1>5, <1>6 DEF ExactInv

LEMMA ExactLinkTail ==
    ASSUME IInv, StoreInv, ExactInv, LinkTail
    PROVE  ExactInv'
  <1>1. pc = "tail" /\ pc' = "data" /\ dir' = dir /\ call' = call
    BY DEF LinkTail
  <1>2. call.kind = "write"
    BY <1>1, TailFacts
  <1>3. ~Filling /\ Filling' /\ \A n \in Names : Kept(n)' = Kept(n)
    BY <1>1, <1>2 DEF Filling, Kept, Cutting
  <1>4. ExactFiles'
    <2>1. \A n \in Names \ {call.name} : \A c \in Reach(n) : fat'[c] = fat[c]
      BY LinkTailChains
    <2>2. \A n \in Names : ~(Filling' /\ call'.name = n) => n \in Names \ {call.name}
      BY <1>1, <1>3
    <2>3. QED BY <1>1, <1>3, <2>1, <2>2, ExactKept DEF ExactInv
  <1>5. ExactVector'
    <2> DEFINE L == Len(chain')
               g == fat'
    <2>1. /\ \A i \in 1 .. L : ChainFrom(g, call.first, L)[i] = chain'[i]
          /\ L \in Nat /\ L > Len(chain) /\ g[chain'[L]] = END_OF_CHAIN
      BY LinkTailChains
    <2>2. Len(chain) \in Nat
      BY Types DEF IInv
    <2> HIDE DEF L, g
    <2>3. L \in 1 .. L
      BY <2>1, <2>2
    <2>4. Ends(g, call.first, L)
      BY <2>1, <2>3, MarksAreNotClusters DEF Ends
    <2>5. QED BY <1>1, <2>4 DEF ExactVector, L, g
  <1>6. QED BY <1>4, <1>5 DEF ExactInv

LEMMA ExactWriteData ==
    ASSUME IInv, StoreInv, ExactInv, WriteData \/ FlushAndGoOn
    PROVE  ExactInv'
  <1>1. /\ fat' = fat /\ dir' = dir /\ call' = call /\ chain' = chain
        /\ \/ pc = "data" /\ pc' \in {"data", "data flush"}
           \/ pc = "data flush" /\ pc' = "publish"
           \/ pc = "clear flush" /\ pc' = IF call.kind = "rename" THEN "clear" ELSE "walk"
    BY DEF WriteData, FlushAndGoOn, FlushPCs, disk, locals
  <1>2. /\ pc \in {"data", "data flush"} => call.kind = "write"
        /\ pc = "clear flush" => call.kind \in {"remove", "rename"}
    BY DEF IInv, CallInv, KindInv
  <1>3. (Filling' <=> Filling) /\ \A n \in Names : Kept(n)' = Kept(n)
    BY <1>1, <1>2 DEF Filling, Kept, Cutting
  <1>4. ExactFiles'
    BY <1>1, <1>3 DEF ExactInv, ExactFiles
  <1>5. ExactVector'
    BY <1>1, <1>3 DEF ExactInv, ExactVector
  <1>6. QED BY <1>4, <1>5 DEF ExactInv

LEMMA ExactCutChain ==
    ASSUME IInv, StoreInv, ExactInv, CutChain
    PROVE  ExactInv'
  <1> DEFINE g == fat'
             h == call.first
             m == call.count
  <1>1. /\ pc = "cut" /\ dir' = dir /\ call' = call /\ pc' \in {"free bit", "publish"}
    BY DEF CutChain
  <1>2. /\ call.kind = "shrink" /\ call.name \in Names /\ dir[call.name].used
        /\ h = dir[call.name].first /\ m \in 1 .. call.old
        /\ \A i \in 1 .. m :
              ChainFrom(g, h, m)[i] = ChainFrom(fat, h, call.old)[i]
        /\ g[ChainFrom(fat, h, call.old)[m]] = END_OF_CHAIN
        /\ \A n \in Names \ {call.name} : \A c \in Reach(n) : fat'[c] = fat[c]
    BY <1>1, CallChain, CutChainChains
  <1>3. \A n \in Names : Kept(n)' = IF n = call.name THEN m ELSE Kept(n)
    BY <1>1, <1>2 DEF Kept, Cutting
  <1>4. ~Filling /\ ~Filling'
    BY <1>1, <1>2 DEF Filling
  <1>5. Ends(g, h, m)
    <2> HIDE DEF g, h, m
    <2>1. m \in 1 .. m
      BY <1>2
    <2>2. QED BY <1>2, <2>1, MarksAreNotClusters DEF Ends
  <1>6. \A n \in Names : \/ Kept(n)' = Kept(n) /\ \A c \in Reach(n) : fat'[c] = fat[c]
                         \/ Ends(fat', dir[n].first, Kept(n)')
    <2> SUFFICES ASSUME NEW n \in Names
                 PROVE  \/ Kept(n)' = Kept(n) /\ \A c \in Reach(n) : fat'[c] = fat[c]
                        \/ Ends(fat', dir[n].first, Kept(n)')
      OBVIOUS
    <2>1. CASE n = call.name
      <3>1. Kept(n)' = m /\ dir[n].first = h
        BY <1>2, <1>3, <2>1
      <3>2. QED BY <1>5, <3>1
    <2>2. CASE n # call.name
      BY <1>2, <1>3, <2>2
    <2>3. QED BY <2>1, <2>2
  <1>7. ExactFiles'
    BY <1>1, <1>4, <1>6, ExactKept DEF ExactInv
  <1>8. QED BY <1>4, <1>7 DEF ExactInv, ExactVector

LEMMA ExactFree ==
    ASSUME IInv, StoreInv, ExactInv, FreeBit \/ FreeFat \/ WalkChain
    PROVE  ExactInv'
  <1>1. /\ dir' = dir /\ call' = call
        /\ \/ pc = "free bit" /\ pc' = "free fat"
           \/ pc = "free fat" /\ pc' \in {"free bit", "publish"} /\ call.kind = "shrink"
           \/ pc = "free fat" /\ pc' \in {"free bit", "flush"} /\ call.kind # "shrink"
           \/ pc = "walk" /\ pc' \in {"walk", "free bit"}
    BY DEF FreeBit, FreeFat, WalkChain, disk, locals
  <1>2. /\ pc \in {"free bit", "free fat"} => call.kind \in {"shrink", "remove"}
        /\ pc = "walk" => call.kind = "remove"
    BY DEF IInv, CallInv, KindInv
  <1>3. /\ ~Filling /\ ~Filling' /\ \A n \in Names : Cutting(n)' <=> Cutting(n)
    BY <1>1, <1>2 DEF Filling, Cutting
  <1>4. \A n \in Names : \A c \in Reach(n) : fat'[c] = fat[c]
    <2>1. FreeBit \/ WalkChain => fat' = fat
      BY DEF FreeBit, WalkChain, disk
    <2>2. QED BY <2>1, FreeFatKeeps
  <1>5. QED BY <1>1, <1>3, <1>4, ExactQuiet

LEMMA ExactPublish ==
    ASSUME IInv, StoreInv, ExactInv, Publish
    PROVE  ExactInv'
  <1>1. /\ pc = "publish" /\ pc' = "flush" /\ fat' = fat /\ call' = call
        /\ dir' = [dir EXCEPT ![call.name] = NewEntry(call.first, call.len)]
    BY DEF Publish, locals
  <1>2. /\ call.kind \in {"write", "shrink"} /\ call.name \in Names /\ dir[call.name].used
        /\ dir \in [Names -> Entry] /\ call.len \in Nat
    BY <1>1, Types DEF IInv, CallInv, KindInv, CallType
  <1>3. /\ dir'[call.name].first = call.first /\ dir'[call.name].len = call.len
        /\ \A n \in Names : n # call.name => dir'[n] = dir[n]
    BY <1>1, <1>2 DEF NewEntry
  <1>4. \A n \in Names : Kept(n)' = ClustersFor(dir'[n].len)
    BY <1>1 DEF Kept, Cutting
  <1>5. call.len > 0 /\ Ends(fat, call.first, ClustersFor(call.len))
    <2>1. CASE call.kind = "write"
      <3>1. Filling
        BY <1>1, <2>1 DEF Filling
      <3>2. /\ Len(chain) = ClustersFor(call.len) /\ call.off \in Nat /\ call.cnt \in Nat
            /\ call.cnt > 0 /\ dir[call.name].len \in Nat
            /\ call.len = IF call.off + call.cnt > dir[call.name].len
                          THEN call.off + call.cnt ELSE dir[call.name].len
        BY <3>1, FrameIs, FillingVector, FillingChain
      <3>3. QED BY <3>1, <3>2 DEF ExactInv, ExactVector
    <2>2. CASE call.kind = "shrink"
      <3>1. /\ call.first = dir[call.name].first /\ call.count = ClustersFor(call.len)
            /\ call.len > 0 /\ call.len <= dir[call.name].len
        BY <1>1, <2>2 DEF StoreInv, SizesInv
      <3>2. Kept(call.name) = call.count /\ ~Filling
        BY <1>1, <2>2 DEF Kept, Cutting, Filling
      <3>3. dir[call.name].len > 0
        BY <1>2, <3>1 DEF Entry
      <3>4. Ends(fat, dir[call.name].first, Kept(call.name))
        BY <1>2, <3>2, <3>3 DEF ExactInv, ExactFiles
      <3>5. QED BY <3>1, <3>2, <3>4
    <2>3. QED BY <1>2, <2>1, <2>2
  <1>6. ExactFiles'
    <2> SUFFICES ASSUME NEW n \in Names, dir'[n].used
                 PROVE  /\ dir'[n].len = 0 => dir'[n].first = 0
                        /\ dir'[n].len > 0 => Ends(fat, dir'[n].first, Kept(n)')
      BY <1>1 DEF ExactFiles
    <2>1. CASE n = call.name
      BY <1>2, <1>3, <1>4, <1>5, <2>1
    <2>2. CASE n # call.name
      <3>1. dir'[n] = dir[n] /\ ~(Filling /\ call.name = n) /\ ~Cutting(n)
        BY <1>3, <2>2 DEF Cutting
      <3>2. Kept(n)' = Kept(n)
        BY <1>4, <3>1 DEF Kept
      <3>3. QED BY <2>2, <3>1, <3>2 DEF ExactInv, ExactFiles
    <2>3. QED BY <2>1, <2>2
  <1>7. QED BY <1>1, <1>6 DEF ExactInv, ExactVector, Filling

LEMMA ExactClearOld ==
    ASSUME IInv, ExactInv, ClearOld
    PROVE  ExactInv'
  <1>1. /\ pc = "clear" /\ pc' = "flush" /\ fat' = fat /\ call' = call
        /\ dir' = [dir EXCEPT ![call.name] = NoEntry]
    BY DEF ClearOld, locals
  <1>2. call.kind = "rename" /\ dir \in [Names -> Entry]
    BY <1>1, Types DEF IInv, CallInv, KindInv
  <1>3. \A n \in Names : dir'[n].used => dir[n].used /\ dir'[n] = dir[n]
    BY <1>1, <1>2 DEF NoEntry
  <1>4. \A n \in Names : dir'[n].used => Kept(n)' = Kept(n)
    BY <1>1, <1>2, <1>3 DEF Kept, Cutting
  <1>5. ~Filling /\ ~Filling'
    BY <1>1 DEF Filling
  <1>6. QED BY <1>1, <1>3, <1>4, <1>5, ExactEntries DEF ExactInv

(* A call that ends without a mishap had written no chain, or is complete. *)
LEMMA CleanEnd ==
    ASSUME IInv, EndOfCall, ~mishap'
    PROVE  /\ ~Filling /\ \A n \in Names : ~Cutting(n)
           /\ pc \in {"read", "alloc", "flush"} /\ (pc = "alloc" => got = << >>)
  <1>1. pc \in {"read", "alloc", "flush"} /\ (pc = "alloc" => got = << >>)
    BY DEF EndOfCall, ReadChainFails, AllocFails, WritePastChain, CutPanics, FreeBitFails,
           WalkFails, FlushAndReturn, PowerCut, Return, Abandon
  <1>2. QED BY <1>1 DEF Filling, Cutting

LEMMA ExactEnd ==
    ASSUME IInv, ExactInv, EndOfCall, ~mishap'
    PROVE  ExactInv'
  <1>1. fat' = fat /\ dir' = dir /\ pc' = "idle"
    BY EndsAreEnds DEF Ended, disk
  <1>2. ~Filling /\ ~Filling' /\ \A n \in Names : ~Cutting(n) /\ ~Cutting(n)'
    BY <1>1, CleanEnd DEF Filling, Cutting
  <1>3. \A n \in Names : Kept(n)' = Kept(n)
    BY <1>1, <1>2 DEF Kept
  <1>4. QED BY <1>1, <1>2, <1>3, ExactEntries DEF ExactInv

LEMMA ExactStep ==
    ASSUME SoundOps, IInv, IInv', StoreInv, StoreInv', ExactInv, ~mishap', [Next]_vars
    PROVE  ExactInv'
  <1>1. CASE \E n \in Names : Call(n)
    BY <1>1, ExactBegin
  <1>2. CASE Inside
    BY <1>2, ExactReadChain, ExactAlloc, ExactStartChain, ExactLinkTail, ExactWriteData,
       ExactCutChain, ExactFree, ExactPublish, ExactClearOld DEF Inside
  <1>3. CASE EndOfCall
    BY <1>3, ExactEnd
  <1>4. CASE UNCHANGED vars
    BY <1>4 DEF vars, disk, locals, ExactInv, ExactFiles, ExactVector, Kept, Cutting, Filling
  <1>5. QED BY <1>1, <1>2, <1>3, <1>4, StepsAre

-----------------------------------------------------------------------------
(* Every marked cluster has an owner, as long as no call was cut short *)

LEMMA HeldIs ==
    /\ pc \in {"alloc", "link", "tail"} => Held = Elements(got)
    /\ Filling => Held = Tree(fat, call.first)
    /\ pc \in {"clear flush", "walk"} /\ call.kind = "remove"
           => Held = Tree(fat, cur) \cup Elements(todo)
    /\ pc = "free bit" => Held = Elements(todo)
    /\ pc = "free fat" => Held = Elements(Tail(todo))
    /\ pc \in {"idle", "read", "cut", "flush", "clear"} => Held = {}
    /\ pc = "clear flush" /\ call.kind = "rename" => Held = {}
    /\ pc = "publish" /\ call.kind = "shrink" => Held = {}
  <1>1. pc \in {"alloc", "link", "tail"} => Held = Elements(got)
    BY DEF Held, Filling
  <1>2. Filling => Held = Tree(fat, call.first)
    BY DEF Held, Filling
  <1>3. pc \in {"clear flush", "walk"} /\ call.kind = "remove"
            => Held = Tree(fat, cur) \cup Elements(todo)
    BY DEF Held, Filling
  <1>4. pc = "free bit" => Held = Elements(todo)
    BY DEF Held, Filling
  <1>5. pc = "free fat" => Held = Elements(Tail(todo))
    BY DEF Held, Filling
  <1>6. pc \in {"idle", "read", "cut", "flush", "clear"} => Held = {}
    BY DEF Held, Filling
  <1>7. pc = "clear flush" /\ call.kind = "rename" => Held = {}
    BY DEF Held, Filling
  <1>8. pc = "publish" /\ call.kind = "shrink" => Held = {}
    BY DEF Held, Filling
  <1>9. QED BY <1>1, <1>2, <1>3, <1>4, <1>5, <1>6, <1>7, <1>8

LEMMA HeldNext ==
    /\ pc' \in {"alloc", "link", "tail"} => Held' = Elements(got')
    /\ Filling' => Held' = Tree(fat', call'.first)
    /\ pc' \in {"clear flush", "walk"} /\ call'.kind = "remove"
           => Held' = Tree(fat', cur') \cup Elements(todo')
    /\ pc' = "free bit" => Held' = Elements(todo')
    /\ pc' = "free fat" => Held' = Elements(Tail(todo'))
  <1>1. pc' \in {"alloc", "link", "tail"} => Held' = Elements(got')
    BY DEF Held, Filling, Elements
  <1>2. Filling' => Held' = Tree(fat', call'.first)
    BY DEF Held, Filling, Tree
  <1>3. pc' \in {"clear flush", "walk"} /\ call'.kind = "remove"
            => Held' = Tree(fat', cur') \cup Elements(todo')
    BY DEF Held, Filling, Tree, Elements
  <1>4. pc' = "free bit" => Held' = Elements(todo')
    BY DEF Held, Filling, Elements
  <1>5. pc' = "free fat" => Held' = Elements(Tail(todo'))
    BY DEF Held, Filling, Elements
  <1>6. QED BY <1>1, <1>2, <1>3, <1>4, <1>5

(* What a step must show: every cluster keeps an owner or loses its mark. *)
LEMMA OwnedMoves ==
    ASSUME OwnedInv,
           \A c \in Clusters : bitmap'[c] => bitmap[c] \/ c \in Held',
           \A c \in Clusters : bitmap'[c] /\ c \in Held =>
               c \in Held' \/ \E n \in Names : c \in Reach(n)',
           \A n \in Names : \A c \in Reach(n) :
               c \in Held' \/ \E m \in Names : c \in Reach(m)'
    PROVE  OwnedInv'
  BY DEF OwnedInv

LEMMA ReachEntries ==
    ASSUME fat' = fat
    PROVE  \A n \in Names : dir'[n] = dir[n] => Reach(n)' = Reach(n)
  BY DEF Reach

LEMMA OwnedBegin ==
    ASSUME SoundOps, IInv, IInv', OwnedInv, NEW n \in Names, Call(n)
    PROVE  OwnedInv'
  <1>1. pc = "idle" /\ fat' = fat /\ bitmap' = bitmap
    <2>1. \A off, cnt, v : StartWrite(n, off, cnt, v) => fat' = fat /\ bitmap' = bitmap
      BY DEF StartWrite, disk
    <2>2. (\E len \in 0 .. MaxLen : Extend(n, len)) => fat' = fat /\ bitmap' = bitmap
      BY <2>1 DEF Extend
    <2>3. pc = "idle"
      BY DEF Call, Create, Remove, Rename, Extend, Shrink, WriteFile, Idle
    <2>4. QED BY <2>1, <2>2, <2>3 DEF Call, Create, Remove, Rename, Shrink, WriteFile, disk
  <1>2. Held = {} /\ dir \in [Names -> Entry]
    BY <1>1, HeldIs, Types DEF IInv
  <1>3. \A m \in Names : dir'[m] = dir[m] => Reach(m)' = Reach(m)
    BY <1>1, ReachEntries
  <1>4. ASSUME \A m \in Names : \A c \in Reach(m) : c \in Held' \/ \E k \in Names : c \in Reach(k)'
        PROVE  OwnedInv'
    BY <1>1, <1>2, <1>4, OwnedMoves
  <1>5. CASE Create(n)
    <2>1. dir' = [dir EXCEPT ![n] = NewEntry(0, 0)] /\ ~dir[n].used
      BY <1>5 DEF Create
    <2>2. Reach(n) = {} /\ \A m \in Names \ {n} : dir'[m] = dir[m]
      BY <1>2, <2>1 DEF Reach
    <2>3. QED BY <1>3, <1>4, <2>2
  <1>6. CASE Remove(n)
    <2>1. /\ dir' = [dir EXCEPT ![n] = NoEntry] /\ dir[n].used /\ cur' = dir[n].first
          /\ pc' = IF dir[n].first = 0 THEN "flush" ELSE "clear flush"
          /\ call'.kind = "remove"
      BY <1>6 DEF Remove, NameCall
    <2>2. \A m \in Names \ {n} : dir'[m] = dir[m]
      BY <1>2, <2>1
    <2>3. Reach(n) = Tree(fat, dir[n].first)
      BY <2>1 DEF Reach
    <2>4. Reach(n) \subseteq Held'
      <3>1. CASE dir[n].first = 0
        BY <2>3, <3>1, TreeEmpty, MarksAreNotClusters
      <3>2. CASE dir[n].first # 0
        <4>1. Held' = Tree(fat', cur') \cup Elements(todo')
          BY <2>1, <3>2, HeldNext
        <4>2. QED BY <1>1, <2>1, <2>3, <4>1
      <3>3. QED BY <3>1, <3>2
    <2>5. QED BY <1>3, <1>4, <2>2, <2>4
  <1>7. CASE \E m \in Names \ {n} : Rename(m, n)
    <2>1. PICK m \in Names \ {n} : Rename(m, n)
      BY <1>7
    <2>2. /\ dir' = [dir EXCEPT ![n] = NewEntry(dir[m].first, dir[m].len)] /\ ~dir[n].used
      BY <2>1 DEF Rename
    <2>3. Reach(n) = {} /\ \A k \in Names \ {n} : dir'[k] = dir[k]
      BY <1>2, <2>2 DEF Reach
    <2>4. QED BY <1>3, <1>4, <2>3
  <1>8. CASE UNCHANGED dir
    BY <1>3, <1>4, <1>8
  <1>9. (\E len \in 0 .. MaxLen : Extend(n, len) \/ Shrink(n, len))
        \/ (\E off \in 0 .. MaxLen, cnt \in 0 .. MaxLen, v \in Bytes : WriteFile(n, off, cnt, v))
           => UNCHANGED dir
    <2>1. \A off, cnt, v : StartWrite(n, off, cnt, v) => UNCHANGED dir
      BY DEF StartWrite, disk
    <2>2. \A len : Extend(n, len) => UNCHANGED dir
      BY <2>1 DEF Extend
    <2>3. QED BY <2>1, <2>2 DEF Shrink, WriteFile, disk
  <1>10. QED BY <1>5, <1>6, <1>7, <1>8, <1>9 DEF Call

(* A step that changes no chain and marks nothing. *)
LEMMA OwnedQuiet ==
    ASSUME OwnedInv, UNCHANGED dir, \A c \in Clusters : bitmap'[c] => bitmap[c],
           \A n \in Names : \A c \in Reach(n) : fat'[c] = fat[c],
           \A c \in Clusters : bitmap'[c] /\ c \in Held => c \in Held'
    PROVE  OwnedInv'
  <1>1. \A n \in Names : Reach(n)' = Reach(n)
    BY ReachKept
  <1>2. QED BY <1>1, OwnedMoves

LEMMA OwnedRead ==
    ASSUME IInv, OwnedInv, ReadChain
    PROVE  OwnedInv'
  <1>1. pc = "read" /\ fat' = fat /\ dir' = dir /\ bitmap' = bitmap
    BY DEF ReadChain, disk
  <1>2. Held = {}
    BY <1>1, HeldIs
  <1>3. QED BY <1>1, <1>2, OwnedQuiet

LEMMA OwnedAlloc ==
    ASSUME IInv, OwnedInv, NEW x \in Clusters, AllocCluster(x)
    PROVE  OwnedInv'
  <1>1. /\ pc = "alloc" /\ pc' \in {"alloc", "link"} /\ fat' = fat /\ dir' = dir
        /\ bitmap' = [bitmap EXCEPT ![x] = TRUE] /\ got' = Append(got, x)
    BY DEF AllocCluster
  <1>2. got \in Seq(Clusters) /\ bitmap \in [Clusters -> BOOLEAN]
    BY Types DEF IInv
  <1>3. Held = Elements(got) /\ Held' = Elements(got')
    BY <1>1, HeldIs, HeldNext
  <1>4. Elements(got') = Elements(got) \cup {x}
    <2>1. /\ got' \in Seq(Clusters) /\ Len(got') = Len(got) + 1 /\ Len(got) \in Nat
          /\ got'[Len(got) + 1] = x
          /\ \A i \in 1 .. Len(got) : got'[i] = got[i]
      BY <1>1, <1>2, AppendProperties
    <2>2. DOMAIN got = 1 .. Len(got) /\ DOMAIN got' = 1 .. Len(got) + 1
      BY <1>2, <2>1
    <2>3. QED BY <2>1, <2>2 DEF Elements
  <1>5. \A n \in Names : Reach(n)' = Reach(n)
    BY <1>1, ReachEntries
  <1>6. \A c \in Clusters : bitmap'[c] => bitmap[c] \/ c = x
    BY <1>1, <1>2
  <1>7. QED BY <1>3, <1>4, <1>5, <1>6, OwnedMoves

LEMMA OwnedLink ==
    ASSUME IInv, OwnedInv, LinkCluster
    PROVE  OwnedInv'
  <1> DEFINE x == got[linked + 1]
  <1>1. /\ pc = "link" /\ pc' \in {"link", "tail"} /\ dir' = dir /\ bitmap' = bitmap /\ got' = got
        /\ fat' = [fat EXCEPT ![x] = Successor(linked + 1)]
    BY DEF LinkCluster
  <1>2. \A n \in Names : x \notin Reach(n)
    <2>1. linked \in Nat /\ Len(got) \in Nat /\ linked < Len(got)
      BY <1>1, Types DEF IInv, CallInv, AllocInv
    <2>2. linked + 1 \in 1 .. Len(got)
      BY <2>1
    <2>3. QED BY <1>1, <2>2 DEF IInv, CallInv, AllocInv
  <1>3. fat \in [Clusters -> FatValues] /\ \A n \in Names : Reach(n) \subseteq Clusters
    BY ReachClosed, Types DEF IInv
  <1> HIDE DEF x
  <1>4. \A n \in Names : \A c \in Reach(n) : fat'[c] = fat[c]
    BY <1>1, <1>2, <1>3
  <1>5. Held' = Held
    BY <1>1, HeldIs, HeldNext
  <1>6. QED BY <1>1, <1>4, <1>5, OwnedQuiet

LEMMA OwnedStartChain ==
    ASSUME IInv, StoreInv, StoreInv', OwnedInv, StartChain
    PROVE  OwnedInv'
  <1>1. /\ pc = "tail" /\ pc' = "data" /\ fat' = fat /\ dir' = dir /\ bitmap' = bitmap
        /\ chain' = got /\ call' = [call EXCEPT !.first = got[1]]
    BY DEF StartChain, disk
  <1>2. call'.kind = call.kind /\ call'.first = got[1] /\ got \in Seq(Clusters)
    BY <1>1, Types DEF IInv, CallType
  <1>3. /\ call.kind = "write" /\ Len(got) \in Nat
        /\ \A i \in 1 .. Len(got) : got[i] \in Clusters
    BY <1>1, TailFacts
  <1>4. Filling'
    BY <1>1, <1>2, <1>3 DEF Filling
  <1>5. \A i \in 1 .. Len(got) : got[i] = ChainFrom(fat, got[1], Len(got))[i]
    BY <1>1, <1>2, <1>4 DEF StoreInv, VectorInv
  <1>6. \A i \in 1 .. Len(got) : got[i] \in Tree(fat, got[1])
    <2>1. Chained(fat, got[1], Len(got))
      BY <1>3, <1>5 DEF Chained
    <2>2. QED BY <1>3, <1>5, <2>1, ChainInTree
  <1>7. Held = Elements(got) /\ Held' = Tree(fat, got[1])
    BY <1>1, <1>2, <1>4, HeldIs, HeldNext
  <1>8. Elements(got) \subseteq Tree(fat, got[1])
    BY <1>2, <1>6 DEF Elements
  <1>9. QED BY <1>1, <1>7, <1>8, OwnedQuiet

LEMMA OwnedLinkTail ==
    ASSUME IInv, StoreInv, ExactInv, OwnedInv, LinkTail
    PROVE  OwnedInv'
  <1> DEFINE me == call.name
             h == call.first
             k == call.old
             w == ChainFrom(fat, h, k)
             g == fat'
             s == chain'
             L == Len(chain')
  <1>1. pc = "tail" /\ pc' = "data" /\ dir' = dir /\ bitmap' = bitmap /\ call' = call
    BY DEF LinkTail
  <1>2. /\ me \in Names /\ dir[me].used /\ h = dir[me].first /\ k \in Nat /\ k = Kept(me)
        /\ k = ClustersFor(dir[me].len) /\ Chained(fat, h, k) /\ Reach(me) = Tree(fat, h)
    BY <1>1, CallChain
  <1>3. /\ call.kind = "write" /\ Len(chain) = k /\ Len(got) \in Nat /\ got \in Seq(Clusters)
        /\ dir[me].len \in Nat
    BY <1>1, TailFacts, Types DEF IInv
  <1>4. /\ \A i \in 1 .. L : ChainFrom(g, h, L)[i] = s[i] /\ s[i] \in Clusters
        /\ L \in Nat /\ L = Len(chain) + Len(got)
        /\ \A i \in 1 .. Len(chain) : s[i] = chain[i]
        /\ \A i \in 1 .. Len(got) : got[i] = s[Len(chain) + i]
        /\ \A n \in Names \ {me} : \A c \in Reach(n) : g[c] = fat[c]
    BY LinkTailChains
  <1>5. \A i \in 1 .. k : chain[i] = w[i]
    BY <1>1, <1>3 DEF StoreInv, VectorInv
  <1>6. Held = Elements(got) /\ Held' = Tree(g, h)
    <2>1. Filling'
      BY <1>1, <1>3 DEF Filling
    <2>2. QED BY <1>1, <2>1, HeldIs, HeldNext
  <1> HIDE DEF g, h, k, s, L, w
  <1>7. \A i \in 1 .. L : s[i] \in Tree(g, h)
    <2>1. Chained(g, h, L)
      BY <1>4 DEF Chained
    <2>2. QED BY <1>4, <2>1, ChainInTree
  <1>8. \A c \in Elements(got) : c \in Tree(g, h)
    <2> SUFFICES ASSUME NEW i \in 1 .. Len(got) PROVE got[i] \in Tree(g, h)
      BY <1>3 DEF Elements
    <2>1. Len(chain) + i \in 1 .. L
      BY <1>2, <1>3, <1>4
    <2>2. QED BY <1>4, <1>7, <2>1
  <1>9. Reach(me) \subseteq Tree(g, h)
    <2>1. k > 0
      <3>1. chain # << >> /\ chain \in Seq(Clusters)
        BY Types DEF LinkTail, IInv
      <3>2. QED BY <1>2, <1>3, <3>1, EmptySeq
    <2>2. dir[me].len > 0
      <3>1. dir[me].len = 0 => k = 0
        BY <1>2, ClustersForZero
      <3>2. QED BY <1>3, <2>1, <3>1
    <2>3. Ends(fat, h, k)
      <3>1. ~Filling
        BY <1>1 DEF Filling
      <3>2. QED BY <1>2, <2>2, <3>1 DEF ExactInv, ExactFiles
    <2>4. \A c \in Tree(fat, h) : \E i \in 1 .. k : c = w[i]
      BY <1>2, <2>1, <2>3, ChainIsTree DEF w
    <2>5. \A i \in 1 .. k : w[i] = s[i] /\ i \in 1 .. L
      BY <1>2, <1>3, <1>4, <1>5
    <2>6. QED BY <1>2, <1>7, <2>4, <2>5
  <1>10. \A n \in Names \ {me} : Reach(n)' = Reach(n)
    <2> SUFFICES ASSUME NEW n \in Names \ {me} PROVE Reach(n)' = Reach(n)
      OBVIOUS
    <2> DEFINE f == dir[n].first
    <2>1. dir[n].used => \A c \in Tree(fat, f) : g[c] = fat[c]
      BY <1>4 DEF Reach
    <2> HIDE DEF f
    <2>2. dir[n].used => Tree(g, f) = Tree(fat, f)
      BY <2>1, TreeSame
    <2>3. QED BY <1>1, <2>2 DEF Reach, f, g
  <1>11. \A n \in Names : \A c \in Reach(n) : c \in Held' \/ \E m \in Names : c \in Reach(m)'
    BY <1>6, <1>9, <1>10
  <1>12. QED BY <1>1, <1>6, <1>8, <1>11, OwnedMoves

LEMMA OwnedCutChain ==
    ASSUME IInv, StoreInv, ExactInv, OwnedInv, CutChain
    PROVE  OwnedInv'
  <1> DEFINE me == call.name
             h == call.first
             k == call.old
             m == call.count
             w == ChainFrom(fat, h, k)
             g == fat'
             t == todo'
  <1>1. /\ pc = "cut" /\ dir' = dir /\ bitmap' = bitmap /\ call' = call
        /\ t = Suffix(chain, m) /\ pc' = IF t # << >> THEN "free bit" ELSE "publish"
    BY DEF CutChain
  <1>2. /\ me \in Names /\ dir[me].used /\ h = dir[me].first /\ k \in Nat /\ k = Kept(me)
        /\ k = ClustersFor(dir[me].len) /\ Chained(fat, h, k) /\ Reach(me) = Tree(fat, h)
    BY <1>1, CallChain
  <1>3. /\ call.kind = "shrink" /\ m \in 1 .. k /\ Len(chain) = k
        /\ \A i \in 1 .. Len(chain) : chain[i] = w[i]
        /\ Chained(g, h, m) /\ \A i \in 1 .. m : ChainFrom(g, h, m)[i] = w[i]
        /\ \A n \in Names \ {me} : \A c \in Reach(n) : g[c] = fat[c]
    BY CutChainChains
  <1>4. chain \in Seq(Clusters) /\ dir[me].len \in Nat
    BY <1>2, Types DEF IInv, Entry
  <1>5. Held = {} /\ (pc' = "free bit" => Held' = Elements(t))
    BY <1>1, HeldIs, HeldNext
  <1>6. \A n \in Names : n = me => Reach(n)' = Tree(g, h)
    BY <1>1, <1>2 DEF Reach
  <1> HIDE DEF g, h, k, m, w, t
  <1>7. m \in Nat /\ m > 0 /\ m <= k /\ m \in 0 .. Len(chain)
    BY <1>2, <1>3
  <1>8. \A i \in 1 .. m : w[i] \in Tree(g, h)
    BY <1>3, <1>7, ChainInTree
  <1>9. /\ t \in Seq(Clusters) /\ Len(t) = k - m
        /\ \A i \in 1 .. k - m : t[i] = chain[m + i]
    <2>1. /\ Suffix(chain, m) \in Seq(Clusters) /\ Len(Suffix(chain, m)) = Len(chain) - m
          /\ \A i \in 1 .. Len(chain) - m : Suffix(chain, m)[i] = chain[m + i]
      BY <1>4, <1>7, SuffixElements
    <2>2. t = Suffix(chain, m) /\ Len(chain) = k
      BY <1>1, <1>3
    <2>3. QED BY <2>1, <2>2
  <1>10. ASSUME NEW i \in 1 .. k, ~(i <= m) PROVE w[i] \in Held'
    <2>1. i - m \in 1 .. k - m /\ m + (i - m) = i /\ Len(t) > 0
      BY <1>2, <1>7, <1>9, <1>10
    <2>2. t # << >> /\ pc' = "free bit"
      <3>1. t # << >>
        BY <2>1
      <3>2. QED BY <1>1, <3>1
    <2>3. t[i - m] = w[i] /\ i - m \in DOMAIN t
      <3>1. t[i - m] = chain[m + (i - m)]
        BY <1>9, <2>1
      <3>2. DOMAIN t = 1 .. Len(t)
        BY <1>9
      <3>3. QED BY <1>3, <1>9, <2>1, <3>1, <3>2
    <2>4. QED BY <1>5, <2>2, <2>3 DEF Elements
  <1>11. \A c \in Reach(me) : c \in Held' \/ c \in Tree(g, h)
    <2>1. k > 0 /\ dir[me].len > 0
      <3>1. dir[me].len = 0 => k = 0
        BY <1>2, ClustersForZero
      <3>2. QED BY <1>2, <1>4, <1>7, <3>1
    <2>2. Ends(fat, h, k)
      <3>1. ~Filling
        BY <1>1 DEF Filling
      <3>2. QED BY <1>2, <2>1, <3>1 DEF ExactInv, ExactFiles
    <2>3. \A c \in Tree(fat, h) : \E i \in 1 .. k : c = w[i]
      BY <1>2, <2>1, <2>2, ChainIsTree DEF w
    <2> SUFFICES ASSUME NEW i \in 1 .. k PROVE w[i] \in Held' \/ w[i] \in Tree(g, h)
      BY <1>2, <2>3
    <2>4. i <= m => i \in 1 .. m
      BY <1>7
    <2>5. QED BY <1>8, <1>10, <2>4
  <1>12. \A n \in Names \ {me} : Reach(n)' = Reach(n)
    <2> SUFFICES ASSUME NEW n \in Names \ {me} PROVE Reach(n)' = Reach(n)
      OBVIOUS
    <2> DEFINE f == dir[n].first
    <2>1. dir[n].used => \A c \in Tree(fat, f) : g[c] = fat[c]
      BY <1>3 DEF Reach
    <2> HIDE DEF f
    <2>2. dir[n].used => Tree(g, f) = Tree(fat, f)
      BY <2>1, TreeSame
    <2>3. QED BY <1>1, <2>2 DEF Reach, f, g
  <1>13. \A n \in Names : \A c \in Reach(n) : c \in Held' \/ \E j \in Names : c \in Reach(j)'
    BY <1>2, <1>6, <1>11, <1>12
  <1>14. QED BY <1>1, <1>5, <1>13, OwnedMoves

LEMMA OwnedFreeBit ==
    ASSUME IInv, OwnedInv, FreeBit
    PROVE  OwnedInv'
  <1>1. /\ pc = "free bit" /\ pc' = "free fat" /\ fat' = fat /\ dir' = dir /\ todo' = todo
        /\ bitmap' = [c \in Clusters |-> bitmap[c] /\ c # Head(todo)]
    BY DEF FreeBit, locals
  <1>2. todo # << >> /\ todo \in Seq(Nat)
    BY <1>1, Types DEF IInv, LoopsInv
  <1>3. Held = Elements(todo) /\ Held' = Elements(Tail(todo))
    <2>1. Held' = Elements(Tail(todo'))
      BY <1>1, HeldNext
    <2>2. QED BY <1>1, <2>1, HeldIs
  <1>4. \A c \in Elements(todo) : c = Head(todo) \/ c \in Elements(Tail(todo))
    <2> SUFFICES ASSUME NEW i \in 1 .. Len(todo), i # 1
                 PROVE  todo[i] \in Elements(Tail(todo))
      BY <1>2 DEF Elements
    <2>1. /\ Tail(todo) \in Seq(Nat) /\ i - 1 \in 1 .. Len(Tail(todo))
          /\ Tail(todo)[i - 1] = todo[i]
      BY <1>2
    <2>2. DOMAIN Tail(todo) = 1 .. Len(Tail(todo))
      BY <2>1
    <2>3. QED BY <2>1, <2>2 DEF Elements
  <1>5. \A c \in Clusters : bitmap'[c] => bitmap[c] /\ c # Head(todo)
    BY <1>1
  <1>6. QED BY <1>1, <1>3, <1>4, <1>5, OwnedQuiet

LEMMA OwnedFreeFat ==
    ASSUME IInv, OwnedInv, FreeFat
    PROVE  OwnedInv'
  <1>1. /\ pc = "free fat" /\ dir' = dir /\ bitmap' = bitmap
        /\ Tail(todo) # << >> => pc' = "free bit"
    BY DEF FreeFat
  <1>2. /\ todo' = Tail(todo) /\ \A n \in Names : \A c \in Reach(n) : fat'[c] = fat[c]
    BY FreeFatKeeps
  <1>3. Held \subseteq Held'
    <2>1. Held = Elements(Tail(todo))
      BY <1>1, HeldIs
    <2>2. CASE Tail(todo) = << >>
      BY <2>1, <2>2 DEF Elements
    <2>3. CASE Tail(todo) # << >>
      <3>1. Held' = Elements(todo')
        BY <1>1, <2>3, HeldNext
      <3>2. QED BY <1>2, <2>1, <3>1
    <2>4. QED BY <2>2, <2>3
  <1>4. QED BY <1>1, <1>2, <1>3, OwnedQuiet

(* What a cluster leads to is the cluster and what its successor leads to. *)
LEMMA TreeSteps ==
    ASSUME NEW f, NEW c \in Clusters
    PROVE  Tree(f, c) \subseteq {c} \cup Tree(f, f[c])
  <1> DEFINE S == {c} \cup Tree(f, f[c])
  <1>1. S \in SUBSET Clusters
    BY DEF Tree
  <1>2. Closed(f, S)
    <2>1. CASE f[c] \in Clusters
      <3>1. f[c] \in Tree(f, f[c]) /\ Closed(f, Tree(f, f[c]))
        BY <2>1, TreeClosed
      <3>2. QED BY <3>1 DEF Closed
    <2>2. CASE f[c] \notin Clusters
      <3>1. Tree(f, f[c]) = {}
        BY <2>2, TreeEmpty
      <3>2. QED BY <2>2, <3>1 DEF Closed
    <2>3. QED BY <2>1, <2>2
  <1>3. QED BY <1>1, <1>2, TreeLeast

LEMMA OwnedWalk ==
    ASSUME IInv, OwnedInv, WalkChain
    PROVE  OwnedInv'
  <1>1. /\ pc = "walk" /\ fat' = fat /\ dir' = dir /\ bitmap' = bitmap /\ call' = call
        /\ cur \in Clusters /\ todo' = Append(todo, cur)
        /\ \/ fat[cur] \in Clusters /\ cur' = fat[cur] /\ pc' = "walk"
           \/ fat[cur] \notin Clusters /\ pc' = "free bit"
    BY DEF WalkChain, disk
  <1>2. call.kind = "remove"
    BY <1>1 DEF IInv, CallInv, KindInv
  <1>3. Held = Tree(fat, cur) \cup Elements(todo)
    BY <1>1, <1>2, HeldIs
  <1>4. Elements(todo) \subseteq Elements(todo') /\ cur \in Elements(todo')
    <2>1. todo \in Seq(Nat) /\ cur \in Nat /\ Len(todo) \in Nat
      BY Types DEF IInv
    <2>2. /\ todo' \in Seq(Nat) /\ Len(todo') = Len(todo) + 1
          /\ todo'[Len(todo) + 1] = cur
          /\ \A i \in 1 .. Len(todo) : todo'[i] = todo[i]
      <3>1. todo' = Append(todo, cur)
        BY <1>1
      <3>2. QED BY <2>1, <3>1, AppendProperties
    <2>3. DOMAIN todo = 1 .. Len(todo) /\ DOMAIN todo' = 1 .. Len(todo) + 1
      BY <2>1, <2>2
    <2>4. QED BY <2>1, <2>2, <2>3 DEF Elements
  <1>5. Tree(fat, cur) \subseteq {cur} \cup Tree(fat, fat[cur])
    BY <1>1, TreeSteps
  <1>6. Held \subseteq Held'
    <2>1. CASE fat[cur] \in Clusters /\ cur' = fat[cur] /\ pc' = "walk"
      <3>1. Held' = Tree(fat', cur') \cup Elements(todo')
        BY <1>1, <1>2, <2>1, HeldNext
      <3>2. QED BY <1>1, <1>3, <1>4, <1>5, <2>1, <3>1
    <2>2. CASE fat[cur] \notin Clusters /\ pc' = "free bit"
      <3>1. Held' = Elements(todo') /\ Tree(fat, fat[cur]) = {}
        BY <2>2, HeldNext, TreeEmpty
      <3>2. QED BY <1>3, <1>4, <1>5, <3>1
    <2>3. QED BY <1>1, <2>1, <2>2
  <1>7. QED BY <1>1, <1>6, OwnedQuiet

LEMMA OwnedData ==
    ASSUME IInv, OwnedInv, WriteData \/ FlushAndGoOn
    PROVE  OwnedInv'
  <1>1. /\ fat' = fat /\ dir' = dir /\ bitmap' = bitmap /\ call' = call /\ cur' = cur
        /\ todo' = todo
        /\ \/ pc = "data" /\ pc' \in {"data", "data flush"}
           \/ pc = "data flush" /\ pc' = "publish"
           \/ pc = "clear flush" /\ pc' = IF call.kind = "rename" THEN "clear" ELSE "walk"
    BY DEF WriteData, FlushAndGoOn, FlushPCs, disk, locals
  <1>2. /\ pc \in {"data", "data flush"} => call.kind = "write"
        /\ pc = "clear flush" => call.kind \in {"remove", "rename"}
    BY DEF IInv, CallInv, KindInv
  <1>3. Held \subseteq Held'
    <2>1. CASE pc \in {"data", "data flush"}
      <3>1. Filling /\ Filling'
        BY <1>1, <1>2, <2>1 DEF Filling
      <3>2. QED BY <1>1, <3>1, HeldIs, HeldNext
    <2>2. CASE pc = "clear flush" /\ call.kind = "remove"
      <3>1. /\ Held = Tree(fat, cur) \cup Elements(todo)
            /\ Held' = Tree(fat', cur') \cup Elements(todo')
        BY <1>1, <2>2, HeldIs, HeldNext
      <3>2. QED BY <1>1, <3>1
    <2>3. CASE pc = "clear flush" /\ call.kind = "rename"
      BY <2>3, HeldIs
    <2>4. QED BY <1>1, <1>2, <2>1, <2>2, <2>3
  <1>4. QED BY <1>1, <1>3, OwnedQuiet

LEMMA OwnedPublish ==
    ASSUME IInv, StoreInv, ExactInv, OwnedInv, Publish
    PROVE  OwnedInv'
  <1>1. /\ pc = "publish" /\ pc' = "flush" /\ fat' = fat /\ call' = call /\ bitmap' = bitmap
        /\ dir' = [dir EXCEPT ![call.name] = NewEntry(call.first, call.len)]
    BY DEF Publish, locals
  <1>2. /\ call.kind \in {"write", "shrink"} /\ call.name \in Names /\ dir[call.name].used
        /\ dir \in [Names -> Entry]
    BY <1>1, Types DEF IInv, CallInv, KindInv
  <1>3. /\ dir'[call.name].first = call.first /\ dir'[call.name].used
        /\ \A n \in Names : n # call.name => dir'[n] = dir[n]
    BY <1>1, <1>2 DEF NewEntry
  <1>4. \A n \in Names : n # call.name => Reach(n)' = Reach(n)
    BY <1>1, <1>3, ReachEntries
  <1>5. \A n \in Names : n = call.name => Reach(n)' = Tree(fat, call.first)
    BY <1>1, <1>3 DEF Reach
  <1>6. Held \subseteq Tree(fat, call.first)
    <2>1. CASE call.kind = "write"
      <3>1. Filling
        BY <1>1, <2>1 DEF Filling
      <3>2. QED BY <3>1, HeldIs
    <2>2. CASE call.kind = "shrink"
      BY <1>1, <2>2, HeldIs
    <2>3. QED BY <1>2, <2>1, <2>2
  <1>7. Reach(call.name) \subseteq Tree(fat, call.first)
    <2>1. CASE call.first = dir[call.name].first
      BY <1>2, <2>1 DEF Reach
    <2>2. CASE call.first # dir[call.name].first
      <3>1. call.kind = "write"
        BY <1>1, <1>2, <2>2 DEF StoreInv, SizesInv
      <3>2. Filling
        BY <1>1, <3>1 DEF Filling
      <3>3. call.old = ClustersFor(dir[call.name].len) /\ dir[call.name].len \in Nat /\ call.old \in Nat
        BY <3>2, FrameIs, FillingVector, FillingChain
      <3>4. ~(call.old > 0)
        BY <2>2, <3>2 DEF StoreInv, VectorInv
      <3>5. dir[call.name].len = 0
        BY <3>3, <3>4, ClustersForType
      <3>6. dir[call.name].first = 0
        BY <1>2, <3>5 DEF ExactInv, ExactFiles
      <3>7. QED BY <1>2, <3>6, TreeEmpty, MarksAreNotClusters DEF Reach
    <2>3. QED BY <2>1, <2>2
  <1>8. \A n \in Names : \A c \in Reach(n) : \E m \in Names : c \in Reach(m)'
    BY <1>2, <1>4, <1>5, <1>7
  <1>9. \A c \in Held : \E m \in Names : c \in Reach(m)'
    BY <1>2, <1>5, <1>6
  <1>10. QED BY <1>1, <1>8, <1>9, OwnedMoves

LEMMA OwnedClearOld ==
    ASSUME IInv, StoreInv, OwnedInv, ClearOld
    PROVE  OwnedInv'
  <1>1. /\ pc = "clear" /\ pc' = "flush" /\ fat' = fat /\ call' = call /\ bitmap' = bitmap
        /\ dir' = [dir EXCEPT ![call.name] = NoEntry]
    BY DEF ClearOld, locals
  <1>2. call.kind = "rename" /\ dir \in [Names -> Entry] /\ Held = {}
    BY <1>1, HeldIs, Types DEF IInv, CallInv, KindInv
  <1>3. /\ call.to \in Names /\ call.to # call.name /\ dir[call.to] = dir[call.name]
    BY <1>1, <1>2 DEF StoreInv, TwoNamesInv
  <1>4. \A n \in Names : n # call.name => Reach(n)' = Reach(n)
    <2>1. \A n \in Names : n # call.name => dir'[n] = dir[n]
      BY <1>1, <1>2
    <2>2. QED BY <1>1, <2>1, ReachEntries
  <1>5. Reach(call.to) = Reach(call.name)
    BY <1>3 DEF Reach
  <1>6. \A n \in Names : \A c \in Reach(n) : \E m \in Names : c \in Reach(m)'
    <2> SUFFICES ASSUME NEW n \in Names, NEW c \in Reach(n)
                 PROVE  \E m \in Names : c \in Reach(m)'
      OBVIOUS
    <2> DEFINE x == call.to
    <2>1. x \in Names /\ x # call.name /\ Reach(x) = Reach(call.name)
      BY <1>3, <1>5
    <2>2. \E m \in Names : m # call.name /\ c \in Reach(m)
      BY <2>1
    <2>3. QED BY <1>4, <2>2
  <1>7. QED BY <1>1, <1>2, <1>6, OwnedMoves

LEMMA OwnedEnd ==
    ASSUME IInv, OwnedInv, EndOfCall, ~mishap'
    PROVE  OwnedInv'
  <1>1. fat' = fat /\ dir' = dir /\ bitmap' = bitmap
    BY EndsAreEnds DEF disk
  <1>2. Held = {}
    <2>1. pc \in {"read", "alloc", "flush"} /\ (pc = "alloc" => got = << >>)
      BY CleanEnd
    <2>2. Elements(<< >>) = {}
      BY DEF Elements
    <2>3. QED BY <2>1, <2>2, HeldIs
  <1>3. QED BY <1>1, <1>2, OwnedQuiet

LEMMA OwnedStep ==
    ASSUME SoundOps, IInv, IInv', StoreInv, StoreInv', ExactInv, OwnedInv, ~mishap', [Next]_vars
    PROVE  OwnedInv'
  <1>1. CASE \E n \in Names : Call(n)
    BY <1>1, OwnedBegin
  <1>2. CASE Inside
    BY <1>2, OwnedRead, OwnedAlloc, OwnedLink, OwnedStartChain, OwnedLinkTail, OwnedCutChain,
       OwnedFreeBit, OwnedFreeFat, OwnedWalk, OwnedData, OwnedPublish, OwnedClearOld DEF Inside
  <1>3. CASE EndOfCall
    BY <1>3, OwnedEnd
  <1>4. CASE UNCHANGED vars
    BY <1>4 DEF vars, disk, locals, OwnedInv, Held, Reach, Filling, Tree, Elements
  <1>5. QED BY <1>1, <1>2, <1>3, <1>4, StepsAre

-----------------------------------------------------------------------------
(* The inductive invariant, and what it gives *)

LEMMA StoreNext == SoundOps /\ StoreIInv /\ [Next]_vars => StoreIInv'
  <1> SUFFICES ASSUME SoundOps, StoreIInv, [Next]_vars PROVE StoreIInv'
    OBVIOUS
  <1>1. IInv /\ IInv' /\ TypeOK
    BY KeepNext DEF StoreIInv, IInv
  <1>2. (Healthy' => Healthy) /\ (~mishap' => ~mishap)
    BY <1>1, HealthyBefore
  <1>3. Healthy' => StoreInv'
    BY <1>1, <1>2, StoreAdvance DEF StoreIInv
  <1>4. ~mishap' => ExactInv' /\ OwnedInv'
    <2> SUFFICES ASSUME ~mishap' PROVE ExactInv' /\ OwnedInv'
      OBVIOUS
    <2>1. ~mishap /\ Healthy /\ Healthy'
      BY <1>2 DEF Healthy
    <2>2. StoreInv /\ StoreInv' /\ ExactInv /\ OwnedInv
      BY <1>3, <2>1 DEF StoreIInv
    <2>3. QED BY <1>1, <2>2, ExactStep, OwnedStep
  <1>5. QED BY <1>1, <1>3, <1>4 DEF StoreIInv

LEMMA StoreInit == Init => StoreIInv
  <1> SUFFICES ASSUME Init PROVE StoreIInv
    OBVIOUS
  <1>1. /\ \A n \in Names : ~dir[n].used
        /\ \A c \in Clusters : ~bitmap[c]
        /\ pc = "idle" /\ call.kind = "none" /\ todo = << >>
    BY DEF Init, NoEntry, NoCall, NameCall
  <1>2. WholeInv /\ SizesInv /\ VectorInv /\ FillInv /\ TwoNamesInv
    BY <1>1 DEF WholeInv, SizesInv, VectorInv, FillInv, TwoNamesInv, Filling
  <1>3. TodoInv
    BY <1>1 DEF TodoInv
  <1>4. ExactInv /\ OwnedInv
    BY <1>1 DEF ExactInv, ExactFiles, ExactVector, OwnedInv, Filling
  <1>5. QED BY <1>2, <1>3, <1>4, KeepInit DEF StoreIInv, StoreInv

LEMMA OwnedIdle == StoreIInv => NoLostClusters
  <1> SUFFICES ASSUME StoreIInv, Idle, ~mishap, NEW c \in Clusters, bitmap[c]
               PROVE  \E n \in Names : c \in Reach(n)
    BY DEF NoLostClusters
  <1>1. Held = {}
    BY HeldIs DEF Idle
  <1>2. QED BY <1>1 DEF StoreIInv, OwnedInv

(* As long as no call was cut short, every cluster marked between two calls
   is some file's: what write_file takes from the bitmap is published, and
   remove, truncate_file and rename give back exactly what they detach. *)
THEOREM NothingLeaks ==
    ASSUME SoundOps
    PROVE  Spec => []NoLostClusters
  <1>1. QED BY OwnedIdle, StoreInit, StoreNext, PTL DEF Spec

LEMMA WholeFiles == ShrinksComplete /\ StoreIInv => CommittedFilesReadable
  <1> SUFFICES ASSUME ShrinksComplete, StoreIInv,
                      NEW n \in Names, dir[n].used, ~(call.kind = "shrink" /\ call.name = n)
               PROVE  \A i \in DOMAIN FileChain(n) : FileChain(n)[i] \in Clusters
    BY DEF CommittedFilesReadable
  <1> DEFINE k == ClustersFor(dir[n].len)
             h == dir[n].first
  <1>1. k \in Nat /\ Chained(fat, h, k)
    <2>1. IInv /\ WholeInv
      BY DEF StoreIInv, Healthy, StoreInv
    <2>2. Kept(n) = k
      BY DEF Kept, Cutting
    <2>3. QED BY <2>1, <2>2, FileChains
  <1>2. FileChain(n) = ChainFrom(fat, h, k)
    BY DEF FileChain
  <1> HIDE DEF h, k
  <1>3. DOMAIN ChainFrom(fat, h, k) = 1 .. k
    BY <1>1, ChainUnfolds DEF IsChain
  <1>4. QED BY <1>1, <1>2, <1>3 DEF Chained

(* Unless the power fails within a truncation, every file between calls, and
   every other file during one, has as many clusters as its length asks for:
   no call, failed or cut, leaves an entry that read_chain cannot read back. *)
THEOREM FilesStayReadable ==
    ASSUME SoundOps, ShrinksComplete
    PROVE  Spec => []CommittedFilesReadable
  <1>1. QED BY WholeFiles, StoreInit, StoreNext, PTL DEF Spec

-----------------------------------------------------------------------------
(* The volume is a file store: what a caller sees *)

LEMMA ClusterOfByte ==
    ASSUME NEW len \in Nat, NEW i \in 1 .. len
    PROVE  /\ (i - 1) \div ClusterBytes + 1 \in 1 .. ClustersFor(len)
           /\ (i - 1) % ClusterBytes \in ClusterIndex
  <1>1. i - 1 \in Nat /\ i - 1 < len
    OBVIOUS
  <1>2. QED BY <1>1, ByteHasCluster

(* The bytes seen are those at the clusters of the chain, wherever the table
   keeps the chain and whatever else it holds. *)
LEMMA SeenSame ==
    ASSUME NEW f, NEW g, NEW d, NEW e, NEW h, NEW len \in Nat,
           \A i \in 1 .. ClustersFor(len) :
               /\ ChainFrom(g, h, ClustersFor(len))[i] = ChainFrom(f, h, ClustersFor(len))[i]
               /\ LET c == ChainFrom(f, h, ClustersFor(len))[i]
                  IN  c \in Clusters => e[c] = d[c]
    PROVE  Seen(g, e, h, len) = Seen(f, d, h, len)
  <1> DEFINE v == ChainFrom(f, h, ClustersFor(len))
             w == ChainFrom(g, h, ClustersFor(len))
  <1>1. \A i \in 1 .. ClustersFor(len) : w[i] = v[i] /\ (v[i] \in Clusters => e[v[i]] = d[v[i]])
    OBVIOUS
  <1> HIDE DEF v, w
  <1>2. ASSUME NEW i \in 1 .. len
        PROVE  (LET c == w[(i - 1) \div ClusterBytes + 1]
                IN  IF c \in Clusters THEN e[c][(i - 1) % ClusterBytes] ELSE Noise)
               = (LET c == v[(i - 1) \div ClusterBytes + 1]
                  IN  IF c \in Clusters THEN d[c][(i - 1) % ClusterBytes] ELSE Noise)
    <2> DEFINE j == (i - 1) \div ClusterBytes + 1
               b == (i - 1) % ClusterBytes
    <2>1. j \in 1 .. ClustersFor(len)
      BY ClusterOfByte
    <2> HIDE DEF j, b
    <2>2. (IF w[j] \in Clusters THEN e[w[j]][b] ELSE Noise)
          = (IF v[j] \in Clusters THEN d[v[j]][b] ELSE Noise)
      BY <1>1, <2>1
    <2>3. QED BY <2>2 DEF j, b
  <1>3. QED BY <1>2 DEF Seen, v, w

(* A shorter file on the same chain shows the first bytes. *)
LEMMA SeenPrefix ==
    ASSUME NEW f, NEW d, NEW h, NEW len \in Nat, NEW m \in Nat, m <= len
    PROVE  /\ \A i \in 1 .. m : Seen(f, d, h, m)[i] = Seen(f, d, h, len)[i]
           /\ SubSeq(Seen(f, d, h, len), 1, m) = Seen(f, d, h, m)
  <1> DEFINE k == ClustersFor(len)
             j == ClustersFor(m)
             v == ChainFrom(f, h, k)
             w == ChainFrom(f, h, j)
             At(u, i) == LET c == u[(i - 1) \div ClusterBytes + 1]
                         IN  IF c \in Clusters THEN d[c][(i - 1) % ClusterBytes] ELSE Noise
  <1>1. k \in Nat /\ j \in Nat /\ j <= k
    BY ClustersForType, ClustersForMonotone
  <1>2. \A i \in 1 .. j : w[i] = v[i]
    <2> HIDE DEF k, j
    <2>1. QED BY <1>1, ChainPrefix
  <1>3. /\ Seen(f, d, h, len) = [i \in 1 .. len |-> At(v, i)]
        /\ Seen(f, d, h, m) = [i \in 1 .. m |-> At(w, i)]
    BY DEF Seen
  <1>4. \A i \in 1 .. m : (i - 1) \div ClusterBytes + 1 \in 1 .. j
    BY ClusterOfByte
  <1>5. \A i \in 1 .. m : At(w, i) = At(v, i)
    <2> HIDE DEF v, w, j
    <2>1. QED BY <1>2, <1>4
  <1> HIDE DEF At, v, w, j, k
  <1> DEFINE s == Seen(f, d, h, len)
             t == Seen(f, d, h, m)
  <1>6. \A i \in 1 .. m : i \in 1 .. len
    OBVIOUS
  <1>7. \A i \in 1 .. m : t[i] = s[i]
    BY <1>3, <1>5, <1>6
  <1>8. t = [i \in 1 .. m |-> s[i]] /\ t \in [1 .. m -> {s[i] : i \in 1 .. len}]
    BY <1>3, <1>5, <1>6
  <1> HIDE DEF s, t
  <1>9. SubSeq(s, 1, m) = [i \in 1 .. m |-> s[i]]
    <2> DEFINE S == {s[i] : i \in 1 .. len}
               r == SubSeq(s, 1, m)
    <2>1. \A i \in 1 .. m : s[i] \in S
      BY <1>6
    <2> HIDE DEF S
    <2>2. r \in Seq(S) /\ Len(r) = (IF 1 <= m THEN m - 1 + 1 ELSE 0)
          /\ \A i \in 1 .. m - 1 + 1 : r[i] = s[1 + i - 1]
      BY <2>1, SubSeqProperties
    <2>3. Len(r) = m /\ \A i \in 1 .. m : r[i] = s[i]
      BY <2>2
    <2> HIDE DEF r
    <2>4. r = [i \in 1 .. Len(r) |-> r[i]]
      BY <2>2
    <2>5. QED BY <2>3, <2>4 DEF r
  <1>10. QED BY <1>7, <1>8, <1>9 DEF s, t

LEMMA LengthShown ==
    ASSUME FrameInv, NEW n \in Names, dir[n].used
    PROVE  /\ ShownLen(n) \in Nat /\ ShownLen(n) <= dir[n].len /\ dir[n].len \in Nat
           /\ Kept(n) = ClustersFor(ShownLen(n))
  <1>1. dir[n].len \in Nat /\ call.len \in Nat
    BY Types DEF FrameInv, Entry, CallType
  <1>2. CASE Cutting(n)
    <2>1. call.kind = "shrink" /\ call.name = n /\ pc # "flush"
      BY <1>2 DEF Cutting
    <2>2. call.len <= dir[n].len /\ call.count = ClustersFor(call.len)
      BY <2>1 DEF FrameInv, SizesInv
    <2>3. QED BY <1>1, <1>2, <2>2 DEF ShownLen, Kept
  <1>3. CASE ~Cutting(n)
    BY <1>1, <1>3 DEF ShownLen, Kept
  <1>4. QED BY <1>2, <1>3

(* A file shows the bytes of its entry, and of the length it is cut to while
   truncate_file frees the clusters behind. *)
LEMMA ViewIs == FrameInv => Views
  <1> SUFFICES ASSUME FrameInv, NEW n \in Names
               PROVE  /\ dir[n].used => /\ ShownLen(n) \in Nat /\ ShownLen(n) <= dir[n].len
                                        /\ Kept(n) = ClustersFor(ShownLen(n))
                      /\ Shown(n) => StoreView[n] = Seen(fat, data, dir[n].first, ShownLen(n))
                      /\ ~Shown(n) => StoreView[n] = NoName
    BY DEF Views
  <1>1. ~Shown(n) => StoreView[n] = NoName
    BY DEF StoreView, Shown
  <1>2. ASSUME Shown(n)
        PROVE  StoreView[n] = Seen(fat, data, dir[n].first, ShownLen(n))
    <2>1. Contents(n) = Seen(fat, data, dir[n].first, dir[n].len)
      BY DEF Contents, Seen, FileChain
    <2>2. CASE ~Cutting(n)
      BY <1>2, <2>1, <2>2 DEF StoreView, Shown, ShownLen, Cutting
    <2>3. CASE Cutting(n)
      <3> DEFINE m == call.len
                 s == Contents(n)
                 t == Seen(fat, data, dir[n].first, m)
      <3>1. StoreView[n] = SubSeq([i \in 1 .. m |-> s[i]], 1, m)
        BY <1>2, <2>3 DEF StoreView, Shown, Cutting
      <3>2. dir[n].used /\ ShownLen(n) = m
        BY <1>2, <2>3 DEF Shown, ShownLen
      <3>3. m \in Nat /\ dir[n].len \in Nat /\ m <= dir[n].len
        BY <3>2, LengthShown
      <3> HIDE DEF m
      <3>4. \A i \in 1 .. m : t[i] = s[i]
        <4>1. \A i \in 1 .. m :
                 Seen(fat, data, dir[n].first, m)[i]
                     = Seen(fat, data, dir[n].first, dir[n].len)[i]
          BY <3>3, SeenPrefix
        <4>2. QED BY <2>1, <4>1
      <3>5. [i \in 1 .. m |-> s[i]] = t
        <4>1. t = [i \in 1 .. m |-> t[i]]
          BY DEF Seen
        <4> HIDE DEF s, t
        <4>2. QED BY <3>4, <4>1
      <3>6. SubSeq(t, 1, m) = t
        BY <3>3, SeenPrefix
      <3>7. QED BY <3>1, <3>2, <3>5, <3>6
    <2>4. QED BY <2>2, <2>3
  <1>3. QED BY <1>1, <1>2, LengthShown DEF Shown

LEMMA ViewNext == FrameInv' => Views'
  BY ViewIs, PTL

LEMMA ViewDomain ==
    /\ StoreView = [n \in Names |-> StoreView[n]]
    /\ StoreView' = [n \in Names |-> StoreView'[n]]
  BY DEF StoreView

(* What a file shows are contents. *)
LEMMA SeenBytes ==
    ASSUME NEW f, NEW d \in [Clusters -> [ClusterIndex -> Bytes \cup {Noise}]], NEW h,
           NEW len \in Nat
    PROVE  /\ Seen(f, d, h, len) \in Seq(Bytes \cup {Noise})
           /\ Len(Seen(f, d, h, len)) = len
           /\ Seen(f, d, h, len) # NoName
  <1> DEFINE At(i) == LET c == ChainFrom(f, h, ClustersFor(len))[(i - 1) \div ClusterBytes + 1]
                      IN  IF c \in Clusters THEN d[c][(i - 1) % ClusterBytes] ELSE Noise
  <1>1. Seen(f, d, h, len) = [i \in 1 .. len |-> At(i)]
    BY DEF Seen
  <1>2. ASSUME NEW i \in 1 .. len PROVE At(i) \in Bytes \cup {Noise}
    <2>1. (i - 1) % ClusterBytes \in ClusterIndex
      BY ClusterOfByte
    <2>2. QED BY <2>1
  <1> HIDE DEF At
  <1>3. [i \in 1 .. len |-> At(i)] \in Seq(Bytes \cup {Noise})
    BY <1>2
  <1>4. QED BY <1>1, <1>3, NothingAssumption

LEMMA ShownSomething ==
    ASSUME FrameInv, NEW n \in Names
    PROVE  Shown(n) <=> StoreView[n] # NoName
  <1>1. data \in [Clusters -> [ClusterIndex -> Bytes \cup {Noise}]]
    BY DEF FrameInv, TypeOK
  <1>2. QED BY <1>1, ViewIs, SeenBytes DEF Views, Shown

(* A file whose chain and bytes a step leaves alone looks the same. *)
LEMMA SeenKept ==
    ASSUME FrameInv, NEW n \in Names, dir[n].used, Steady(n)
    PROVE  Seen(fat', data', dir[n].first, ShownLen(n)) = Seen(fat, data, dir[n].first, ShownLen(n))
  <1> DEFINE h == dir[n].first
             len == ShownLen(n)
             k == ClustersFor(len)
             w == ChainFrom(fat, h, k)
             g == fat'
             e == data'
  <1>1. len \in Nat /\ Kept(n) = k /\ k \in Nat
    BY LengthShown, ClustersForType
  <1>2. \A i \in 1 .. k : (i < k => g[w[i]] = fat[w[i]]) /\ e[w[i]] = data[w[i]]
    BY <1>1 DEF Steady
  <1> HIDE DEF g, h, k, e, len
  <1>3. \A i \in 1 .. k - 1 : g[w[i]] = fat[w[i]]
    <2> HIDE DEF w
    <2>1. QED BY <1>1, <1>2
  <1>4. \A i \in 1 .. k : ChainFrom(g, h, k)[i] = w[i]
    BY <1>1, <1>3, ChainSame
  <1>5. \A i \in 1 .. k : e[w[i]] = data[w[i]]
    BY <1>2
  <1>6. Seen(g, e, h, len) = Seen(fat, data, h, len)
    BY <1>1, <1>4, <1>5, SeenSame DEF k
  <1>7. QED BY <1>6 DEF g, e, h, len

(* A step that changes neither what is shown of a file nor its bytes. *)
LEMMA ViewMoves ==
    ASSUME FrameInv, FrameInv', NEW n \in Names, Shown(n), Shown(n)',
           dir'[n].first = dir[n].first, ShownLen(n)' = ShownLen(n), Steady(n)
    PROVE  StoreView'[n] = StoreView[n]
  <1>1. StoreView[n] = Seen(fat, data, dir[n].first, ShownLen(n))
    BY ViewIs DEF Views
  <1>2. StoreView'[n] = Seen(fat', data', dir'[n].first, ShownLen(n)')
    BY ViewNext DEF Views
  <1>3. dir[n].used
    BY DEF Shown
  <1>4. QED BY <1>1, <1>2, <1>3, SeenKept

(* What is not written stays. *)
LEMMA NothingMoves ==
    ASSUME fat' = fat, data' = data, NEW n
    PROVE  Steady(n)
  BY DEF Steady

LEMMA ViewStays ==
    ASSUME FrameInv, FrameInv',
           \A n \in Names :
               /\ Shown(n)' <=> Shown(n)
               /\ Shown(n) => StoreView'[n] = StoreView[n]
    PROVE  StoreView' = StoreView
  <1>1. ASSUME NEW n \in Names PROVE StoreView'[n] = StoreView[n]
    <2>1. CASE Shown(n)
      BY <2>1
    <2>2. CASE ~Shown(n)
      BY <2>2, ViewIs, ViewNext DEF Views
    <2>3. QED BY <2>1, <2>2
  <1>2. QED BY <1>1, ViewDomain

(* What a caller asked for, while the call runs. *)
RequestIs ==
    /\ Idle => RequestView = NoName
    /\ ~Idle =>
          /\ RequestView = [kind |-> call.kind, name |-> call.name, to |-> call.to,
                            off |-> call.off, cnt |-> call.cnt, val |-> call.val,
                            len |-> IF call.kind = "shrink" THEN call.len ELSE 0,
                            done |-> Applied]
          /\ RequestView # NoName

LEMMA Requests == FrameInv => RequestIs
  <1> SUFFICES ASSUME FrameInv, ~Idle PROVE RequestView # NoName
    BY DEF RequestIs, RequestView
  <1> DEFINE len == IF call.kind = "shrink" THEN call.len ELSE 0
  <1>1. call \in CallType
    BY Types DEF FrameInv
  <1>2. Applied \in BOOLEAN
    BY DEF Applied
  <1>3. RequestView = [kind |-> call.kind, name |-> call.name, to |-> call.to,
                       off |-> call.off, cnt |-> call.cnt, val |-> call.val,
                       len |-> len, done |-> Applied]
    BY DEF RequestView
  <1>4. len \in Nat
    BY <1>1 DEF CallType
  <1> HIDE DEF len
  <1>5. RequestView \in [kind : Kinds, name : Names \cup {NoName}, to : Names \cup {NoName},
                         off : Nat, cnt : Nat, val : Bytes, len : Nat, done : BOOLEAN]
    BY <1>1, <1>2, <1>3, <1>4 DEF CallType
  <1>6. QED BY <1>5, NothingAssumption

LEMMA RequestNext == FrameInv' => RequestIs'
  BY Requests, PTL

LEMMA RequestStays ==
    ASSUME FrameInv, FrameInv', ~Idle, ~Idle',
           call'.kind = call.kind, call'.name = call.name, call'.to = call.to,
           call'.off = call.off, call'.cnt = call.cnt, call'.val = call.val,
           call'.len = call.len, Applied' = Applied
    PROVE  RequestView' = RequestView
  BY Requests, RequestNext DEF RequestIs

AbstractStep == [Abstract!Next]_(Abstract!vars)

LEMMA StutterMaps ==
    ASSUME StoreView' = StoreView, RequestView' = RequestView
    PROVE  AbstractStep
  BY DEF AbstractStep, Abstract!vars

-----------------------------------------------------------------------------
(* The volume is a file store: the steps that change nothing *)

(* Steps that change no bytes of a file and none of its links. *)
QuietSteps ==
    \/ ReadChain \/ (\E c \in Clusters : AllocCluster(c)) \/ LinkCluster \/ StartChain
    \/ LinkTail \/ FreeBit \/ FreeFat \/ WalkChain \/ FlushAndGoOn

LEMMA QuietMaps ==
    ASSUME FrameInv, FrameInv', QuietSteps, \A n \in Names : dir[n].used => Steady(n)
    PROVE  AbstractStep
  <1>1. /\ dir' = dir /\ data' = data /\ ~Idle /\ ~Idle'
        /\ call'.kind = call.kind /\ call'.name = call.name /\ call'.to = call.to
        /\ call'.off = call.off /\ call'.cnt = call.cnt /\ call'.val = call.val
        /\ call'.len = call.len
    <2>1. call \in CallType
      BY Types DEF FrameInv
    <2>2. CASE StartChain
      BY <2>1, <2>2 DEF StartChain, disk, Idle, CallType
    <2>3. CASE ~StartChain
      BY <2>3 DEF QuietSteps, ReadChain, AllocCluster, LinkCluster, LinkTail, FreeBit, FreeFat,
         WalkChain, FlushAndGoOn, FlushPCs, disk, locals, Idle
    <2>4. QED BY <2>2, <2>3
  <1>2. /\ call.kind = "shrink" =>
              (pc \in {"free bit", "free fat", "publish"} <=> pc' \in {"free bit", "free fat", "publish"})
        /\ call.kind # "remove" => pc' # "flush"
        /\ pc # "flush"
    BY DEF QuietSteps, ReadChain, AllocCluster, LinkCluster, StartChain, LinkTail, FreeBit,
       FreeFat, WalkChain, FlushAndGoOn, FlushPCs, FrameInv, KindInv
  <1>3. Applied' = Applied
    BY <1>1, <1>2 DEF Applied
  <1>4. RequestView' = RequestView
    BY <1>1, <1>3, RequestStays
  <1>5. \A n \in Names : (Shown(n)' <=> Shown(n)) /\ ShownLen(n)' = ShownLen(n)
    BY <1>1, <1>2 DEF Shown, ShownLen, Cutting
  <1>6. ASSUME NEW n \in Names, Shown(n) PROVE StoreView'[n] = StoreView[n]
    <2>1. Shown(n)' /\ dir'[n].first = dir[n].first /\ ShownLen(n)' = ShownLen(n) /\ Steady(n)
      BY <1>1, <1>5, <1>6 DEF Shown
    <2>2. QED BY <1>6, <2>1, ViewMoves
  <1>7. QED BY <1>4, <1>5, <1>6, ViewStays, StutterMaps

(* The call ends and the caller sees the same files. *)
LEMMA EndMaps ==
    ASSUME FrameInv, FrameInv', ~Idle, Ended, UNCHANGED disk,
           call.kind = "rename" => ~dir[call.name].used,
           \A n \in Names : ~Cutting(n)
    PROVE  AbstractStep
  <1>1. pc' = "idle" /\ call'.kind = "none" /\ dir' = dir /\ fat' = fat /\ data' = data
    BY DEF Ended, NoCall, NameCall, disk
  <1>2. \A n \in Names : (Shown(n)' <=> Shown(n)) /\ ShownLen(n)' = ShownLen(n)
    BY <1>1 DEF Shown, ShownLen, Cutting
  <1>3. ASSUME NEW n \in Names, Shown(n) PROVE StoreView'[n] = StoreView[n]
    BY <1>1, <1>2, <1>3, NothingMoves, ViewMoves
  <1>4. StoreView' = StoreView
    BY <1>2, <1>3, ViewStays
  <1>5. RequestView # NoName /\ RequestView' = NoName
    BY <1>1, Requests, RequestNext DEF RequestIs, Idle
  <1>6. Abstract!End
    BY <1>4, <1>5 DEF Abstract!End
  <1>7. QED BY <1>6 DEF AbstractStep, Abstract!Next

-----------------------------------------------------------------------------
(* The volume is a file store: calls begin *)

(* Between calls every entry shows its file. *)
LEMMA IdleShows ==
    ASSUME FrameInv, Idle
    PROVE  /\ RequestView = NoName /\ call.kind = "none"
           /\ \A n \in Names : (Shown(n) <=> dir[n].used) /\ ShownLen(n) = dir[n].len
                               /\ ~Cutting(n)
  <1>1. call.kind = "none"
    BY DEF FrameInv, KindInv, Idle
  <1>2. QED BY <1>1, Requests DEF RequestIs, Shown, ShownLen, Cutting

LEMMA CreateMaps ==
    ASSUME FrameInv, FrameInv', NEW n \in Names, Create(n)
    PROVE  Abstract!Create(n)
  <1>1. /\ Idle /\ ~dir[n].used /\ pc' = "flush" /\ call' = NameCall("create", n, NoName)
        /\ dir' = [dir EXCEPT ![n] = NewEntry(0, 0)] /\ fat' = fat /\ data' = data
    BY DEF Create
  <1>2. dir \in [Names -> Entry]
    BY Types DEF FrameInv
  <1>3. /\ dir'[n].used /\ dir'[n].first = 0 /\ dir'[n].len = 0
        /\ \A m \in Names : m # n => dir'[m] = dir[m]
        /\ call'.kind = "create"
    BY <1>1, <1>2 DEF NewEntry, NameCall
  <1>4. \A m \in Names : (Shown(m)' <=> dir'[m].used) /\ ShownLen(m)' = dir'[m].len
    BY <1>3 DEF Shown, ShownLen, Cutting
  <1>5. RequestView = NoName /\ StoreView[n] = NoName
    BY <1>1, IdleShows, ViewIs DEF Views
  <1>6. StoreView'[n] = << >>
    <2>1. StoreView'[n] = Seen(fat', data', 0, 0)
      BY <1>3, <1>4, ViewNext DEF Views
    <2>2. QED BY <2>1 DEF Seen
  <1>7. ASSUME NEW m \in Names, m # n PROVE StoreView'[m] = StoreView[m]
    <2>1. CASE dir[m].used
      <3>1. dir'[m] = dir[m] /\ Shown(m) /\ ShownLen(m) = dir[m].len
        BY <1>1, <1>3, <1>7, <2>1, IdleShows
      <3>2. Shown(m)' /\ ShownLen(m)' = ShownLen(m) /\ dir'[m].first = dir[m].first
        BY <1>4, <2>1, <3>1
      <3>3. QED BY <1>1, <3>1, <3>2, NothingMoves, ViewMoves
    <2>2. CASE ~dir[m].used
      BY <1>1, <1>3, <1>4, <1>7, <2>2, IdleShows, ViewIs, ViewNext DEF Views
    <2>3. QED BY <2>1, <2>2
  <1>8. StoreView' = [StoreView EXCEPT ![n] = << >>]
    BY <1>6, <1>7, ViewDomain
  <1>9. RequestView' = Abstract!Request("create", n, NoName, 0, 0, Zero, 0, TRUE)
    <2>1. ~Idle' /\ Applied' = TRUE
      BY <1>1 DEF Idle, Applied
    <2>2. QED BY <1>1, <2>1, RequestNext DEF RequestIs, NameCall, Abstract!Request
  <1>10. QED BY <1>5, <1>8, <1>9 DEF Abstract!Create, Abstract!Present

LEMMA RemoveMaps ==
    ASSUME FrameInv, FrameInv', NEW n \in Names, Remove(n)
    PROVE  Abstract!Remove(n)
  <1>1. /\ Idle /\ dir[n].used /\ pc' \in {"flush", "clear flush"}
        /\ call' = NameCall("remove", n, NoName)
        /\ dir' = [dir EXCEPT ![n] = NoEntry] /\ fat' = fat /\ data' = data
    BY DEF Remove
  <1>2. dir \in [Names -> Entry]
    BY Types DEF FrameInv
  <1>3. /\ ~dir'[n].used /\ call'.kind = "remove"
        /\ \A m \in Names : m # n => dir'[m] = dir[m]
    BY <1>1, <1>2 DEF NoEntry, NameCall
  <1>4. \A m \in Names : (Shown(m)' <=> dir'[m].used) /\ ShownLen(m)' = dir'[m].len
    BY <1>3 DEF Shown, ShownLen, Cutting
  <1>5. RequestView = NoName /\ StoreView[n] # NoName
    BY <1>1, IdleShows, ShownSomething
  <1>6. StoreView'[n] = NoName
    BY <1>3, <1>4, ViewNext DEF Views
  <1>7. ASSUME NEW m \in Names, m # n PROVE StoreView'[m] = StoreView[m]
    <2>1. CASE dir[m].used
      <3>1. dir'[m] = dir[m] /\ Shown(m) /\ ShownLen(m) = dir[m].len
        BY <1>1, <1>3, <1>7, <2>1, IdleShows
      <3>2. Shown(m)' /\ ShownLen(m)' = ShownLen(m) /\ dir'[m].first = dir[m].first
        BY <1>4, <2>1, <3>1
      <3>3. QED BY <1>1, <3>1, <3>2, NothingMoves, ViewMoves
    <2>2. CASE ~dir[m].used
      BY <1>1, <1>3, <1>4, <1>7, <2>2, IdleShows, ViewIs, ViewNext DEF Views
    <2>3. QED BY <2>1, <2>2
  <1>8. StoreView' = [StoreView EXCEPT ![n] = NoName]
    BY <1>6, <1>7, ViewDomain
  <1>9. RequestView' = Abstract!Request("remove", n, NoName, 0, 0, Zero, 0, TRUE)
    <2>1. ~Idle' /\ Applied' = TRUE
      BY <1>1, <1>3 DEF Idle, Applied
    <2>2. QED BY <1>1, <2>1, RequestNext DEF RequestIs, NameCall, Abstract!Request
  <1>10. QED BY <1>5, <1>8, <1>9 DEF Abstract!Remove, Abstract!Present

(* A call that has computed its sizes has changed nothing. *)
LEMMA AskingShows ==
    ASSUME FrameInv, FrameInv', Idle, UNCHANGED disk,
           call'.kind \in {"write", "shrink"}, pc' \in {"read", "alloc"}
    PROVE  /\ StoreView' = StoreView /\ RequestView = NoName
           /\ ~Idle' /\ Applied' = FALSE
  <1>1. dir' = dir /\ fat' = fat /\ data' = data
    BY DEF disk
  <1>2. \A n \in Names : (Shown(n)' <=> Shown(n)) /\ ShownLen(n)' = ShownLen(n)
    BY <1>1, IdleShows DEF Shown, ShownLen, Cutting
  <1>3. ASSUME NEW n \in Names, Shown(n) PROVE StoreView'[n] = StoreView[n]
    BY <1>1, <1>2, <1>3, NothingMoves, ViewMoves
  <1>4. StoreView' = StoreView
    BY <1>2, <1>3, ViewStays
  <1>5. ~Idle' /\ Applied' = FALSE
    BY DEF Idle, Applied
  <1>6. QED BY <1>4, <1>5, IdleShows

LEMMA WriteAsks ==
    ASSUME FrameInv, FrameInv', Idle, NEW n \in Names, dir[n].used,
           NEW off \in 0 .. MaxLen, NEW cnt \in 1 .. MaxLen, off + cnt <= MaxLen,
           NEW v \in Bytes, StartWrite(n, off, cnt, v)
    PROVE  Abstract!Ask(n)
  <1>1. /\ UNCHANGED disk /\ pc' \in {"read", "alloc"} /\ call'.kind = "write"
        /\ call'.name = n /\ call'.to = NoName /\ call'.off = off /\ call'.cnt = cnt
        /\ call'.val = v
    BY DEF StartWrite, SizeCall
  <1>2. StoreView' = StoreView /\ RequestView = NoName /\ ~Idle' /\ Applied' = FALSE
    BY <1>1, AskingShows
  <1>3. StoreView[n] # NoName
    BY IdleShows, ShownSomething
  <1>4. RequestView' = Abstract!Request("write", n, NoName, off, cnt, v, 0, FALSE)
    BY <1>1, <1>2, RequestNext DEF RequestIs, Abstract!Request
  <1>5. \E o \in 0 .. MaxLen, c \in 1 .. MaxLen, w \in Bytes :
            /\ o + c <= MaxLen
            /\ RequestView' = Abstract!Request("write", n, NoName, o, c, w, 0, FALSE)
    BY <1>4
  <1>6. QED BY <1>2, <1>3, <1>5 DEF Abstract!Ask, Abstract!Present

LEMMA ShrinkAsks ==
    ASSUME FrameInv, FrameInv', NEW n \in Names, NEW len \in 0 .. MaxLen,
           Shrink(n, len)
    PROVE  Abstract!Ask(n)
  <1>1. /\ Idle /\ dir[n].used /\ len <= dir[n].len /\ UNCHANGED disk /\ pc' = "read"
        /\ call'.kind = "shrink" /\ call'.name = n /\ call'.to = NoName /\ call'.off = 0
        /\ call'.cnt = 0 /\ call'.val = Zero /\ call'.len = len
    BY DEF Shrink, SizeCall
  <1>2. StoreView' = StoreView /\ RequestView = NoName /\ ~Idle' /\ Applied' = FALSE
    BY <1>1, AskingShows
  <1>3. StoreView[n] # NoName
    BY <1>1, IdleShows, ShownSomething
  <1>4. RequestView' = Abstract!Request("shrink", n, NoName, 0, 0, Zero, len, FALSE)
    BY <1>1, <1>2, RequestNext DEF RequestIs, Abstract!Request
  <1>5. len \in 0 .. Len(StoreView[n])
    <2>1. /\ StoreView[n] = Seen(fat, data, dir[n].first, dir[n].len) /\ dir[n].len \in Nat
          /\ data \in [Clusters -> [ClusterIndex -> Bytes \cup {Noise}]]
      <3>1. TypeOK /\ Views
        BY ViewIs DEF FrameInv
      <3>2. dir[n] \in Entry /\ data \in [Clusters -> [ClusterIndex -> Bytes \cup {Noise}]]
        BY <3>1 DEF TypeOK
      <3>3. Shown(n) /\ ShownLen(n) = dir[n].len
        BY <1>1, IdleShows
      <3>4. StoreView[n] = Seen(fat, data, dir[n].first, ShownLen(n))
        BY <3>1, <3>3 DEF Views
      <3>5. QED BY <3>2, <3>3, <3>4 DEF Entry
    <2>2. Len(StoreView[n]) = dir[n].len
      BY <2>1, SeenBytes
    <2>3. QED BY <1>1, <2>1, <2>2, SizesAssumption
  <1>6. QED BY <1>2, <1>3, <1>4, <1>5 DEF Abstract!Ask, Abstract!Present

LEMMA RenameAsks ==
    ASSUME FrameInv, FrameInv', NEW n \in Names, NEW m \in Names \ {n}, Rename(m, n)
    PROVE  Abstract!Ask(m)
  <1>1. /\ Idle /\ dir[m].used /\ ~dir[n].used /\ pc' = "clear flush"
        /\ call' = NameCall("rename", m, n) /\ fat' = fat /\ data' = data
        /\ dir' = [dir EXCEPT ![n] = NewEntry(dir[m].first, dir[m].len)]
    BY DEF Rename
  <1>2. dir \in [Names -> Entry]
    BY Types DEF FrameInv
  <1>3. /\ call'.kind = "rename" /\ call'.name = m /\ call'.to = n
        /\ \A x \in Names : x # n => dir'[x] = dir[x]
    BY <1>1, <1>2 DEF NameCall
  <1>4. \A x \in Names : (Shown(x)' <=> Shown(x)) /\ (x # n => ShownLen(x)' = ShownLen(x))
    <2>1. ~Shown(n)' /\ ~Shown(n)
      BY <1>1, <1>3 DEF Shown
    <2>2. ASSUME NEW x \in Names, x # n
          PROVE  (Shown(x)' <=> Shown(x)) /\ ShownLen(x)' = ShownLen(x)
      <3>1. dir'[x] = dir[x] /\ (Shown(x) <=> dir[x].used) /\ ShownLen(x) = dir[x].len
        BY <1>1, <1>3, <2>2, IdleShows
      <3>2. Shown(x)' <=> dir'[x].used
        BY <1>3, <2>2 DEF Shown
      <3>3. ShownLen(x)' = dir'[x].len
        BY <1>3 DEF ShownLen, Cutting
      <3>4. QED BY <3>1, <3>2, <3>3
    <2>3. QED BY <2>1, <2>2
  <1>5. ASSUME NEW x \in Names, Shown(x) PROVE StoreView'[x] = StoreView[x]
    <2>1. x # n /\ Shown(x)' /\ ShownLen(x)' = ShownLen(x) /\ dir'[x].first = dir[x].first
      BY <1>1, <1>3, <1>4, <1>5 DEF Shown
    <2>2. QED BY <1>1, <1>5, <2>1, NothingMoves, ViewMoves
  <1>6. StoreView' = StoreView
    BY <1>4, <1>5, ViewStays
  <1>7. RequestView = NoName /\ StoreView[m] # NoName /\ ~(StoreView[n] # NoName)
    BY <1>1, IdleShows, ShownSomething
  <1>8. RequestView' = Abstract!Request("rename", m, n, 0, 0, Zero, 0, FALSE)
    <2>1. ~Idle' /\ Applied' = FALSE
      BY <1>1, <1>3 DEF Idle, Applied
    <2>2. QED BY <1>1, <2>1, RequestNext DEF RequestIs, NameCall, Abstract!Request
  <1>9. QED BY <1>6, <1>7, <1>8 DEF Abstract!Ask, Abstract!Present

LEMMA BeginMaps ==
    ASSUME FrameInv, FrameInv', NEW n \in Names, Call(n)
    PROVE  AbstractStep
  <1>1. ASSUME NEW m \in Names, Abstract!Ask(m) \/ Abstract!Create(m) \/ Abstract!Remove(m)
        PROVE  AbstractStep
    BY <1>1 DEF AbstractStep, Abstract!Next
  <1>2. CASE Create(n) \/ Remove(n)
    BY <1>1, <1>2, CreateMaps, RemoveMaps
  <1>3. CASE \E m \in Names \ {n} : Rename(m, n)
    BY <1>1, <1>3, RenameAsks
  <1>4. CASE \E len \in 0 .. MaxLen : Extend(n, len)
    <2>1. PICK len \in 0 .. MaxLen : Extend(n, len)
      BY <1>4
    <2>2. PICK off \in 0 .. MaxLen, cnt \in 1 .. MaxLen :
              off + cnt = len /\ StartWrite(n, off, cnt, Zero)
      BY <2>1, ExtendIsWrite DEF FrameInv
    <2>3. dir[n].used /\ Idle /\ off + cnt <= MaxLen
      BY <2>1, <2>2, SizesAssumption DEF Extend
    <2>4. QED BY <1>1, <2>2, <2>3, WriteAsks, BytesAssumption
  <1>5. CASE \E len \in 0 .. MaxLen : Shrink(n, len)
    BY <1>1, <1>5, ShrinkAsks
  <1>6. CASE \E off \in 0 .. MaxLen, cnt \in 0 .. MaxLen, v \in Bytes : WriteFile(n, off, cnt, v)
    <2>1. PICK off \in 0 .. MaxLen, cnt \in 0 .. MaxLen, v \in Bytes : WriteFile(n, off, cnt, v)
      BY <1>6
    <2>2. /\ Idle /\ dir[n].used /\ cnt > 0 /\ off + cnt <= MaxLen /\ StartWrite(n, off, cnt, v)
      BY <2>1 DEF WriteFile
    <2>3. cnt \in 1 .. MaxLen
      BY <2>2, SizesAssumption
    <2>4. QED BY <1>1, <2>2, <2>3, WriteAsks
  <1>7. QED BY <1>2, <1>3, <1>4, <1>5, <1>6 DEF Call

-----------------------------------------------------------------------------
(* The volume is a file store: the device writes a caller notices *)

(* While a write fills its file, the bytes of the file, and of what it will
   become, are found through the vector of the call. *)
LEMMA FillingBytes ==
    ASSUME FrameInv, Filling, NEW d
    PROVE  /\ \A i \in 1 .. dir[call.name].len :
                 Seen(fat, d, dir[call.name].first, dir[call.name].len)[i] =
                     d[chain[(i - 1) \div ClusterBytes + 1]][(i - 1) % ClusterBytes]
           /\ \A i \in 1 .. call.len :
                 Seen(fat, d, call.first, call.len)[i] =
                     d[chain[(i - 1) \div ClusterBytes + 1]][(i - 1) % ClusterBytes]
  <1>1. /\ dir[call.name].len \in Nat /\ call.len \in Nat /\ call.old \in Nat
        /\ Len(chain) = ClustersFor(call.len) /\ call.old = ClustersFor(dir[call.name].len)
        /\ call.old <= Len(chain) /\ Len(chain) \in Nat
        /\ \A i \in 1 .. Len(chain) :
              chain[i] = ChainFrom(fat, call.first, Len(chain))[i] /\ chain[i] \in Clusters
        /\ \A i \in 1 .. call.old :
              ChainFrom(fat, dir[call.name].first, call.old)[i] = chain[i]
    BY FillingVector
  <1>2. ASSUME NEW i \in 1 .. dir[call.name].len
        PROVE  Seen(fat, d, dir[call.name].first, dir[call.name].len)[i] =
                   d[chain[(i - 1) \div ClusterBytes + 1]][(i - 1) % ClusterBytes]
    <2> DEFINE j == (i - 1) \div ClusterBytes + 1
               c == ChainFrom(fat, dir[call.name].first, call.old)[j]
    <2>1. j \in 1 .. call.old
      BY <1>1, ClusterOfByte
    <2>2. Seen(fat, d, dir[call.name].first, dir[call.name].len)[i]
              = IF c \in Clusters THEN d[c][(i - 1) % ClusterBytes] ELSE Noise
      BY <1>1 DEF Seen
    <2> HIDE DEF j
    <2>3. c = chain[j] /\ c \in Clusters
      BY <1>1, <2>1
    <2>4. QED BY <2>2, <2>3 DEF j
  <1>3. ASSUME NEW i \in 1 .. call.len
        PROVE  Seen(fat, d, call.first, call.len)[i] =
                   d[chain[(i - 1) \div ClusterBytes + 1]][(i - 1) % ClusterBytes]
    <2> DEFINE j == (i - 1) \div ClusterBytes + 1
               c == ChainFrom(fat, call.first, Len(chain))[j]
    <2>1. j \in 1 .. Len(chain)
      BY <1>1, ClusterOfByte
    <2>2. Seen(fat, d, call.first, call.len)[i]
              = IF c \in Clusters THEN d[c][(i - 1) % ClusterBytes] ELSE Noise
      BY <1>1 DEF Seen
    <2> HIDE DEF j
    <2>3. c = chain[j] /\ c \in Clusters
      BY <1>1, <2>1
    <2>4. QED BY <2>2, <2>3 DEF j
  <1>4. QED BY <1>2, <1>3

(* The gap of a write starts at the end of the file. *)
LEMMA GapBehindEnd ==
    ASSUME FrameInv, Filling
    PROVE  /\ Start \in Nat /\ Start <= pos /\ pos \in Nat
           /\ Start <= dir[call.name].len /\ Start <= call.off
           /\ Start < call.off => Start = dir[call.name].len
           /\ pos < call.off => dir[call.name].len <= pos
  <1>1. /\ dir[call.name].len \in Nat /\ call.off \in Nat
    BY FillingVector
  <1>2. Start <= pos /\ pos \in Nat
    BY Types DEF FrameInv, FillInv
  <1>3. Start = IF call.off > dir[call.name].len THEN dir[call.name].len ELSE call.off
    BY DEF Start, FillStart
  <1>4. QED BY <1>1, <1>2, <1>3

(* One write of the loop changes bytes of the payload, or none that the
   entry covers. *)
LEMMA PieceSeen ==
    ASSUME FrameInv, WriteData
    PROVE  LET me == call.name
               len == dir[me].len
               s == Seen(fat, data, dir[me].first, len)
           IN  /\ Seen(fat, data', dir[me].first, len) =
                     [i \in 1 .. len |-> IF pos < i /\ i <= PieceEnd THEN call.val ELSE s[i]]
               /\ pos < len => call.off <= pos
               /\ len \in Nat /\ s = [i \in 1 .. len |-> s[i]]
  <1> DEFINE me == call.name
             len == dir[me].len
             s == Seen(fat, data, dir[me].first, len)
             t == Seen(fat, data', dir[me].first, len)
  <1>1. /\ pos \in Nat /\ PieceEnd \in Nat /\ pos < PieceEnd /\ Filling
    BY PieceBounds
  <1>2. len \in Nat /\ call.off \in Nat /\ call.old \in Nat /\ call.old <= Len(chain)
        /\ call.old = ClustersFor(len) /\ Len(chain) \in Nat
    BY <1>1, FillingVector
  <1>3. pos < len => call.off <= pos
    BY <1>1, <1>2, GapBehindEnd
  <1>4. s = [i \in 1 .. len |-> s[i]] /\ t = [i \in 1 .. len |-> t[i]]
    BY DEF Seen
  <1>5. ASSUME NEW i \in 1 .. len
        PROVE  t[i] = IF pos < i /\ i <= PieceEnd THEN call.val ELSE s[i]
    <2> DEFINE p == i - 1
    <2>1. s[i] = data[chain[p \div ClusterBytes + 1]][p % ClusterBytes]
          /\ t[i] = data'[chain[p \div ClusterBytes + 1]][p % ClusterBytes]
      BY <1>1, FillingBytes
    <2>2. p \in Nat /\ p \div ClusterBytes + 1 \in 1 .. call.old
      BY <1>2, ClusterOfByte
    <2>3. p \div ClusterBytes + 1 \in 1 .. Len(chain)
      BY <1>2, <2>2
    <2> HIDE DEF s, t
    <2>4. t[i] = IF pos <= p /\ p < PieceEnd THEN PieceByte ELSE s[i]
      <3> HIDE DEF p
      <3>1. QED BY <2>1, <2>2, <2>3, WriteDataEffect
    <2>5. (pos <= p /\ p < PieceEnd) <=> (pos < i /\ i <= PieceEnd)
      BY <1>1, <1>2
    <2>6. pos <= p => PieceByte = call.val
      BY <1>1, <1>2, <1>3 DEF PieceByte
    <2>7. QED BY <2>4, <2>5, <2>6
  <1> HIDE DEF s, t
  <1>6. t = [i \in 1 .. len |-> IF pos < i /\ i <= PieceEnd THEN call.val ELSE s[i]]
    BY <1>4, <1>5
  <1>7. QED BY <1>2, <1>3, <1>4, <1>6 DEF s, t, me

LEMMA WriteDataMaps ==
    ASSUME FrameInv, FrameInv', WriteData,
           \A n \in Names \ {call.name} : dir[n].used => Steady(n)
    PROVE  AbstractStep
  <1> DEFINE me == call.name
             len == dir[me].len
             s == StoreView[me]
  <1>1. /\ pc = "data" /\ pc' \in {"data", "data flush"}
        /\ dir' = dir /\ fat' = fat /\ call' = call
    BY DEF WriteData
  <1>2. /\ pos \in Nat /\ PieceEnd \in Nat /\ pos < PieceEnd /\ Filling
        /\ PieceEnd <= call.off + call.cnt
    BY PieceBounds
  <1>3. call.kind = "write" /\ me \in Names /\ dir[me].used /\ call.off \in Nat /\ call.cnt \in Nat
    BY <1>2, FillingVector DEF Filling
  <1>4. Applied = FALSE /\ Applied' = FALSE /\ ~Idle /\ ~Idle'
    BY <1>1, <1>3 DEF Applied, Idle
  <1>5. RequestView' = RequestView
    BY <1>1, <1>4, RequestStays
  <1>6. \A n \in Names : (Shown(n)' <=> Shown(n)) /\ ShownLen(n)' = ShownLen(n)
    BY <1>1, <1>3 DEF Shown, ShownLen, Cutting
  <1>7. ASSUME NEW n \in Names, n # me, Shown(n) PROVE StoreView'[n] = StoreView[n]
    <2>1. Steady(n) /\ dir'[n].first = dir[n].first /\ Shown(n)' /\ ShownLen(n)' = ShownLen(n)
      BY <1>1, <1>6, <1>7 DEF Shown
    <2>2. QED BY <1>7, <2>1, ViewMoves
  <1>8. /\ Shown(me) /\ ShownLen(me) = len /\ s = Seen(fat, data, dir[me].first, len)
        /\ StoreView'[me] = Seen(fat, data', dir[me].first, len)
    <2>1. Shown(me) /\ ShownLen(me) = len
      BY <1>1, <1>3 DEF Shown, ShownLen, Cutting
    <2>2. \A n \in Names : n = me => Shown(n)' /\ ShownLen(n)' = len
      BY <1>6, <2>1
    <2> HIDE DEF me
    <2>3. QED BY <1>1, <1>3, <2>1, <2>2, ViewIs, ViewNext DEF Views
  <1>9. /\ StoreView'[me] = [i \in 1 .. len |-> IF pos < i /\ i <= PieceEnd THEN call.val ELSE s[i]]
        /\ pos < len => call.off <= pos
        /\ len \in Nat /\ s = [i \in 1 .. len |-> s[i]]
    BY <1>8, PieceSeen
  <1> HIDE DEF s
  <1>10. CASE len <= pos
    <2>1. \A i \in 1 .. len : ~(pos < i)
      BY <1>2, <1>9, <1>10
    <2>2. StoreView'[me] = s
      BY <1>9, <2>1
    <2>3. StoreView' = StoreView
      BY <1>6, <1>7, <2>2, ViewStays DEF s
    <2>4. QED BY <1>5, <2>3, StutterMaps
  <1>11. CASE pos < len
    <2> DEFINE i == pos + 1
               j == IF PieceEnd < len THEN PieceEnd ELSE len
    <2>1. /\ i \in 1 .. len /\ j \in 1 .. len /\ call.off < i /\ i <= j
          /\ j <= call.off + call.cnt /\ i - 1 = pos /\ j - i + 1 = j - pos
          /\ pos + (j - pos) = j /\ ~(j > len)
      <3>1. /\ pos \in Nat /\ PieceEnd \in Nat /\ len \in Nat /\ call.off \in Nat
            /\ pos < PieceEnd /\ PieceEnd <= call.off + call.cnt /\ call.off <= pos
            /\ pos < len /\ call.cnt \in Nat
        BY <1>2, <1>3, <1>9, <1>11
      <3> HIDE DEF len
      <3>2. QED BY <3>1
    <2>2. Len(s) = len
      BY <1>9
    <2>3. Abstract!Written(s, i - 1, j - i + 1, call.val)
              = [x \in 1 .. len |-> IF x > pos /\ x <= j THEN call.val
                                    ELSE IF x <= len THEN s[x] ELSE Zero]
      <3> HIDE DEF i, j
      <3>1. QED BY <2>1, <2>2 DEF Abstract!Written
    <2>4. \A x \in 1 .. len :
              (IF x > pos /\ x <= j THEN call.val ELSE IF x <= len THEN s[x] ELSE Zero)
              = (IF pos < x /\ x <= PieceEnd THEN call.val ELSE s[x])
      BY <1>2, <1>9
    <2> HIDE DEF i, j
    <2>5. StoreView'[me] = Abstract!Written(s, i - 1, j - i + 1, call.val)
      <3>1. StoreView'[me]
                = [x \in 1 .. len |-> IF pos < x /\ x <= PieceEnd THEN call.val ELSE s[x]]
        BY <1>9
      <3>2. [x \in 1 .. len |-> IF x > pos /\ x <= j THEN call.val
                                ELSE IF x <= len THEN s[x] ELSE Zero]
                = [x \in 1 .. len |-> IF pos < x /\ x <= PieceEnd THEN call.val ELSE s[x]]
        BY <2>4
      <3>3. QED BY <2>3, <3>1, <3>2
    <2>6. StoreView' = [StoreView EXCEPT ![me] = Abstract!Written(@, i - 1, j - i + 1, call.val)]
      <3>1. \A n \in Names : n # me => StoreView'[n] = StoreView[n]
        <4> SUFFICES ASSUME NEW n \in Names, n # me PROVE StoreView'[n] = StoreView[n]
          OBVIOUS
        <4>1. CASE Shown(n)
          BY <1>7, <4>1
        <4>2. CASE ~Shown(n)
          BY <1>6, <4>2, ViewIs, ViewNext DEF Views
        <4>3. QED BY <4>1, <4>2
      <3>2. QED BY <1>3, <2>5, <3>1, ViewDomain DEF s
    <2>7. /\ RequestView # NoName /\ RequestView.kind = "write" /\ RequestView.done = FALSE
          /\ RequestView.name = me /\ RequestView.off = call.off /\ RequestView.cnt = call.cnt
          /\ RequestView.val = call.val
      BY <1>3, <1>4, Requests DEF RequestIs
    <2>8. Abstract!Overwrite
      BY <1>5, <2>1, <2>2, <2>6, <2>7 DEF Abstract!Overwrite, Abstract!Pending, s
    <2>9. QED BY <2>8 DEF AbstractStep, Abstract!Next
  <1>12. QED BY <1>2, <1>9, <1>10, <1>11

(* A request that takes effect is done, and else what it was. *)
LEMMA RequestDone ==
    ASSUME FrameInv, FrameInv', ~Idle, ~Idle', call' = call, Applied = FALSE, Applied' = TRUE
    PROVE  /\ RequestView # NoName /\ RequestView.kind = call.kind
           /\ RequestView.done = FALSE /\ RequestView.name = call.name
           /\ RequestView.to = call.to /\ RequestView.off = call.off
           /\ RequestView.cnt = call.cnt /\ RequestView.val = call.val
           /\ call.kind = "shrink" => RequestView.len = call.len
           /\ RequestView' = [RequestView EXCEPT !.done = TRUE]
  <1> DEFINE len == IF call.kind = "shrink" THEN call.len ELSE 0
             Made(done) == [kind |-> call.kind, name |-> call.name, to |-> call.to,
                            off |-> call.off, cnt |-> call.cnt, val |-> call.val,
                            len |-> len, done |-> done]
  <1>1. RequestView = Made(FALSE) /\ RequestView # NoName
    BY Requests DEF RequestIs
  <1>2. RequestView' = Made(TRUE)
    BY RequestNext DEF RequestIs
  <1>3. call.kind = "shrink" => len = call.len
    OBVIOUS
  <1> HIDE DEF len
  <1>4. \A d, e : Made(e) = [Made(d) EXCEPT !.done = e]
    OBVIOUS
  <1> HIDE DEF Made
  <1>5. Made(TRUE) = [Made(FALSE) EXCEPT !.done = TRUE]
    BY <1>4
  <1>6. RequestView' = [RequestView EXCEPT !.done = TRUE]
    BY <1>1, <1>2, <1>5
  <1>7. QED BY <1>1, <1>3, <1>6 DEF Made

(* truncate_file has its effect when it cuts the chain. *)
LEMMA CutChainMaps ==
    ASSUME FrameInv, FrameInv', CutChain,
           \A n \in Names \ {call.name} : dir[n].used => Steady(n),
           \A i \in 1 .. call.count :
               ChainFrom(fat', call.first, call.count)[i] = ChainFrom(fat, call.first, call.old)[i]
    PROVE  AbstractStep
  <1> DEFINE me == call.name
             len == dir[me].len
             m == call.len
             h == call.first
             k == call.old
             j == call.count
             g == fat'
  <1>1. /\ pc = "cut" /\ pc' \in {"free bit", "publish"}
        /\ dir' = dir /\ data' = data /\ call' = call
    BY DEF CutChain
  <1>2. /\ call.kind = "shrink" /\ me \in Names /\ dir[me].used /\ h = dir[me].first
        /\ k \in Nat
    BY <1>1, Types DEF FrameInv, LoopsInv, KindInv, SizesInv
  <1>3. /\ m > 0 /\ m <= len /\ k = ClustersFor(len) /\ j = ClustersFor(m)
        /\ m \in Nat /\ len \in Nat /\ j \in Nat /\ j <= k
    <2>1. m > 0 /\ m <= len /\ k = ClustersFor(len) /\ j = ClustersFor(m)
      BY <1>1, <1>2 DEF FrameInv, SizesInv
    <2>2. m \in Nat /\ len \in Nat
      BY <1>2, Types DEF FrameInv, CallType, Entry
    <2>3. j \in Nat /\ j <= k
      BY <2>1, <2>2, ClustersForType, ClustersForMonotone
    <2>4. QED BY <2>1, <2>2, <2>3
  <1>4. ~Applied /\ Applied' /\ ~Idle /\ ~Idle' /\ Applied \in BOOLEAN /\ Applied' \in BOOLEAN
    BY <1>1, <1>2 DEF Applied, Idle
  <1>5. /\ \A n \in Names : Shown(n)' <=> Shown(n)
        /\ \A n \in Names : n # me => ShownLen(n)' = ShownLen(n)
        /\ \A n \in Names : n = me => Shown(n) /\ ShownLen(n) = len /\ ShownLen(n)' = m
    BY <1>1, <1>2 DEF Shown, ShownLen, Cutting
  <1>6. ASSUME NEW n \in Names, n # me, Shown(n) PROVE StoreView'[n] = StoreView[n]
    <2>1. Steady(n)
      BY <1>6 DEF Shown
    <2>2. QED BY <1>1, <1>5, <1>6, <2>1, ViewMoves
  <1>7. StoreView[me] = Seen(fat, data, h, len) /\ StoreView'[me] = Seen(g, data, h, m)
    <2>1. \A n \in Names : n = me => /\ StoreView[n] = Seen(fat, data, dir[n].first, len)
                                     /\ StoreView'[n] = Seen(fat', data', dir'[n].first, m)
      BY <1>5, ViewIs, ViewNext DEF Views
    <2>2. QED BY <1>1, <1>2, <2>1
  <1>8. Seen(g, data, h, m) = Seen(fat, data, h, m)
    <2>1. \A i \in 1 .. j : ChainFrom(g, h, j)[i] = ChainFrom(fat, h, k)[i]
      OBVIOUS
    <2> HIDE DEF g, h, k, j, m, len
    <2>2. \A i \in 1 .. j : ChainFrom(fat, h, j)[i] = ChainFrom(fat, h, k)[i]
      BY <1>2, <1>3, ChainPrefix
    <2>3. \A i \in 1 .. j : ChainFrom(g, h, j)[i] = ChainFrom(fat, h, j)[i]
      BY <2>1, <2>2
    <2>4. QED BY <1>3, <2>3, SeenSame
  <1>9. StoreView'[me] = SubSeq(StoreView[me], 1, m)
    <2> HIDE DEF g, h, m, len
    <2>1. SubSeq(Seen(fat, data, h, len), 1, m) = Seen(fat, data, h, m)
      BY <1>3, SeenPrefix
    <2>2. QED BY <1>7, <1>8, <2>1
  <1>10. StoreView' = [StoreView EXCEPT ![me] = SubSeq(@, 1, m)]
    <2>1. \A n \in Names : n # me => StoreView'[n] = StoreView[n]
      <3> SUFFICES ASSUME NEW n \in Names, n # me PROVE StoreView'[n] = StoreView[n]
        OBVIOUS
      <3>1. CASE Shown(n)
        BY <1>6, <3>1
      <3>2. CASE ~Shown(n)
        BY <1>5, <3>2, ViewIs, ViewNext DEF Views
      <3>3. QED BY <3>1, <3>2
    <2>2. QED BY <1>2, <1>9, <2>1, ViewDomain
  <1>11. /\ RequestView # NoName /\ RequestView.kind = "shrink" /\ ~RequestView.done
         /\ RequestView.name = me /\ RequestView.len = m
         /\ RequestView' = [RequestView EXCEPT !.done = TRUE]
    <2>1. Applied = FALSE /\ Applied' = TRUE
      BY <1>4
    <2>2. QED BY <1>1, <1>2, <1>4, <2>1, RequestDone
  <1>12. Abstract!Shrink
    BY <1>10, <1>11 DEF Abstract!Shrink, Abstract!Pending, Abstract!Done
  <1>13. QED BY <1>12 DEF AbstractStep, Abstract!Next

(* The contents a write publishes are the old ones with the payload in. *)
LEMMA WrittenSeen ==
    ASSUME FrameInv, Filling, pc = "publish"
    PROVE  Seen(fat, data, call.first, call.len) =
               Abstract!Written(Seen(fat, data, dir[call.name].first, dir[call.name].len),
                                call.off, call.cnt, call.val)
  <1> DEFINE me == call.name
             len == dir[me].len
             size == call.len
             off == call.off
             cnt == call.cnt
             s == Seen(fat, data, dir[me].first, len)
             t == Seen(fat, data, call.first, size)
             AtByte(p) == data[chain[p \div ClusterBytes + 1]][p % ClusterBytes]
  <1>1. /\ len \in Nat /\ off \in Nat /\ cnt \in Nat /\ cnt > 0 /\ size \in Nat
        /\ size = IF off + cnt > len THEN off + cnt ELSE len
    BY FillingVector
  <1>2. /\ Start \in Nat /\ Start <= len /\ Start <= off /\ (Start < off => Start = len)
        /\ pos = off + cnt
        /\ \A p \in Start .. pos - 1 : AtByte(p) = IF p < off THEN Zero ELSE call.val
    BY GapBehindEnd DEF FrameInv, FillInv
  <1>3. /\ \A i \in 1 .. len : s[i] = AtByte(i - 1)
        /\ \A i \in 1 .. size : t[i] = AtByte(i - 1)
    BY FillingBytes
  <1>4. t = [i \in 1 .. size |-> t[i]] /\ s = [i \in 1 .. len |-> s[i]]
    BY DEF Seen
  <1>5. Len(s) = len
    BY <1>1, <1>4
  <1> HIDE DEF AtByte, s, t, len, size, off, cnt
  <1>6. ASSUME NEW i \in 1 .. size
        PROVE  t[i] = IF i > off /\ i <= off + cnt THEN call.val
                      ELSE IF i <= len THEN s[i] ELSE Zero
    <2>1. CASE i - 1 \in Start .. pos - 1
      <3>1. t[i] = IF i - 1 < off THEN Zero ELSE call.val
        BY <1>2, <1>3, <2>1
      <3>2. i - 1 < off => ~(i <= len) /\ ~(i > off)
        BY <1>1, <1>2, <2>1
      <3>3. ~(i - 1 < off) => i > off /\ i <= off + cnt
        BY <1>1, <1>2, <2>1
      <3>4. QED BY <3>1, <3>2, <3>3
    <2>2. CASE i - 1 \notin Start .. pos - 1
      <3>1. i <= len /\ ~(i > off /\ i <= off + cnt)
        BY <1>1, <1>2, <2>2
      <3>2. i \in 1 .. len
        BY <1>1, <3>1
      <3>3. t[i] = s[i]
        BY <1>3, <3>2
      <3>4. QED BY <3>1, <3>3
    <2>3. QED BY <2>1, <2>2
  <1>7. t = Abstract!Written(s, off, cnt, call.val)
    <2>1. Abstract!Written(s, off, cnt, call.val)
              = [i \in 1 .. size |-> IF i > off /\ i <= off + cnt THEN call.val
                                     ELSE IF i <= len THEN s[i] ELSE Zero]
      BY <1>1, <1>5 DEF Abstract!Written
    <2>2. QED BY <1>4, <1>6, <2>1
  <1>8. QED BY <1>7 DEF s, t, len, size, off, cnt

(* write_file has its effect when it rewrites the entry; truncate_file's
   rewrite only tells the directory what is already so. *)
LEMMA PublishMaps ==
    ASSUME FrameInv, FrameInv', Publish
    PROVE  AbstractStep
  <1> DEFINE me == call.name
  <1>1. /\ pc = "publish" /\ pc' = "flush" /\ fat' = fat /\ data' = data /\ call' = call
        /\ dir' = [dir EXCEPT ![me] = NewEntry(call.first, call.len)]
    BY DEF Publish, locals
  <1>2. call.kind \in {"write", "shrink"} /\ me \in Names /\ dir[me].used
    BY <1>1 DEF FrameInv, KindInv
  <1>3. dir \in [Names -> Entry]
    BY Types DEF FrameInv
  <1>4. /\ dir'[me].used /\ dir'[me].first = call.first /\ dir'[me].len = call.len
        /\ \A n \in Names : n # me => dir'[n] = dir[n]
    BY <1>1, <1>2, <1>3 DEF NewEntry
  <1>5. \A n \in Names : /\ Shown(n) <=> dir[n].used
                         /\ Shown(n)' <=> dir[n].used
                         /\ ShownLen(n)' = dir'[n].len
                         /\ n # me => ShownLen(n) = dir[n].len
    <2>1. \A n \in Names : Shown(n) <=> dir[n].used
      BY <1>2 DEF Shown
    <2>2. \A n \in Names : Shown(n)' <=> dir'[n].used
      BY <1>1, <1>2 DEF Shown
    <2>3. \A n \in Names : dir'[n].used <=> dir[n].used
      BY <1>2, <1>4
    <2>4. QED BY <1>1, <2>1, <2>2, <2>3 DEF ShownLen, Cutting
  <1>6. ASSUME NEW n \in Names, n # me, Shown(n) PROVE StoreView'[n] = StoreView[n]
    <2>1. dir'[n].first = dir[n].first /\ Shown(n)' /\ ShownLen(n)' = ShownLen(n)
      BY <1>4, <1>5, <1>6
    <2>2. QED BY <1>1, <1>6, <2>1, NothingMoves, ViewMoves
  <1>7. StoreView'[me] = Seen(fat, data, call.first, call.len)
    <2>1. \A n \in Names : n = me =>
              StoreView'[n] = Seen(fat', data', dir'[n].first, dir'[n].len)
      BY <1>2, <1>5, ViewNext DEF Views
    <2>2. QED BY <1>1, <1>2, <1>4, <2>1
  <1>8. ~Idle /\ ~Idle' /\ Applied' = TRUE
    BY <1>1 DEF Idle, Applied
  <1>9. CASE call.kind = "shrink"
    <2>1. call.first = dir[me].first /\ Applied = TRUE
      BY <1>1, <1>9 DEF FrameInv, SizesInv, Applied
    <2>2. StoreView[me] = Seen(fat, data, dir[me].first, call.len)
      <3>1. Shown(me) /\ ShownLen(me) = call.len
        BY <1>1, <1>2, <1>5, <1>9 DEF ShownLen, Cutting
      <3>2. QED BY <1>2, <3>1, ViewIs DEF Views
    <2>3. \A n \in Names : (Shown(n)' <=> Shown(n)) /\ (Shown(n) => StoreView'[n] = StoreView[n])
      BY <1>5, <1>6, <1>7, <2>1, <2>2
    <2>4. StoreView' = StoreView
      BY <2>3, ViewStays
    <2>5. RequestView' = RequestView
      BY <1>1, <1>8, <2>1, RequestStays
    <2>6. QED BY <2>4, <2>5, StutterMaps
  <1>10. CASE call.kind = "write"
    <2>1. Filling /\ Applied = FALSE
      BY <1>1, <1>10 DEF Filling, Applied
    <2>2. StoreView[me] = Seen(fat, data, dir[me].first, dir[me].len)
      <3>1. Shown(me) /\ ShownLen(me) = dir[me].len
        BY <1>2, <1>5, <1>10 DEF ShownLen, Cutting
      <3>2. QED BY <1>2, <3>1, ViewIs DEF Views
    <2>3. StoreView'[me] = Abstract!Written(StoreView[me], call.off, call.cnt, call.val)
      BY <1>1, <1>7, <2>1, <2>2, WrittenSeen
    <2>4. \A n \in Names : n # me => StoreView'[n] = StoreView[n]
      <3> SUFFICES ASSUME NEW n \in Names, n # me PROVE StoreView'[n] = StoreView[n]
        OBVIOUS
      <3>1. CASE Shown(n)
        BY <1>6, <3>1
      <3>2. CASE ~Shown(n)
        BY <1>5, <3>2, ViewIs, ViewNext DEF Views
      <3>3. QED BY <3>1, <3>2
    <2>5. StoreView' = [StoreView EXCEPT ![me] =
                            Abstract!Written(@, call.off, call.cnt, call.val)]
      BY <1>2, <2>3, <2>4, ViewDomain
    <2>6. /\ RequestView # NoName /\ RequestView.kind = "write" /\ RequestView.done = FALSE
          /\ RequestView.name = me /\ RequestView.off = call.off /\ RequestView.cnt = call.cnt
          /\ RequestView.val = call.val
          /\ RequestView' = [RequestView EXCEPT !.done = TRUE]
      BY <1>1, <1>8, <1>10, <2>1, RequestDone
    <2>7. Abstract!Write
      BY <2>5, <2>6 DEF Abstract!Write, Abstract!Pending, Abstract!Done
    <2>8. QED BY <2>7 DEF AbstractStep, Abstract!Next
  <1>11. QED BY <1>2, <1>9, <1>10

(* rename has its effect when the old entry set is cleared. *)
LEMMA ClearOldMaps ==
    ASSUME FrameInv, FrameInv', ClearOld
    PROVE  AbstractStep
  <1> DEFINE m == call.name
             n == call.to
  <1>1. /\ pc = "clear" /\ pc' = "flush" /\ fat' = fat /\ data' = data /\ call' = call
        /\ dir' = [dir EXCEPT ![m] = NoEntry]
    BY DEF ClearOld, locals
  <1>2. /\ call.kind = "rename" /\ m \in Names /\ n \in Names /\ n # m
        /\ dir[n] = dir[m] /\ dir[m].used /\ dir \in [Names -> Entry]
    BY <1>1, Types DEF FrameInv, KindInv, RenameInv, TwoNamesInv
  <1>3. /\ ~dir'[m].used /\ \A x \in Names : x # m => dir'[x] = dir[x]
    BY <1>1, <1>2 DEF NoEntry
  <1>4. \A x \in Names : ShownLen(x) = dir[x].len /\ ShownLen(x)' = dir'[x].len
    BY <1>1, <1>2 DEF ShownLen, Cutting
  <1>5. /\ \A x \in Names : x # n => (Shown(x) <=> dir[x].used)
        /\ \A x \in Names : Shown(x)' <=> dir'[x].used
    BY <1>1, <1>2, <1>3 DEF Shown
  <1>6. ASSUME NEW x \in Names, x # m, x # n PROVE StoreView'[x] = StoreView[x]
    <2>1. dir'[x] = dir[x]
      BY <1>3, <1>6
    <2>2. CASE dir[x].used
      <3>1. Shown(x) /\ Shown(x)' /\ ShownLen(x)' = ShownLen(x) /\ dir'[x].first = dir[x].first
        BY <1>4, <1>5, <1>6, <2>1, <2>2
      <3>2. QED BY <1>1, <3>1, NothingMoves, ViewMoves
    <2>3. CASE ~dir[x].used
      <3>1. ~Shown(x) /\ ~Shown(x)'
        BY <1>5, <1>6, <2>1, <2>3
      <3>2. QED BY <3>1, ViewIs, ViewNext DEF Views
    <2>4. QED BY <2>2, <2>3
  <1>7. StoreView'[n] = StoreView[m]
    <2>1. StoreView[m] = Seen(fat, data, dir[m].first, dir[m].len)
      BY <1>2, <1>4, <1>5, ViewIs DEF Views
    <2>2. \A x \in Names : x = n => StoreView'[x] = Seen(fat, data, dir[x].first, dir[x].len)
      BY <1>1, <1>2, <1>3, <1>4, <1>5, ViewNext DEF Views
    <2>3. QED BY <1>2, <2>1, <2>2
  <1>8. StoreView'[m] = NoName
    <2>1. \A x \in Names : x = m => StoreView'[x] = NoName
      BY <1>3, <1>5, ViewNext DEF Views
    <2>2. QED BY <1>2, <2>1
  <1>9. StoreView' = [StoreView EXCEPT ![n] = StoreView[m], ![m] = NoName]
    BY <1>2, <1>6, <1>7, <1>8, ViewDomain
  <1>10. Applied = FALSE /\ Applied' = TRUE /\ ~Idle /\ ~Idle'
    BY <1>1, <1>2 DEF Applied, Idle
  <1>11. /\ RequestView # NoName /\ RequestView.kind = "rename" /\ RequestView.done = FALSE
         /\ RequestView.name = m /\ RequestView.to = n
         /\ RequestView' = [RequestView EXCEPT !.done = TRUE]
    BY <1>1, <1>2, <1>10, RequestDone
  <1>12. Abstract!Rename
    BY <1>9, <1>11 DEF Abstract!Rename, Abstract!Pending, Abstract!Done
  <1>13. QED BY <1>12 DEF AbstractStep, Abstract!Next

-----------------------------------------------------------------------------
(* The volume is a file store: every step of the driver *)

(* A file none of whose clusters a step writes is steady. *)
LEMMA ReachSteady ==
    ASSUME IInv, StoreInv, NEW n \in Names, dir[n].used,
           \A c \in Reach(n) : fat'[c] = fat[c] /\ data'[c] = data[c]
    PROVE  Steady(n)
  BY FileChains DEF StoreInv, Steady

(* The steps that are to change nothing write to no file's clusters but, when
   a file grows, the link of its last one. *)
LEMMA QuietSteady ==
    ASSUME IInv, StoreInv, QuietSteps, NEW n \in Names, dir[n].used
    PROVE  Steady(n)
  <1>1. data' = data
    BY DEF QuietSteps, ReadChain, AllocCluster, LinkCluster, StartChain, LinkTail, FreeBit,
       FreeFat, WalkChain, FlushAndGoOn, disk
  <1>2. CASE LinkTail /\ n = call.name
    <2> DEFINE h == call.first
               k == call.old
               w == ChainFrom(fat, h, k)
    <2>1. /\ pc = "tail" /\ chain # << >>
          /\ fat' = [fat EXCEPT ![chain[Len(chain)]] = got[1]]
      BY <1>2 DEF LinkTail
    <2>2. /\ h = dir[n].first /\ k = Kept(n) /\ k \in Nat /\ Chained(fat, h, k)
          /\ Path(fat, h)
      BY <1>2, <2>1, CallChain
    <2>3. Len(chain) = k /\ \A i \in 1 .. k : chain[i] = w[i]
      BY <2>1 DEF StoreInv, VectorInv
    <2>4. k > 0 /\ chain[k] = w[k]
      <3>1. chain \in Seq(Clusters)
        BY Types DEF IInv
      <3>2. k # 0
        BY <2>1, <2>3, <3>1, EmptySeq
      <3> HIDE DEF k, w, h
      <3>3. k > 0
        BY <2>2, <3>2
      <3>4. QED BY <2>2, <2>3, <3>3
    <2>5. \A i, j \in 1 .. k : w[i] = w[j] => i = j
      BY <2>2, ChainInjective
    <2>6. \A i \in 1 .. k : w[i] \in Clusters
      BY <2>2 DEF Chained
    <2>7. fat \in [Clusters -> FatValues]
      BY Types DEF IInv
    <2> HIDE DEF w, h, k
    <2>8. \A i \in 1 .. k : i < k => fat'[w[i]] = fat[w[i]]
      BY <2>1, <2>2, <2>3, <2>4, <2>5, <2>6, <2>7
    <2>9. QED BY <1>1, <2>2, <2>8 DEF Steady, w
  <1>3. CASE ~(LinkTail /\ n = call.name)
    <2>1. \A c \in Reach(n) : fat'[c] = fat[c]
      <3>1. CASE LinkTail
        BY <1>3, <3>1, LinkTailChains
      <3>2. CASE LinkCluster
        BY <3>2, LinkKeeps
      <3>3. CASE FreeFat
        BY <3>3, FreeFatKeeps
      <3>4. CASE ~LinkTail /\ ~LinkCluster /\ ~FreeFat
        BY <3>4 DEF QuietSteps, ReadChain, AllocCluster, StartChain, FreeBit, WalkChain,
           FlushAndGoOn, disk
      <3>5. QED BY <3>1, <3>2, <3>3, <3>4
    <2>2. QED BY <1>1, <2>1, ReachSteady
  <1>4. QED BY <1>2, <1>3

(* Data goes to clusters of the file that is written, and a cut hits the one
   that is cut. *)
LEMMA WriteDataSteady ==
    ASSUME IInv, StoreInv, WriteData, NEW n \in Names \ {call.name}, dir[n].used
    PROVE  Steady(n)
  <1>1. fat' = fat /\ pc = "data"
    BY DEF WriteData
  <1>2. /\ pos \div ClusterBytes + 1 \in 1 .. Len(chain) /\ Filling
        /\ \A c \in Clusters : c # chain[pos \div ClusterBytes + 1] => data'[c] = data[c]
    BY FrameIs, PieceBounds, WriteDataEffect
  <1>3. chain[pos \div ClusterBytes + 1] \in Tree(fat, call.first)
    BY <1>2, FillingChain
  <1>4. Tree(fat, call.first) \cap Reach(n) = {} /\ Reach(n) \subseteq Clusters
    BY <1>1, ReachClosed DEF IInv, CallInv, PublishInv
  <1>5. \A c \in Reach(n) : data'[c] = data[c]
    BY <1>2, <1>3, <1>4
  <1>6. QED BY <1>1, <1>5, ReachSteady

LEMMA CutChainSteady ==
    ASSUME IInv, StoreInv, CutChain, NEW n \in Names \ {call.name}, dir[n].used
    PROVE  Steady(n)
  <1>1. data' = data
    BY DEF CutChain
  <1>2. QED BY <1>1, CutChainChains, ReachSteady

(* A call that ends has renamed its file or not begun to. *)
LEMMA EndsNamed ==
    ASSUME SoundOps, IInv, EndOfCall, call.kind = "rename"
    PROVE  ~dir[call.name].used
  <1> SUFFICES pc = "flush"
    BY DEF IInv, CallInv, RenameInv
  <1>1. CASE PowerCut
    <2>1. cuts < MaxCuts /\ cuts \in Nat /\ "rename" \in CutKinds
      BY <1>1 DEF PowerCut, IInv, TypeOK
    <2>2. MaxCuts > 0
      BY <2>1, OpsAssumption
    <2>3. QED BY <2>1, <2>2 DEF SoundOps
  <1>2. CASE ~PowerCut
    <2>1. pc \in {"clear flush", "clear", "flush"}
      BY DEF IInv, CallInv, RenameInv
    <2>2. pc \in {"read", "alloc", "data", "cut", "free bit", "walk", "flush"}
      BY <1>2 DEF EndOfCall, ReadChainFails, AllocFails, WritePastChain, CutPanics,
         FreeBitFails, WalkFails, FlushAndReturn
    <2>3. QED BY <2>1, <2>2
  <1>3. QED BY <1>1, <1>2

(* What a step is, its clusters known to be steady. *)
LEMMA InsideMaps ==
    ASSUME FrameInv, FrameInv', Inside,
           QuietSteps => \A n \in Names : dir[n].used => Steady(n),
           WriteData \/ CutChain => \A n \in Names \ {call.name} : dir[n].used => Steady(n),
           CutChain => \A i \in 1 .. call.count :
               ChainFrom(fat', call.first, call.count)[i] = ChainFrom(fat, call.first, call.old)[i]
    PROVE  AbstractStep
  BY QuietMaps, WriteDataMaps, CutChainMaps, PublishMaps, ClearOldMaps DEF Inside, QuietSteps

LEMMA StepMaps ==
    ASSUME SoundOps, ShrinksComplete, StoreIInv, StoreIInv', [Next]_vars
    PROVE  AbstractStep
  <1>1. IInv /\ IInv' /\ StoreInv /\ StoreInv' /\ Healthy'
    <2>1. Healthy /\ Healthy'
      BY DEF Healthy, ShrinksComplete
    <2>2. QED BY <2>1 DEF StoreIInv
  <1>2. FrameInv /\ FrameInv'
    BY <1>1, FrameIs, FrameNext
  <1>3. CASE \E n \in Names : Call(n)
    BY <1>2, <1>3, BeginMaps
  <1>4. CASE Inside
    <2>1. QuietSteps => \A n \in Names : dir[n].used => Steady(n)
      BY <1>1, QuietSteady
    <2>2. WriteData \/ CutChain => \A n \in Names \ {call.name} : dir[n].used => Steady(n)
      BY <1>1, WriteDataSteady, CutChainSteady
    <2>3. CutChain => \A i \in 1 .. call.count :
              ChainFrom(fat', call.first, call.count)[i] = ChainFrom(fat, call.first, call.old)[i]
      BY <1>1, CutChainChains
    <2>4. QED BY <1>2, <1>4, <2>1, <2>2, <2>3, InsideMaps
  <1>5. CASE EndOfCall
    <2>1. Ended /\ UNCHANGED disk
      BY <1>5, EndsAreEnds
    <2>2. ~Idle
      BY <1>5 DEF EndOfCall, ReadChainFails, AllocFails, WritePastChain, CutPanics,
         FreeBitFails, WalkFails, FlushAndReturn, PowerCut, Idle
    <2>3. call.kind = "rename" => ~dir[call.name].used
      BY <1>1, <1>5, EndsNamed
    <2>4. \A n \in Names : ~Cutting(n)
      BY <1>1, <1>5, EndsWhole
    <2>5. QED BY <1>2, <2>1, <2>2, <2>3, <2>4, EndMaps
  <1>6. CASE UNCHANGED vars
    <2>1. StoreView' = StoreView /\ RequestView' = RequestView
      BY <1>6 DEF vars, disk, locals, StoreView, RequestView, Contents, FileChain, Applied, Idle
    <2>2. QED BY <2>1, StutterMaps
  <1>7. QED BY <1>1, <1>3, <1>4, <1>5, <1>6, StepsAre

LEMMA InitMaps == Init => Abstract!Init
  <1> SUFFICES ASSUME Init PROVE Abstract!Init
    OBVIOUS
  <1>1. \A n \in Names : ~dir[n].used
    BY DEF Init, NoEntry
  <1>2. StoreView = [n \in Names |-> NoName]
    BY <1>1 DEF StoreView
  <1>3. RequestView = NoName
    BY DEF Init, RequestView, Idle
  <1>4. QED BY <1>2, <1>3 DEF Abstract!Init

(* The driver implements a flat store of files: whatever the calls and their
   order, wherever the power fails outside a truncation and a rename, and
   whichever clusters the allocator picks, each device write either changes
   nothing a caller can read, or puts bytes of the payload over bytes of the
   file, or is the whole effect of the call. *)
THEOREM IsFileStore ==
    ASSUME SoundOps, ShrinksComplete
    PROVE  Spec => ImplementsFileStore
  <1>1. Init => StoreIInv /\ Abstract!Init
    BY StoreInit, InitMaps
  <1>2. StoreIInv /\ [Next]_vars => StoreIInv'
    BY StoreNext
  <1>3. StoreIInv /\ StoreIInv' /\ [Next]_vars => [Abstract!Next]_(Abstract!vars)
    BY StepMaps DEF AbstractStep
  <1>4. QED BY <1>1, <1>2, <1>3, PTL DEF Spec, ImplementsFileStore, Abstract!Spec
=============================================================================
