------------------------ MODULE ContainerFilesProofs ------------------------
(***************************************************************************)
(* A creation of a container, for any calls with sizes, passwords,         *)
(* keyfiles, schemes and file systems of any kind, for any descriptors and *)
(* any thread beside it, however often it fails, is killed or is damaged.  *)
(*                                                                         *)
(* The search for a header comes first: it finds what was sealed for the   *)
(* secret it is given and nothing else, whatever the schemes and           *)
(* derivations the copies of a file were sealed with, wherever they lie    *)
(* and whatever is spoilt.  Then the layout of an exFAT volume, for a      *)
(* volume of any length.  Then the descriptors: what the steps write plays *)
(* no part there.  Then what the script of a call has where, what a search *)
(* finds in the file, and for every action that it preserves FileInv.      *)
(***************************************************************************)
EXTENDS ContainerFilesInv, SequenceTheorems, FiniteSetTheorems, WellFoundedInduction, TLAPS

-----------------------------------------------------------------------------
(* Least and greatest numbers *)

(* A set of naturals has a least element. *)
LEMMA LeastNumber ==
    ASSUME NEW T \in SUBSET Nat, T # {}
    PROVE  \E x \in T : \A y \in T : x <= y
<1> DEFINE R == OpToRel(<, Nat)
<1>1. IsWellFoundedOn(R, Nat) BY NatLessThanWellFounded
<1>2. \E x \in T : \A y \in T : <<y, x>> \notin R
    <2> HIDE DEF R
    <2>1. QED BY <1>1, WFMin
<1>3. PICK x \in T : \A y \in T : <<y, x>> \notin R BY <1>2
<1>4. \A y \in T : ~(y < x) BY <1>3 DEF OpToRel
<1> HIDE DEF R
<1>5. \A y \in T : x <= y BY <1>3, <1>4
<1>6. QED BY <1>3, <1>5

LEMMA MinOfSet ==
    ASSUME NEW T \in SUBSET Nat, T # {}
    PROVE  Min(T) \in T
BY LeastNumber DEF Min

LEMMA MaxOfSet ==
    ASSUME NEW n \in Nat, NEW T \in SUBSET (0 .. n), T # {}
    PROVE  Max(T) \in T
<1> DEFINE U == {n - x : x \in T}
<1>1. U \in SUBSET Nat /\ U # {}
    <2>1. \A x \in T : n - x \in Nat OBVIOUS
    <2>2. QED BY <2>1
<1>2. PICK u \in U : \A v \in U : u <= v
    <2> HIDE DEF U
    <2>1. QED BY <1>1, LeastNumber
<1>3. PICK x \in T : u = n - x BY <1>2
<1>4. \A y \in T : x >= y
    <2> TAKE y \in T
    <2>1. n - x <= n - y BY <1>2, <1>3
    <2>2. QED BY <2>1
<1>5. QED BY <1>4 DEF Max

(* A set of naturals with 0 and with every successor is all of them. *)
LEMMA Induction ==
    ASSUME NEW S, 0 \in S, \A i \in Nat : i \in S => i + 1 \in S
    PROVE  Nat \subseteq S
<1> SUFFICES ASSUME Nat \ S # {} PROVE FALSE
    OBVIOUS
<1>1. PICK x \in Nat \ S : \A y \in Nat \ S : x <= y
    <2>1. Nat \ S \in SUBSET Nat OBVIOUS
    <2>2. QED BY <2>1, LeastNumber
<1>2. x # 0 /\ x - 1 \in Nat /\ x - 1 + 1 = x /\ ~(x <= x - 1) BY <1>1
<1>3. x - 1 \in S BY <1>1, <1>2
<1>4. QED BY <1>1, <1>2, <1>3

-----------------------------------------------------------------------------
(* Decrypting *)

IsPeeling(w, layers, coats, n) ==
    w = [i \in 0 .. n |-> IF i = 0 THEN coats ELSE Peel(layers[Len(layers) - i + 1], w[i - 1])]

(* The recursion that takes the layers off has a solution. *)
LEMMA PeelingExists ==
    ASSUME NEW layers, NEW coats, NEW n \in Nat
    PROVE  \E w : IsPeeling(w, layers, coats, n)
<1> DEFINE S == {m \in Nat : \E w : IsPeeling(w, layers, coats, m)}
<1>1. 0 \in S
    <2>1. IsPeeling([i \in 0 .. 0 |-> coats], layers, coats, 0) BY DEF IsPeeling
    <2>2. QED BY <2>1
<1>2. ASSUME NEW m \in Nat, m \in S PROVE m + 1 \in S
    <2>1. PICK w : IsPeeling(w, layers, coats, m) BY <1>2
    <2> DEFINE L == Len(layers)
               last == Peel(layers[L - (m + 1) + 1], w[m])
               v == [i \in 0 .. m + 1 |-> IF i <= m THEN w[i] ELSE last]
    <2>2. \A i \in 0 .. m : w[i] = IF i = 0 THEN coats ELSE Peel(layers[L - i + 1], w[i - 1])
        BY <2>1 DEF IsPeeling
    <2>3. \A i \in 0 .. m + 1 : v[i] = IF i = 0 THEN coats ELSE Peel(layers[L - i + 1], v[i - 1])
        <3> HIDE DEF L
        <3> TAKE i \in 0 .. m + 1
        <3>1. CASE i <= m BY <2>2, <3>1
        <3>2. CASE i = m + 1 BY <3>2
        <3>3. QED BY <3>1, <3>2
    <2>4. IsPeeling(v, layers, coats, m + 1) BY <2>3 DEF IsPeeling
    <2>5. QED BY <2>4
<1>3. Nat \subseteq S
    <2> HIDE DEF S
    <2>1. QED BY <1>1, <1>2, Induction
<1>4. QED BY <1>3

LEMMA PeelingUnfolds ==
    ASSUME NEW layers, NEW coats, Len(layers) \in Nat
    PROVE  \E w : IsPeeling(w, layers, coats, Len(layers)) /\ Decrypt(layers, coats) = w[Len(layers)]
<1> DEFINE W == CHOOSE w : IsPeeling(w, layers, coats, Len(layers))
<1>1. Decrypt(layers, coats) = W[Len(layers)] BY DEF Decrypt, IsPeeling
<1>2. IsPeeling(W, layers, coats, Len(layers)) BY PeelingExists
<1>3. QED BY <1>1, <1>2

(* Coats are layers; what a layer that does not fit leaves is none. *)
NoLayer(T) == \A x \in T : \A y : x # <<"not", y>>
Scraps(T) == {<<"not", y>> : y \in T}

(* What is scrambled stays so. *)
LEMMA ScrambledStays ==
    ASSUME NEW T, NoLayer(T), NEW coats \in Seq(T \cup Scraps(T)), NEW layer \in T,
           coats # <<>> => coats[Len(coats)] # layer
    PROVE  /\ Peel(layer, coats) \in Seq(T \cup Scraps(T)) /\ Peel(layer, coats) # <<>>
           /\ Peel(layer, coats)[Len(Peel(layer, coats))] \in Scraps(T)
<1> DEFINE e == <<"not", layer>>
           c == Append(coats, e)
<1>1. Peel(layer, coats) = c
    BY DEF Peel, Last
<1>2. e \in T \cup Scraps(T) /\ e \in Scraps(T) BY DEF Scraps
<1> HIDE DEF e
<1>3. c \in Seq(T \cup Scraps(T)) /\ Len(c) = Len(coats) + 1 /\ c[Len(coats) + 1] = e /\ Len(coats) \in Nat
    BY <1>2, AppendProperties
<1>4. c # <<>> BY <1>3, EmptySeq
<1>5. QED BY <1>1, <1>2, <1>3, <1>4

(* Taking off layers one by one: so far all of them were the outermost coats,
   or what is left is scrambled. *)
Fitting(w, layers, coats, i) ==
    /\ i <= Len(coats)
    /\ w = SubSeq(coats, 1, Len(coats) - i)
    /\ \A j \in 1 .. i : coats[Len(coats) - j + 1] = layers[Len(layers) - j + 1]
Scrambled(w, T) ==
    w \in Seq(T \cup Scraps(T)) /\ w # <<>> /\ w[Len(w)] \in Scraps(T)

LEMMA PeelStep ==
    ASSUME NEW T, NoLayer(T), NEW layers \in Seq(T), NEW coats \in Seq(T), NEW w,
           NEW i \in Nat, i + 1 \in 1 .. Len(layers),
           Fitting(w, layers, coats, i) \/ (coats # layers /\ Scrambled(w, T))
    PROVE  LET v == Peel(layers[Len(layers) - (i + 1) + 1], w)
           IN  Fitting(v, layers, coats, i + 1) \/ (coats # layers /\ Scrambled(v, T))
<1> DEFINE n == Len(layers)
           m == Len(coats)
           layer == layers[n - (i + 1) + 1]
           v == Peel(layer, w)
<1>1. n \in Nat /\ m \in Nat BY LenProperties
<1>2. layer \in T
    <2>1. n - (i + 1) + 1 \in 1 .. n BY <1>1
    <2> HIDE DEF n
    <2>2. QED BY <2>1, ElementOfSeq DEF n
<1>3. CASE coats # layers /\ Scrambled(w, T)
    <2>1. w[Len(w)] # layer BY <1>2, <1>3 DEF Scrambled, Scraps, NoLayer
    <2> HIDE DEF layer
    <2>2. Scrambled(v, T) BY <1>2, <1>3, <2>1, ScrambledStays DEF Scrambled
    <2>3. QED BY <1>3, <2>2 DEF layer
<1>4. CASE Fitting(w, layers, coats, i) /\ (i = m \/ coats[m - i] # layer)
    <2>1. w \in Seq(T) /\ Len(w) = m - i /\ \A j \in 1 .. m - i : w[j] = coats[j]
        BY <1>1, <1>4, SubSeqProperties DEF Fitting
    <2>2. w \in Seq(T \cup Scraps(T)) BY <2>1
    <2>3. w # <<>> => w[Len(w)] # layer
        <3> HAVE w # <<>>
        <3>1. Len(w) # 0 BY <2>1, EmptySeq
        <3>2. m - i \in 1 .. m - i BY <1>1, <2>1, <3>1
        <3> HIDE DEF m, layer
        <3>3. QED BY <1>4, <2>1, <3>1, <3>2
    <2>4. coats # layers
        <3> SUFFICES ASSUME coats = layers PROVE FALSE
            OBVIOUS
        <3>1. m = n /\ n - (i + 1) + 1 = m - i BY <1>1
        <3>2. layer = coats[m - i] BY <3>1
        <3>3. i # m
            <4>1. n # i BY <1>1
            <4>2. QED BY <3>1, <4>1
        <3>4. QED BY <1>4, <3>2, <3>3
    <2> HIDE DEF layer
    <2>5. Scrambled(v, T) BY <1>2, <2>2, <2>3, ScrambledStays DEF Scrambled
    <2>6. QED BY <2>4, <2>5 DEF layer
<1>5. CASE Fitting(w, layers, coats, i) /\ i # m /\ coats[m - i] = layer
    <2>1. w \in Seq(T) /\ Len(w) = m - i /\ \A j \in 1 .. m - i : w[j] = coats[j]
        BY <1>1, <1>5, SubSeqProperties DEF Fitting
    <2>2. i + 1 <= m BY <1>1, <1>5 DEF Fitting
    <2>3. w # <<>> /\ Last(w) = layer
        <3>1. m - i \in 1 .. m - i BY <1>1, <2>2
        <3>2. w # <<>> BY <1>1, <2>1, <2>2, EmptySeq
        <3> HIDE DEF m, layer
        <3>3. QED BY <1>5, <2>1, <3>1, <3>2 DEF Last
    <2>4. v = SubSeq(w, 1, m - i - 1) BY <2>1, <2>3 DEF Peel, Front
    <2>5. /\ v \in Seq(T) /\ Len(v) = m - i - 1
          /\ \A j \in 1 .. m - i - 1 : v[j] = w[j]
        <3> HIDE DEF v, m
        <3>1. m - i - 1 \in Nat /\ m - i - 1 <= Len(w) BY <1>1, <2>1, <2>2 DEF m
        <3>2. QED BY <2>1, <2>4, <3>1, SubSeqProperties
    <2>6. /\ SubSeq(coats, 1, m - (i + 1)) \in Seq(T)
          /\ Len(SubSeq(coats, 1, m - (i + 1))) = m - (i + 1)
          /\ \A j \in 1 .. m - (i + 1) : SubSeq(coats, 1, m - (i + 1))[j] = coats[j]
        BY <1>1, <2>2, SubSeqProperties
    <2>7. v = SubSeq(coats, 1, m - (i + 1))
        <3> DEFINE u == SubSeq(coats, 1, m - (i + 1))
        <3> HIDE DEF u, v
        <3>1. Len(v) = Len(u) BY <1>1, <2>5, <2>6 DEF u
        <3>2. \A j \in 1 .. Len(v) : v[j] = u[j]
            BY <1>1, <2>1, <2>5, <2>6 DEF u
        <3>3. v \in Seq(T) /\ u \in Seq(T) BY <2>5, <2>6 DEF u
        <3>4. v = u BY <3>1, <3>2, <3>3, SeqEqual
        <3>5. QED BY <3>4 DEF u
    <2>8. \A j \in 1 .. i + 1 : coats[m - j + 1] = layers[n - j + 1]
        <3> TAKE j \in 1 .. i + 1
        <3>1. CASE j <= i BY <1>5, <3>1 DEF Fitting
        <3>2. CASE j = i + 1
            <4>1. m - j + 1 = m - i BY <1>1, <3>2
            <4>2. QED BY <1>5, <3>2, <4>1
        <3>3. QED BY <3>1, <3>2
    <2>9. QED BY <2>2, <2>7, <2>8 DEF Fitting
<1>6. QED BY <1>3, <1>4, <1>5

(* Decrypting leaves the bare header exactly if the layers are the coats. *)
LEMMA DecryptExact ==
    ASSUME NEW T, NoLayer(T), NEW layers \in Seq(T), NEW coats \in Seq(T)
    PROVE  Decrypt(layers, coats) = <<>> <=> coats = layers
<1> DEFINE n == Len(layers)
           m == Len(coats)
<1>1. n \in Nat /\ m \in Nat BY LenProperties
<1>2. PICK w : IsPeeling(w, layers, coats, n) /\ Decrypt(layers, coats) = w[n]
    BY <1>1, PeelingUnfolds
<1>3. \A i \in 0 .. n : w[i] = IF i = 0 THEN coats ELSE Peel(layers[n - i + 1], w[i - 1])
    BY <1>2 DEF IsPeeling
<1> DEFINE S == {i \in Nat : i <= n => Fitting(w[i], layers, coats, i) \/ (coats # layers /\ Scrambled(w[i], T))}
<1>4. 0 \in S
    <2>1. w[0] = coats BY <1>1, <1>3
    <2>2. SubSeq(coats, 1, m) = coats
        <3> DEFINE u == SubSeq(coats, 1, m)
        <3>1. u \in Seq(T) /\ Len(u) = m /\ \A j \in 1 .. m : u[j] = coats[j]
            BY <1>1, SubSeqProperties
        <3> HIDE DEF u
        <3>2. u = coats BY <3>1, SeqEqual
        <3>3. QED BY <3>2 DEF u
    <2>3. QED BY <1>1, <2>1, <2>2 DEF Fitting
<1>5. ASSUME NEW i \in Nat, i \in S PROVE i + 1 \in S
    <2> SUFFICES ASSUME i + 1 <= n
                 PROVE  Fitting(w[i + 1], layers, coats, i + 1) \/ (coats # layers /\ Scrambled(w[i + 1], T))
        OBVIOUS
    <2>1. i <= n /\ i + 1 \in 1 .. n /\ i + 1 \in 0 .. n /\ i + 1 # 0 /\ i + 1 - 1 = i BY <1>1
    <2>2. Fitting(w[i], layers, coats, i) \/ (coats # layers /\ Scrambled(w[i], T)) BY <1>5, <2>1
    <2>3. w[i + 1] = Peel(layers[n - (i + 1) + 1], w[i]) BY <1>3, <2>1
    <2>4. QED BY <2>1, <2>2, <2>3, PeelStep
<1>6. Fitting(w[n], layers, coats, n) \/ (coats # layers /\ Scrambled(w[n], T))
    <2>1. Nat \subseteq S
        <3> HIDE DEF S
        <3>1. QED BY <1>4, <1>5, Induction
    <2>2. QED BY <1>1, <2>1
<1>7. ASSUME w[n] = <<>> PROVE coats = layers
    <2>1. Fitting(w[n], layers, coats, n) BY <1>6, <1>7 DEF Scrambled
    <2>2. Len(w[n]) = m - n BY <1>1, <2>1, SubSeqProperties DEF Fitting
    <2>3. m = n BY <1>1, <1>7, <2>2
    <2>4. \A j \in 1 .. n : coats[j] = layers[j]
        <3> TAKE j \in 1 .. n
        <3>1. n - j + 1 \in 1 .. n /\ n - (n - j + 1) + 1 = j BY <1>1
        <3>2. QED BY <2>1, <2>3, <3>1 DEF Fitting
    <2>5. QED BY <1>1, <2>3, <2>4, SeqEqual
<1>8. ASSUME coats = layers PROVE w[n] = <<>>
    <2>1. w[n] = SubSeq(coats, 1, 0) BY <1>1, <1>6, <1>8 DEF Fitting
    <2>2. QED BY <1>1, <2>1, SubSeqProperties, EmptySeq
<1>9. QED BY <1>2, <1>7, <1>8
-----------------------------------------------------------------------------
(* Layers and keys *)

Ciphers == {"Aes", "Serpent", "Twofish", "Camellia", "Kuznyechik"}

LEMMA ShortSequences ==
    ASSUME NEW S, NEW a \in S, NEW b \in S, NEW c \in S
    PROVE  /\ <<a>> \in Seq(S) /\ Len(<<a>>) = 1
           /\ <<a, b>> \in Seq(S) /\ Len(<<a, b>>) = 2
           /\ <<a, b, c>> \in Seq(S) /\ Len(<<a, b, c>>) = 3
OBVIOUS

LEMMA SchemeLengths ==
    /\ DOMAIN Schemes = 1 .. 15
    /\ \A s \in 1 .. 15 : Schemes[s] \in Seq(Ciphers) /\ Len(Schemes[s]) \in {1, 2, 3}
<1>1. DOMAIN Schemes = 1 .. 15 BY DEF Schemes
<1>2. ASSUME NEW s \in 1 .. 15
      PROVE  \E a, b, c \in Ciphers :
                Schemes[s] = <<a>> \/ Schemes[s] = <<a, b>> \/ Schemes[s] = <<a, b, c>>
    <2> USE DEF Schemes, Ciphers
    <2>1. CASE s \in 1 .. 5
        <3>1. \E a \in Ciphers : Schemes[s] = <<a>> BY <2>1
        <3> HIDE DEF Schemes, Ciphers
        <3>2. QED BY <3>1, Zenon
    <2>2. CASE s \in {6, 8, 10, 11, 12, 13, 14}
        <3>1. \E a, b \in Ciphers : Schemes[s] = <<a, b>> BY <2>2
        <3> HIDE DEF Schemes, Ciphers
        <3>2. QED BY <3>1, Zenon
    <2>3. CASE s \in {7, 9, 15}
        <3>1. /\ Schemes[7] = <<"Serpent", "Twofish", "Aes">>
              /\ Schemes[9] = <<"Aes", "Twofish", "Serpent">>
              /\ Schemes[15] = <<"Camellia", "Serpent", "Kuznyechik">>
            OBVIOUS
        <3> HIDE DEF Schemes
        <3>2. \E a, b, c \in Ciphers : Schemes[s] = <<a, b, c>> BY <2>3, <3>1, Zenon
        <3> HIDE DEF Ciphers
        <3>3. QED BY <3>2, Zenon
    <2>4. s \in 1 .. 5 \/ s \in {6, 8, 10, 11, 12, 13, 14} \/ s \in {7, 9, 15} OBVIOUS
    <2> HIDE DEF Schemes, Ciphers
    <2>5. QED BY <2>1, <2>2, <2>3, <2>4, Zenon
<1>3. ASSUME NEW s \in 1 .. 15
      PROVE  Schemes[s] \in Seq(Ciphers) /\ Len(Schemes[s]) \in {1, 2, 3}
    <2>1. PICK a, b, c \in Ciphers :
                Schemes[s] = <<a>> \/ Schemes[s] = <<a, b>> \/ Schemes[s] = <<a, b, c>>
        BY <1>2
    <2>2. /\ <<a>> \in Seq(Ciphers) /\ Len(<<a>>) = 1
          /\ <<a, b>> \in Seq(Ciphers) /\ Len(<<a, b>>) = 2
          /\ <<a, b, c>> \in Seq(Ciphers) /\ Len(<<a, b, c>>) = 3
        BY ShortSequences, Zenon
    <2>3. QED BY <2>1, <2>2, Zenon
<1>4. QED BY <1>1, <1>3

(* No two schemes are the same list of ciphers. *)
LEMMA SchemesDiffer ==
    ASSUME NEW s \in 1 .. 15, NEW t \in 1 .. 15, Schemes[s] = Schemes[t]
    PROVE  s = t
<1> USE DEF Schemes
<1>1. CASE s \in 1 .. 5 BY <1>1
<1>2. CASE s \in {6, 8, 10} BY <1>2
<1>3. CASE s \in {11, 12, 13, 14} BY <1>3
<1>4. CASE s \in {7, 9, 15} BY <1>4
<1>5. QED BY <1>1, <1>2, <1>3, <1>4

LEMMA SixSlices == MaxSlices = 6
<1> DEFINE L == {Len(Schemes[s]) : s \in DOMAIN Schemes}
<1>1. L \subseteq {1, 2, 3} BY SchemeLengths
<1>2. 3 \in L
    <2>1. Len(Schemes[7]) = 3 /\ 7 \in DOMAIN Schemes BY DEF Schemes
    <2>2. QED BY <2>1
<1> HIDE DEF L
<1>3. Max(L) = 3
    <2>1. 3 \in L /\ \A y \in L : 3 >= y BY <1>1, <1>2
    <2>2. \A x \in L : (\A y \in L : x >= y) => x = 3 BY <1>1, <2>1
    <2>3. QED BY <2>1, <2>2 DEF Max
<1>4. QED BY <1>3 DEF MaxSlices, L

(* The layers a copy is sealed in, and those the search takes off. *)
SealingLayers(prf, secret, pim, salt, s) ==
    Layers(Schemes[s], HeaderKey(prf, secret, pim, salt, 2 * Len(Schemes[s])))
TriedLayers(prf, secret, pim, salt, s) ==
    Layers(Schemes[s], HeaderKey(prf, secret, pim, salt, MaxSlices))

(* The same layers come only of the same scheme and the same derivation; a
   longer key gives those of the shorter one. *)
LEMMA LayersDiffer ==
    ASSUME NEW s \in 1 .. 15, NEW t \in 1 .. 15,
           NEW prf, NEW secret, NEW pim, NEW salt,
           NEW prf2, NEW secret2, NEW pim2, NEW salt2
    PROVE  TriedLayers(prf, secret, pim, salt, s) = SealingLayers(prf2, secret2, pim2, salt2, t)
           <=> /\ s = t /\ prf = prf2 /\ secret = secret2 /\ salt = salt2
               /\ Iterations(pim) = Iterations(pim2)
<1> DEFINE k == HeaderKey(prf, secret, pim, salt, MaxSlices)
           k2 == HeaderKey(prf2, secret2, pim2, salt2, 2 * Len(Schemes[t]))
           l == Layers(Schemes[s], k)
           l2 == Layers(Schemes[t], k2)
           n == Len(Schemes[s])
           n2 == Len(Schemes[t])
<1>1. n \in {1, 2, 3} /\ n2 \in {1, 2, 3} /\ DOMAIN Schemes[s] = 1 .. n /\ DOMAIN Schemes[t] = 1 .. n2
      /\ Schemes[s] \in Seq(Ciphers) /\ Schemes[t] \in Seq(Ciphers)
    <2>1. n \in {1, 2, 3} /\ n2 \in {1, 2, 3} /\ Schemes[s] \in Seq(Ciphers) /\ Schemes[t] \in Seq(Ciphers)
        BY SchemeLengths
    <2>2. DOMAIN Schemes[s] = 1 .. n /\ DOMAIN Schemes[t] = 1 .. n2 BY <2>1, LenProperties
    <2>3. QED BY <2>1, <2>2
<1>2. /\ \A i \in 0 .. 5 : k[i] = <<prf, secret, Iterations(pim), salt, i>>
      /\ \A i \in 0 .. 2 * n2 - 1 : k2[i] = <<prf2, secret2, Iterations(pim2), salt2, i>>
    BY SixSlices DEF HeaderKey
<1>3. /\ l = [i \in 1 .. n |-> <<Schemes[s][i], k[i - 1], k[n + i - 1]>>]
      /\ l2 = [i \in 1 .. n2 |-> <<Schemes[t][i], k2[i - 1], k2[n2 + i - 1]>>]
    BY <1>1 DEF Layers
<1> HIDE DEF k, k2, l, l2, n, n2
<1>4. ASSUME l = l2
      PROVE  /\ s = t /\ prf = prf2 /\ secret = secret2 /\ salt = salt2
             /\ Iterations(pim) = Iterations(pim2)
    <2>1. n = n2
        <3>1. 1 .. n = 1 .. n2 BY <1>3, <1>4
        <3>2. QED BY <1>1, <3>1
    <2>2. \A i \in 1 .. n : Schemes[s][i] = Schemes[t][i] /\ k[i - 1] = k2[i - 1]
        BY <1>3, <1>4, <2>1
    <2>3. Schemes[s] = Schemes[t]
        BY <1>1, <2>1, <2>2, SeqEqual DEF n, n2
    <2>4. k[0] = k2[0] BY <1>1, <2>2
    <2>5. <<prf, secret, Iterations(pim), salt, 0>> = <<prf2, secret2, Iterations(pim2), salt2, 0>>
        BY <1>1, <1>2, <2>4
    <2>6. QED BY <2>3, <2>5, SchemesDiffer
<1>5. ASSUME s = t, prf = prf2, secret = secret2, salt = salt2, Iterations(pim) = Iterations(pim2)
      PROVE  l = l2
    <2>1. n = n2
        <3>1. Schemes[s] = Schemes[t] BY <1>5, Zenon
        <3>2. QED BY <3>1, Zenon DEF n, n2
    <2>2. \A i \in 0 .. 2 * n - 1 : k[i] = k2[i]
        <3> TAKE i \in 0 .. 2 * n - 1
        <3>1. i \in 0 .. 5 /\ i \in 0 .. 2 * n2 - 1 BY <1>1, <2>1
        <3>2. k[i] = <<prf, secret, Iterations(pim), salt, i>>
              /\ k2[i] = <<prf2, secret2, Iterations(pim2), salt2, i>>
            BY <1>2, <3>1, Zenon
        <3>3. QED BY <1>5, <3>2, Zenon
    <2>3. \A i \in 1 .. n : k[i - 1] = k2[i - 1] /\ k[n + i - 1] = k2[n + i - 1]
        <3> TAKE i \in 1 .. n
        <3>1. i - 1 \in 0 .. 2 * n - 1 /\ n + i - 1 \in 0 .. 2 * n - 1 BY <1>1
        <3>2. QED BY <2>2, <3>1
    <2>4. QED BY <1>3, <1>5, <2>1, <2>3
<1>6. QED BY <1>4, <1>5 DEF l, l2, k, k2, n2, TriedLayers, SealingLayers
-----------------------------------------------------------------------------
(* One copy under every scheme *)

(* The copy was sealed so; parts of it may be spoilt since. *)
Genuine(copy, prf, s, secret, pim, salt) ==
    /\ copy.salt = salt
    /\ copy.coats = SealingLayers(prf, secret, pim, salt, s)

(* What the copy says to one who knows how it was sealed. *)
Verdict(copy) ==
    IF "salt" \in copy.spoilt THEN Miss ELSE Parse(copy.plain, <<>>, copy.spoilt)

LEMMA CoatsOff ==
    ASSUME NEW s \in 1 .. 15, NEW t \in 1 .. 15,
           NEW prf, NEW secret, NEW pim, NEW salt,
           NEW prf2, NEW secret2, NEW pim2, NEW salt2
    PROVE  Decrypt(TriedLayers(prf, secret, pim, salt, s),
                   SealingLayers(prf2, secret2, pim2, salt2, t)) = <<>>
           <=> /\ s = t /\ prf = prf2 /\ secret = secret2 /\ salt = salt2
               /\ Iterations(pim) = Iterations(pim2)
<1> DEFINE k == HeaderKey(prf, secret, pim, salt, MaxSlices)
           k2 == HeaderKey(prf2, secret2, pim2, salt2, 2 * Len(Schemes[t]))
           l == Layers(Schemes[s], k)
           l2 == Layers(Schemes[t], k2)
           T == {l[i] : i \in DOMAIN l} \cup {l2[i] : i \in DOMAIN l2}
<1>1. /\ DOMAIN Schemes[s] = 1 .. Len(Schemes[s]) /\ Len(Schemes[s]) \in Nat
      /\ DOMAIN Schemes[t] = 1 .. Len(Schemes[t]) /\ Len(Schemes[t]) \in Nat
    <2>1. Schemes[s] \in Seq(Ciphers) /\ Schemes[t] \in Seq(Ciphers) BY SchemeLengths
    <2>2. QED BY <2>1, LenProperties
<1> HIDE DEF k, k2
<1>2. \A i \in DOMAIN l : l[i] = <<Schemes[s][i], k[i - 1], k[Len(Schemes[s]) + i - 1]>>
    BY DEF Layers
<1>3. \A i \in DOMAIN l2 : l2[i] = <<Schemes[t][i], k2[i - 1], k2[Len(Schemes[t]) + i - 1]>>
    BY DEF Layers
<1>4. DOMAIN l = 1 .. Len(Schemes[s]) /\ DOMAIN l2 = 1 .. Len(Schemes[t])
    BY <1>1 DEF Layers
<1>5. l = [i \in DOMAIN l |-> l[i]] /\ l2 = [i \in DOMAIN l2 |-> l2[i]] BY DEF Layers
<1> HIDE DEF l, l2
<1>6. l \in Seq(T) /\ l2 \in Seq(T) BY <1>1, <1>4, <1>5, SeqDef
<1>7. NoLayer(T)
    <2>1. \A a, b, c, y : <<a, b, c>> # <<"not", y>> OBVIOUS
    <2> SUFFICES ASSUME NEW x \in T, NEW y PROVE x # <<"not", y>>
        BY DEF NoLayer
    <2>2. \E a, b, c : x = <<a, b, c>>
        <3>1. CASE \E i \in DOMAIN l : x = l[i] BY <1>2, <3>1
        <3>2. CASE \E i \in DOMAIN l2 : x = l2[i] BY <1>3, <3>2
        <3>3. QED BY <3>1, <3>2
    <2> HIDE DEF T
    <2>3. QED BY <2>1, <2>2, Zenon
<1> HIDE DEF T
<1>8. Decrypt(l, l2) = <<>> <=> l = l2 BY <1>6, <1>7, DecryptExact
<1>9. l = l2 <=> /\ s = t /\ prf = prf2 /\ secret = secret2 /\ salt = salt2
                 /\ Iterations(pim) = Iterations(pim2)
    <2>1. l = TriedLayers(prf, secret, pim, salt, s)
          /\ l2 = SealingLayers(prf2, secret2, pim2, salt2, t)
        BY Zenon DEF l, l2, k, k2, TriedLayers, SealingLayers
    <2>2. QED BY <2>1, LayersDiffer
<1>10. QED BY <1>8, <1>9 DEF l, l2, k, k2, TriedLayers, SealingLayers

LEMMA OneNumber ==
    ASSUME NEW n \in Int
    PROVE  Min({n}) = n /\ Max({n}) = n
BY DEF Min, Max

(* Only under the scheme, the derivation and the secret it was sealed with
   does a copy say anything, and then the same to all. *)
LEMMA TryGenuine ==
    ASSUME NEW copy, NEW prf, NEW secret, NEW pim,
           NEW s \in 1 .. 15, NEW prf2, NEW secret2, NEW pim2, NEW salt \in Nat,
           Genuine(copy, prf2, s, secret2, pim2, salt)
    PROVE  LET fits == prf = prf2 /\ secret = secret2 /\ Iterations(pim) = Iterations(pim2)
               v == IF fits THEN Verdict(copy) ELSE Miss
           IN  TrySchemes(copy, secret, pim, prf)
                 = Outcome(v, copy.plain, IF v = "found" THEN s ELSE 0, prf)
<1> DEFINE fits == prf = prf2 /\ secret = secret2 /\ Iterations(pim) = Iterations(pim2)
           v == IF fits THEN Verdict(copy) ELSE Miss
           salt1 == IF "salt" \in copy.spoilt THEN -1 - copy.salt ELSE copy.salt
           key == HeaderKey(prf, secret, pim, salt1, MaxSlices)
           bare(t) == Decrypt(Layers(Schemes[t], key), copy.coats)
           says(t) == Parse(copy.plain, bare(t), copy.spoilt)
           found == {t \in DOMAIN Schemes : says(t) = "found"}
           findings == {t \in DOMAIN Schemes : says(t) # Miss}
<1>1. salt1 = salt <=> "salt" \notin copy.spoilt
    BY DEF Genuine
<1>2. ASSUME NEW t \in 1 .. 15
      PROVE  bare(t) = <<>> <=> fits /\ t = s /\ "salt" \notin copy.spoilt
    <2> HIDE DEF salt1
    <2>1. bare(t) = <<>> <=> /\ t = s /\ prf = prf2 /\ secret = secret2 /\ salt1 = salt
                             /\ Iterations(pim) = Iterations(pim2)
        <3>1. bare(t) = Decrypt(TriedLayers(prf, secret, pim, salt1, t),
                                SealingLayers(prf2, secret2, pim2, salt, s))
            BY Zenon DEF Genuine, TriedLayers
        <3> HIDE DEF bare
        <3>2. QED BY <3>1, CoatsOff
    <2>2. QED BY <1>1, <2>1
<1>3. ASSUME NEW t \in 1 .. 15
      PROVE  says(t) = IF t = s THEN v ELSE Miss
    <2> HIDE DEF bare
    <2>1. CASE bare(t) = <<>>
        <3>1. fits /\ t = s /\ "salt" \notin copy.spoilt BY <1>2, <2>1
        <3>2. v = Parse(copy.plain, <<>>, copy.spoilt) BY <3>1 DEF Verdict
        <3>3. QED BY <2>1, <3>1, <3>2
    <2>2. CASE bare(t) # <<>>
        <3>1. says(t) = Miss BY <2>2 DEF Parse, Miss
        <3>2. t = s => v = Miss BY <1>2, <2>2 DEF Verdict
        <3>3. QED BY <3>1, <3>2
    <2>3. QED BY <2>1, <2>2
<1>4. DOMAIN Schemes = 1 .. 15 BY SchemeLengths
<1>5. TrySchemes(copy, secret, pim, prf)
        = IF found # {} THEN Outcome("found", copy.plain, Min(found), prf)
          ELSE IF findings # {} THEN Outcome(says(Max(findings)), copy.plain, 0, prf)
          ELSE Outcome(Miss, copy.plain, 0, prf)
    BY Zenon DEF TrySchemes
<1> HIDE DEF says
<1>6. found = (IF v = "found" THEN {s} ELSE {}) /\ findings = IF v # Miss THEN {s} ELSE {}
    <2>1. "found" # Miss BY DEF Miss
    <2>2. \A t \in 1 .. 15 : (says(t) = "found" <=> t = s /\ v = "found")
                             /\ (says(t) # Miss <=> t = s /\ v # Miss)
        <3> HIDE DEF v
        <3>1. QED BY <1>3, <2>1
    <2> HIDE DEF v
    <2>3. QED BY <1>4, <2>2
<1>7. Min({s}) = s /\ Max({s}) = s BY OneNumber
<1>8. says(s) = v BY <1>3
<1> HIDE DEF v, found, findings
<1>9. TrySchemes(copy, secret, pim, prf)
        = Outcome(v, copy.plain, IF v = "found" THEN s ELSE 0, prf)
    <2>1. CASE v = "found"
        <3>1. found = {s} BY <1>6, <2>1
        <3>2. found # {} BY <3>1
        <3>3. QED BY <1>5, <1>7, <2>1, <3>1, <3>2
    <2>2. CASE v # "found" /\ v # Miss
        <3>1. found = {} /\ findings = {s} BY <1>6, <2>2
        <3>2. findings # {} BY <3>1
        <3>3. QED BY <1>5, <1>7, <1>8, <2>2, <3>1, <3>2
    <2>3. CASE v = Miss
        <3>1. v # "found" BY <2>3 DEF Miss
        <3>2. found = {} /\ findings = {} BY <1>6, <2>3, <3>1
        <3>3. QED BY <1>5, <2>3, <3>1, <3>2
    <2>4. QED BY <2>1, <2>2, <2>3
<1>10. QED BY <1>9 DEF v
-----------------------------------------------------------------------------
(* All copies of a file under every derivation *)

LEMMA AtMostOne ==
    ASSUME NEW c, NEW x \in Int
    PROVE  /\ (IF c THEN <<x>> ELSE <<>>) \in Seq(Int)
           /\ Len(IF c THEN <<x>> ELSE <<>>) \in {0, 1}
<1>1. CASE c BY <1>1
<1>2. CASE ~c BY <1>2
<1>3. QED BY <1>1, <1>2

LEMMA PlacesTyped ==
    ASSUME NEW size \in Nat
    PROVE  Places(size) \in Seq(Int) /\ Len(Places(size)) \in 1 .. 4
<1> DEFINE a == PrimaryOffsets(size)
           b == HiddenOffsets(size)
           c == BackupOffsets(size)
           d == BackupHiddenOffsets(size)
           ab == a \o b
           abc == ab \o c
<1>1. a \in Seq(Int) /\ Len(a) = 1 BY DEF PrimaryOffsets
<1>2. /\ b \in Seq(Int) /\ Len(b) \in {0, 1}
      /\ c \in Seq(Int) /\ Len(c) \in {0, 1}
      /\ d \in Seq(Int) /\ Len(d) \in {0, 1}
    BY AtMostOne DEF HiddenOffsets, BackupOffsets, BackupHiddenOffsets,
                     HIDDEN_OFFSET, REGION, BACKUP_FROM_END
<1> HIDE DEF a, b, c, d
<1>3. ab \in Seq(Int) /\ Len(ab) = Len(a) + Len(b) BY <1>1, <1>2, ConcatProperties
<1> HIDE DEF ab
<1>4. abc \in Seq(Int) /\ Len(abc) = Len(ab) + Len(c) BY <1>2, <1>3, ConcatProperties
<1> HIDE DEF abc
<1> DEFINE abcd == abc \o d
<1>5. abcd \in Seq(Int) /\ Len(abcd) = Len(abc) + Len(d) BY <1>2, <1>4, ConcatProperties
<1>6. Places(size) = abcd BY Zenon DEF Places, a, b, c, d, ab, abc
<1> HIDE DEF abcd
<1>7. Len(abcd) \in 1 .. 4
    <2>1. /\ Len(a) = 1 /\ Len(b) \in {0, 1} /\ Len(c) \in {0, 1} /\ Len(d) \in {0, 1}
          /\ Len(ab) = Len(a) + Len(b) /\ Len(abc) = Len(ab) + Len(c)
          /\ Len(abcd) = Len(abc) + Len(d)
        BY <1>1, <1>2, <1>3, <1>4, <1>5, Zenon
    <2>2. \A i, j, k, l : i = 1 /\ j \in {0, 1} /\ k \in {0, 1} /\ l \in {0, 1} => i + j + k + l \in 1 .. 4
        OBVIOUS
    <2>3. QED BY <2>1, <2>2, Zenon
<1>8. QED BY <1>5, <1>6, <1>7, Zenon

(* The tries are numbered so that all places are tried under one derivation
   before the next. *)
LEMMA TryNumbers ==
    ASSUME NEW n \in 1 .. 4
    PROVE  /\ \A k \in 0 .. (5 * n) - 1 : (k % n) + 1 \in 1 .. n /\ (k \div n) + 1 \in 1 .. 5
           /\ \A p \in 1 .. 5, i \in 1 .. n :
                 \E k \in 0 .. (5 * n) - 1 : (k % n) + 1 = i /\ (k \div n) + 1 = p
<1>1. CASE n = 1
    <2>1. \A p \in 1 .. 5, i \in 1 .. n : /\ (p - 1) * 1 + i - 1 \in 0 .. (5 * n) - 1
                                          /\ (((p - 1) * 1 + i - 1) % n) + 1 = i
                                          /\ (((p - 1) * 1 + i - 1) \div n) + 1 = p
        BY <1>1
    <2>2. QED BY <1>1, <2>1
<1>2. CASE n = 2
    <2>1. \A p \in 1 .. 5, i \in 1 .. n : /\ (p - 1) * 2 + i - 1 \in 0 .. (5 * n) - 1
                                          /\ (((p - 1) * 2 + i - 1) % n) + 1 = i
                                          /\ (((p - 1) * 2 + i - 1) \div n) + 1 = p
        BY <1>2
    <2>2. QED BY <1>2, <2>1
<1>3. CASE n = 3
    <2>1. \A p \in 1 .. 5, i \in 1 .. n : /\ (p - 1) * 3 + i - 1 \in 0 .. (5 * n) - 1
                                          /\ (((p - 1) * 3 + i - 1) % n) + 1 = i
                                          /\ (((p - 1) * 3 + i - 1) \div n) + 1 = p
        BY <1>3
    <2>2. QED BY <1>3, <2>1
<1>4. CASE n = 4
    <2>1. \A p \in 1 .. 5, i \in 1 .. n : /\ (p - 1) * 4 + i - 1 \in 0 .. (5 * n) - 1
                                          /\ (((p - 1) * 4 + i - 1) % n) + 1 = i
                                          /\ (((p - 1) * 4 + i - 1) \div n) + 1 = p
        BY <1>4
    <2>2. QED BY <1>4, <2>1
<1>5. QED BY <1>1, <1>2, <1>3, <1>4

(* The copies that the search reaches. *)
InReach(copies, size) == {o \in DOMAIN copies : \E i \in DOMAIN Places(size) : Places(size)[i] = o}

(* Every copy of the file was sealed with this derivation and this scheme,
   each under the secret of its owner. *)
GenuineFile(copies, prf, s, pim, own) ==
    /\ DOMAIN copies \subseteq Nat
    /\ \A o \in DOMAIN copies : Genuine(copies[o], prf, s, own[o], pim, o)

(* An answer that the copies under a secret, and only they, account for. *)
Accounted(answer, copies, mine, s, prf) ==
    LET good == {o \in mine : Verdict(copies[o]) = "found"}
    IN  /\ answer.out = "found" <=> good # {}
        /\ answer.out = "found" => \E o \in good : answer = Outcome("found", copies[o].plain, s, prf)
        /\ answer.out = Miss <=> \A o \in mine : Verdict(copies[o]) = Miss

(* find_header says "found" exactly if one of the copies under the secret
   that it reaches would, and then gives the header of such a copy with the
   scheme and the derivation that sealed it; it says "not found or wrong
   password" exactly if all of them do, in particular if there is none: what
   lies at the other places, spoilt or sealed under other secrets, never
   counts (find_header of core/vc-format/src/lib.rs). *)
THEOREM SearchIsExact ==
    ASSUME NEW copies, NEW size \in Nat, NEW secret, NEW pim, NEW s \in 1 .. 15,
           NEW p \in 1 .. 5, NEW own, GenuineFile(copies, Prfs[p], s, pim, own), ~Unreadable(size)
    PROVE  Accounted(FindHeader(copies, size, secret, pim), copies,
                     {o \in InReach(copies, size) : own[o] = secret}, s, Prfs[p])
<1> DEFINE places == Places(size)
           n == Len(places)
           prf(k) == Prfs[(k \div n) + 1]
           place(k) == places[(k % n) + 1]
           tries == {k \in 0 .. (Len(Prfs) * n) - 1 : place(k) \in DOMAIN copies}
           said == [k \in tries |-> TrySchemes(copies[place(k)], secret, pim, prf(k))]
           decisive == {k \in tries : Decisive(said[k])}
           findings == {k \in tries : said[k].out # Miss}
           answer == FindHeader(copies, size, secret, pim)
           mine == {o \in InReach(copies, size) : own[o] = secret}
           good == {o \in mine : Verdict(copies[o]) = "found"}
<1>1. answer = IF decisive # {} THEN said[Min(decisive)]
               ELSE IF findings # {} THEN said[Max(findings)]
               ELSE Outcome(Miss, {}, 0, "none")
    BY Zenon DEF FindHeader
<1>2. Len(Prfs) = 5 BY DEF Prfs
<1>3. n \in 1 .. 4 /\ DOMAIN places = 1 .. n
    <2>1. places \in Seq(Int) /\ n \in 1 .. 4 BY PlacesTyped
    <2> HIDE DEF places
    <2>2. QED BY <2>1, LenProperties
<1> HIDE DEF places, n
<1>4. tries \subseteq 0 .. (5 * n) - 1 BY <1>2
<1>5. \A k \in tries : place(k) \in InReach(copies, size)
    <2> TAKE k \in tries
    <2>1. (k % n) + 1 \in 1 .. n BY <1>3, <1>4, TryNumbers
    <2>2. QED BY <1>3, <2>1 DEF InReach, places
<1>6. \A o \in InReach(copies, size) : \E k \in tries : place(k) = o /\ prf(k) = Prfs[p]
    <2> TAKE o \in InReach(copies, size)
    <2>1. PICK i \in 1 .. n : places[i] = o /\ o \in DOMAIN copies BY <1>3 DEF InReach, places
    <2>2. PICK k \in 0 .. (5 * n) - 1 : (k % n) + 1 = i /\ (k \div n) + 1 = p
        BY <1>3, TryNumbers
    <2>3. place(k) = o /\ prf(k) = Prfs[p] BY <2>1, <2>2
    <2>4. QED BY <1>2, <2>1, <2>3
<1> DEFINE v(k) == IF prf(k) = Prfs[p] /\ own[place(k)] = secret THEN Verdict(copies[place(k)]) ELSE Miss
<1>7. \A k \in tries :
            said[k] = Outcome(v(k), copies[place(k)].plain, IF v(k) = "found" THEN s ELSE 0, prf(k))
    <2> TAKE k \in tries
    <2> DEFINE o == place(k)
               q == prf(k)
    <2>1. o \in DOMAIN copies /\ said[k] = TrySchemes(copies[o], secret, pim, q) OBVIOUS
    <2> HIDE DEF o, q
    <2>2. o \in Nat /\ Genuine(copies[o], Prfs[p], s, own[o], pim, o) BY <2>1 DEF GenuineFile
    <2>3. LET fits == q = Prfs[p] /\ secret = own[o] /\ Iterations(pim) = Iterations(pim)
              u == IF fits THEN Verdict(copies[o]) ELSE Miss
          IN  TrySchemes(copies[o], secret, pim, q)
                = Outcome(u, copies[o].plain, IF u = "found" THEN s ELSE 0, q)
        BY <2>2, TryGenuine
    <2>4. QED BY <2>1, <2>3, Zenon DEF o, q
<1> HIDE DEF said, v
<1>8. \A k \in tries : said[k].out = v(k)
    <2>1. \A out, header, scheme, q : Outcome(out, header, scheme, q).out = out BY DEF Outcome
    <2> TAKE k \in tries
    <2>2. PICK header, scheme, q : said[k] = Outcome(v(k), header, scheme, q) BY <1>7
    <2>3. QED BY <2>1, <2>2
<1>9. \A k \in tries : v(k) # Miss =>
            prf(k) = Prfs[p] /\ place(k) \in mine /\ v(k) = Verdict(copies[place(k)])
    BY <1>5 DEF v
<1>10. \A o \in mine : \E k \in tries : place(k) = o /\ v(k) = Verdict(copies[o])
    BY <1>6 DEF v
<1> HIDE DEF prf, place
<1>11. \A k \in decisive : v(k) = "found"
    BY <1>8 DEF Decisive
<1>12. \A k \in tries : v(k) = "found" => k \in decisive
    BY <1>8 DEF Decisive
<1>13. "found" # Miss BY DEF Miss
<1>14. decisive # {} => Min(decisive) \in decisive
    <2>1. decisive \in SUBSET Nat BY <1>3, <1>4
    <2> HIDE DEF decisive
    <2>2. QED BY <2>1, MinOfSet
<1>15. findings # {} => Max(findings) \in findings
    <2>1. findings \in SUBSET (0 .. (5 * n) - 1) /\ (5 * n) - 1 \in Nat BY <1>3, <1>4
    <2> HIDE DEF findings
    <2>2. QED BY <2>1, MaxOfSet
<1>16. findings \subseteq tries /\ decisive \subseteq tries /\ \A k \in findings : v(k) # Miss
    BY <1>8
<1>17. \A k \in tries : v(k) # Miss => k \in findings BY <1>8
<1> HIDE DEF tries, decisive, findings, mine, answer
<1>18. decisive # {} => \E o \in good : answer = Outcome("found", copies[o].plain, s, Prfs[p])
    <2> HAVE decisive # {}
    <2> DEFINE k == Min(decisive)
    <2>1. k \in decisive /\ k \in tries /\ v(k) = "found" /\ answer = said[k]
        BY <1>1, <1>11, <1>14, <1>16
    <2> HIDE DEF k
    <2>2. place(k) \in mine /\ Verdict(copies[place(k)]) = "found" /\ prf(k) = Prfs[p]
        BY <1>9, <1>13, <2>1
    <2>3. answer = Outcome("found", copies[place(k)].plain, s, Prfs[p]) BY <1>7, <2>1, <2>2
    <2>4. QED BY <2>2, <2>3
<1>19. decisive = {} /\ findings # {} => answer.out # "found" /\ answer.out # Miss
    <2> HAVE decisive = {} /\ findings # {}
    <2>1. PICK k \in findings : answer = said[k] BY <1>1, <1>15
    <2>2. k \in tries /\ v(k) # Miss /\ v(k) # "found" BY <1>12, <1>16, <2>1
    <2>3. QED BY <1>8, <2>1, <2>2
<1>20. decisive = {} /\ findings = {} => answer.out = Miss BY <1>1 DEF Outcome
<1>21. good # {} => decisive # {}
    <2> HAVE good # {}
    <2>1. PICK o \in mine : Verdict(copies[o]) = "found" OBVIOUS
    <2>2. PICK k \in tries : v(k) = "found" BY <1>10, <2>1
    <2>3. QED BY <1>12, <2>2
<1>22. (\A o \in mine : Verdict(copies[o]) = Miss) <=> decisive = {} /\ findings = {}
    <2>1. ASSUME \A o \in mine : Verdict(copies[o]) = Miss PROVE decisive = {} /\ findings = {}
        <3>1. \A k \in tries : v(k) = Miss BY <1>9, <2>1
        <3>2. QED BY <1>11, <1>13, <1>16, <3>1
    <2>2. ASSUME findings = {}, NEW o \in mine PROVE Verdict(copies[o]) = Miss
        BY <1>10, <1>17, <2>2
    <2>3. QED BY <2>1, <2>2
<1>23. decisive # {} => answer.out = "found" BY <1>18 DEF Outcome
<1>24. /\ answer.out = "found" <=> good # {}
       /\ answer.out = "found" => \E o \in good : answer = Outcome("found", copies[o].plain, s, Prfs[p])
       /\ answer.out = Miss <=> \A o \in mine : Verdict(copies[o]) = Miss
    <2> HIDE DEF good
    <2>1. decisive # {} => good # {} BY <1>18
    <2>2. CASE decisive # {} BY <1>13, <1>18, <1>22, <1>23, <2>1, <2>2
    <2>3. CASE decisive = {} /\ findings # {} BY <1>19, <1>21, <1>22, <2>3
    <2>4. CASE decisive = {} /\ findings = {} BY <1>13, <1>20, <1>21, <1>22, <2>4
    <2>5. QED BY <2>2, <2>3, <2>4
<1>25. Accounted(answer, copies, mine, s, Prfs[p]) BY <1>24 DEF Accounted, good
<1>26. QED BY <1>25 DEF mine, answer

-----------------------------------------------------------------------------
(* The layout of ExfatFormat.  There are three cluster sizes.  With the size
   a number, everything the layout is computed from is linear, so the facts
   are proved for one size after the other. *)

(* The numbers that something is rounded up to. *)
Steps == {8, 64, 256, 512, 4096, 32768, 131072, 1048576}

(* Rounding up by a number that the solver sees. *)
LEMMA CeilBound ==
    ASSUME NEW x \in Nat, NEW y \in Steps
    PROVE  /\ CeilDiv(x, y) \in Nat
           /\ x <= CeilDiv(x, y) * y
           /\ x > 0 => CeilDiv(x, y) > 0
  <1> USE DEF Steps
  <1>1. CASE y = 8 BY <1>1 DEF CeilDiv
  <1>2. CASE y = 64 BY <1>2 DEF CeilDiv
  <1>3. CASE y = 256 BY <1>3 DEF CeilDiv
  <1>4. CASE y = 512 BY <1>4 DEF CeilDiv
  <1>5. CASE y = 4096 BY <1>5 DEF CeilDiv
  <1>6. CASE y = 32768 BY <1>6 DEF CeilDiv
  <1>7. CASE y = 131072 BY <1>7 DEF CeilDiv
  <1>8. CASE y = 1048576 BY <1>8 DEF CeilDiv
  <1> QED BY <1>1, <1>2, <1>3, <1>4, <1>5, <1>6, <1>7, <1>8

(* Division by a cluster size leaves nothing over that counts. *)
LEMMA FloorBound ==
    ASSUME NEW x \in Int, NEW s \in {8, 64, 256}
    PROVE  x \div s \in Int /\ (x \div s) * s <= x
  <1>1. CASE s = 8 BY <1>1
  <1>2. CASE s = 64 BY <1>2
  <1>3. CASE s = 256 BY <1>3
  <1> QED BY <1>1, <1>2, <1>3

LEMMA FloorMonotone ==
    ASSUME NEW x \in Int, NEW y \in Int, x <= y, NEW s \in {8, 64, 256}
    PROVE  x \div s <= y \div s
  <1>1. CASE s = 8 BY <1>1
  <1>2. CASE s = 64 BY <1>2
  <1>3. CASE s = 256 BY <1>3
  <1> QED BY <1>1, <1>2, <1>3

LEMMA ClusterSizes ==
    ASSUME NEW b \in Nat
    PROVE  /\ Spc(b) \in {8, 64, 256} /\ Spc(b) \in Steps
           /\ ClusterLen(b) \in Nat \ {0} /\ ClusterLen(b) \in Steps
  BY DEF Spc, ClusterLen, BPS, Steps

(* What a number becomes in 32 and in 64 bits. *)
LEMMA InAWord ==
    ASSUME NEW x \in Nat
    PROVE  /\ AsU32(x) \in Nat /\ AsU32(x) < Word
           /\ x < Word => AsU32(x) = x
           /\ Word <= x /\ x < 2 * Word => AsU32(x) = x - Word
  BY WordAssumption DEF AsU32

LEMMA InALongWord ==
    ASSUME NEW x \in Int
    PROVE  /\ AsU64(x) \in Nat /\ AsU64(x) < LongWord
           /\ 0 <= x /\ x < LongWord => AsU64(x) = x
           /\ LongWord <= x /\ x < 2 * LongWord => AsU64(x) = x - LongWord
  BY WordAssumption DEF AsU64

(* Where the FAT and the heap lie, and how many clusters there are. *)
LEMMA FatAndHeap ==
    ASSUME NEW b \in Nat, Fits(b)
    PROVE  /\ TotalSectors(b) \in Nat
           /\ FatOffset(b) \in Nat /\ FatOffset(b) >= 24
           /\ FatLength(b) \in Nat /\ FatLength(b) > 0
           /\ HeapOffset(b) = FatOffset(b) + FatLength(b)
           /\ Count(b) \in Nat
           /\ HeapOffset(b) + Count(b) * Spc(b) <= TotalSectors(b)
           /\ (Count(b) + 2) * 4 <= FatLength(b) * 512
           /\ Addressable(b) => HeapOffset(b) < Word
  <1> DEFINE s == Spc(b)
             T == TotalSectors(b)
             F == FatOffset(b)
             L == FatLength(b)
             M == MaxClusters(b)
             need == CeilDiv((M + 2) * 4, 512)
  <1>1. s \in {8, 64, 256} /\ s \in Steps BY ClusterSizes
  <1>2. T \in Nat BY DEF TotalSectors, BPS
  <1>3. F \in Nat /\ F >= 24 /\ F <= 256
    <2>1. F = CeilDiv(24, s) * s BY DEF FatOffset, RoundUp, BOOT_SECTORS
    <2>2. CASE s = 8 BY <2>1, <2>2 DEF CeilDiv
    <2>3. CASE s = 64 BY <2>1, <2>3 DEF CeilDiv
    <2>4. CASE s = 256 BY <2>1, <2>4 DEF CeilDiv
    <2> QED BY <2>2, <2>3, <2>4, <1>1
  <1>4. M \in Nat
    <2>1. T - F \in Int /\ T - F > 0 BY <1>2, <1>3 DEF Fits
    <2>2. M = (T - F) \div s BY DEF MaxClusters
    <2>3. 0 \div s <= (T - F) \div s BY <2>1, <1>1, FloorMonotone
    <2>4. 0 \div s = 0 BY <1>1
    <2>5. M \in Int BY <2>1, <2>2, <1>1, FloorBound
    <2> QED BY <2>2, <2>3, <2>4, <2>5
  <1>5. need \in Nat /\ (M + 2) * 4 <= need * 512 /\ need > 0
    <2>1. (M + 2) * 4 \in Nat /\ (M + 2) * 4 > 0 BY <1>4
    <2>2. 512 \in Steps BY DEF Steps
    <2>h. HIDE DEF M
    <2> QED BY <2>1, <2>2, CeilBound
  <1>6. L \in Nat /\ need <= L
    <2>1. L = CeilDiv(need, s) * s BY DEF FatLength, RoundUp, BPS
    <2>h. HIDE DEF need
    <2>2. CeilDiv(need, s) \in Nat /\ need <= CeilDiv(need, s) * s
      BY <1>1, <1>5, CeilBound
    <2> QED BY <2>1, <2>2, <1>1
  <1>7. HeapOffset(b) = F + L BY DEF HeapOffset
  <1>h. HIDE DEF M, need
  <1>8. Count(b) \in Int /\ Count(b) * s <= T - HeapOffset(b)
    <2>1. T - HeapOffset(b) \in Int BY <1>2, <1>3, <1>6, <1>7
    <2> QED BY <2>1, <1>1, FloorBound DEF Count
  <1>9. Count(b) <= M
    <2>1. T - HeapOffset(b) <= T - F BY <1>2, <1>3, <1>6, <1>7
    <2>2. T - HeapOffset(b) \in Int /\ T - F \in Int BY <1>2, <1>3, <1>6, <1>7
    <2> QED BY <2>1, <2>2, <1>1, FloorMonotone DEF Count, M, MaxClusters
  <1>10. Count(b) \in Nat
    <2>1. T - HeapOffset(b) \in Int /\ 0 <= T - HeapOffset(b)
      BY <1>2, <1>3, <1>6, <1>7 DEF Fits
    <2>2. 0 \div s <= (T - HeapOffset(b)) \div s BY <2>1, <1>1, FloorMonotone
    <2>3. 0 \div s = 0 BY <1>1
    <2> QED BY <2>2, <2>3, <1>8 DEF Count
  <1>11. HeapOffset(b) + Count(b) * s <= T
    <2>1. Count(b) * s \in Int BY <1>10, <1>1
    <2> QED BY <2>1, <1>2, <1>3, <1>6, <1>7, <1>8
  <1>12. (Count(b) + 2) * 4 <= L * 512
    BY <1>4, <1>5, <1>6, <1>9, <1>10
  <1>13. Addressable(b) => HeapOffset(b) < Word
    <2> SUFFICES ASSUME Addressable(b) PROVE HeapOffset(b) < Word OBVIOUS
    <2>1. T - F \in Nat BY <1>2, <1>3 DEF Fits
    <2>2. need = CeilDiv(((T - F) \div s + 2) * 4, 512) BY Zenon DEF need, M, MaxClusters
    <2>3. L = CeilDiv(need, s) * s BY DEF FatLength, RoundUp, BPS, need, M
    <2>4. CeilDiv(need, s) \in Nat BY <1>1, <1>5, CeilBound
    <2>5. CeilDiv(need, s) * s \in Int BY <2>4, <1>1
    <2>6. Count(b) = (T - F - CeilDiv(need, s) * s) \div s
        <3>1. Count(b) = (T - HeapOffset(b)) \div s BY DEF Count
        <3>2. T - HeapOffset(b) = T - F - CeilDiv(need, s) * s BY <1>2, <1>3, <1>6, <1>7, <2>3, <2>5
        <3>3. QED BY <3>1, <3>2, Zenon
    <2>7. Count(b) + 2 < Word BY DEF Addressable
    <2>h. HIDE DEF s, T, F, L
    <2>8. Word \in Nat /\ Word >= 65536 BY WordAssumption
    <2>9. CeilDiv(need, s) * s + 256 < Word
        <3> DEFINE x == T - F
                   k == CeilDiv(need, s)
                   C == Count(b)
        <3>1. /\ x \in Nat /\ k \in Nat /\ C \in Nat /\ need \in Nat
              /\ need = CeilDiv((x \div s + 2) * 4, 512)
              /\ C = (x - k * s) \div s /\ C + 2 < Word
            BY <1>5, <1>10, <2>1, <2>2, <2>4, <2>6, <2>7, Zenon
        <3>2. k = CeilDiv(need, s) OBVIOUS
        <3>h. HIDE DEF x, k, C, need
        <3>3. CASE s = 8 BY <2>8, <3>1, <3>2, <3>3 DEF CeilDiv
        <3>4. CASE s = 64 BY <2>8, <3>1, <3>2, <3>4 DEF CeilDiv
        <3>5. CASE s = 256 BY <2>8, <3>1, <3>2, <3>5 DEF CeilDiv
        <3>6. QED BY <1>1, <3>3, <3>4, <3>5 DEF k
    <2> QED BY <1>3, <1>7, <2>3, <2>5, <2>8, <2>9
  <1> QED BY <1>2, <1>3, <1>5, <1>6, <1>7, <1>10, <1>11, <1>12, <1>13

(* The metadata clusters follow each other from cluster 2 on. *)
LEMMA Metadata ==
    ASSUME NEW b \in Nat, Fits(b)
    PROVE  /\ BitmapClusters(b) \in Nat /\ BitmapClusters(b) > 0
           /\ UpcaseClusters(b) \in Nat /\ UpcaseClusters(b) > 0
           /\ BitmapLen(b) \in Nat
           /\ Count(b) <= 8 * BitmapLen(b)
           /\ BitmapLen(b) <= BitmapClusters(b) * ClusterLen(b)
           /\ UPCASE_LEN <= UpcaseClusters(b) * ClusterLen(b)
  <1>1. Count(b) \in Nat BY FatAndHeap
  <1>2. ClusterLen(b) \in Nat \ {0} /\ ClusterLen(b) \in Steps BY ClusterSizes
  <1>3. UpcaseClusters(b) \in Nat /\ UpcaseClusters(b) > 0
        /\ UPCASE_LEN <= UpcaseClusters(b) * ClusterLen(b)
    <2>1. UPCASE_LEN \in Nat /\ UPCASE_LEN > 0 BY DEF UPCASE_LEN
    <2> QED BY <2>1, <1>2, CeilBound DEF UpcaseClusters
  <1>4. BitmapLen(b) \in Nat /\ Count(b) <= 8 * BitmapLen(b)
    <2>1. CeilDiv(Count(b), 8) \in Nat /\ Count(b) <= CeilDiv(Count(b), 8) * 8
      BY <1>1, CeilBound DEF Steps
    <2> QED BY <2>1, <1>1 DEF BitmapLen
  <1>5. /\ BitmapClusters(b) \in Nat
        /\ BitmapLen(b) <= BitmapClusters(b) * ClusterLen(b)
        /\ BitmapLen(b) > 0 => BitmapClusters(b) > 0
    BY <1>2, <1>4, CeilBound DEF BitmapClusters
  <1>6. Count(b) > 0
    BY <1>1, <1>3, <1>5 DEF Fits, UsedClusters
  <1> QED BY <1>1, <1>3, <1>4, <1>5, <1>6

(* With these facts as numbers, the extents are where they should be. *)
LEMMA Clusters ==
    ASSUME NEW s \in {8, 64, 256}, NEW H \in Nat, NEW T \in Nat, NEW C \in Nat,
           NEW bc \in Nat, NEW uc \in Nat, bc > 0, uc > 0,
           H + C * s <= T, 2 + bc + uc + 1 <= C + 2
    PROVE  /\ H + (2 - 2) * s = H
           /\ H < H + ((2 + bc) - 2) * s
           /\ H + ((2 + bc) - 2) * s < H + ((2 + bc + uc) - 2) * s
           /\ H + ((2 + bc + uc) - 2) * s < H + ((2 + bc + uc + 1) - 2) * s
           /\ H + ((2 + bc + uc + 1) - 2) * s <= T
  <1>1. CASE s = 8 BY <1>1
  <1>2. CASE s = 64 BY <1>2
  <1>3. CASE s = 256 BY <1>3
  <1> QED BY <1>1, <1>2, <1>3

(* Whatever its length, a volume that the formatter accepts has all parts
   on it and apart, and the root directory in its heap. *)
LEMMA PartsApart ==
    ASSUME NEW b \in Nat, Fits(b)
    PROVE  /\ \A p \in Parts : Inside(Extent(p, b), b)
           /\ \A p, q \in Parts : p # q => Apart(Extent(p, b), Extent(q, b))
           /\ RootFirst(b) \in Nat /\ 2 <= RootFirst(b) /\ RootFirst(b) < Count(b) + 2
  <1> DEFINE s == Spc(b)
             H == HeapOffset(b)
             T == TotalSectors(b)
             F == FatOffset(b)
             C == Count(b)
             bc == BitmapClusters(b)
             uc == UpcaseClusters(b)
             up == ClusterStart(UpcaseFirst(b), b)
             ro == ClusterStart(RootFirst(b), b)
             en == ClusterStart(RootFirst(b) + 1, b)
  <1>1. s \in {8, 64, 256} BY ClusterSizes
  <1>2. /\ T \in Nat /\ F \in Nat /\ F >= 24 /\ H \in Nat /\ H > F /\ C \in Nat
        /\ H + C * s <= T
    BY FatAndHeap
  <1>3. bc \in Nat /\ uc \in Nat /\ bc > 0 /\ uc > 0 BY Metadata
  <1>4. RootFirst(b) = 2 + bc + uc /\ RootFirst(b) + 1 <= C + 2
    BY DEF RootFirst, UpcaseFirst, Fits
  <1>5. /\ ClusterStart(2, b) = H
        /\ H < up /\ up < ro /\ ro < en /\ en <= T
        /\ up \in Int /\ ro \in Int /\ en \in Int
    <2>1. ClusterStart(2, b) = H + (2 - 2) * s BY Zenon DEF ClusterStart
    <2>2. up = H + ((2 + bc) - 2) * s BY Zenon DEF ClusterStart, UpcaseFirst
    <2>3. ro = H + ((2 + bc + uc) - 2) * s BY <1>4, Zenon DEF ClusterStart
    <2>4. en = H + ((2 + bc + uc + 1) - 2) * s BY <1>4, Zenon DEF ClusterStart
    <2>5. 2 + bc + uc + 1 <= C + 2 BY <1>4
    <2>6. \A k \in Int : H + k * s \in Int BY <1>1, <1>2
    <2>h. HIDE DEF s, H, T, C, bc, uc, up, ro, en
    <2>7. (2 + bc) - 2 \in Int /\ (2 + bc + uc) - 2 \in Int /\ (2 + bc + uc + 1) - 2 \in Int BY <1>3
    <2>8. up \in Int /\ ro \in Int /\ en \in Int BY <2>2, <2>3, <2>4, <2>6, <2>7
    <2>9. /\ H + (2 - 2) * s = H
          /\ H < H + ((2 + bc) - 2) * s
          /\ H + ((2 + bc) - 2) * s < H + ((2 + bc + uc) - 2) * s
          /\ H + ((2 + bc + uc) - 2) * s < H + ((2 + bc + uc + 1) - 2) * s
          /\ H + ((2 + bc + uc + 1) - 2) * s <= T
      BY <2>5, <1>1, <1>2, <1>3, Clusters
    <2> QED BY <2>1, <2>2, <2>3, <2>4, <2>8, <2>9
  <1>h. HIDE DEF H, T, F, up, ro, en
  <1>6. /\ Extent("fat", b) = Sectors(F, H)
        /\ Extent("bitmap", b) = Sectors(H, up)
        /\ Extent("upcase", b) = Sectors(up, ro)
        /\ Extent("root", b) = Sectors(ro, en)
        /\ Extent("boot", b) = Sectors(0, 12)
        /\ Extent("boot copy", b) = Sectors(12, 24)
    BY <1>5 DEF Extent, F, H, up, ro, en
  <1>7. \A p \in Parts : Inside(Extent(p, b), b)
    <2>1. \A lo, hi : 0 <= lo /\ lo < hi /\ hi <= T => Inside(Sectors(lo, hi), b)
      BY DEF Inside, Sectors, T
    <2>2. \A p \in Parts : \E lo, hi : Extent(p, b) = Sectors(lo, hi) /\ 0 <= lo /\ lo < hi /\ hi <= T
      <3>1. 0 <= F /\ F < H /\ H <= T /\ 0 <= H /\ up <= T /\ 0 <= up /\ ro <= T /\ 0 <= ro /\ 24 <= T
        BY <1>2, <1>5
      <3>2. \A p \in Parts : \/ Extent(p, b) = Sectors(F, H) \/ Extent(p, b) = Sectors(H, up)
                              \/ Extent(p, b) = Sectors(up, ro) \/ Extent(p, b) = Sectors(ro, en)
                              \/ Extent(p, b) = Sectors(0, 12) \/ Extent(p, b) = Sectors(12, 24)
        BY <1>6, Zenon DEF Parts
      <3>3. 0 <= 0 /\ 0 < 12 /\ 12 <= T /\ 0 <= 12 /\ 12 < 24 BY <3>1, <1>2
      <3> QED BY <3>1, <3>2, <3>3, <1>5, Zenon
    <2> QED BY <2>1, <2>2
  <1>8. \A p, q \in Parts : p # q => Apart(Extent(p, b), Extent(q, b))
    <2>1. \A lo, hi, lo2, hi2 : hi <= lo2 => /\ Apart(Sectors(lo, hi), Sectors(lo2, hi2))
                                            /\ Apart(Sectors(lo2, hi2), Sectors(lo, hi))
      BY DEF Apart, Sectors
    <2>2. /\ 12 <= F /\ 24 <= F /\ 12 <= H /\ 24 <= H /\ 12 <= up /\ 24 <= up /\ 12 <= ro /\ 24 <= ro
          /\ H <= up /\ H <= ro /\ up <= ro /\ 12 <= 12 /\ H <= H /\ up <= up /\ ro <= ro
      BY <1>2, <1>5
    <2>3. \A q \in Parts : q # "fat" => Apart(Sectors(F, H), Extent(q, b)) BY <2>1, <2>2, <1>6, Zenon DEF Parts
    <2>4. \A q \in Parts : q # "bitmap" => Apart(Sectors(H, up), Extent(q, b)) BY <2>1, <2>2, <1>6, Zenon DEF Parts
    <2>5. \A q \in Parts : q # "upcase" => Apart(Sectors(up, ro), Extent(q, b)) BY <2>1, <2>2, <1>6, Zenon DEF Parts
    <2>6. \A q \in Parts : q # "root" => Apart(Sectors(ro, en), Extent(q, b)) BY <2>1, <2>2, <1>6, Zenon DEF Parts
    <2>7. \A q \in Parts : q # "boot" => Apart(Sectors(0, 12), Extent(q, b)) BY <2>1, <2>2, <1>6, Zenon DEF Parts
    <2>8. \A q \in Parts : q # "boot copy" => Apart(Sectors(12, 24), Extent(q, b)) BY <2>1, <2>2, <1>6, Zenon DEF Parts
    <2>9. \A p \in Parts : p = "fat" \/ p = "bitmap" \/ p = "upcase" \/ p = "root"
                           \/ p = "boot" \/ p = "boot copy"
      BY DEF Parts
    <2> SUFFICES ASSUME NEW p \in Parts, NEW q \in Parts, p # q
                 PROVE  Apart(Extent(p, b), Extent(q, b))
      OBVIOUS
    <2>10. CASE p = "fat" BY <2>3, <2>10, <1>6, Zenon
    <2>11. CASE p = "bitmap" BY <2>4, <2>11, <1>6, Zenon
    <2>12. CASE p = "upcase" BY <2>5, <2>12, <1>6, Zenon
    <2>13. CASE p = "root" BY <2>6, <2>13, <1>6, Zenon
    <2>14. CASE p = "boot" BY <2>7, <2>14, <1>6, Zenon
    <2>15. CASE p = "boot copy" BY <2>8, <2>15, <1>6, Zenon
    <2> QED BY <2>9, <2>10, <2>11, <2>12, <2>13, <2>14, <2>15, Zenon
  <1>9. RootFirst(b) \in Nat /\ 2 <= RootFirst(b) /\ RootFirst(b) < C + 2
    BY <1>2, <1>3, <1>4
  <1> QED BY <1>7, <1>8, <1>9

(* Of the volumes the formatter accepts exactly those with fewer than 2^32 - 2
   clusters have a layout to rely on: all parts on the volume and apart, tables
   large enough for every cluster, and a boot region that the reader accepts
   and takes the same layout from (format.rs:69-121 and 204-208, boot.rs:56-74).
   Beyond, which is from 512 TiB on, the formatter reports no error, and the
   reader refuses the volume or takes it for a shorter one. *)
THEOREM LayoutIsSound == \A b \in Nat : Fits(b) => (SoundLayout(b) <=> Addressable(b))
  <1> SUFFICES ASSUME NEW b \in Nat, Fits(b) PROVE SoundLayout(b) <=> Addressable(b) OBVIOUS
  <1> DEFINE F == FatOffset(b)
             L == FatLength(b)
             H == HeapOffset(b)
             C == Count(b)
             R == RootFirst(b)
  <1>1. /\ F \in Nat /\ F >= 24 /\ L \in Nat /\ L > 0 /\ H = F + L /\ C \in Nat
        /\ Addressable(b) => H < Word
    BY FatAndHeap
  <1>2. R \in Nat /\ 2 <= R /\ R < C + 2 BY PartsApart
  <1>3. Word \in Nat /\ Word >= 65536 BY WordAssumption
  <1>4. /\ Stored(b).fatOffset = AsU32(F) /\ Stored(b).fatLength = AsU32(L)
        /\ Stored(b).heapOffset = AsU32(H) /\ Stored(b).count = AsU32(C)
        /\ Stored(b).rootFirst = AsU32(R) /\ Geometry(b).count = C
    BY DEF Stored, Geometry
  <1>5. Addressable(b) <=> C + 2 < Word BY DEF Addressable
  <1>6. Spc(b) <= 65536 BY ClusterSizes
  <1>7. ASSUME Addressable(b) PROVE SoundLayout(b)
    <2>h. HIDE DEF F, L, H, C, R
    <2>1. F < Word /\ L < Word /\ H < Word /\ C < Word /\ R < Word /\ C + 2 < Word
        BY <1>1, <1>2, <1>3, <1>5, <1>7
    <2>2. AsU32(F) = F /\ AsU32(L) = L /\ AsU32(H) = H /\ AsU32(C) = C /\ AsU32(R) = R
        BY <2>1, <1>1, <1>2, <1>3, InAWord
    <2>3. AsU32(C + 2) = C + 2 BY <2>1, <1>1, <1>3, InAWord
    <2>4. BootAccepted(b) BY <1>1, <1>2, <1>4, <1>6, <2>2, <2>3 DEF BootAccepted
    <2>5. Stored(b) = Geometry(b) BY <2>2 DEF Stored, Geometry, F, L, H, C, R
    <2>6. /\ (Count(b) + 2) * 4 <= FatLength(b) * BPS
          /\ HeapOffset(b) + Count(b) * Spc(b) <= TotalSectors(b)
        BY FatAndHeap DEF BPS
    <2>7. QED BY <2>4, <2>5, <2>6, PartsApart, Metadata DEF SoundLayout
  <1>8. ASSUME SoundLayout(b) PROVE Addressable(b)
    <2>1. AsU32(C) = C
        <3>1. Stored(b) = Geometry(b) BY <1>8 DEF SoundLayout
        <3>2. QED BY <3>1, <1>4
    <2>2. AsU32(R) >= 2 /\ AsU32(R) < AsU32(C + 2)
        <3>1. BootAccepted(b) BY <1>8 DEF SoundLayout
        <3>2. 2 <= Stored(b).rootFirst /\ Stored(b).rootFirst < AsU32(Stored(b).count + 2)
            BY <3>1 DEF BootAccepted
        <3>h. HIDE DEF C, R
        <3>3. 2 <= AsU32(R) /\ AsU32(R) < AsU32(C + 2) BY <3>2, <1>4, <2>1
        <3>4. AsU32(R) \in Nat BY <1>2, InAWord
        <3>5. QED BY <3>3, <3>4
    <2>h. HIDE DEF C, R
    <2>3. C < Word BY <2>1, <1>1, InAWord
    <2>4. AsU32(R) \in Nat /\ AsU32(C + 2) \in Nat BY <1>1, <1>2, InAWord
    <2>5. Word <= C + 2 => AsU32(C + 2) = C + 2 - Word
        <3>1. C + 2 \in Nat /\ C + 2 < 2 * Word BY <2>3, <1>1, <1>3
        <3>2. QED BY <3>1, <1>1, <1>3, InAWord
    <2>6. QED BY <2>2, <2>3, <2>4, <2>5, <1>1, <1>3, <1>5
  <1>9. QED BY <1>7, <1>8

-----------------------------------------------------------------------------
(* Descriptors *)

(* The call owns exactly the descriptors it will close, each once. *)
Owns == \A i \in 1 .. Len(handles) : fds[handles[i]] = "call"
Once == \A i, j \in 1 .. Len(handles) : handles[i] = handles[j] => i = j
NoneForgotten ==
    ~Leaks => \A f \in Fds : fds[f] = "call" => \E i \in 1 .. Len(handles) : handles[i] = f
NotBegun ==
    call = NoCall => todo = <<>> /\ handles = <<>> /\ \A f \in Fds : fds[f] # "call"

DescriptorInv ==
    /\ fds \in [Fds -> {"free", "call", "other"}] /\ handles \in Seq(Fds)
    /\ Owns /\ Once /\ NoneForgotten /\ NotBegun /\ ~stray

LEMMA DescriptorInit == Init => DescriptorInv
<1> SUFFICES ASSUME Init PROVE DescriptorInv OBVIOUS
<1>1. fds = [f \in Fds |-> "free"] /\ handles = <<>> /\ todo = <<>> /\ stray = FALSE
    BY DEF Init
<1>2. handles \in Seq(Fds) /\ Len(handles) = 0 BY <1>1
<1>3. QED BY <1>1, <1>2 DEF DescriptorInv, Owns, Once, NoneForgotten, NotBegun

(* Steps that leave the descriptors alone. *)
LEMMA OthersKeep ==
    ASSUME DescriptorInv, UNCHANGED <<fds, handles, stray, call>>, todo' = todo \/ call # NoCall
    PROVE  DescriptorInv'
<1>1. Leaks' = Leaks BY DEF Leaks
<1>2. QED BY <1>1 DEF DescriptorInv, Owns, Once, NoneForgotten, NotBegun

(* A call has begun while it has steps left. *)
LEMMA RunningCall == DescriptorInv /\ todo # <<>> => call # NoCall
BY DEF DescriptorInv, NotBegun

(* A call starts with the descriptor it is given. *)
LEMMA BeginKeeps == DescriptorInv /\ Begin => DescriptorInv'
<1> SUFFICES ASSUME DescriptorInv, Begin PROVE DescriptorInv' OBVIOUS
<1>1. /\ call = NoCall /\ handles = <<>>
      /\ \A f \in Fds : fds[f] # "call"
      /\ fds \in [Fds -> {"free", "call", "other"}] /\ ~stray /\ stray' = stray
    BY DEF Begin, DescriptorInv, NotBegun
<1>2. PICK c \in Requests, e \in Free :
        /\ call' = c
        /\ IF c.via = "cli" THEN UNCHANGED <<fds, handles>>
           ELSE /\ fds' = [fds EXCEPT ![e] = "call"]
                /\ handles' = IF Refused(c) /\ c.hidden THEN <<>> ELSE Owned(e)
    BY DEF Begin
<1>3. c # NoCall /\ c.via \in {"ffi", "cli"} /\ c.hidden \in BOOLEAN /\ c.named \in BOOLEAN
    BY RequestsAssumption DEF NoCall
<1>4. e \in Fds BY DEF Free
<1>5. CASE c.via = "cli"
    BY <1>1, <1>2, <1>3, <1>5 DEF DescriptorInv, Owns, Once, NoneForgotten, NotBegun
<1>6. CASE c.via = "ffi" /\ handles' = <<>>
    <2>1. Refused(c) /\ c.hidden
        BY <1>2, <1>6 DEF Owned
    <2>2. Leaks' BY <1>2, <1>6, <2>1 DEF Leaks, Refused
    <2>3. fds' \in [Fds -> {"free", "call", "other"}] /\ Len(handles') = 0 /\ handles' \in Seq(Fds)
        BY <1>1, <1>2, <1>6
    <2>4. QED BY <1>1, <1>2, <1>3, <2>2, <2>3 DEF DescriptorInv, Owns, Once, NoneForgotten, NotBegun
<1>7. CASE c.via = "ffi" /\ handles' = <<e>>
    <2>1. fds' = [fds EXCEPT ![e] = "call"] BY <1>2, <1>7
    <2>2. /\ fds' \in [Fds -> {"free", "call", "other"}] /\ Len(handles') = 1
          /\ handles' \in Seq(Fds) /\ handles'[1] = e
        BY <1>1, <1>4, <1>7, <2>1
    <2>3. Owns' /\ Once' BY <1>1, <1>4, <2>1, <2>2 DEF Owns, Once
    <2>4. NoneForgotten' BY <1>1, <1>4, <2>1, <2>2 DEF NoneForgotten
    <2>5. QED BY <1>1, <1>2, <1>3, <2>2, <2>3, <2>4 DEF DescriptorInv, NotBegun
<1>8. QED BY <1>2, <1>3, <1>5, <1>6, <1>7 DEF Owned

(* A device opened takes a free descriptor. *)
LEMMA OpenKeeps == DescriptorInv /\ OpenDevice => DescriptorInv'
<1> SUFFICES ASSUME DescriptorInv, OpenDevice PROVE DescriptorInv' OBVIOUS
<1>1. call' = call /\ call # NoCall /\ stray' = stray
    BY RunningCall DEF OpenDevice, Continue, At
<1>2. PICK e \in Fds : /\ fds[e] = "free" /\ fds' = [fds EXCEPT ![e] = "call"]
                       /\ handles' = handles \o <<e>>
    BY DEF OpenDevice, Owned, Free
<1>3. /\ fds \in [Fds -> {"free", "call", "other"}] /\ handles \in Seq(Fds)
      /\ Owns /\ Once /\ NoneForgotten /\ ~stray
    BY DEF DescriptorInv
<1> DEFINE n == Len(handles)
<1>4. /\ handles' \in Seq(Fds) /\ Len(handles') = n + 1 /\ handles'[n + 1] = e /\ n \in Nat
      /\ \A i \in 1 .. n : handles'[i] = handles[i] /\ handles[i] \in Fds
    <2>1. <<e>> \in Seq(Fds) /\ Len(<<e>>) = 1 /\ <<e>>[1] = e BY <1>2
    <2>2. QED BY <1>2, <1>3, <2>1, ConcatProperties
<1>5. fds' \in [Fds -> {"free", "call", "other"}] BY <1>2, <1>3
<1>6. Owns' BY <1>2, <1>3, <1>4 DEF Owns
<1>7. Once' BY <1>2, <1>3, <1>4 DEF Owns, Once
<1>8. NoneForgotten' BY <1>1, <1>2, <1>3, <1>4 DEF NoneForgotten, Leaks
<1>9. QED BY <1>1, <1>3, <1>4, <1>5, <1>6, <1>7, <1>8 DEF DescriptorInv, NotBegun

(* Closing the last descriptor of the call. *)
LEMMA CloseKeeps ==
    ASSUME DescriptorInv, handles # <<>>, Close(Last(handles)), call' = call,
           todo' = todo \/ call # NoCall
    PROVE  DescriptorInv'
<1> DEFINE n == Len(handles)
<1>1. /\ fds \in [Fds -> {"free", "call", "other"}] /\ handles \in Seq(Fds)
      /\ Owns /\ Once /\ NoneForgotten /\ ~stray /\ NotBegun
    BY DEF DescriptorInv
<1>2. n \in Nat /\ n > 0 /\ \A i \in 1 .. n : handles[i] \in Fds
    BY <1>1, EmptySeq
<1>3. /\ fds' = [fds EXCEPT ![handles[n]] = "free"] /\ handles' = SubSeq(handles, 1, n - 1)
      /\ stray' = (stray \/ fds[handles[n]] # "call")
    <2>1. Last(handles) = handles[n] /\ Front(handles) = SubSeq(handles, 1, n - 1)
        BY DEF Last, Front
    <2>2. QED BY <2>1 DEF Close
<1>4. ~stray'
    <2>1. fds[handles[n]] = "call" BY <1>1, <1>2 DEF Owns
    <2>2. QED BY <1>1, <1>3, <2>1
<1>5. /\ handles' \in Seq(Fds) /\ Len(handles') = n - 1
      /\ \A i \in 1 .. n - 1 : handles'[i] = handles[i]
    <2> HIDE DEF n
    <2>1. n = Len(handles) BY DEF n
    <2>2. QED BY <1>1, <1>2, <1>3, <2>1, SubSeqProperties
<1>6. fds' \in [Fds -> {"free", "call", "other"}] BY <1>1, <1>2, <1>3
<1>7. Once' BY <1>1, <1>2, <1>5 DEF Once
<1>8. Owns' BY <1>1, <1>2, <1>3, <1>5 DEF Owns, Once
<1>9. NoneForgotten'
    <2> SUFFICES ASSUME ~Leaks', NEW f \in Fds, fds'[f] = "call"
                 PROVE  \E i \in 1 .. Len(handles') : handles'[i] = f
        BY DEF NoneForgotten
    <2>1. fds[f] = "call" /\ f # handles[n] BY <1>1, <1>2, <1>3
    <2>2. PICK i \in 1 .. n : handles[i] = f BY <1>1, <2>1 DEF NoneForgotten, Leaks
    <2>3. i \in 1 .. n - 1 BY <1>2, <2>1, <2>2
    <2>4. QED BY <1>5, <2>2, <2>3
<1>10. call # NoCall BY <1>1 DEF NotBegun
<1>11. QED BY <1>1, <1>4, <1>5, <1>6, <1>7, <1>8, <1>9, <1>10 DEF DescriptorInv, NotBegun

LEMMA OtherKeeps == DescriptorInv /\ (OtherOpens \/ OtherCloses) => DescriptorInv'
<1> SUFFICES ASSUME DescriptorInv, OtherOpens \/ OtherCloses PROVE DescriptorInv' OBVIOUS
<1>1. PICK f \in Fds : /\ fds[f] # "call"
                       /\ \E x \in {"free", "other"} : fds' = [fds EXCEPT ![f] = x]
                       /\ UNCHANGED <<handles, call, todo, stray>>
    <2>1. CASE OtherOpens BY <2>1 DEF OtherOpens, Free
    <2>2. CASE OtherCloses BY <2>2 DEF OtherCloses
    <2>3. QED BY <2>1, <2>2
<1>2. /\ fds' \in [Fds -> {"free", "call", "other"}]
      /\ \A g \in Fds : fds'[g] = "call" <=> fds[g] = "call"
    BY <1>1 DEF DescriptorInv
<1>3. \A i \in 1 .. Len(handles) : handles[i] \in Fds BY DEF DescriptorInv
<1>4. QED
    BY <1>1, <1>2, <1>3 DEF DescriptorInv, Owns, Once, NoneForgotten, NotBegun, Leaks

LEMMA KillKeeps == DescriptorInv /\ Kill => DescriptorInv'
<1> SUFFICES ASSUME DescriptorInv, Kill PROVE DescriptorInv' OBVIOUS
<1>1. /\ todo' = <<>> /\ handles' = <<>> /\ fds' = [f \in Fds |-> "free"] /\ stray' = stray
    BY DEF Kill
<1>2. handles' \in Seq(Fds) /\ Len(handles') = 0 BY <1>1
<1>3. QED BY <1>1, <1>2 DEF DescriptorInv, Owns, Once, NoneForgotten, NotBegun

(* Every action keeps the account of descriptors. *)
LEMMA DescriptorStep == DescriptorInv /\ [Next]_vars => DescriptorInv'
<1> SUFFICES ASSUME DescriptorInv, [Next]_vars PROVE DescriptorInv' OBVIOUS
<1>1. CASE Begin BY <1>1, BeginKeeps
<1>2. CASE OpenDevice BY <1>2, OpenKeeps
<1>3. CASE DropDevice BY <1>3, CloseKeeps, RunningCall DEF DropDevice, At
<1>4. CASE DropLast BY <1>4, CloseKeeps DEF DropLast
<1>5. CASE TruncateFile \/ SetLen \/ SetLenRefused \/ RequireHolds \/ WriteNoise \/ WriteCopy
    BY <1>5, OthersKeep, RunningCall
    DEF TruncateFile, SetLen, SetLenRefused, RequireHolds, WriteNoise, WriteCopy, Continue, At
<1>6. CASE Flush \/ FindVolume \/ FitsTarget \/ Lay
    BY <1>6, OthersKeep, RunningCall DEF Flush, FindVolume, FitsTarget, Lay, Continue, At
<1>7. CASE Fail BY <1>7, OthersKeep, RunningCall DEF Fail
<1>8. CASE Kill BY <1>8, KillKeeps
<1>9. CASE OtherOpens \/ OtherCloses BY <1>9, OtherKeeps
<1>10. CASE Damage BY <1>10, OthersKeep DEF Damage
<1>11. CASE UNCHANGED vars BY <1>11, OthersKeep DEF vars
<1>12. QED
    BY <1>1, <1>2, <1>3, <1>4, <1>5, <1>6, <1>7, <1>8, <1>9, <1>10, <1>11 DEF Next, Advance

(* Whatever the calls and however a creation ends, by success, an error at any
   step or a kill, with descriptors opened and closed by other threads in
   between, it closes each of its descriptors once and no other; only
   create_hidden_container refused by name leaves one open. *)
THEOREM DescriptorsAreSettled == Spec => []DescriptorsSettled
<1>1. DescriptorInv => DescriptorsSettled
    <2> SUFFICES ASSUME DescriptorInv PROVE DescriptorsSettled OBVIOUS
    <2>1. ~stray BY DEF DescriptorInv
    <2>2. ASSUME Done, ~Leaks, NEW f \in Fds PROVE fds[f] # "call"
        <3>1. handles = <<>> BY <2>2 DEF Done, Running
        <3>2. Len(handles) = 0 BY <3>1
        <3>3. QED BY <2>2, <3>2 DEF DescriptorInv, NoneForgotten
    <2>3. QED BY <2>1, <2>2 DEF DescriptorsSettled
<1>2. QED BY <1>1, DescriptorInit, DescriptorStep, PTL DEF Spec

-----------------------------------------------------------------------------
(* Scripts *)

IsSequence(s) == \E S : s \in Seq(S)

(* t is what s has after its first i steps, for as long as t is. *)
Lies(t, s, i) == i + Len(t) <= Len(s) /\ \A k \in 1 .. Len(t) : s[i + k] = t[k]

(* Facts about sequences. *)
LEMMA LengthOf == ASSUME NEW s, IsSequence(s) PROVE Len(s) \in Nat /\ DOMAIN s = 1 .. Len(s)
BY LenProperties DEF IsSequence

LEMMA Single == ASSUME NEW x PROVE IsSequence(<<x>>) /\ Len(<<x>>) = 1 /\ <<x>>[1] = x
<1>1. <<x>> \in Seq({x}) OBVIOUS
<1>2. QED BY <1>1 DEF IsSequence

LEMMA Joined ==
    ASSUME NEW s, NEW t, IsSequence(s), IsSequence(t)
    PROVE  /\ IsSequence(s \o t) /\ Len(s \o t) = Len(s) + Len(t)
           /\ Lies(s, s \o t, 0) /\ Lies(t, s \o t, Len(s))
<1>1. PICK S, T : s \in Seq(S) /\ t \in Seq(T) BY DEF IsSequence
<1>2. s \in Seq(S \cup T) /\ t \in Seq(S \cup T)
    <2>1. \A A, B : A \subseteq B => Seq(A) \subseteq Seq(B)
        <3> TAKE A, B
        <3> HAVE A \subseteq B
        <3>1. \A u \in Seq(A) : u \in Seq(B)
            <4> TAKE u \in Seq(A)
            <4>1. Len(u) \in Nat /\ u \in [1 .. Len(u) -> A] BY LenProperties
            <4>2. u \in [1 .. Len(u) -> B] BY <4>1
            <4>3. QED BY <4>1, <4>2, SeqDef
        <3>2. QED BY <3>1
    <2>2. QED BY <1>1, <2>1
<1> DEFINE u == s \o t
<1>3. /\ u \in Seq(S \cup T) /\ Len(u) = Len(s) + Len(t)
      /\ \A i \in 1 .. Len(s) + Len(t) : u[i] = IF i <= Len(s) THEN s[i] ELSE t[i - Len(s)]
    BY <1>2, ConcatProperties
<1>4. Len(s) \in Nat /\ Len(t) \in Nat BY <1>1, LenProperties
<1> HIDE DEF u
<1>5. IsSequence(u) BY <1>3 DEF IsSequence
<1>6. Lies(s, u, 0) BY <1>3, <1>4 DEF Lies
<1>7. Lies(t, u, Len(s))
    <2> DEFINE n == Len(s)
    <2>1. \A k \in 1 .. Len(t) : n + k \in 1 .. n + Len(t) /\ ~(n + k <= n) /\ (n + k) - n = k
        BY <1>4
    <2>2. QED BY <1>3, <1>4, <2>1 DEF Lies
<1>8. QED BY <1>3, <1>5, <1>6, <1>7 DEF u

LEMMA LiesIn ==
    ASSUME NEW s, NEW t, NEW r, NEW i \in Nat, NEW j \in Nat,
           IsSequence(s), IsSequence(t), IsSequence(r), Lies(t, s, i), Lies(r, t, j)
    PROVE  Lies(r, s, i + j)
<1>1. Len(s) \in Nat /\ Len(t) \in Nat /\ Len(r) \in Nat BY LengthOf
<1>2. \A k \in 1 .. Len(r) : j + k \in 1 .. Len(t) /\ i + (j + k) = (i + j) + k
    BY <1>1 DEF Lies
<1>3. \A k \in 1 .. Len(r) : s[i + (j + k)] = t[j + k] /\ t[j + k] = r[k] BY <1>2 DEF Lies
<1>4. QED BY <1>1, <1>2, <1>3 DEF Lies

(* What the blocks of a script do, when the first k steps are done. *)
CopyStep(c, v, o) == Copy(c, v, HeaderOf(c, v), o)
Opens(s, k) ==
    \A i \in 1 .. k : s[i].op \in {"truncate", "set_len", "try set_len", "device"}
CreatesVolume(c, s, k) ==
    /\ s[k + 1] = [op |-> "require", holds |-> SizeFits(c)]
    /\ s[k + 2] = Noise(0) /\ s[k + 3] = Noise(HIDDEN_OFFSET)
    /\ s[k + 4] = Noise(c.size - GROUP) /\ s[k + 5] = Noise(c.size - HIDDEN_OFFSET)
    /\ s[k + 6] = CopyStep(c, "outer", 0) /\ s[k + 7] = CopyStep(c, "outer", c.size - GROUP)
    /\ s[k + 8] = [op |-> "flush"]
CreatesHidden(c, s, k) ==
    /\ s[k + 1] = [op |-> "require", holds |-> HiddenFits(c)]
    /\ s[k + 2] = CopyStep(c, "hidden", HIDDEN_OFFSET)
    /\ s[k + 3] = CopyStep(c, "hidden", c.size - HIDDEN_OFFSET)
    /\ s[k + 4] = [op |-> "flush"]
Reopens(s, k) == s[k + 1] = [op |-> "drop"] /\ s[k + 2] = [op |-> "device"]
FormatsVolume(c, v, s, k) ==
    /\ s[k + 1] = [op |-> "find", volume |-> v]
    /\ s[k + 2] = [op |-> "fit"]
    /\ \A i \in 1 .. Parted(c) : s[k + 2 + i] = [op |-> "lay", part |-> FsOrder(c)[i]]
    /\ s[k + 3 + Parted(c)] = [op |-> "flush"]

LEMMA Listed ==
    ASSUME NEW s, NEW n \in Nat, s = [i \in 1 .. n |-> s[i]]
    PROVE  IsSequence(s) /\ Len(s) = n
<1> DEFINE T == {s[i] : i \in 1 .. n}
<1>1. s \in [1 .. n -> T] OBVIOUS
<1> HIDE DEF T
<1>2. s \in Seq(T) BY <1>1, SeqDef
<1>3. Len(s) = n BY <1>1, <1>2, LenProperties
<1>4. QED BY <1>2, <1>3 DEF IsSequence

LEMMA VolumeBlock ==
    ASSUME NEW c
    PROVE  /\ IsSequence(CreateVolume(c)) /\ Len(CreateVolume(c)) = 8
           /\ CreatesVolume(c, CreateVolume(c), 0)
<1> DEFINE places == <<0, HIDDEN_OFFSET, c.size - GROUP, c.size - HIDDEN_OFFSET>>
           r == Require(SizeFits(c))
           no == [i \in 1 .. 4 |-> Noise(places[i])]
           co == [i \in 1 .. 2 |-> Copy(c, "outer", OuterHeader(c), places[2 * i - 1])]
           f == Step("flush")
           rn == r \o no
           rnc == rn \o co
           s == rnc \o f
<1>1. IsSequence(r) /\ Len(r) = 1 /\ r[1] = [op |-> "require", holds |-> SizeFits(c)]
    BY Single DEF Require
<1>2. IsSequence(f) /\ Len(f) = 1 /\ f[1] = [op |-> "flush"] BY Single DEF Step
<1>3. IsSequence(no) /\ Len(no) = 4
      /\ no[1] = Noise(0) /\ no[2] = Noise(HIDDEN_OFFSET)
      /\ no[3] = Noise(c.size - GROUP) /\ no[4] = Noise(c.size - HIDDEN_OFFSET)
    <2>1. /\ places[1] = 0 /\ places[2] = HIDDEN_OFFSET /\ places[3] = c.size - GROUP
          /\ places[4] = c.size - HIDDEN_OFFSET
        OBVIOUS
    <2> HIDE DEF places
    <2>2. IsSequence(no) /\ Len(no) = 4
        <3>1. no = [i \in 1 .. 4 |-> no[i]] OBVIOUS
        <3> HIDE DEF no
        <3>2. QED BY <3>1, Listed
    <2>3. no[1] = Noise(places[1]) /\ no[2] = Noise(places[2]) /\ no[3] = Noise(places[3]) /\ no[4] = Noise(places[4])
        OBVIOUS
    <2> HIDE DEF no
    <2>4. QED BY <2>1, <2>2, <2>3
<1>4. IsSequence(co) /\ Len(co) = 2
      /\ co[1] = CopyStep(c, "outer", 0) /\ co[2] = CopyStep(c, "outer", c.size - GROUP)
    <2>1. places[1] = 0 /\ places[3] = c.size - GROUP OBVIOUS
    <2> HIDE DEF places
    <2>2. IsSequence(co) /\ Len(co) = 2
        <3>1. co = [i \in 1 .. 2 |-> co[i]] OBVIOUS
        <3> HIDE DEF co
        <3>2. QED BY <3>1, Listed
    <2>3. co[1] = Copy(c, "outer", OuterHeader(c), places[1]) /\ co[2] = Copy(c, "outer", OuterHeader(c), places[3])
        OBVIOUS
    <2> HIDE DEF co
    <2>4. QED BY <2>1, <2>2, <2>3 DEF CopyStep, HeaderOf
<1>5. CreateVolume(c) = s BY Zenon DEF CreateVolume
<1> HIDE DEF r, no, co, f
<1>6. IsSequence(rn) /\ Len(rn) = 5 /\ Lies(r, rn, 0) /\ Lies(no, rn, 1)
    <2>1. IsSequence(r) /\ IsSequence(no) /\ Len(r) = 1 /\ Len(no) = 4 BY <1>1, <1>3
    <2>2. IsSequence(rn) /\ Len(rn) = Len(r) + Len(no) /\ Lies(r, rn, 0) /\ Lies(no, rn, Len(r))
        BY <2>1, Joined
    <2> HIDE DEF rn
    <2>3. QED BY <2>1, <2>2
<1> HIDE DEF rn
<1>7. IsSequence(rnc) /\ Len(rnc) = 7 /\ Lies(rn, rnc, 0) /\ Lies(co, rnc, 5)
    <2>1. IsSequence(co) /\ Len(co) = 2 BY <1>4
    <2>2. IsSequence(rnc) /\ Len(rnc) = Len(rn) + Len(co) /\ Lies(rn, rnc, 0) /\ Lies(co, rnc, Len(rn))
        BY <1>6, <2>1, Joined
    <2> HIDE DEF rnc
    <2>3. QED BY <1>6, <2>1, <2>2
<1> HIDE DEF rnc
<1>8. IsSequence(s) /\ Len(s) = 8 /\ Lies(rnc, s, 0) /\ Lies(f, s, 7)
    <2>1. IsSequence(f) /\ Len(f) = 1 BY <1>2
    <2>2. IsSequence(s) /\ Len(s) = Len(rnc) + Len(f) /\ Lies(rnc, s, 0) /\ Lies(f, s, Len(rnc))
        BY <1>7, <2>1, Joined
    <2> HIDE DEF s
    <2>3. QED BY <1>7, <2>1, <2>2
<1> HIDE DEF s
<1>9. s[8] = f[1] BY <1>2, <1>8 DEF Lies
<1>10. s[6] = rnc[6] /\ s[7] = rnc[7] /\ rnc[6] = co[1] /\ rnc[7] = co[2]
    BY <1>4, <1>7, <1>8 DEF Lies
<1>11. \A i \in 1 .. 5 : s[i] = rn[i] BY <1>6, <1>7, <1>8 DEF Lies
<1>12. rn[1] = r[1] /\ \A i \in 1 .. 4 : rn[1 + i] = no[i] BY <1>1, <1>3, <1>6 DEF Lies
<1>13. /\ s[1] = r[1] /\ s[2] = no[1] /\ s[3] = no[2] /\ s[4] = no[3] /\ s[5] = no[4]
    BY <1>11, <1>12
<1>14. CreatesVolume(c, s, 0)
    <2>1. /\ 0 + 1 = 1 /\ 0 + 2 = 2 /\ 0 + 3 = 3 /\ 0 + 4 = 4 /\ 0 + 5 = 5 /\ 0 + 6 = 6
          /\ 0 + 7 = 7 /\ 0 + 8 = 8
        OBVIOUS
    <2>2. QED
        BY <1>1, <1>2, <1>3, <1>4, <1>9, <1>10, <1>13, <2>1, Zenon DEF CreatesVolume
<1>15. QED BY <1>5, <1>8, <1>14

LEMMA HiddenBlock ==
    ASSUME NEW c
    PROVE  /\ IsSequence(CreateHidden(c)) /\ Len(CreateHidden(c)) = 4
           /\ CreatesHidden(c, CreateHidden(c), 0)
<1> DEFINE places == <<HIDDEN_OFFSET, c.size - HIDDEN_OFFSET>>
           r == Require(HiddenFits(c))
           co == [i \in 1 .. 2 |-> Copy(c, "hidden", HiddenHeader(c), places[i])]
           f == Step("flush")
           rc == r \o co
           s == rc \o f
<1>1. IsSequence(r) /\ Len(r) = 1 /\ r[1] = [op |-> "require", holds |-> HiddenFits(c)]
    BY Single DEF Require
<1>2. IsSequence(f) /\ Len(f) = 1 /\ f[1] = [op |-> "flush"] BY Single DEF Step
<1>3. IsSequence(co) /\ Len(co) = 2
      /\ co[1] = CopyStep(c, "hidden", HIDDEN_OFFSET)
      /\ co[2] = CopyStep(c, "hidden", c.size - HIDDEN_OFFSET)
    <2>1. places[1] = HIDDEN_OFFSET /\ places[2] = c.size - HIDDEN_OFFSET OBVIOUS
    <2> HIDE DEF places
    <2>2. IsSequence(co) /\ Len(co) = 2
        <3>1. co = [i \in 1 .. 2 |-> co[i]] OBVIOUS
        <3> HIDE DEF co
        <3>2. QED BY <3>1, Listed
    <2>3. co[1] = Copy(c, "hidden", HiddenHeader(c), places[1]) /\ co[2] = Copy(c, "hidden", HiddenHeader(c), places[2])
        OBVIOUS
    <2> HIDE DEF co
    <2>4. QED BY <2>1, <2>2, <2>3 DEF CopyStep, HeaderOf
<1>4. CreateHidden(c) = s BY Zenon DEF CreateHidden
<1> HIDE DEF r, co, f
<1>5. IsSequence(rc) /\ Len(rc) = 3 /\ Lies(r, rc, 0) /\ Lies(co, rc, 1)
    <2>1. IsSequence(r) /\ IsSequence(co) /\ Len(r) = 1 /\ Len(co) = 2 BY <1>1, <1>3
    <2>2. IsSequence(rc) /\ Len(rc) = Len(r) + Len(co) /\ Lies(r, rc, 0) /\ Lies(co, rc, Len(r))
        BY <2>1, Joined
    <2> HIDE DEF rc
    <2>3. QED BY <2>1, <2>2
<1> HIDE DEF rc
<1>6. IsSequence(s) /\ Len(s) = 4 /\ Lies(rc, s, 0) /\ Lies(f, s, 3)
    <2>1. IsSequence(f) /\ Len(f) = 1 BY <1>2
    <2>2. IsSequence(s) /\ Len(s) = Len(rc) + Len(f) /\ Lies(rc, s, 0) /\ Lies(f, s, Len(rc))
        BY <1>5, <2>1, Joined
    <2> HIDE DEF s
    <2>3. QED BY <1>5, <2>1, <2>2
<1> HIDE DEF s
<1>7. s[4] = f[1] BY <1>2, <1>6 DEF Lies
<1>8. s[2] = rc[2] /\ s[3] = rc[3] /\ rc[2] = co[1] /\ rc[3] = co[2] BY <1>3, <1>5, <1>6 DEF Lies
<1>9. s[1] = r[1] BY <1>1, <1>5, <1>6 DEF Lies
<1>10. CreatesHidden(c, s, 0)
    <2>1. 0 + 1 = 1 /\ 0 + 2 = 2 /\ 0 + 3 = 3 /\ 0 + 4 = 4 OBVIOUS
    <2>2. QED BY <1>1, <1>2, <1>3, <1>7, <1>8, <1>9, <2>1, Zenon DEF CreatesHidden
<1>11. QED BY <1>4, <1>6, <1>10

LEMMA OrderListed ==
    ASSUME NEW c
    PROVE  Parted(c) \in {3, 6} /\ DOMAIN FsOrder(c) = 1 .. Parted(c)
<1>1. CASE c.fs = "exFAT"
    <2>1. DOMAIN WriteOrder = 1 .. 6 BY DEF WriteOrder
    <2>2. QED BY <1>1, <2>1 DEF Parted, FsOrder
<1>2. CASE c.fs # "exFAT"
    <2>1. DOMAIN FatOrder = 1 .. 3 BY DEF FatOrder
    <2>2. QED BY <1>2, <2>1 DEF Parted, FsOrder
<1>3. QED BY <1>1, <1>2

LEMMA FormatBlock ==
    ASSUME NEW c, NEW v
    PROVE  /\ IsSequence(FormatData(c, v)) /\ Len(FormatData(c, v)) = Parted(c) + 3
           /\ FormatsVolume(c, v, FormatData(c, v), 0)
<1> DEFINE n == Parted(c)
           order == FsOrder(c)
           x == Find(v)
           g == Step("fit")
           l == [i \in DOMAIN order |-> [op |-> "lay", part |-> order[i]]]
           f == Step("flush")
           gl == g \o l
           glf == gl \o f
           s == x \o glf
<1>1. IsSequence(x) /\ Len(x) = 1 /\ x[1] = [op |-> "find", volume |-> v] BY Single DEF Find
<1>2. IsSequence(f) /\ Len(f) = 1 /\ f[1] = [op |-> "flush"]
      /\ IsSequence(g) /\ Len(g) = 1 /\ g[1] = [op |-> "fit"]
    BY Single DEF Step
<1>3. IsSequence(l) /\ Len(l) = n /\ \A i \in 1 .. n : l[i] = [op |-> "lay", part |-> order[i]]
    <2>1. DOMAIN order = 1 .. n /\ n \in Nat BY OrderListed
    <2> HIDE DEF n, order
    <2>2. l = [i \in 1 .. n |-> l[i]] BY <2>1
    <2>3. \A i \in 1 .. n : l[i] = [op |-> "lay", part |-> order[i]] BY <2>1
    <2> HIDE DEF l
    <2>4. QED BY <2>1, <2>2, <2>3, Listed
<1>4. FormatData(c, v) = s BY Zenon DEF FormatData, Format, FsOrder
<1>5. n \in Nat BY OrderListed
<1> HIDE DEF x, l, f, g, n, order
<1>6. IsSequence(gl) /\ Len(gl) = n + 1 /\ Lies(g, gl, 0) /\ Lies(l, gl, 1)
    <2>1. IsSequence(g) /\ IsSequence(l) /\ Len(g) = 1 /\ Len(l) = n BY <1>2, <1>3
    <2>2. IsSequence(gl) /\ Len(gl) = Len(g) + Len(l) /\ Lies(g, gl, 0) /\ Lies(l, gl, Len(g))
        BY <2>1, Joined
    <2> HIDE DEF gl
    <2>3. QED BY <1>5, <2>1, <2>2
<1> HIDE DEF gl
<1>7. IsSequence(glf) /\ Len(glf) = n + 2 /\ Lies(gl, glf, 0) /\ Lies(f, glf, n + 1)
    <2>1. IsSequence(f) /\ Len(f) = 1 BY <1>2
    <2>2. IsSequence(glf) /\ Len(glf) = Len(gl) + Len(f) /\ Lies(gl, glf, 0) /\ Lies(f, glf, Len(gl))
        BY <1>6, <2>1, Joined
    <2> HIDE DEF glf
    <2>3. QED BY <1>5, <1>6, <2>1, <2>2
<1> HIDE DEF glf
<1>8. IsSequence(s) /\ Len(s) = n + 3 /\ Lies(x, s, 0) /\ Lies(glf, s, 1)
    <2>1. IsSequence(x) /\ Len(x) = 1 BY <1>1
    <2>2. IsSequence(s) /\ Len(s) = Len(x) + Len(glf) /\ Lies(x, s, 0) /\ Lies(glf, s, Len(x))
        BY <1>7, <2>1, Joined
    <2> HIDE DEF s
    <2>3. QED BY <1>5, <1>7, <2>1, <2>2
<1> HIDE DEF s
<1>9. s[1] = x[1] BY <1>1, <1>8 DEF Lies
<1>10. s[2] = g[1]
    <2>1. gl[1] = g[1] BY <1>2, <1>6 DEF Lies
    <2>2. glf[1] = gl[1] BY <1>5, <1>6, <1>7 DEF Lies
    <2>3. s[2] = glf[1] BY <1>5, <1>7, <1>8 DEF Lies
    <2>4. QED BY <2>1, <2>2, <2>3
<1>11. \A i \in 1 .. n : s[2 + i] = l[i]
    <2> TAKE i \in 1 .. n
    <2>1. gl[1 + i] = l[i] BY <1>3, <1>6 DEF Lies
    <2>2. glf[1 + i] = gl[1 + i] BY <1>5, <1>6, <1>7 DEF Lies
    <2>3. s[1 + (1 + i)] = glf[1 + i]
        <3>1. 1 + i \in 1 .. Len(glf) BY <1>5, <1>7
        <3>2. QED BY <1>8, <3>1 DEF Lies
    <2>4. 1 + (1 + i) = 2 + i BY <1>5
    <2>5. QED BY <2>1, <2>2, <2>3, <2>4
<1>12. s[3 + n] = f[1]
    <2>1. glf[n + 1 + 1] = f[1] BY <1>2, <1>5, <1>7 DEF Lies
    <2>2. s[1 + (n + 2)] = glf[n + 2] BY <1>5, <1>7, <1>8 DEF Lies
    <2>3. n + 1 + 1 = n + 2 /\ 1 + (n + 2) = 3 + n BY <1>5
    <2>4. QED BY <2>1, <2>2, <2>3
<1>13. FormatsVolume(c, v, s, 0)
    <2>1. 0 + 1 = 1 /\ 0 + 2 = 2 /\ 0 + 3 = 3 OBVIOUS
    <2>2. QED
        BY <1>1, <1>2, <1>3, <1>9, <1>10, <1>11, <1>12, <2>1, Zenon DEF FormatsVolume, n, order
<1>14. QED BY <1>4, <1>8, <1>13 DEF n

LEMMA PrefixOf ==
    ASSUME NEW s, NEW t, NEW r, IsSequence(s), IsSequence(t), IsSequence(r), Lies(t, s, 0),
           NEW i \in Nat, Lies(r, t, i)
    PROVE  Lies(r, s, i)
<1>1. 0 + i = i OBVIOUS
<1>2. Lies(r, s, 0 + i) BY LiesIn
<1>3. QED BY <1>1, <1>2

(* The ten parts of a creation with a hidden volume. *)
LEMMA HiddenCreation ==
    ASSUME NEW c, c.hidden
    PROVE  LET s == CreateContainer(c)
               n == Parted(c)
           IN  /\ IsSequence(s) /\ Len(s) = 2 * n + 24
               /\ Lies(Step("device"), s, 0) /\ Lies(CreateVolume(c), s, 1)
               /\ Lies(CreateHidden(c), s, 9)
               /\ Lies(Step("drop"), s, 13) /\ Lies(Step("device"), s, 14)
               /\ Lies(FormatData(c, "outer"), s, 15)
               /\ Lies(Step("drop"), s, n + 18) /\ Lies(Step("device"), s, n + 19)
               /\ Lies(FormatData(c, "hidden"), s, n + 20)
               /\ Lies(Step("drop"), s, 2 * n + 23)
<1> DEFINE n == Parted(c)
           dev == Step("device")
           drop == Step("drop")
           cv == CreateVolume(c)
           ch == CreateHidden(c)
           fo == FormatData(c, "outer")
           fh == FormatData(c, "hidden")
           d2 == dev \o cv
           d3 == d2 \o ch
           d4 == d3 \o drop
           d5 == d4 \o dev
           d6 == d5 \o fo
           d7 == d6 \o drop
           d8 == d7 \o dev
           d9 == d8 \o fh
           d10 == d9 \o drop
<1>1. /\ IsSequence(dev) /\ Len(dev) = 1 /\ IsSequence(drop) /\ Len(drop) = 1
      /\ IsSequence(cv) /\ Len(cv) = 8 /\ IsSequence(ch) /\ Len(ch) = 4
      /\ IsSequence(fo) /\ Len(fo) = n + 3 /\ IsSequence(fh) /\ Len(fh) = n + 3
    BY Single, VolumeBlock, HiddenBlock, FormatBlock DEF Step
<1>d. CreateContainer(c) = d10 BY Zenon DEF CreateContainer
<1>n. n \in Nat BY OrderListed
<1> HIDE DEF n, dev, drop, cv, ch, fo, fh
<1>2. IsSequence(d2) /\ Len(d2) = 9 /\ Lies(dev, d2, 0) /\ Lies(cv, d2, 1)
    <2>1. IsSequence(dev) /\ Len(dev) = 1 /\ IsSequence(cv) /\ Len(cv) = 8 BY <1>1
    <2>2. IsSequence(d2) /\ Len(d2) = Len(dev) + Len(cv) /\ Lies(dev, d2, 0) /\ Lies(cv, d2, Len(dev))
        BY <2>1, Joined
    <2> HIDE DEF d2
    <2>3. QED BY <1>n, <2>1, <2>2
<1> HIDE DEF d2
<1>3. IsSequence(d3) /\ Len(d3) = 13 /\ Lies(d2, d3, 0) /\ Lies(ch, d3, 9)
    <2>1. IsSequence(d2) /\ Len(d2) = 9 /\ IsSequence(ch) /\ Len(ch) = 4 BY <1>1, <1>2
    <2>2. IsSequence(d3) /\ Len(d3) = Len(d2) + Len(ch) /\ Lies(d2, d3, 0) /\ Lies(ch, d3, Len(d2))
        BY <2>1, Joined
    <2> HIDE DEF d3
    <2>3. QED BY <1>n, <2>1, <2>2
<1> HIDE DEF d3
<1>4. IsSequence(d4) /\ Len(d4) = 14 /\ Lies(d3, d4, 0) /\ Lies(drop, d4, 13)
    <2>1. IsSequence(d3) /\ Len(d3) = 13 /\ IsSequence(drop) /\ Len(drop) = 1 BY <1>1, <1>3
    <2>2. IsSequence(d4) /\ Len(d4) = Len(d3) + Len(drop) /\ Lies(d3, d4, 0) /\ Lies(drop, d4, Len(d3))
        BY <2>1, Joined
    <2> HIDE DEF d4
    <2>3. QED BY <1>n, <2>1, <2>2
<1> HIDE DEF d4
<1>5. IsSequence(d5) /\ Len(d5) = 15 /\ Lies(d4, d5, 0) /\ Lies(dev, d5, 14)
    <2>1. IsSequence(d4) /\ Len(d4) = 14 /\ IsSequence(dev) /\ Len(dev) = 1 BY <1>1, <1>4
    <2>2. IsSequence(d5) /\ Len(d5) = Len(d4) + Len(dev) /\ Lies(d4, d5, 0) /\ Lies(dev, d5, Len(d4))
        BY <2>1, Joined
    <2> HIDE DEF d5
    <2>3. QED BY <1>n, <2>1, <2>2
<1> HIDE DEF d5
<1>6. IsSequence(d6) /\ Len(d6) = n + 18 /\ Lies(d5, d6, 0) /\ Lies(fo, d6, 15)
    <2>1. IsSequence(d5) /\ Len(d5) = 15 /\ IsSequence(fo) /\ Len(fo) = n + 3 BY <1>1, <1>5
    <2>2. IsSequence(d6) /\ Len(d6) = Len(d5) + Len(fo) /\ Lies(d5, d6, 0) /\ Lies(fo, d6, Len(d5))
        BY <2>1, Joined
    <2> HIDE DEF d6
    <2>3. QED BY <1>n, <2>1, <2>2
<1> HIDE DEF d6
<1>7. IsSequence(d7) /\ Len(d7) = n + 19 /\ Lies(d6, d7, 0) /\ Lies(drop, d7, n + 18)
    <2>1. IsSequence(d6) /\ Len(d6) = n + 18 /\ IsSequence(drop) /\ Len(drop) = 1 BY <1>1, <1>6
    <2>2. IsSequence(d7) /\ Len(d7) = Len(d6) + Len(drop) /\ Lies(d6, d7, 0) /\ Lies(drop, d7, Len(d6))
        BY <2>1, Joined
    <2> HIDE DEF d7
    <2>3. QED BY <1>n, <2>1, <2>2
<1> HIDE DEF d7
<1>8. IsSequence(d8) /\ Len(d8) = n + 20 /\ Lies(d7, d8, 0) /\ Lies(dev, d8, n + 19)
    <2>1. IsSequence(d7) /\ Len(d7) = n + 19 /\ IsSequence(dev) /\ Len(dev) = 1 BY <1>1, <1>7
    <2>2. IsSequence(d8) /\ Len(d8) = Len(d7) + Len(dev) /\ Lies(d7, d8, 0) /\ Lies(dev, d8, Len(d7))
        BY <2>1, Joined
    <2> HIDE DEF d8
    <2>3. QED BY <1>n, <2>1, <2>2
<1> HIDE DEF d8
<1>9. IsSequence(d9) /\ Len(d9) = 2 * n + 23 /\ Lies(d8, d9, 0) /\ Lies(fh, d9, n + 20)
    <2>1. IsSequence(d8) /\ Len(d8) = n + 20 /\ IsSequence(fh) /\ Len(fh) = n + 3 BY <1>1, <1>8
    <2>2. IsSequence(d9) /\ Len(d9) = Len(d8) + Len(fh) /\ Lies(d8, d9, 0) /\ Lies(fh, d9, Len(d8))
        BY <2>1, Joined
    <2> HIDE DEF d9
    <2>3. QED BY <1>n, <2>1, <2>2
<1> HIDE DEF d9
<1>10. IsSequence(d10) /\ Len(d10) = 2 * n + 24 /\ Lies(d9, d10, 0) /\ Lies(drop, d10, 2 * n + 23)
    <2>1. IsSequence(d9) /\ Len(d9) = 2 * n + 23 /\ IsSequence(drop) /\ Len(drop) = 1 BY <1>1, <1>9
    <2>2. IsSequence(d10) /\ Len(d10) = Len(d9) + Len(drop) /\ Lies(d9, d10, 0) /\ Lies(drop, d10, Len(d9))
        BY <2>1, Joined
    <2> HIDE DEF d10
    <2>3. QED BY <1>n, <2>1, <2>2
<1> HIDE DEF d10
<1>19. Lies(d9, d10, 0) BY <1>10
<1>18. Lies(d8, d10, 0) BY <1>8, <1>9, <1>10, <1>19, PrefixOf
<1>17. Lies(d7, d10, 0) BY <1>7, <1>8, <1>10, <1>18, PrefixOf
<1>16. Lies(d6, d10, 0) BY <1>6, <1>7, <1>10, <1>17, PrefixOf
<1>15. Lies(d5, d10, 0) BY <1>5, <1>6, <1>10, <1>16, PrefixOf
<1>14. Lies(d4, d10, 0) BY <1>4, <1>5, <1>10, <1>15, PrefixOf
<1>13. Lies(d3, d10, 0) BY <1>3, <1>4, <1>10, <1>14, PrefixOf
<1>12. Lies(d2, d10, 0) BY <1>2, <1>3, <1>10, <1>13, PrefixOf
<1>21. Lies(dev, d10, 0) BY <1>1, <1>2, <1>10, <1>12, PrefixOf
<1>o. /\ 1 \in Nat /\ 9 \in Nat /\ 13 \in Nat /\ 14 \in Nat /\ 15 \in Nat
      /\ n + 18 \in Nat /\ n + 19 \in Nat /\ n + 20 \in Nat /\ 2 * n + 23 \in Nat
    BY <1>n
<1>22. Lies(cv, d10, 1) BY <1>1, <1>2, <1>10, <1>12, <1>o, PrefixOf
<1>23. Lies(ch, d10, 9) BY <1>1, <1>3, <1>10, <1>13, <1>o, PrefixOf
<1>24. Lies(drop, d10, 13) BY <1>1, <1>4, <1>10, <1>14, <1>o, PrefixOf
<1>25. Lies(dev, d10, 14) BY <1>1, <1>5, <1>10, <1>15, <1>o, PrefixOf
<1>26. Lies(fo, d10, 15) BY <1>1, <1>6, <1>10, <1>16, <1>o, PrefixOf
<1>27. Lies(drop, d10, n + 18) BY <1>1, <1>7, <1>10, <1>17, <1>o, PrefixOf
<1>28. Lies(dev, d10, n + 19) BY <1>1, <1>8, <1>10, <1>18, <1>o, PrefixOf
<1>29. Lies(fh, d10, n + 20) BY <1>1, <1>9, <1>10, <1>19, <1>o, PrefixOf
<1>30. Lies(drop, d10, 2 * n + 23) BY <1>10
<1>31. QED
    BY <1>d, <1>10, <1>21, <1>22, <1>23, <1>24, <1>25, <1>26, <1>27, <1>28, <1>29, <1>30, Zenon
    DEF n, dev, drop, cv, ch, fo, fh

LEMMA PlainCreation ==
    ASSUME NEW c, ~c.hidden
    PROVE  LET s == CreateContainer(c)
               n == Parted(c)
           IN  /\ IsSequence(s) /\ Len(s) = n + 11
               /\ Lies(CreateVolume(c), s, 0) /\ Lies(FormatData(c, "outer"), s, 8)
<1> DEFINE n == Parted(c)
           cv == CreateVolume(c)
           fo == FormatData(c, "outer")
           s == cv \o fo
<1>1. IsSequence(cv) /\ Len(cv) = 8 /\ IsSequence(fo) /\ Len(fo) = n + 3
    BY VolumeBlock, FormatBlock
<1>2. CreateContainer(c) = s BY Zenon DEF CreateContainer
<1>3. n \in Nat BY OrderListed
<1> HIDE DEF n, cv, fo
<1>4. IsSequence(s) /\ Len(s) = n + 11 /\ Lies(cv, s, 0) /\ Lies(fo, s, 8)
    <2>1. IsSequence(s) /\ Len(s) = Len(cv) + Len(fo) /\ Lies(cv, s, 0) /\ Lies(fo, s, Len(cv))
        BY <1>1, Joined
    <2> HIDE DEF s
    <2>2. QED BY <1>1, <1>3, <2>1
<1> HIDE DEF s
<1>5. QED BY <1>2, <1>4 DEF n, cv, fo

(* What a script begins with. *)
LEMMA ScriptBegins ==
    ASSUME NEW c \in Requests
    PROVE  LET s == Script(c)
               t == CreateContainer(c)
               p == Opening(c) - (IF c.hidden THEN 1 ELSE 0)
           IN  /\ IsSequence(s) /\ Len(s) = p + Len(t) /\ Lies(t, s, p) /\ Opens(s, p)
<1> DEFINE t == CreateContainer(c)
           p == Opening(c) - (IF c.hidden THEN 1 ELSE 0)
           s == Script(c)
<1>1. c.via \in {"ffi", "cli"} /\ c.hidden \in BOOLEAN BY RequestsAssumption
<1>2. IsSequence(t) BY <1>1, HiddenCreation, PlainCreation
<1>3. \A op : IsSequence(Step(op)) /\ Len(Step(op)) = 1 /\ Step(op)[1].op = op
    BY Single DEF Step
<1>4. ASSUME NEW u, IsSequence(u), NEW m \in Nat, Len(u) = m, s = u \o t, p = m, Opens(u, m)
      PROVE  IsSequence(s) /\ Len(s) = p + Len(t) /\ Lies(t, s, p) /\ Opens(s, p)
    <2> HIDE DEF s, p, t
    <2>1. IsSequence(s) /\ Len(s) = Len(u) + Len(t) /\ Lies(u, s, 0) /\ Lies(t, s, Len(u))
        BY <1>2, <1>4, Joined
    <2>2. \A i \in 1 .. m : s[i] = u[i]
        <3>1. \A i \in 1 .. m : s[0 + i] = u[i] BY <1>4, <2>1 DEF Lies
        <3>2. QED BY <3>1
    <2>3. Opens(s, m) BY <1>4, <2>2 DEF Opens
    <2>4. QED BY <1>4, <2>1, <2>3
<1>5. CASE c.via = "ffi"
    <2> DEFINE u == Step("try set_len")
    <2>1. s = u \o t BY <1>5, Zenon DEF Script
    <2>2. p = 1 BY <1>1, <1>5 DEF Opening
    <2>3. IsSequence(u) /\ Len(u) = 1 /\ u[1].op = "try set_len" BY <1>3
    <2> HIDE DEF u, s, t, p
    <2>4. Opens(u, 1)
        <3>1. \A i \in 1 .. 1 : i = 1 OBVIOUS
        <3>2. u[1].op \in {"truncate", "set_len", "try set_len", "device"} BY <2>3
        <3>3. QED BY <3>1, <3>2, Zenon DEF Opens
    <2>5. 1 \in Nat OBVIOUS
    <2>6. QED BY <1>4, <2>1, <2>2, <2>3, <2>4, <2>5 DEF s, t, p
<1>6. CASE c.via = "cli"
    <2> DEFINE x == Step("truncate")
               y == Step("set_len")
               z == IF c.hidden THEN <<>> ELSE Step("device")
               k == IF c.hidden THEN 0 ELSE 1
               xy == x \o y
               u == xy \o z
    <2>1. s = u \o t BY <1>6, Zenon DEF Script
    <2>2. p = 2 + k BY <1>1, <1>6 DEF Opening
    <2>3. /\ IsSequence(x) /\ Len(x) = 1 /\ x[1].op = "truncate"
          /\ IsSequence(y) /\ Len(y) = 1 /\ y[1].op = "set_len"
        BY <1>3
    <2>4. k \in {0, 1} /\ IsSequence(z) /\ Len(z) = k /\ (k = 1 => z[1].op = "device")
        <3>1. CASE c.hidden
            <4>1. <<>> \in Seq({}) /\ Len(<<>>) = 0 OBVIOUS
            <4>2. QED BY <3>1, <4>1 DEF IsSequence
        <3>2. CASE ~c.hidden BY <1>3, <3>2
        <3>3. QED BY <3>1, <3>2
    <2> HIDE DEF x, y, z, k, s, t, p
    <2>5. IsSequence(xy) /\ Len(xy) = 2 /\ Lies(x, xy, 0) /\ Lies(y, xy, 1)
        <3>1. IsSequence(xy) /\ Len(xy) = Len(x) + Len(y) /\ Lies(x, xy, 0) /\ Lies(y, xy, Len(x))
            BY <2>3, Joined
        <3> HIDE DEF xy
        <3>2. QED BY <2>3, <3>1
    <2> HIDE DEF xy
    <2>6. IsSequence(u) /\ Len(u) = 2 + k /\ Lies(xy, u, 0) /\ Lies(z, u, 2)
        <3>1. IsSequence(u) /\ Len(u) = Len(xy) + Len(z) /\ Lies(xy, u, 0) /\ Lies(z, u, Len(xy))
            BY <2>4, <2>5, Joined
        <3> HIDE DEF u
        <3>2. QED BY <2>4, <2>5, <3>1
    <2> HIDE DEF u
    <2>7. u[1] = x[1] /\ u[2] = y[1] /\ (k = 1 => u[3] = z[1])
        <3>1. xy[1] = x[1] /\ xy[2] = y[1] BY <2>3, <2>5 DEF Lies
        <3>2. u[1] = xy[1] /\ u[2] = xy[2] BY <2>5, <2>6 DEF Lies
        <3>3. k = 1 => u[3] = z[1] BY <2>4, <2>6 DEF Lies
        <3>4. QED BY <3>1, <3>2, <3>3
    <2>8. Opens(u, 2 + k)
        <3>1. \A i \in 1 .. 2 + k : i = 1 \/ i = 2 \/ (i = 3 /\ k = 1) BY <2>4
        <3>2. QED BY <2>3, <2>4, <2>7, <3>1 DEF Opens
    <2>9. 2 + k \in Nat BY <2>4
    <2>10. QED BY <1>4, <2>1, <2>2, <2>6, <2>8, <2>9 DEF s, t, p
<1>7. QED BY <1>1, <1>5, <1>6 DEF s, t, p
-----------------------------------------------------------------------------
(* Where a script has what *)

LEMMA BlocksLie ==
    ASSUME NEW c, NEW v, NEW s, NEW k \in Nat
    PROVE  /\ Lies(CreateVolume(c), s, k) => CreatesVolume(c, s, k)
           /\ Lies(CreateHidden(c), s, k) => CreatesHidden(c, s, k)
           /\ Lies(FormatData(c, v), s, k) => FormatsVolume(c, v, s, k)
<1>1. ASSUME Lies(CreateVolume(c), s, k) PROVE CreatesVolume(c, s, k)
    <2> DEFINE t == CreateVolume(c)
    <2>1. Len(t) = 8 /\ CreatesVolume(c, t, 0) BY VolumeBlock
    <2> HIDE DEF t
    <2>2. \A i \in 1 .. 8 : s[k + i] = t[i] BY <1>1, <2>1 DEF Lies, t
    <2>3. /\ s[k + 1] = t[1] /\ s[k + 2] = t[2] /\ s[k + 3] = t[3] /\ s[k + 4] = t[4]
          /\ s[k + 5] = t[5] /\ s[k + 6] = t[6] /\ s[k + 7] = t[7] /\ s[k + 8] = t[8]
        BY <2>2
    <2>4. /\ 0 + 1 = 1 /\ 0 + 2 = 2 /\ 0 + 3 = 3 /\ 0 + 4 = 4 /\ 0 + 5 = 5 /\ 0 + 6 = 6
          /\ 0 + 7 = 7 /\ 0 + 8 = 8
        OBVIOUS
    <2>5. QED BY <2>1, <2>3, <2>4, Zenon DEF CreatesVolume
<1>2. ASSUME Lies(CreateHidden(c), s, k) PROVE CreatesHidden(c, s, k)
    <2> DEFINE t == CreateHidden(c)
    <2>1. Len(t) = 4 /\ CreatesHidden(c, t, 0) BY HiddenBlock
    <2> HIDE DEF t
    <2>2. \A i \in 1 .. 4 : s[k + i] = t[i] BY <1>2, <2>1 DEF Lies, t
    <2>3. s[k + 1] = t[1] /\ s[k + 2] = t[2] /\ s[k + 3] = t[3] /\ s[k + 4] = t[4]
        BY <2>2
    <2>4. 0 + 1 = 1 /\ 0 + 2 = 2 /\ 0 + 3 = 3 /\ 0 + 4 = 4 OBVIOUS
    <2>5. QED BY <2>1, <2>3, <2>4, Zenon DEF CreatesHidden
<1>3. ASSUME Lies(FormatData(c, v), s, k) PROVE FormatsVolume(c, v, s, k)
    <2> DEFINE t == FormatData(c, v)
               n == Parted(c)
    <2>1. Len(t) = n + 3 /\ FormatsVolume(c, v, t, 0) /\ n \in Nat BY FormatBlock, OrderListed
    <2> HIDE DEF t
    <2>2. \A i \in 1 .. n + 3 : s[k + i] = t[i]
        <3>1. \A i \in 1 .. Len(t) : s[k + i] = t[i] BY <1>3 DEF Lies, t
        <3>2. QED BY <2>1, <3>1
    <2>3. /\ t[1] = [op |-> "find", volume |-> v] /\ t[2] = [op |-> "fit"]
          /\ \A i \in 1 .. n : t[2 + i] = [op |-> "lay", part |-> FsOrder(c)[i]]
          /\ t[3 + n] = [op |-> "flush"]
        <3>1. 0 + 1 = 1 /\ 0 + 2 = 2 /\ 0 + 3 = 3 OBVIOUS
        <3>2. QED BY <2>1, <3>1, Zenon DEF FormatsVolume
    <2> HIDE DEF n
    <2>4. s[k + 1] = t[1] /\ s[k + 2] = t[2] /\ s[k + (3 + n)] = t[3 + n]
          /\ \A i \in 1 .. n : s[k + (2 + i)] = t[2 + i]
        BY <2>1, <2>2
    <2>5. k + (3 + n) = k + 3 + n /\ \A i \in 1 .. n : k + (2 + i) = k + 2 + i BY <2>1
    <2>6. QED BY <2>3, <2>4, <2>5, Zenon DEF FormatsVolume, n
<1>4. QED BY <1>1, <1>2, <1>3

(* What a script has where. *)
Table(c, s) ==
    /\ IsSequence(s) /\ Len(s) = ScriptLen(c) /\ Opens(s, Opening(c))
    /\ CreatesVolume(c, s, Opening(c))
    /\ \A v \in Volumes(c) : FormatsVolume(c, v, s, Finding(c, v) - 1)
    /\ c.hidden =>
        /\ CreatesHidden(c, s, Opening(c) + 8)
        /\ Reopens(s, Opening(c) + 12) /\ Reopens(s, Finding(c, "hidden") - 3)
        /\ s[ScriptLen(c)] = [op |-> "drop"]

(* The places are numbers, in closed form. *)
LEMMA Numbers ==
    ASSUME NEW c
    PROVE  Opening(c) \in {1, 2, 3} /\ (c.hidden => Opening(c) # 1) /\ Parted(c) \in {3, 6}
<1>1. Opening(c) \in {1, 2, 3} /\ (c.hidden => Opening(c) # 1) BY DEF Opening
<1>2. Parted(c) \in {3, 6} BY DEF Parted
<1>3. QED BY <1>1, <1>2

LEMMA Positions ==
    ASSUME NEW c
    PROVE  /\ ~c.hidden => /\ Finding(c, "outer") = Opening(c) + 9
                           /\ LastFlush(c) = Opening(c) + 11 + Parted(c)
                           /\ ScriptLen(c) = Opening(c) + 11 + Parted(c)
           /\ c.hidden => /\ Finding(c, "outer") = Opening(c) + 15
                          /\ Finding(c, "hidden") = Opening(c) + 20 + Parted(c)
                          /\ LastFlush(c) = Opening(c) + 22 + 2 * Parted(c)
                          /\ ScriptLen(c) = Opening(c) + 23 + 2 * Parted(c)
<1>1. Opening(c) \in Nat /\ Parted(c) \in Nat BY Numbers
<1>2. CASE c.hidden
    <2>1. Finding(c, "outer") = Opening(c) + 15 + 0 BY <1>2 DEF Finding
    <2>2. Finding(c, "hidden") = Opening(c) + 15 + (Parted(c) + 5) BY <1>2 DEF Finding
    <2>3. LastFlush(c) = Finding(c, "hidden") + Parted(c) + 2 BY <1>2 DEF LastFlush, LastVolume
    <2>4. ScriptLen(c) = LastFlush(c) + 1 BY <1>2 DEF ScriptLen
    <2>5. QED BY <1>1, <1>2, <2>1, <2>2, <2>3, <2>4
<1>3. CASE ~c.hidden
    <2>1. Finding(c, "outer") = Opening(c) + 9 + 0 BY <1>3 DEF Finding
    <2>2. LastFlush(c) = Finding(c, "outer") + Parted(c) + 2 BY <1>3 DEF LastFlush, LastVolume
    <2>3. ScriptLen(c) = LastFlush(c) + 0 BY <1>3 DEF ScriptLen
    <2>4. QED BY <1>1, <1>3, <2>1, <2>2, <2>3
<1>4. QED BY <1>2, <1>3

(* The whole script as a table of places. *)
LEMMA ScriptTable == ASSUME NEW c \in Requests PROVE Table(c, Script(c))
<1> DEFINE s == Script(c)
           t == CreateContainer(c)
           k == Opening(c)
           n == Parted(c)
<1>1. c.hidden \in BOOLEAN BY RequestsAssumption
<1>2. k \in 1 .. 3 /\ (c.hidden => k # 1) /\ n \in {3, 6} BY Numbers
<1>3. CASE ~c.hidden
    <2>1. IsSequence(s) /\ Len(s) = k + Len(t) /\ Lies(t, s, k) /\ Opens(s, k)
        <3>1. k - 0 = k BY <1>2
        <3>2. QED BY <1>3, <3>1, ScriptBegins
    <2>2. /\ IsSequence(t) /\ Len(t) = n + 11
          /\ Lies(CreateVolume(c), t, 0) /\ Lies(FormatData(c, "outer"), t, 8)
        BY <1>3, PlainCreation
    <2>3. Len(s) = ScriptLen(c)
        <3>1. Len(s) = k + (n + 11) BY <2>1, <2>2
        <3>2. ScriptLen(c) = k + 11 + n BY <1>3, Positions
        <3> HIDE DEF s, t, k, n
        <3>3. QED BY <1>2, <3>1, <3>2
    <2>4. IsSequence(CreateVolume(c)) /\ IsSequence(FormatData(c, "outer"))
        BY VolumeBlock, FormatBlock
    <2> HIDE DEF s, t, k, n
    <2>5. Lies(CreateVolume(c), s, k + 0) /\ Lies(FormatData(c, "outer"), s, k + 8)
        BY <1>2, <2>1, <2>2, <2>4, LiesIn
    <2>6. k + 0 = k /\ k + 8 \in Nat /\ k \in Nat BY <1>2
    <2>7. CreatesVolume(c, s, k) /\ FormatsVolume(c, "outer", s, k + 8)
        BY <2>5, <2>6, BlocksLie
    <2>8. Finding(c, "outer") - 1 = k + 8 BY <1>2, <1>3, Positions DEF k
    <2>9. \A v \in Volumes(c) : FormatsVolume(c, v, s, Finding(c, v) - 1)
        BY <1>3, <2>7, <2>8 DEF Volumes
    <2>10. QED BY <1>3, <2>1, <2>3, <2>7, <2>9 DEF Table, s, k
<1>4. CASE c.hidden
    <2>1. IsSequence(s) /\ Len(s) = (k - 1) + Len(t) /\ Lies(t, s, k - 1) /\ Opens(s, k - 1)
        BY <1>4, ScriptBegins
    <2> DEFINE dev == Step("device")
               drop == Step("drop")
    <2>2. /\ IsSequence(t) /\ Len(t) = 2 * n + 24
          /\ Lies(dev, t, 0) /\ Lies(CreateVolume(c), t, 1) /\ Lies(CreateHidden(c), t, 9)
          /\ Lies(drop, t, 13) /\ Lies(dev, t, 14) /\ Lies(FormatData(c, "outer"), t, 15)
          /\ Lies(drop, t, n + 18) /\ Lies(dev, t, n + 19)
          /\ Lies(FormatData(c, "hidden"), t, n + 20) /\ Lies(drop, t, 2 * n + 23)
        BY <1>4, HiddenCreation
    <2>3. Len(s) = ScriptLen(c)
        <3>1. Len(s) = (k - 1) + (2 * n + 24) BY <2>1, <2>2
        <3>2. ScriptLen(c) = k + 23 + 2 * n BY <1>4, Positions
        <3> HIDE DEF s, t, k, n, dev, drop
        <3>3. QED BY <1>2, <3>1, <3>2
    <2>4. /\ IsSequence(CreateVolume(c)) /\ IsSequence(CreateHidden(c))
          /\ IsSequence(FormatData(c, "outer")) /\ IsSequence(FormatData(c, "hidden"))
          /\ IsSequence(dev) /\ Len(dev) = 1 /\ dev[1] = [op |-> "device"]
          /\ IsSequence(drop) /\ Len(drop) = 1 /\ drop[1] = [op |-> "drop"]
        BY VolumeBlock, HiddenBlock, FormatBlock, Single DEF Step
    <2> DEFINE p == k - 1
    <2>5. p \in Nat /\ n \in Nat BY <1>2
    <2> HIDE DEF s, t, dev, drop, n
    <2>6. \A r : \A j \in Nat : IsSequence(r) /\ Lies(r, t, j) => Lies(r, s, p + j)
        <3> HIDE DEF p
        <3>1. Lies(t, s, p) /\ IsSequence(s) BY <2>1 DEF p
        <3>2. QED BY <2>2, <2>5, <3>1, LiesIn
    <2>7. /\ 1 \in Nat /\ 9 \in Nat /\ 13 \in Nat /\ 14 \in Nat /\ 15 \in Nat /\ 0 \in Nat
          /\ n + 18 \in Nat /\ n + 19 \in Nat /\ n + 20 \in Nat /\ 2 * n + 23 \in Nat
        BY <2>5
    <2>8. /\ Lies(dev, s, p + 0) /\ Lies(CreateVolume(c), s, p + 1) /\ Lies(CreateHidden(c), s, p + 9)
          /\ Lies(drop, s, p + 13) /\ Lies(dev, s, p + 14) /\ Lies(FormatData(c, "outer"), s, p + 15)
          /\ Lies(drop, s, p + (n + 18)) /\ Lies(dev, s, p + (n + 19))
          /\ Lies(FormatData(c, "hidden"), s, p + (n + 20)) /\ Lies(drop, s, p + (2 * n + 23))
        <3> HIDE DEF p
        <3>1. QED BY <2>2, <2>4, <2>6, <2>7, Zenon
    <2>9. /\ p + 0 = k - 1 /\ p + 1 = k /\ p + 9 = k + 8 /\ p + 13 = k + 12 /\ p + 14 = k + 13
          /\ p + 15 = Finding(c, "outer") - 1 /\ p + (n + 18) = Finding(c, "hidden") - 3
          /\ p + (n + 19) = Finding(c, "hidden") - 2 /\ p + (n + 20) = Finding(c, "hidden") - 1
          /\ p + (2 * n + 23) = ScriptLen(c) - 1
        BY <1>2, <1>4, <2>5, Positions DEF n
    <2>10. /\ k \in Nat /\ k + 8 \in Nat /\ k + 12 \in Nat /\ Finding(c, "outer") - 1 \in Nat
           /\ Finding(c, "hidden") - 1 \in Nat /\ Finding(c, "hidden") \in Nat /\ ScriptLen(c) \in Nat
        BY <1>2, <1>4, <2>5, Positions DEF n
    <2> HIDE DEF p, k
    <2>11. /\ CreatesVolume(c, s, k) /\ CreatesHidden(c, s, k + 8)
           /\ FormatsVolume(c, "outer", s, Finding(c, "outer") - 1)
           /\ FormatsVolume(c, "hidden", s, Finding(c, "hidden") - 1)
        BY <2>8, <2>9, <2>10, BlocksLie
    <2>12. \A r, j : Lies(r, s, j) /\ Len(r) = 1 => s[j + 1] = r[1]
        BY DEF Lies
    <2>13. /\ s[(k - 1) + 1] = dev[1] /\ s[k + 12 + 1] = drop[1] /\ s[k + 13 + 1] = dev[1]
           /\ s[Finding(c, "hidden") - 3 + 1] = drop[1] /\ s[Finding(c, "hidden") - 2 + 1] = dev[1]
           /\ s[ScriptLen(c) - 1 + 1] = drop[1]
        BY <2>4, <2>8, <2>9, <2>12, Zenon
    <2>14. /\ (k - 1) + 1 = k /\ k + 13 + 1 = k + 12 + 2 /\ ScriptLen(c) - 1 + 1 = ScriptLen(c)
           /\ Finding(c, "hidden") - 2 + 1 = Finding(c, "hidden") - 3 + 2
        BY <2>10
    <2>15. Opens(s, k)
        <3>1. \A i \in 1 .. k : i \in 1 .. k - 1 \/ i = k BY <2>10
        <3>2. s[k].op = "device" BY <2>4, <2>13, <2>14
        <3>3. QED BY <2>1, <3>1, <3>2, Zenon DEF Opens
    <2>16. Reopens(s, k + 12) /\ Reopens(s, Finding(c, "hidden") - 3) /\ s[ScriptLen(c)] = [op |-> "drop"]
        BY <2>4, <2>13, <2>14, Zenon DEF Reopens
    <2>17. \A v \in Volumes(c) : FormatsVolume(c, v, s, Finding(c, v) - 1)
        BY <1>4, <2>11, Zenon DEF Volumes
    <2>18. QED BY <2>1, <2>3, <2>11, <2>15, <2>16, <2>17, Zenon DEF Table, s, k
<1>5. QED BY <1>1, <1>3, <1>4

-----------------------------------------------------------------------------
(* The steps of a script *)

(* What the i-th step of a script is. *)
StepAt(c, i, st) ==
    \/ i <= Opening(c) /\ st.op \in {"truncate", "set_len", "try set_len", "device"}
    \/ i = Opening(c) + 1 /\ st = [op |-> "require", holds |-> SizeFits(c)]
    \/ /\ i \in Opening(c) + 2 .. Opening(c) + 4
       /\ \E o \in {0, HIDDEN_OFFSET, c.size - GROUP} : st = Noise(o)
    \/ i = Opening(c) + 5 /\ st = Noise(c.size - HIDDEN_OFFSET)
    \/ i = Opening(c) + 6 /\ st = CopyStep(c, "outer", 0)
    \/ i = Opening(c) + 7 /\ st = CopyStep(c, "outer", c.size - GROUP)
    \/ i = Opening(c) + 8 /\ st = [op |-> "flush"]
    \/ c.hidden /\ i = Opening(c) + 9 /\ st = [op |-> "require", holds |-> HiddenFits(c)]
    \/ c.hidden /\ i = Opening(c) + 10 /\ st = CopyStep(c, "hidden", HIDDEN_OFFSET)
    \/ c.hidden /\ i = Opening(c) + 11 /\ st = CopyStep(c, "hidden", c.size - HIDDEN_OFFSET)
    \/ /\ c.hidden /\ i \in Opening(c) + 12 .. Opening(c) + 14
       /\ st.op \in {"flush", "drop", "device"}
    \/ \E v \in Volumes(c) :
        \/ i = Finding(c, v) /\ st = [op |-> "find", volume |-> v]
        \/ i = Finding(c, v) + 1 /\ st = [op |-> "fit"]
        \/ \E j \in 1 .. Parted(c) :
            i = Finding(c, v) + 1 + j /\ st = [op |-> "lay", part |-> FsOrder(c)[j]]
        \/ i = Finding(c, v) + 2 + Parted(c) /\ st = [op |-> "flush"]
    \/ /\ c.hidden /\ i \in Finding(c, "hidden") - 2 .. Finding(c, "hidden") - 1
       /\ st.op \in {"drop", "device"}
    \/ c.hidden /\ i = ScriptLen(c) /\ st = [op |-> "drop"]

(* What a step is by its place in the script. *)
LEMMA ScriptSteps ==
    ASSUME NEW c \in Requests, NEW i \in 1 .. ScriptLen(c)
    PROVE  StepAt(c, i, Script(c)[i])
<1> DEFINE s == Script(c)
           k == Opening(c)
           n == Parted(c)
           st == s[i]
<1>1. Table(c, s) BY ScriptTable
<1>2. k \in 1 .. 3 /\ n \in {3, 6} /\ c.hidden \in BOOLEAN BY Numbers, RequestsAssumption
<1>3. Opens(s, k) /\ CreatesVolume(c, s, k) BY <1>1, Zenon DEF Table
<1>4. \A v \in Volumes(c) : FormatsVolume(c, v, s, Finding(c, v) - 1) BY <1>1, Zenon DEF Table
<1>5. "outer" \in Volumes(c) /\ (c.hidden => "hidden" \in Volumes(c)) BY DEF Volumes
<1>6. i \in Int /\ 1 <= i /\ (i <= k \/ i = k + 1 \/ i = k + 2 \/ i = k + 3 \/ i = k + 4 \/ i = k + 5
                \/ i = k + 6 \/ i = k + 7 \/ i = k + 8 \/ i >= k + 9)
    <2>1. ScriptLen(c) \in Int BY <1>2, Positions
    <2>2. QED BY <1>2, <2>1
<1> HIDE DEF s
<1>7. i <= k => StepAt(c, i, st)
    <2>1. i <= k => i \in 1 .. k BY <1>2, <1>6
    <2>2. QED BY <1>3, <2>1, Zenon DEF Opens, StepAt
<1>8. i = k + 1 => StepAt(c, i, st) BY <1>3, Zenon DEF CreatesVolume, StepAt
<1>9. i = k + 2 => StepAt(c, i, st)
    <2>1. k + 2 \in k + 2 .. k + 4 BY <1>2
    <2>2. QED BY <1>3, <2>1, Zenon DEF CreatesVolume, StepAt
<1>10. i = k + 3 => StepAt(c, i, st)
    <2>1. k + 3 \in k + 2 .. k + 4 BY <1>2
    <2>2. QED BY <1>3, <2>1, Zenon DEF CreatesVolume, StepAt
<1>11. i = k + 4 => StepAt(c, i, st)
    <2>1. k + 4 \in k + 2 .. k + 4 BY <1>2
    <2>2. QED BY <1>3, <2>1, Zenon DEF CreatesVolume, StepAt
<1>12. i = k + 5 => StepAt(c, i, st) BY <1>3, Zenon DEF CreatesVolume, StepAt
<1>13. i = k + 6 => StepAt(c, i, st) BY <1>3, Zenon DEF CreatesVolume, StepAt
<1>14. i = k + 7 => StepAt(c, i, st) BY <1>3, Zenon DEF CreatesVolume, StepAt
<1>15. i = k + 8 => StepAt(c, i, st) BY <1>3, Zenon DEF CreatesVolume, StepAt
<1>16. ASSUME NEW v \in Volumes(c), NEW f \in Int, f = Finding(c, v), f <= i, i <= f + 2 + n
       PROVE  StepAt(c, i, st)
    <2>1. /\ s[f - 1 + 1] = [op |-> "find", volume |-> v] /\ s[f - 1 + 2] = [op |-> "fit"]
          /\ \A j \in 1 .. n : s[f - 1 + 2 + j] = [op |-> "lay", part |-> FsOrder(c)[j]]
          /\ s[f - 1 + 3 + n] = [op |-> "flush"]
        BY <1>4, <1>16, Zenon DEF FormatsVolume
    <2>2. /\ f - 1 + 1 = f /\ f - 1 + 2 = f + 1 /\ f - 1 + 3 + n = f + 2 + n
          /\ \A j \in 1 .. n : f - 1 + 2 + j = f + 1 + j
        BY <1>2
    <2>3. i = f \/ i = f + 1 \/ (\E j \in 1 .. n : i = f + 1 + j) \/ i = f + 2 + n
        <3>1. i = f \/ i = f + 1 \/ (i - f - 1 \in 1 .. n /\ i = f + 1 + (i - f - 1)) \/ i = f + 2 + n
            BY <1>2, <1>6, <1>16
        <3>2. QED BY <3>1
    <2>4. CASE i = f BY <1>16, <2>1, <2>2, <2>4, Zenon DEF StepAt
    <2>5. CASE i = f + 1 BY <1>16, <2>1, <2>2, <2>5, Zenon DEF StepAt
    <2>6. CASE \E j \in 1 .. n : i = f + 1 + j
        <3>1. PICK j \in 1 .. n : i = f + 1 + j BY <2>6
        <3>2. st = [op |-> "lay", part |-> FsOrder(c)[j]] BY <2>1, <2>2, <3>1, Zenon
        <3>3. QED BY <1>16, <3>1, <3>2, Zenon DEF StepAt
    <2>7. CASE i = f + 2 + n BY <1>16, <2>1, <2>2, <2>7, Zenon DEF StepAt
    <2>8. QED BY <2>3, <2>4, <2>5, <2>6, <2>7
<1>17. ASSUME i >= k + 9, ~c.hidden PROVE StepAt(c, i, st)
    <2>1. Finding(c, "outer") = k + 9 /\ ScriptLen(c) = k + 11 + n BY <1>17, Positions
    <2>2. k + 9 \in Int /\ k + 9 <= i /\ i <= k + 9 + 2 + n BY <1>2, <1>17, <2>1
    <2>3. k + 9 = Finding(c, "outer") BY <2>1
    <2>4. QED BY <1>5, <1>16, <2>2, <2>3, Zenon
<1>18. ASSUME i >= k + 9, c.hidden PROVE StepAt(c, i, st)
    <2>0. c.hidden BY <1>18
    <2>1. /\ CreatesHidden(c, s, k + 8) /\ Reopens(s, k + 12)
          /\ Reopens(s, Finding(c, "hidden") - 3) /\ s[ScriptLen(c)] = [op |-> "drop"]
        BY <1>1, <1>18, Zenon DEF Table
    <2>2. /\ Finding(c, "outer") = k + 15 /\ Finding(c, "hidden") = k + 20 + n
          /\ ScriptLen(c) = k + 23 + 2 * n
        BY <1>18, Positions
    <2>3. /\ k + 8 + 1 = k + 9 /\ k + 8 + 2 = k + 10 /\ k + 8 + 3 = k + 11 /\ k + 8 + 4 = k + 12
          /\ k + 12 + 1 = k + 13 /\ k + 12 + 2 = k + 14
          /\ Finding(c, "hidden") - 3 + 1 = Finding(c, "hidden") - 2
          /\ Finding(c, "hidden") - 3 + 2 = Finding(c, "hidden") - 1
        BY <1>2, <2>2
    <2>4. /\ s[k + 9] = [op |-> "require", holds |-> HiddenFits(c)]
          /\ s[k + 10] = CopyStep(c, "hidden", HIDDEN_OFFSET)
          /\ s[k + 11] = CopyStep(c, "hidden", c.size - HIDDEN_OFFSET)
          /\ s[k + 12] = [op |-> "flush"] /\ s[k + 13] = [op |-> "drop"] /\ s[k + 14] = [op |-> "device"]
          /\ s[Finding(c, "hidden") - 2] = [op |-> "drop"]
          /\ s[Finding(c, "hidden") - 1] = [op |-> "device"]
        BY <2>1, <2>3, Zenon DEF CreatesHidden, Reopens
    <2>5. CASE i = k + 9 BY <2>0, <2>4, <2>5, Zenon DEF StepAt
    <2>6. CASE i = k + 10 BY <2>0, <2>4, <2>6, Zenon DEF StepAt
    <2>7. CASE i = k + 11 BY <2>0, <2>4, <2>7, Zenon DEF StepAt
    <2>8. CASE i = k + 12 \/ i = k + 13 \/ i = k + 14
        <3>1. i \in k + 12 .. k + 14 BY <1>2, <2>8
        <3>2. st.op \in {"flush", "drop", "device"} BY <2>4, <2>8
        <3>3. QED BY <2>0, <3>1, <3>2, Zenon DEF StepAt
    <2>9. CASE k + 15 <= i /\ i <= k + 17 + n
        <3>1. k + 15 \in Int /\ i <= k + 15 + 2 + n BY <1>2, <2>9
        <3>2. k + 15 = Finding(c, "outer") BY <2>2
        <3>3. QED BY <1>5, <1>16, <2>9, <3>1, <3>2, Zenon
    <2>10. CASE i = k + 18 + n \/ i = k + 19 + n
        <3>1. i = Finding(c, "hidden") - 2 \/ i = Finding(c, "hidden") - 1 BY <1>2, <2>2, <2>10
        <3>2. i \in Finding(c, "hidden") - 2 .. Finding(c, "hidden") - 1 BY <1>2, <2>2, <3>1
        <3>3. st.op \in {"drop", "device"} BY <2>4, <3>1
        <3>4. QED BY <2>0, <3>2, <3>3, Zenon DEF StepAt
    <2>11. CASE k + 20 + n <= i /\ i <= k + 22 + 2 * n
        <3>1. k + 20 + n \in Int /\ i <= k + 20 + n + 2 + n BY <1>2, <2>11
        <3>2. k + 20 + n = Finding(c, "hidden") BY <2>2
        <3>3. QED BY <1>5, <1>16, <2>0, <2>11, <3>1, <3>2, Zenon
    <2>12. CASE i = ScriptLen(c) BY <2>0, <2>1, <2>12, Zenon DEF StepAt
    <2>13. \/ i = k + 9 \/ i = k + 10 \/ i = k + 11 \/ i = k + 12 \/ i = k + 13 \/ i = k + 14
           \/ (k + 15 <= i /\ i <= k + 17 + n) \/ i = k + 18 + n \/ i = k + 19 + n
           \/ (k + 20 + n <= i /\ i <= k + 22 + 2 * n) \/ i = ScriptLen(c)
        BY <1>2, <1>6, <1>18, <2>2
    <2>14. QED BY <2>5, <2>6, <2>7, <2>8, <2>9, <2>10, <2>11, <2>12, <2>13
<1>19. QED
    BY <1>2, <1>6, <1>7, <1>8, <1>9, <1>10, <1>11, <1>12, <1>13, <1>14, <1>15, <1>17, <1>18 DEF s

(* A call that has steps left goes well, and the next one is that of its
   script. *)
LEMMA NextStep ==
    ASSUME CallInv, todo # <<>>
    PROVE  /\ GoingWell /\ Past \in Nat /\ Past + 1 \in 1 .. ScriptLen(call)
           /\ Head(todo) = Script(call)[Past + 1]
           /\ ScriptLen(call) - Len(Tail(todo)) = Past + 1
           /\ Tail(todo) = SubSeq(Script(call), Past + 1 + 1, ScriptLen(call))
           /\ Past + 1 \in 0 .. ScriptLen(call)
<1> DEFINE s == Script(call)
           n == ScriptLen(call)
           k == Past
<1>1. GoingWell /\ k \in 0 .. n /\ todo = SubSeq(s, k + 1, n) BY DEF CallInv
<1>2. call \in Requests BY <1>1 DEF GoingWell
<1>3. IsSequence(s) /\ Len(s) = n /\ n \in Nat BY <1>2, ScriptTable, LengthOf DEF Table
<1>4. PICK S : s \in Seq(S) BY <1>3 DEF IsSequence
<1> HIDE DEF s, n, k
<1>5. k \in Nat /\ k <= n BY <1>1, <1>3
<1>6. /\ todo \in Seq(S) /\ Len(todo) = (IF k + 1 <= n THEN n - (k + 1) + 1 ELSE 0)
      /\ \A i \in 1 .. n - (k + 1) + 1 : todo[i] = s[k + 1 + i - 1]
    <2>1. \A i \in k + 1 .. n : s[i] \in S BY <1>3, <1>4, <1>5, LenProperties
    <2>2. k + 1 \in Int /\ n \in Int BY <1>3, <1>5
    <2>3. QED BY <1>1, <2>1, <2>2, SubSeqProperties
<1>7. Len(todo) > 0 BY <1>6, EmptySeq
<1>8. k + 1 <= n /\ Len(todo) = n - k BY <1>3, <1>5, <1>6, <1>7
<1>9. Head(todo) = s[k + 1]
    <2>1. Head(todo) = todo[1] OBVIOUS
    <2>2. 1 \in 1 .. n - (k + 1) + 1 /\ k + 1 + 1 - 1 = k + 1 BY <1>3, <1>5, <1>8
    <2>3. todo[1] = s[k + 1 + 1 - 1] BY <1>6, <2>2
    <2>4. QED BY <2>1, <2>2, <2>3
<1> DEFINE t == Tail(todo)
           u == SubSeq(s, k + 1 + 1, n)
<1>10. /\ t \in Seq(S) /\ Len(t) = Len(todo) - 1
       /\ \A i \in 1 .. Len(t) : t[i] = todo[i + 1]
    BY <1>6, HeadTailProperties
<1>11. /\ u \in Seq(S) /\ Len(u) = (IF k + 1 + 1 <= n THEN n - (k + 1 + 1) + 1 ELSE 0)
       /\ \A i \in 1 .. n - (k + 1 + 1) + 1 : u[i] = s[k + 1 + 1 + i - 1]
    <2>1. \A i \in k + 1 + 1 .. n : s[i] \in S BY <1>3, <1>4, <1>5, LenProperties
    <2>2. k + 1 + 1 \in Int /\ n \in Int BY <1>3, <1>5
    <2>3. QED BY <2>1, <2>2, SubSeqProperties
<1> HIDE DEF t, u
<1>12. t = u
    <2>1. Len(t) = n - k - 1 /\ Len(u) = n - k - 1 BY <1>3, <1>5, <1>8, <1>10, <1>11
    <2>2. \A i \in 1 .. n - k - 1 : t[i] = u[i]
        <3> TAKE i \in 1 .. n - k - 1
        <3>1. /\ i \in 1 .. Len(t) /\ i \in 1 .. n - (k + 1 + 1) + 1
              /\ i + 1 \in 1 .. n - (k + 1) + 1 /\ k + 1 + (i + 1) - 1 = k + 1 + 1 + i - 1
            BY <1>3, <1>5, <2>1
        <3>2. t[i] = todo[i + 1] /\ todo[i + 1] = s[k + 1 + (i + 1) - 1] BY <1>6, <1>10, <3>1
        <3>3. u[i] = s[k + 1 + 1 + i - 1] BY <1>11, <3>1
        <3>4. QED BY <3>1, <3>2, <3>3
    <2>3. QED BY <1>10, <1>11, <2>1, <2>2, SeqEqual
<1>13. n - Len(t) = k + 1 BY <1>3, <1>5, <1>8, <1>10
<1>14. k + 1 \in 1 .. n /\ k + 1 \in 0 .. n BY <1>3, <1>5, <1>8
<1>15. QED BY <1>1, <1>5, <1>9, <1>12, <1>13, <1>14, Zenon DEF s, n, k, t, u

-----------------------------------------------------------------------------
(* Headers and their places *)

LEMMA MaxTwo ==
    ASSUME NEW a \in Int, NEW b \in Int
    PROVE  Max({a, b}) \in Int /\ Max({a, b}) >= a /\ Max({a, b}) >= b
           /\ (b <= a => Max({a, b}) = a)
<1>1. \E x \in {a, b} : \A y \in {a, b} : x >= y
    <2>1. a >= b \/ b >= a OBVIOUS
    <2>2. QED BY <2>1
<1>2. Max({a, b}) \in {a, b} /\ \A y \in {a, b} : Max({a, b}) >= y
    BY <1>1 DEF Max
<1>3. QED BY <1>2

LEMMA CallTyped ==
    ASSUME NEW c \in Requests
    PROVE  /\ c.hidden \in BOOLEAN /\ c.size \in Nat /\ c.hiddenSize \in Nat
           /\ c.size < LongWord /\ c.hiddenSize < LongWord
           /\ c.scheme \in 1 .. 15 /\ c.fs \in {"exFAT", "FAT"} /\ c.via \in {"ffi", "cli"}
           /\ \E p \in 1 .. 5 : Prfs[p] = c.prf
<1>1. DOMAIN Schemes = 1 .. 15 BY DEF Schemes
<1>2. DOMAIN Prfs = 1 .. 5 BY DEF Prfs
<1>3. /\ LongWord \in Nat
      /\ c.size \in 0 .. LongWord - 1 /\ c.hiddenSize \in 0 .. LongWord - 1
    BY RequestsAssumption, WordAssumption
<1>4. QED BY <1>1, <1>2, <1>3, RequestsAssumption

(* No call, a creation and a container made elsewhere are told apart. *)
LEMMA KindsDiffer ==
    /\ \A c \in Requests : c # NoCall /\ c \notin Desktop
    /\ \A d \in Desktop : d # NoCall
BY RequestsAssumption DEF NoCall

(* The four places of headers are apart and before the end. *)
LEMMA PlacesApart ==
    ASSUME NEW c \in Requests, SizeFits(c)
    PROVE  /\ 0 < HIDDEN_OFFSET /\ HIDDEN_OFFSET < c.size - GROUP
           /\ c.size - GROUP < c.size - HIDDEN_OFFSET
           /\ HIDDEN_OFFSET + REGION <= c.size - GROUP
           /\ c.size - GROUP \in Nat /\ c.size - HIDDEN_OFFSET \in Nat /\ HIDDEN_OFFSET \in Nat
<1>1. c.size \in Nat BY CallTyped
<1>2. QED BY <1>1 DEF SizeFits, HIDDEN_OFFSET, GROUP, BACKUP_FROM_END, REGION

(* A sealed copy, spoilt or not, is one the search accounts for. *)
LEMMA SealedGenuine ==
    ASSUME NEW plain, NEW prf, NEW s, NEW secret, NEW pim, NEW salt, NEW x,
           x = [Sealed(plain, prf, Schemes[s], secret, pim, salt) EXCEPT !.spoilt = x.spoilt]
    PROVE  x.plain = plain /\ Genuine(x, prf, s, secret, pim, salt)
<1>1. /\ Sealed(plain, prf, Schemes[s], secret, pim, salt).plain = plain
      /\ Sealed(plain, prf, Schemes[s], secret, pim, salt).salt = salt
      /\ Sealed(plain, prf, Schemes[s], secret, pim, salt).coats = SealingLayers(prf, secret, pim, salt, s)
    BY DEF Sealed, Encrypt, SealingLayers
<1> DEFINE y == Sealed(plain, prf, Schemes[s], secret, pim, salt)
<1>2. x = [y EXCEPT !.spoilt = x.spoilt] OBVIOUS
<1>3. DOMAIN y = {"plain", "salt", "spoilt", "coats"} BY DEF Sealed
<1> HIDE DEF y
<1>4. x.plain = y.plain /\ x.salt = y.salt /\ x.coats = y.coats BY <1>2, <1>3
<1>5. QED BY <1>1, <1>4 DEF y, Genuine

(* The owner of a copy. *)
Own == [o \in DOMAIN at |-> SecretOf(call, at[o].plain.volume)]

LEMMA HeaderVolume ==
    ASSUME NEW c, NEW v \in Volumes(c)
    PROVE  v \in {"outer", "hidden"} /\ HeaderOf(c, v).volume = v
<1>1. v \in {"outer", "hidden"} BY DEF Volumes
<1>2. QED BY <1>1 DEF HeaderOf, OuterHeader, HiddenHeader, Header

(* Every copy in the file is sealed under known secrets. *)
LEMMA FileGenuine ==
    ASSUME CopyInv, call \in Requests \cup Desktop
    PROVE  call.scheme \in 1 .. 15
           /\ \E p \in 1 .. 5 : Prfs[p] = call.prf /\ GenuineFile(at, Prfs[p], call.scheme, call.pim, Own)
<1>1. call.scheme \in 1 .. 15 /\ \E p \in 1 .. 5 : Prfs[p] = call.prf
    <2>1. DOMAIN Schemes = 1 .. 15 BY DEF Schemes
    <2>2. DOMAIN Prfs = 1 .. 5 BY DEF Prfs
    <2>3. QED BY <2>1, <2>2, RequestsAssumption
<1>2. PICK p \in 1 .. 5 : Prfs[p] = call.prf BY <1>1
<1>3. \A o \in DOMAIN at : o \in Nat BY DEF CopyInv
<1>4. ASSUME NEW o \in DOMAIN at PROVE Genuine(at[o], Prfs[p], call.scheme, Own[o], call.pim, o)
    <2>1. Own[o] = SecretOf(call, at[o].plain.volume) BY DEF Own
    <2>2. CASE call \in Desktop
        <3>1. at[o] = [Sealed(call.plain, call.prf, Schemes[call.scheme], SecretOf(call, "outer"),
                              call.pim, o) EXCEPT !.spoilt = at[o].spoilt]
            BY <2>2 DEF CopyInv
        <3>2. at[o].plain = call.plain
              /\ Genuine(at[o], call.prf, call.scheme, SecretOf(call, "outer"), call.pim, o)
            BY <3>1, SealedGenuine
        <3>3. call.plain.volume = "outer" BY <2>2, RequestsAssumption
        <3>4. QED BY <1>2, <2>1, <3>2, <3>3
    <2>3. CASE call \in Requests
        <3>1. PICK v \in Volumes(call) : at[o] = [CopyOf(call, v, o) EXCEPT !.spoilt = at[o].spoilt]
            BY <2>3 DEF CopyInv
        <3>2. at[o].plain = HeaderOf(call, v)
              /\ Genuine(at[o], call.prf, call.scheme, SecretOf(call, v), call.pim, o)
            BY <3>1, SealedGenuine DEF CopyOf
        <3>3. HeaderOf(call, v).volume = v BY HeaderVolume
        <3>4. QED BY <1>2, <2>1, <3>2, <3>3
    <2>4. QED BY <2>2, <2>3
<1>5. GenuineFile(at, Prfs[p], call.scheme, call.pim, Own) BY <1>3, <1>4 DEF GenuineFile
<1>6. QED BY <1>1, <1>2, <1>5

(* What the search answers in a file of this call. *)
LEMMA SearchAnswers ==
    ASSUME CopyInv, len \in Nat, call \in Requests \cup Desktop, ~Unreadable(len), NEW secret
    PROVE  Accounted(FindHeader(at, len, secret, call.pim), at, CopiesUnder(secret), call.scheme, call.prf)
<1>1. PICK p \in 1 .. 5 : Prfs[p] = call.prf /\ GenuineFile(at, Prfs[p], call.scheme, call.pim, Own)
    BY FileGenuine
<1>2. call.scheme \in 1 .. 15 BY FileGenuine
<1>3. {o \in InReach(at, len) : Own[o] = secret} = CopiesUnder(secret)
    BY DEF InReach, CopiesUnder, Own
<1>4. Accounted(FindHeader(at, len, secret, call.pim), at,
                {o \in InReach(at, len) : Own[o] = secret}, call.scheme, Prfs[p])
    BY <1>1, <1>2, SearchIsExact
<1>5. QED BY <1>1, <1>3, <1>4

(* Every copy has the header of a volume of the call. *)
LEMMA CopyOwned ==
    ASSUME CopyInv, call \in Requests, NEW o \in DOMAIN at
    PROVE  \E u \in Volumes(call) :
              /\ Passed(call, u) /\ o \in CopyPlaces(call, u)
              /\ at[o].plain = HeaderOf(call, u) /\ at[o].plain.volume = u
<1>1. PICK u \in Volumes(call) :
            Passed(call, u) /\ o \in CopyPlaces(call, u)
            /\ at[o] = [CopyOf(call, u, o) EXCEPT !.spoilt = at[o].spoilt]
    BY Zenon DEF CopyInv
<1>2. at[o] = [Sealed(HeaderOf(call, u), call.prf, Schemes[call.scheme], SecretOf(call, u), call.pim, o)
                  EXCEPT !.spoilt = at[o].spoilt]
    BY <1>1, Zenon DEF CopyOf
<1>3. at[o].plain = HeaderOf(call, u) BY <1>2, SealedGenuine
<1>4. at[o].plain.volume = u BY <1>3, HeaderVolume
<1>5. QED BY <1>1, <1>3, <1>4, Zenon

(* A search finds a header that a copy of the call has. *)
LEMMA FoundHeader ==
    ASSUME CopyInv, len \in Nat, call \in Requests, NEW v \in Volumes(call),
           Search(call, v).out = "found"
    PROVE  \E u \in Volumes(call) :
              /\ Passed(call, u) /\ SecretOf(call, u) = SecretOf(call, v)
              /\ Search(call, v) = Outcome("found", HeaderOf(call, u), call.scheme, call.prf)
              /\ Found(v) = HeaderOf(call, u)
<1> DEFINE secret == SecretOf(call, v)
           answer == Search(call, v)
<1>1. answer = FindHeader(at, len, secret, call.pim) BY DEF Search
<1>2. ~Unreadable(len)
    <2>1. Unreadable(len) => answer = Outcome("Io", {}, 0, "none") BY Zenon DEF Search, FindHeader
    <2>2. Outcome("Io", {}, 0, "none").out = "Io" BY DEF Outcome
    <2>3. "Io" # "found" OBVIOUS
    <2>4. QED BY <2>1, <2>2, <2>3
<1>3. Accounted(FindHeader(at, len, secret, call.pim), at, CopiesUnder(secret), call.scheme, call.prf)
    BY <1>2, SearchAnswers
<1> HIDE DEF secret, answer
<1>4. PICK o \in CopiesUnder(secret) : answer = Outcome("found", at[o].plain, call.scheme, call.prf)
    BY <1>1, <1>3 DEF Accounted, answer
<1>5. o \in DOMAIN at /\ SecretOf(call, at[o].plain.volume) = secret BY DEF CopiesUnder
<1>6. PICK u \in Volumes(call) :
            Passed(call, u) /\ at[o].plain = HeaderOf(call, u) /\ at[o].plain.volume = u
    BY <1>5, CopyOwned
<1>7. SecretOf(call, u) = secret BY <1>5, <1>6
<1>9. answer = Outcome("found", HeaderOf(call, u), call.scheme, call.prf) BY <1>4, <1>6
<1>10. answer.header = HeaderOf(call, u) BY <1>9 DEF Outcome
<1>11. QED BY <1>6, <1>7, <1>9, <1>10 DEF Found, secret, answer

(* A secret of its own leads to the header of its own. *)
LEMMA OwnHeader ==
    ASSUME NEW c, NEW u \in Volumes(c), NEW v \in Volumes(c), SecretOf(c, u) = SecretOf(c, v),
           SecretsDiffer(c)
    PROVE  u = v
<1>1. CASE c.hidden
    <2>1. u \in {"outer", "hidden"} /\ v \in {"outer", "hidden"} BY HeaderVolume
    <2>2. SecretOf(c, "outer") # SecretOf(c, "hidden") BY <1>1 DEF SecretsDiffer
    <2>3. QED BY <2>1, <2>2
<1>2. CASE ~c.hidden BY <1>2 DEF Volumes
<1>3. QED BY <1>1, <1>2

(* The data areas: the headers hold 64-bit numbers. *)
LEMMA HeaderNumbers ==
    ASSUME NEW c \in Requests, NEW v, Passed(c, v)
    PROVE  /\ HeaderOf(c, v).start \in Nat /\ HeaderOf(c, v).size \in Nat
           /\ v = "outer" => HeaderOf(c, v).start = GROUP /\ HeaderOf(c, v).size = c.size - 2 * GROUP
           /\ v = "hidden" => /\ HeaderOf(c, v).start = AsU64(c.size - 2 * GROUP - c.hiddenSize)
                              /\ HeaderOf(c, v).size = c.hiddenSize
<1>1. c.size \in Nat /\ c.hiddenSize \in Nat BY CallTyped
<1>2. c.size >= 2 * GROUP + 512 BY DEF Passed, SizeFits
<1>3. GROUP = 131072 BY DEF GROUP, BACKUP_FROM_END
<1>4. v \in {"outer", "hidden"} BY HeaderVolume DEF Passed
<1>5. CASE v = "outer"
    <2>1. HeaderOf(c, v).start = GROUP /\ HeaderOf(c, v).size = c.size - 2 * GROUP
        BY <1>5 DEF HeaderOf, OuterHeader, Header
    <2>2. QED BY <1>1, <1>2, <1>3, <1>5, <2>1
<1>6. CASE v = "hidden"
    <2>1. /\ HeaderOf(c, v).start = AsU64(c.size - 2 * GROUP - c.hiddenSize)
          /\ HeaderOf(c, v).size = c.hiddenSize
        BY <1>6 DEF HeaderOf, HiddenHeader, Header
    <2>2. c.size - 2 * GROUP - c.hiddenSize \in Int BY <1>1, <1>3
    <2>3. AsU64(c.size - 2 * GROUP - c.hiddenSize) \in Nat BY <2>2, InALongWord
    <2>4. QED BY <1>1, <1>6, <2>1, <2>3
<1>7. QED BY <1>4, <1>5, <1>6

(* A hidden volume whose size only passed because the sum wraps is never
   formatted: it is too long for either file system. *)
LEMMA NoWrappedVolume ==
    ASSUME NEW c \in Requests, Passed(c, "hidden"), FsFits(c, HeaderOf(c, "hidden"))
    PROVE  c.hiddenSize + GROUP <= c.size - 2 * GROUP
<1> DEFINE h == c.hiddenSize
<1>1. c.size \in Nat /\ h \in Nat /\ h < LongWord BY CallTyped
<1>2. GROUP = 131072 /\ BACKUP_FROM_END = 131072 BY DEF GROUP, BACKUP_FROM_END
<1>3. HeaderOf(c, "hidden").size = h BY HeaderNumbers
<1>4. AsU64(h + GROUP) <= c.size - 2 * GROUP BY DEF Passed, HiddenFits
<1>5. LongWord \in Nat /\ Word \in Nat /\ Memory \in Nat BY WordAssumption, MemoryAssumption
<1> HIDE DEF h
<1>6. h + GROUP < LongWord
    <2> SUFFICES ASSUME ~(h + GROUP < LongWord) PROVE FALSE OBVIOUS
    <2>1. h \in LongWord - BACKUP_FROM_END .. LongWord - 1 BY <1>1, <1>2, <1>5
    <2>2. FatLength(h) * BPS >= Memory /\ TotalSectors(h) >= Word BY <2>1, MemoryAssumption
    <2>3. CASE c.fs = "exFAT"
        <3>1. Fits(h) /\ FatLength(h) * BPS < Memory BY <1>3, <2>3 DEF FsFits
        <3>2. FatLength(h) * BPS \in Nat BY <1>1, <3>1, FatAndHeap DEF BPS
        <3> HIDE DEF h
        <3>3. QED BY <1>5, <2>2, <3>1, <3>2
    <2>4. CASE c.fs # "exFAT"
        <3>1. TotalSectors(h) < Word BY <1>3, <2>4 DEF FsFits, FatFits
        <3>2. TotalSectors(h) \in Nat BY <1>1 DEF TotalSectors, BPS
        <3>3. QED BY <1>5, <2>2, <3>1, <3>2
    <2>5. QED BY <2>3, <2>4
<1>7. AsU64(h + GROUP) = h + GROUP BY <1>1, <1>2, <1>6, InALongWord
<1>8. QED BY <1>4, <1>7 DEF h

(* What gets formatted lies in the data area of the container. *)
LEMMA AreaInside ==
    ASSUME NEW c \in Requests, NEW v, Passed(c, v), FsFits(c, HeaderOf(c, v))
    PROVE  /\ GROUP <= HeaderOf(c, v).start
           /\ HeaderOf(c, v).start + HeaderOf(c, v).size <= c.size - GROUP
           /\ v = "hidden" => HeaderOf(c, v).start + HeaderOf(c, v).size = c.size - 2 * GROUP
<1>1. c.size \in Nat /\ c.size < LongWord /\ c.hiddenSize \in Nat BY CallTyped
<1>2. c.size >= 2 * GROUP + 512 BY DEF Passed, SizeFits
<1>3. GROUP = 131072 BY DEF GROUP, BACKUP_FROM_END
<1>4. v \in {"outer", "hidden"} BY HeaderVolume DEF Passed
<1>5. CASE v = "outer"
    <2>1. HeaderOf(c, v).start = GROUP /\ HeaderOf(c, v).size = c.size - 2 * GROUP
        BY <1>5, HeaderNumbers
    <2>2. QED BY <1>1, <1>2, <1>3, <1>5, <2>1
<1>6. CASE v = "hidden"
    <2>1. c.hiddenSize + GROUP <= c.size - 2 * GROUP BY <1>6, NoWrappedVolume
    <2>2. /\ c.size - 2 * GROUP - c.hiddenSize \in Int /\ LongWord \in Nat
          /\ 0 <= c.size - 2 * GROUP - c.hiddenSize /\ c.size - 2 * GROUP - c.hiddenSize < LongWord
        BY <1>1, <1>3, <2>1, WordAssumption
    <2>3. AsU64(c.size - 2 * GROUP - c.hiddenSize) = c.size - 2 * GROUP - c.hiddenSize
        BY <2>2, InALongWord
    <2>4. HeaderOf(c, v).start = c.size - 2 * GROUP - c.hiddenSize /\ HeaderOf(c, v).size = c.hiddenSize
        BY <1>6, <2>3, HeaderNumbers
    <2>5. QED BY <1>1, <1>2, <1>3, <1>6, <2>1, <2>4
<1>7. QED BY <1>4, <1>5, <1>6

(* What format writes lies inside the volume. *)
LEMMA ExtentInside ==
    ASSUME NEW b \in Nat, Fits(b), NEW part \in Parts
    PROVE  /\ Extent(part, b).lo \in Int /\ Extent(part, b).hi \in Int
           /\ 0 <= Extent(part, b).lo /\ Extent(part, b).lo < Extent(part, b).hi
           /\ Extent(part, b).hi <= TotalSectors(b)
<1>1. Inside(Extent(part, b), b) BY PartsApart
<1>2. FatOffset(b) \in Int /\ HeapOffset(b) \in Int BY FatAndHeap
<1>3. Spc(b) \in Int BY ClusterSizes
<1>4. \A k \in Int : ClusterStart(k, b) \in Int BY <1>2, <1>3 DEF ClusterStart
<1>5. 2 \in Int /\ UpcaseFirst(b) \in Int /\ RootFirst(b) \in Int /\ RootFirst(b) + 1 \in Int
    BY Metadata DEF UpcaseFirst, RootFirst
<1>6. Extent(part, b).lo \in Int /\ Extent(part, b).hi \in Int
    <2>1. \A lo, hi \in Int : Sectors(lo, hi).lo \in Int /\ Sectors(lo, hi).hi \in Int BY DEF Sectors
    <2>2. CASE part = "fat"
        <3>1. Extent(part, b) = Sectors(FatOffset(b), HeapOffset(b)) BY <2>2 DEF Extent
        <3>2. QED BY <1>2, <2>1, <3>1
    <2>3. CASE part = "bitmap"
        <3>1. Extent(part, b) = Sectors(ClusterStart(2, b), ClusterStart(UpcaseFirst(b), b))
            BY <2>3 DEF Extent
        <3>2. QED BY <1>4, <1>5, <2>1, <3>1
    <2>4. CASE part = "upcase"
        <3>1. Extent(part, b) = Sectors(ClusterStart(UpcaseFirst(b), b), ClusterStart(RootFirst(b), b))
            BY <2>4 DEF Extent
        <3>2. QED BY <1>4, <1>5, <2>1, <3>1
    <2>5. CASE part = "root"
        <3>1. Extent(part, b) = Sectors(ClusterStart(RootFirst(b), b), ClusterStart(RootFirst(b) + 1, b))
            BY <2>5 DEF Extent
        <3>2. QED BY <1>4, <1>5, <2>1, <3>1
    <2>6. CASE part = "boot"
        <3>1. Extent(part, b) = Sectors(0, 12) BY <2>6 DEF Extent
        <3>2. QED BY <2>1, <3>1
    <2>7. CASE part = "boot copy"
        <3>1. Extent(part, b) = Sectors(12, 24) BY <2>7 DEF Extent
        <3>2. QED BY <2>1, <3>1
    <2>8. QED BY <2>2, <2>3, <2>4, <2>5, <2>6, <2>7 DEF Parts
<1>7. QED BY <1>1, <1>6 DEF Inside

LEMMA FatClusterSizes ==
    ASSUME NEW b \in Nat
    PROVE  FatCluster(b) \in {1, 2, 4, 8, 16, 32, 64}
BY DEF FatCluster

(* The tables are not empty, and they leave room: on FAT12, which may have no
   clusters at all, just enough for what lies before and behind them. *)
LEMMA FatNumbers ==
    ASSUME NEW b \in Nat, NEW kind \in {12, 16, 32}, KindFits(kind, b)
    PROVE  /\ FatRoom(kind, b) \in Int /\ FatTables(kind, b) \in Int /\ 0 < FatTables(kind, b)
           /\ FatTables(kind, b) <= FatRoom(kind, b)
           /\ kind = 32 => FatTables(kind, b) + FatCluster(b) <= FatRoom(kind, b)
<1> DEFINE t == FatRoom(kind, b)
           k == FatTables(kind, b)
           s == FatCluster(b)
           n == FatClusters(kind, b)
<1>1. s \in {1, 2, 4, 8, 16, 32, 64} BY FatClusterSizes
<1>2. t \in Int /\ t > 8
    BY DEF KindFits, FatRoom, TotalSectors, BPS, Reserved, RootSectors
<1>3. k \in Int /\ 0 < k
    <2> DEFINE d == ((4096 * s) \div kind) + 2
    <2>1. k = 2 * CeilDiv(t + 2 * s, d) BY Zenon DEF FatTables
    <2>2. d \in Nat /\ d >= 2 BY <1>1
    <2>3. t + 2 * s \in Nat /\ t + 2 * s > 0 BY <1>1, <1>2
    <2> HIDE DEF t, k, s, d
    <2>4. CeilDiv(t + 2 * s, d) \in Int /\ CeilDiv(t + 2 * s, d) > 0 BY <2>2, <2>3 DEF CeilDiv
    <2>5. QED BY <2>1, <2>4
<1>4. n = (t - k) \div s BY Zenon DEF FatClusters
<1>h. HIDE DEF t, k
<1>5. ASSUME kind = 12 PROVE k <= t
    <2>1. CASE FatCluster(b) = 1
        <3>1. ((4096 * 1) \div 12) + 2 = 343 OBVIOUS
        <3>2. k = 2 * CeilDiv(t + 2 * 1, 343) BY <1>5, <2>1, <3>1 DEF FatTables, k, t
        <3>3. QED BY <1>2, <3>2 DEF CeilDiv
    <2>2. CASE FatCluster(b) = 2
        <3>1. ((4096 * 2) \div 12) + 2 = 684 OBVIOUS
        <3>2. k = 2 * CeilDiv(t + 2 * 2, 684) BY <1>5, <2>2, <3>1 DEF FatTables, k, t
        <3>3. QED BY <1>2, <3>2 DEF CeilDiv
    <2>3. CASE FatCluster(b) = 4
        <3>1. ((4096 * 4) \div 12) + 2 = 1367 OBVIOUS
        <3>2. k = 2 * CeilDiv(t + 2 * 4, 1367) BY <1>5, <2>3, <3>1 DEF FatTables, k, t
        <3>3. QED BY <1>2, <3>2 DEF CeilDiv
    <2>4. CASE FatCluster(b) = 8
        <3>1. ((4096 * 8) \div 12) + 2 = 2732 OBVIOUS
        <3>2. k = 2 * CeilDiv(t + 2 * 8, 2732) BY <1>5, <2>4, <3>1 DEF FatTables, k, t
        <3>3. QED BY <1>2, <3>2 DEF CeilDiv
    <2>5. CASE FatCluster(b) = 16
        <3>1. ((4096 * 16) \div 12) + 2 = 5463 OBVIOUS
        <3>2. k = 2 * CeilDiv(t + 2 * 16, 5463) BY <1>5, <2>5, <3>1 DEF FatTables, k, t
        <3>3. QED BY <1>2, <3>2 DEF CeilDiv
    <2>6. CASE FatCluster(b) = 32
        <3>1. ((4096 * 32) \div 12) + 2 = 10924 OBVIOUS
        <3>2. k = 2 * CeilDiv(t + 2 * 32, 10924) BY <1>5, <2>6, <3>1 DEF FatTables, k, t
        <3>3. QED BY <1>2, <3>2 DEF CeilDiv
    <2>7. CASE FatCluster(b) = 64
        <3>1. ((4096 * 64) \div 12) + 2 = 21847 OBVIOUS
        <3>2. k = 2 * CeilDiv(t + 2 * 64, 21847) BY <1>5, <2>7, <3>1 DEF FatTables, k, t
        <3>3. QED BY <1>2, <3>2 DEF CeilDiv
    <2>8. QED BY <1>1, <2>1, <2>2, <2>3, <2>4, <2>5, <2>6, <2>7
<1>6. ASSUME kind # 12 PROVE k + s <= t
    <2>1. KindOf(n) # 12 BY <1>6 DEF KindFits
    <2>2. n \in Int BY <1>1, <1>2, <1>3, <1>4
    <2>3. n >= 4085 BY <2>1, <2>2 DEF KindOf
    <2> HIDE DEF n, s
    <2>4. s <= t - k BY <1>1, <1>2, <1>3, <1>4, <2>3
    <2>5. QED BY <1>1, <1>2, <1>3, <2>4
<1>7. s \in Nat BY <1>1
<1> HIDE DEF s
<1>8. k <= t BY <1>2, <1>3, <1>5, <1>6, <1>7
<1>9. QED BY <1>2, <1>3, <1>6, <1>8 DEF t, k, s

LEMMA FatPlaces ==
    ASSUME NEW b \in Nat, FatFits(b)
    PROVE  LET kind == FatKind(b)
               r == Reserved(kind)
               k == FatTables(kind, b)
               root == IF kind = 32 THEN FatCluster(b) ELSE RootSectors(kind)
               T == TotalSectors(b)
           IN  /\ 0 \in Int /\ r \in Int /\ r + k \in Int /\ r + k + root \in Int
               /\ 0 <= 0 /\ 0 < r /\ 0 <= r /\ r < r + k /\ 0 <= r + k /\ r + k < r + k + root
               /\ r <= T /\ r + k <= T /\ r + k + root <= T
<1> DEFINE kind == FatKind(b)
           r == Reserved(kind)
           k == FatTables(kind, b)
           root == IF kind = 32 THEN FatCluster(b) ELSE RootSectors(kind)
           T == TotalSectors(b)
<1>1. kind \in {12, 16, 32} BY DEF FatKind
<1>2. KindFits(kind, b) BY DEF FatFits
<1>3. /\ FatRoom(kind, b) \in Int /\ k \in Int /\ 0 < k /\ k <= FatRoom(kind, b)
      /\ kind = 32 => k + FatCluster(b) <= FatRoom(kind, b)
    <2> HIDE DEF kind
    <2>1. QED BY <1>1, <1>2, FatNumbers
<1>4. T \in Nat BY DEF TotalSectors, BPS
<1>5. FatCluster(b) \in Nat /\ FatCluster(b) > 0 BY FatClusterSizes
<1>6. FatRoom(kind, b) = T - r - RootSectors(kind) BY Zenon DEF FatRoom
<1>7. r \in {1, 8} /\ (kind # 32 => RootSectors(kind) = 32) /\ (kind = 32 => RootSectors(kind) = 0)
    BY DEF Reserved, RootSectors
<1>8. (kind = 32 => root = FatCluster(b)) /\ (kind # 32 => root = RootSectors(kind)) OBVIOUS
<1> HIDE DEF kind, r, k, root, T
<1>9. root \in Nat /\ 0 < root /\ r + k + root <= T
    <2>1. CASE kind = 32 BY <1>3, <1>4, <1>5, <1>6, <1>7, <1>8, <2>1
    <2>2. CASE kind # 32 BY <1>3, <1>4, <1>6, <1>7, <1>8, <2>2
    <2>3. QED BY <2>1, <2>2
<1>10. /\ 0 \in Int /\ r \in Int /\ r + k \in Int /\ r + k + root \in Int
       /\ 0 <= 0 /\ 0 < r /\ 0 <= r /\ r < r + k /\ 0 <= r + k /\ r + k < r + k + root
       /\ r <= T /\ r + k <= T /\ r + k + root <= T
    BY <1>3, <1>4, <1>7, <1>9
<1>11. QED BY <1>10, Zenon DEF kind, r, k, root, T

LEMMA FatExtentInside ==
    ASSUME NEW b \in Nat, FatFits(b), NEW part \in {"fat boot", "fat tables", "fat root"}
    PROVE  /\ FatExtent(part, b).lo \in Int /\ FatExtent(part, b).hi \in Int
           /\ 0 <= FatExtent(part, b).lo /\ FatExtent(part, b).lo < FatExtent(part, b).hi
           /\ FatExtent(part, b).hi <= TotalSectors(b)
<1> DEFINE kind == FatKind(b)
           r == Reserved(kind)
           k == FatTables(kind, b)
           root == IF kind = 32 THEN FatCluster(b) ELSE RootSectors(kind)
           T == TotalSectors(b)
           e == FatExtent(part, b)
<1>1. /\ 0 \in Int /\ r \in Int /\ r + k \in Int /\ r + k + root \in Int
      /\ 0 <= 0 /\ 0 < r /\ 0 <= r /\ r < r + k /\ 0 <= r + k /\ r + k < r + k + root
      /\ r <= T /\ r + k <= T /\ r + k + root <= T
    BY FatPlaces, Zenon
<1>2. /\ part = "fat boot" => e = Sectors(0, r)
      /\ part = "fat tables" => e = Sectors(r, r + k)
      /\ part = "fat root" => e = Sectors(r + k, r + k + root)
    BY Zenon DEF FatExtent
<1> HIDE DEF kind, r, k, root, T, e
<1>3. \A lo, hi : Sectors(lo, hi).lo = lo /\ Sectors(lo, hi).hi = hi
    <2> TAKE lo, hi
    <2>1. QED BY DEF Sectors
<1>4. part = "fat boot" \/ part = "fat tables" \/ part = "fat root" OBVIOUS
<1>5. e.lo \in Int /\ e.hi \in Int /\ 0 <= e.lo /\ e.lo < e.hi /\ e.hi <= T
    <2>1. CASE part = "fat boot"
        <3>1. e.lo = 0 /\ e.hi = r BY <1>2, <1>3, <2>1, Zenon
        <3>2. QED BY <1>1, <3>1, Zenon
    <2>2. CASE part = "fat tables"
        <3>1. e.lo = r /\ e.hi = r + k BY <1>2, <1>3, <2>2, Zenon
        <3>2. QED BY <1>1, <3>1, Zenon
    <2>3. CASE part = "fat root"
        <3>1. e.lo = r + k /\ e.hi = r + k + root BY <1>2, <1>3, <2>3, Zenon
        <3>2. QED BY <1>1, <3>1, Zenon
    <2>4. QED BY <1>4, <2>1, <2>2, <2>3
<1>6. QED BY <1>5 DEF e, T

(* The parts of the file system that was asked for. *)
LEMMA OrderedParts ==
    ASSUME NEW c \in Requests, NEW i \in 1 .. Parted(c)
    PROVE  /\ c.fs = "exFAT" => FsOrder(c)[i] \in Parts
           /\ c.fs # "exFAT" => FsOrder(c)[i] \in {"fat boot", "fat tables", "fat root"}
<1>1. CASE c.fs = "exFAT"
    <2>1. FsOrder(c) = WriteOrder BY <1>1 DEF FsOrder
    <2>2. i = 1 \/ i = 2 \/ i = 3 \/ i = 4 \/ i = 5 \/ i = 6 BY <1>1 DEF Parted
    <2>3. /\ WriteOrder[1] = "fat" /\ WriteOrder[2] = "bitmap" /\ WriteOrder[3] = "upcase"
          /\ WriteOrder[4] = "root" /\ WriteOrder[5] = "boot" /\ WriteOrder[6] = "boot copy"
        BY DEF WriteOrder
    <2>4. WriteOrder[i] \in Parts BY <2>2, <2>3, Zenon DEF Parts
    <2>5. QED BY <1>1, <2>1, <2>4
<1>2. CASE c.fs # "exFAT"
    <2>1. FsOrder(c) = FatOrder BY <1>2 DEF FsOrder
    <2>2. i = 1 \/ i = 2 \/ i = 3 BY <1>2 DEF Parted
    <2>3. FatOrder[1] = "fat boot" /\ FatOrder[2] = "fat tables" /\ FatOrder[3] = "fat root"
        BY DEF FatOrder
    <2>4. FatOrder[i] \in {"fat boot", "fat tables", "fat root"} BY <2>2, <2>3, Zenon
    <2>5. QED BY <1>2, <2>1, <2>4
<1>3. QED BY <1>1, <1>2

(* Where a part of a file system of the call lies. *)
LEMMA LaidInside ==
    ASSUME NEW c \in Requests, NEW v, Passed(c, v), FsFits(c, HeaderOf(c, v)), NEW i \in 1 .. Parted(c)
    PROVE  LET p == Laid(FsOrder(c)[i], HeaderOf(c, v))
           IN  /\ p.part = FsOrder(c)[i] /\ p.header = HeaderOf(c, v)
               /\ p.lo \in Nat /\ p.hi \in Nat /\ p.lo < p.hi
               /\ HeaderOf(c, v).start <= p.lo
               /\ p.hi <= HeaderOf(c, v).start + HeaderOf(c, v).size
<1> DEFINE part == FsOrder(c)[i]
           h == HeaderOf(c, v)
           p == Laid(part, h)
           e == IF part \in Parts THEN Extent(part, h.size) ELSE FatExtent(part, h.size)
<1>1. h.start \in Nat /\ h.size \in Nat BY HeaderNumbers
<1>2. e.lo \in Int /\ e.hi \in Int /\ 0 <= e.lo /\ e.lo < e.hi /\ e.hi <= TotalSectors(h.size)
    <2>1. CASE c.fs = "exFAT"
        <3>1. Fits(h.size) /\ part \in Parts BY <2>1, OrderedParts DEF FsFits
        <3> HIDE DEF h, part
        <3>2. QED BY <1>1, <3>1, ExtentInside
    <2>2. CASE c.fs # "exFAT"
        <3>1. FatFits(h.size) /\ part \in {"fat boot", "fat tables", "fat root"}
            BY <2>2, OrderedParts DEF FsFits
        <3>2. part \notin Parts BY <3>1 DEF Parts
        <3> HIDE DEF h, part
        <3>3. QED BY <1>1, <3>1, <3>2, FatExtentInside
    <2>3. QED BY <2>1, <2>2
<1>3. p = [part |-> part, header |-> h, lo |-> h.start + BPS * e.lo, hi |-> h.start + BPS * e.hi]
    BY Zenon DEF Laid
<1> HIDE DEF h, part, e, p
<1>4. p.part = part /\ p.header = h /\ p.lo = h.start + BPS * e.lo /\ p.hi = h.start + BPS * e.hi
    BY <1>3
<1>5. BPS = 512 /\ TotalSectors(h.size) = h.size \div 512 BY DEF BPS, TotalSectors
<1>6. p.lo \in Nat /\ p.hi \in Nat /\ p.lo < p.hi /\ h.start <= p.lo /\ p.hi <= h.start + h.size
    <2> DEFINE lo == e.lo
               hi == e.hi
               st == h.start
               sz == h.size
    <2>1. /\ st \in Nat /\ sz \in Nat /\ lo \in Int /\ hi \in Int /\ 0 <= lo /\ lo < hi
          /\ hi <= sz \div 512
        BY <1>1, <1>2, <1>5
    <2>2. p.lo = st + 512 * lo /\ p.hi = st + 512 * hi BY <1>4, <1>5
    <2> HIDE DEF lo, hi, st, sz
    <2>3. /\ st + 512 * lo \in Nat /\ st + 512 * hi \in Nat /\ st + 512 * lo < st + 512 * hi
          /\ st <= st + 512 * lo /\ st + 512 * hi <= st + sz
        BY <2>1
    <2>4. QED BY <2>2, <2>3 DEF st, sz
<1>7. QED BY <1>4, <1>6 DEF h, part, p

-----------------------------------------------------------------------------
(* Where a script has a step *)

(* A step done well is one further in the script. *)
LEMMA Advanced ==
    ASSUME CallInv, todo # <<>>, todo' = Tail(todo), UNCHANGED <<call, result, damage>>
    PROVE  /\ CallInv' /\ GoingWell /\ GoingWell' /\ call \in Requests
           /\ Past \in Nat /\ Past' = Past + 1 /\ Past + 1 \in 1 .. ScriptLen(call)
           /\ StepAt(call, Past + 1, Head(todo))
<1>1. /\ GoingWell /\ Past \in Nat /\ Past + 1 \in 1 .. ScriptLen(call)
      /\ Head(todo) = Script(call)[Past + 1]
      /\ ScriptLen(call) - Len(Tail(todo)) = Past + 1
      /\ Tail(todo) = SubSeq(Script(call), Past + 1 + 1, ScriptLen(call))
      /\ Past + 1 \in 0 .. ScriptLen(call)
    BY NextStep
<1>2. call \in Requests /\ GoingWell' BY <1>1 DEF GoingWell
<1>3. Past' = Past + 1
    <2>1. Past' = ScriptLen(call') - Len(todo') BY DEF Past
    <2>2. QED BY <1>1, <2>1
<1>4. StepAt(call, Past + 1, Head(todo)) BY <1>1, <1>2, ScriptSteps
<1>5. CallInv'
    <2>1. todo' = SubSeq(Script(call)', Past' + 1, ScriptLen(call)') /\ Past' \in 0 .. ScriptLen(call)'
        <3>1. Script(call)' = Script(call) /\ ScriptLen(call)' = ScriptLen(call) BY Zenon
        <3>2. QED BY <1>1, <1>3, <3>1, Zenon
    <2>2. QED BY <1>2, <2>1, Zenon DEF CallInv
<1>6. QED BY <1>1, <1>2, <1>3, <1>4, <1>5

LEMMA OpOf ==
    /\ \A o : Noise(o).op = "noise" /\ Noise(o).at = o
    /\ \A c, v, o : CopyStep(c, v, o).op = "copy" /\ CopyStep(c, v, o).at = o
    /\ \A x : [op |-> "require", holds |-> x].op = "require"
    /\ \A x : [op |-> "find", volume |-> x].op = "find"
    /\ \A x : [op |-> "lay", part |-> x].op = "lay"
    /\ [op |-> "flush"].op = "flush" /\ [op |-> "fit"].op = "fit" /\ [op |-> "drop"].op = "drop"
BY DEF Noise, CopyStep, Copy

(* Where in a script a step of one kind can be. *)
LEMMA WhereOpening ==
    ASSUME NEW c, NEW i, NEW st, StepAt(c, i, st),
           st.op \notin {"require", "noise", "copy", "flush", "find", "fit", "lay", "drop", "device"}
    PROVE  i <= Opening(c)
<1> DEFINE S == {"require", "noise", "copy", "flush", "find", "fit", "lay", "drop", "device"}
<1>1. /\ "require" \in S /\ "noise" \in S /\ "copy" \in S /\ "flush" \in S /\ "find" \in S
      /\ "fit" \in S /\ "lay" \in S /\ "drop" \in S /\ "device" \in S
    OBVIOUS
<1>2. \A x \in {"flush", "drop", "device"} : x \in S OBVIOUS
<1>3. {"drop", "device"} \subseteq {"flush", "drop", "device"} OBVIOUS
<1>4. st.op \notin S OBVIOUS
<1> HIDE DEF S
<1>5. ASSUME NEW v \in Volumes(c), NEW n,
             \/ i = Finding(c, v) /\ st = [op |-> "find", volume |-> v]
             \/ i = Finding(c, v) + 1 /\ st = [op |-> "fit"]
             \/ \E j \in 1 .. n : i = Finding(c, v) + 1 + j /\ st = [op |-> "lay", part |-> FsOrder(c)[j]]
             \/ i = Finding(c, v) + 2 + n /\ st = [op |-> "flush"]
      PROVE  st.op \in S
    BY <1>1, <1>5, OpOf
<1>6. ASSUME st.op \in {"flush", "drop", "device"} PROVE st.op \in S BY <1>2, <1>6
<1>7. ASSUME st.op \in {"drop", "device"} PROVE st.op \in S BY <1>2, <1>7
<1>8. \/ i <= Opening(c)
      \/ \E x : st = [op |-> "require", holds |-> x]
      \/ \E o : st = Noise(o)
      \/ \E v, o : st = CopyStep(c, v, o)
      \/ st = [op |-> "flush"] \/ st = [op |-> "drop"]
      \/ st.op \in {"flush", "drop", "device"} \/ st.op \in {"drop", "device"}
      \/ \E v \in Volumes(c) :
            \/ i = Finding(c, v) /\ st = [op |-> "find", volume |-> v]
            \/ i = Finding(c, v) + 1 /\ st = [op |-> "fit"]
            \/ \E j \in 1 .. Parted(c) :
                    i = Finding(c, v) + 1 + j /\ st = [op |-> "lay", part |-> FsOrder(c)[j]]
            \/ i = Finding(c, v) + 2 + Parted(c) /\ st = [op |-> "flush"]
    BY Zenon DEF StepAt
<1>9. ASSUME \/ \E x : st = [op |-> "require", holds |-> x]
             \/ \E o : st = Noise(o)
             \/ \E v, o : st = CopyStep(c, v, o)
             \/ st = [op |-> "flush"] \/ st = [op |-> "drop"]
      PROVE  st.op \in S
    BY <1>1, <1>9, OpOf
<1>10. QED BY <1>4, <1>5, <1>6, <1>7, <1>8, <1>9, Zenon

(* Where in the script a step of each kind stands. *)
LEMMA WhereRequire ==
    ASSUME NEW c, NEW i, NEW st, StepAt(c, i, st), st.op = "require"
    PROVE  \/ i = Opening(c) + 1 /\ st.holds = SizeFits(c)
           \/ c.hidden /\ i = Opening(c) + 9 /\ st.holds = HiddenFits(c)
BY DEF StepAt, Noise, CopyStep, Copy

LEMMA WhereNoise ==
    ASSUME NEW c, NEW i, NEW st, StepAt(c, i, st), st.op = "noise"
    PROVE  \/ i \in Opening(c) + 2 .. Opening(c) + 4 /\ st.at \in {0, HIDDEN_OFFSET, c.size - GROUP}
           \/ i = Opening(c) + 5 /\ st.at = c.size - HIDDEN_OFFSET
BY DEF StepAt, Noise, CopyStep, Copy

LEMMA WhereCopy ==
    ASSUME NEW c, NEW i, NEW st, StepAt(c, i, st), st.op = "copy"
    PROVE  \/ i = Opening(c) + 6 /\ st = CopyStep(c, "outer", 0)
           \/ i = Opening(c) + 7 /\ st = CopyStep(c, "outer", c.size - GROUP)
           \/ c.hidden /\ i = Opening(c) + 10 /\ st = CopyStep(c, "hidden", HIDDEN_OFFSET)
           \/ c.hidden /\ i = Opening(c) + 11 /\ st = CopyStep(c, "hidden", c.size - HIDDEN_OFFSET)
BY OpOf DEF StepAt

LEMMA WhereFind ==
    ASSUME NEW c, NEW i, NEW st, StepAt(c, i, st), st.op = "find"
    PROVE  \E v \in Volumes(c) : i = Finding(c, v) /\ st.volume = v
BY DEF StepAt, Noise, CopyStep, Copy

LEMMA WhereFit ==
    ASSUME NEW c, NEW i, NEW st, StepAt(c, i, st), st.op = "fit"
    PROVE  \E v \in Volumes(c) : i = Finding(c, v) + 1
BY DEF StepAt, Noise, CopyStep, Copy

LEMMA WhereLay ==
    ASSUME NEW c, NEW i, NEW st, StepAt(c, i, st), st.op = "lay"
    PROVE  \E v \in Volumes(c) : \E j \in 1 .. Parted(c) :
              i = Finding(c, v) + 1 + j /\ st.part = FsOrder(c)[j]
BY DEF StepAt, Noise, CopyStep, Copy

LEMMA WhereQuiet ==
    ASSUME NEW c, NEW i, NEW st, StepAt(c, i, st), st.op \in {"flush", "drop", "device"}
    PROVE  \/ i <= Opening(c) \/ i = Opening(c) + 8
           \/ c.hidden /\ i \in Opening(c) + 12 .. Opening(c) + 14
           \/ \E v \in Volumes(c) : i = Finding(c, v) + 2 + Parted(c)
           \/ c.hidden /\ i \in Finding(c, "hidden") - 2 .. Finding(c, "hidden") - 1
           \/ c.hidden /\ i = ScriptLen(c)
<1>1. CASE st.op = "flush" BY <1>1, OpOf DEF StepAt
<1>2. CASE st.op = "drop" BY <1>2, OpOf DEF StepAt
<1>3. CASE st.op = "device" BY <1>3, OpOf DEF StepAt
<1>4. QED BY <1>1, <1>2, <1>3

LEMMA WhereDevice ==
    ASSUME NEW c, NEW i, NEW st, StepAt(c, i, st), st.op \in {"drop", "device"}
    PROVE  \/ i <= Opening(c)
           \/ c.hidden /\ i \in Opening(c) + 12 .. Opening(c) + 14
           \/ c.hidden /\ i \in Finding(c, "hidden") - 2 .. Finding(c, "hidden") - 1
           \/ c.hidden /\ i = ScriptLen(c)
<1>1. CASE st.op = "drop" BY <1>1, OpOf DEF StepAt
<1>2. CASE st.op = "device" BY <1>2, OpOf DEF StepAt
<1>3. QED BY <1>1, <1>2

-----------------------------------------------------------------------------
(* What a step that goes well leaves true *)

(* The order of the places. *)
LEMMA Marks ==
    ASSUME NEW c
    PROVE  /\ Opening(c) \in 1 .. 3 /\ Parted(c) \in {3, 6}
           /\ \A v \in Volumes(c) : Finding(c, v) \in Nat /\ Finding(c, "outer") <= Finding(c, v)
           /\ Finding(c, "outer") \in Nat /\ Finding(c, "outer") > Opening(c) + 8
           /\ LastFlush(c) \in Nat /\ Finding(c, "outer") < LastFlush(c)
           /\ ~c.hidden =>
                /\ \A v \in Volumes(c) : v = "outer"
                /\ Finding(c, "outer") = Opening(c) + 9
                /\ LastFlush(c) = Finding(c, "outer") + 2 + Parted(c)
                /\ ScriptLen(c) = LastFlush(c)
           /\ c.hidden =>
                /\ "hidden" \in Volumes(c) /\ \A v \in Volumes(c) : v = "outer" \/ v = "hidden"
                /\ Finding(c, "outer") = Opening(c) + 15
                /\ Finding(c, "hidden") = Finding(c, "outer") + 5 + Parted(c)
                /\ Finding(c, "hidden") = Opening(c) + 20 + Parted(c)
                /\ LastFlush(c) = Finding(c, "hidden") + 2 + Parted(c)
                /\ ScriptLen(c) = LastFlush(c) + 1
           /\ "outer" \in Volumes(c)
<1>1. /\ Opening(c) \in 1 .. 3 /\ Parted(c) \in {3, 6} BY Numbers
<1>2. CASE c.hidden
    <2>1. Volumes(c) = {"outer", "hidden"} BY <1>2 DEF Volumes
    <2>2. /\ Finding(c, "outer") = Opening(c) + 15
          /\ Finding(c, "hidden") = Opening(c) + 20 + Parted(c)
          /\ LastFlush(c) = Opening(c) + 22 + 2 * Parted(c)
          /\ ScriptLen(c) = Opening(c) + 23 + 2 * Parted(c)
        BY <1>2, Positions
    <2> DEFINE o == Opening(c)
               n == Parted(c)
               f == Finding(c, "outer")
               g == Finding(c, "hidden")
               l == LastFlush(c)
               m == ScriptLen(c)
    <2> HIDE DEF o, n, f, g, l, m
    <2>3. /\ f \in Nat /\ g \in Nat /\ l \in Nat /\ f > o + 8 /\ f <= g /\ f <= f /\ f < l
          /\ f = o + 15 /\ g = f + 5 + n /\ g = o + 20 + n /\ l = g + 2 + n /\ m = l + 1
        BY <1>1, <2>2 DEF o, n, f, g, l, m
    <2>4. QED BY <1>1, <1>2, <2>1, <2>3, Zenon DEF o, n, f, g, l, m
<1>3. CASE ~c.hidden
    <2>1. Volumes(c) = {"outer"} BY <1>3 DEF Volumes
    <2>2. /\ Finding(c, "outer") = Opening(c) + 9
          /\ LastFlush(c) = Opening(c) + 11 + Parted(c)
          /\ ScriptLen(c) = Opening(c) + 11 + Parted(c)
        BY <1>3, Positions
    <2> DEFINE o == Opening(c)
               n == Parted(c)
               f == Finding(c, "outer")
               l == LastFlush(c)
               m == ScriptLen(c)
    <2> HIDE DEF o, n, f, l, m
    <2>3. /\ f \in Nat /\ l \in Nat /\ f > o + 8 /\ f <= f /\ f < l
          /\ f = o + 9 /\ l = f + 2 + n /\ m = l
        BY <1>1, <2>2 DEF o, n, f, l, m
    <2>4. QED BY <1>1, <1>3, <2>1, <2>3, Zenon DEF o, n, f, l, m
<1>4. QED BY <1>2, <1>3

(* One step further, what holds of headers. *)
LEMMA HeadersStep ==
    ASSUME HeadersInv, GoingWell, call' = call, Past \in Nat, NEW i, i = Past + 1, Past' = i,
           DOMAIN at \subseteq DOMAIN at' \/ i <= Opening(call) + 5,
           (len \in Nat /\ len' \in Nat /\ len <= len') \/ i <= Opening(call) + 4,
           i = Opening(call) + 1 => SizeFits(call),
           i = Opening(call) + 5 => len' >= call.size - GROUP,
           i = Opening(call) + 6 => 0 \in DOMAIN at',
           i = Opening(call) + 7 => call.size - GROUP \in DOMAIN at',
           call.hidden /\ i = Opening(call) + 9 => HiddenFits(call),
           call.hidden /\ i = Opening(call) + 10 => HIDDEN_OFFSET \in DOMAIN at',
           call.hidden /\ i = Opening(call) + 11 => call.size - HIDDEN_OFFSET \in DOMAIN at',
           unsynced' => i < LastFlush(call), call.size \in Nat
    PROVE  HeadersInv'
<1> DEFINE o == Opening(call)
           k == Past
           a == call.size - GROUP
           b == call.size - HIDDEN_OFFSET
<1>1. o \in Nat BY Marks
<1>2. Opening(call)' = o /\ SizeFits(call)' = SizeFits(call) /\ HiddenFits(call)' = HiddenFits(call)
      /\ LastFlush(call)' = LastFlush(call)
    BY Zenon
<1>3. a \in Int BY DEF GROUP, BACKUP_FROM_END
<1>4. /\ k > o => SizeFits(call)
      /\ k > o + 4 => len >= a
      /\ k > o + 5 => 0 \in DOMAIN at
      /\ k > o + 6 => a \in DOMAIN at
      /\ call.hidden =>
            /\ k > o + 8 => HiddenFits(call)
            /\ k > o + 9 => HIDDEN_OFFSET \in DOMAIN at
            /\ k > o + 10 => b \in DOMAIN at
    BY DEF HeadersInv
<1> HIDE DEF o, k, a, b
<1>5. k \in Nat /\ i = k + 1 BY DEF k
<1>6. /\ i > o => k > o \/ i = o + 1
      /\ i > o + 4 => k > o + 4 \/ i = o + 5
      /\ i > o + 5 => k > o + 5 \/ i = o + 6
      /\ i > o + 6 => k > o + 6 \/ i = o + 7
      /\ i > o + 8 => k > o + 8 \/ i = o + 9
      /\ i > o + 9 => k > o + 9 \/ i = o + 10
      /\ i > o + 10 => k > o + 10 \/ i = o + 11
      /\ i > o + 4 => ~(i <= o + 4)
      /\ i > o + 5 => ~(i <= o + 5)
    BY <1>1, <1>5
<1>7. i > o => SizeFits(call) BY <1>4, <1>6 DEF o
<1>8. i > o + 4 => len' >= a
    <2>1. CASE k > o + 4
        <3>1. len >= a /\ len \in Nat /\ len' \in Nat /\ len <= len' BY <1>1, <1>4, <1>5, <2>1 DEF o
        <3>2. QED BY <1>3, <3>1
    <2>2. QED BY <1>6, <2>1 DEF o, a
<1>9. \A x : x \in DOMAIN at /\ i > o + 5 => x \in DOMAIN at' BY <1>1, <1>5 DEF o
<1>10. i > o + 5 => 0 \in DOMAIN at' BY <1>4, <1>6, <1>9 DEF o
<1>12. i > o + 6 => a \in DOMAIN at' 
    <2>1. i > o + 6 => i > o + 5 BY <1>1, <1>5
    <2>2. QED BY <1>4, <1>6, <1>9, <2>1 DEF o, a
<1>13. call.hidden =>
            /\ i > o + 8 => HiddenFits(call)
            /\ i > o + 9 => HIDDEN_OFFSET \in DOMAIN at'
            /\ i > o + 10 => b \in DOMAIN at'
    <2>1. (i > o + 9 => i > o + 5) /\ (i > o + 10 => i > o + 5) BY <1>1, <1>5
    <2>2. call.hidden /\ i > o + 8 => HiddenFits(call) BY <1>4, <1>6 DEF o
    <2>3. call.hidden /\ i > o + 9 => HIDDEN_OFFSET \in DOMAIN at' BY <1>4, <1>6, <1>9, <2>1 DEF o
    <2>4. call.hidden /\ i > o + 10 => b \in DOMAIN at' BY <1>4, <1>6, <1>9, <2>1 DEF o, b
    <2>5. QED BY <2>2, <2>3, <2>4
<1>14. QED BY <1>2, <1>7, <1>8, <1>10, <1>12, <1>13, Zenon DEF HeadersInv, o, a, b

(* What a step that leaves the file alone keeps. *)
LEMMA SameSearch ==
    ASSUME at' = at, len' = len, call' = call, NEW v
    PROVE  Search(call, v)' = Search(call, v) /\ Found(v)' = Found(v)
BY DEF Search, Found

LEMMA SamePresent ==
    ASSUME laid \subseteq laid', call' = call, NEW q, NEW h, Present(q, h)
    PROVE  Present(q, h)'
<1>1. Overlaid(Laid(q, h))' = Overlaid(Laid(q, h)) BY DEF Overlaid
<1>2. Laid(q, h)' = Laid(q, h) BY DEF Laid
<1>3. QED BY <1>1, <1>2 DEF Present

(* Nothing is laid before a volume was found. *)
LEMMA NothingLaid ==
    ASSUME FormatInv, GoingWell, Past \in Nat, Past < Finding(call, "outer")
    PROVE  laid = {}
<1>1. \A p \in laid : \E v \in Volumes(call) : Past >= Finding(call, v) BY DEF FormatInv
<1>2. \A v \in Volumes(call) : ~(Past >= Finding(call, v)) BY Marks
<1>3. QED BY <1>1, <1>2

(* Before the first volume is found nothing is laid. *)
LEMMA EarlyStep ==
    ASSUME GoingWell, call' = call, Past \in Nat, NEW i \in Nat, Past' = i, i < Finding(call, "outer"),
           laid' = {}
    PROVE  FormatInv'
<1>1. \A v \in Volumes(call) : /\ ~(i >= Finding(call, v)) /\ ~(i > Finding(call, v))
                               /\ \A j \in 1 .. Parted(call) : ~(i > Finding(call, v) + j)
    BY Marks
<1>2. Volumes(call') = Volumes(call) /\ Parted(call') = Parted(call)
      /\ \A v : Finding(call', v) = Finding(call, v)
    OBVIOUS
<1>3. QED BY <1>1, <1>2, Zenon DEF FormatInv

(* A step that neither finds, fits nor lays. *)
LEMMA QuietStep ==
    ASSUME FormatInv, GoingWell, at' = at, len' = len, laid' = laid, target' = target, call' = call,
           Past \in Nat, NEW i, i = Past + 1, Past' = i,
           \A v \in Volumes(call) : i \notin Finding(call, v) .. Finding(call, v) + 1 + Parted(call)
    PROVE  FormatInv'
<1> DEFINE k == Past
           n == Parted(call)
           F(v) == Finding(call, v)
<1>1. k \in Nat /\ i = k + 1 /\ n \in Nat /\ \A v \in Volumes(call) : F(v) \in Nat
    BY Marks
<1>2. \A v \in Volumes(call) : i \notin F(v) .. F(v) + 1 + n OBVIOUS
<1>3. /\ \A v : Search(call, v)' = Search(call, v) /\ Found(v)' = Found(v)
      /\ \A q, h : Present(q, h) => Present(q, h)'
    BY SameSearch, SamePresent
<1>4. /\ \A v \in Volumes(call) :
            /\ k >= F(v) => Search(call, v).out = "found"
            /\ k >= F(v) /\ (v = "outer" => ~call.hidden \/ k < F("hidden")) => target = Found(v)
            /\ k > F(v) => FsFits(call, Found(v))
            /\ \A j \in 1 .. n : k > F(v) + j => Present(FsOrder(call)[j], Found(v))
      /\ \A p \in laid : \E v \in Volumes(call) : k >= F(v) /\ p.header = Found(v)
    BY DEF FormatInv
<1>5. GoingWell' => Past' = i /\ call' = call OBVIOUS
<1>h. F("hidden") \in Nat \/ ~call.hidden BY Marks
<1> HIDE DEF k, n, F
<1>6. \A v \in Volumes(call) :
            /\ i >= F(v) => k >= F(v)
            /\ i > F(v) => k > F(v)
            /\ \A j \in 1 .. n : i > F(v) + j => k > F(v) + j
            /\ k >= F(v) => i >= F(v)
      /\ (call.hidden => (i < F("hidden") => k < F("hidden")))
    <2>1. ASSUME NEW v \in Volumes(call)
          PROVE  /\ i >= F(v) => k >= F(v)
                 /\ i > F(v) => k > F(v)
                 /\ \A j \in 1 .. n : i > F(v) + j => k > F(v) + j
                 /\ k >= F(v) => i >= F(v)
        <3> DEFINE f == F(v)
        <3>1. f \in Nat /\ i \notin f .. f + 1 + n BY <1>1, <1>2, <2>1
        <3> HIDE DEF f
        <3>2. QED BY <1>1, <3>1 DEF f
    <2>2. call.hidden => (i < F("hidden") => k < F("hidden")) BY <1>1, <1>h
    <2>3. QED BY <2>1, <2>2
<1>7. /\ \A v \in Volumes(call) :
            /\ i >= F(v) => Search(call, v)'.out = "found"
            /\ i >= F(v) /\ (v = "outer" => ~call.hidden \/ i < F("hidden")) => target = Found(v)'
            /\ i > F(v) => FsFits(call, Found(v)')
            /\ \A j \in 1 .. n : i > F(v) + j => Present(FsOrder(call)[j], Found(v))'
      /\ \A p \in laid : \E v \in Volumes(call) : i >= F(v) /\ p.header = Found(v)'
    <2>1. ASSUME NEW v \in Volumes(call)
          PROVE  /\ i >= F(v) => Search(call, v)'.out = "found"
                 /\ i >= F(v) /\ (v = "outer" => ~call.hidden \/ i < F("hidden")) => target = Found(v)'
                 /\ i > F(v) => FsFits(call, Found(v)')
                 /\ \A j \in 1 .. n : i > F(v) + j => Present(FsOrder(call)[j], Found(v))'
        BY <1>3, <1>4, <1>6, <2>1, Zenon
    <2>2. \A p \in laid : \E v \in Volumes(call) : i >= F(v) /\ p.header = Found(v)'
        BY <1>3, <1>4, <1>6, Zenon
    <2>3. QED BY <2>1, <2>2
<1>8. QED BY <1>5, <1>7, Zenon DEF FormatInv, n, F

(* While a volume is formatted, it is the one that was found. *)
LEMMA InFormat ==
    ASSUME FormatInv, GoingWell, Past \in Nat, NEW u \in Volumes(call),
           Past + 1 \in Finding(call, u) + 1 .. Finding(call, u) + 1 + Parted(call)
    PROVE  /\ target = Found(u) /\ Search(call, u).out = "found"
           /\ Past + 1 > Finding(call, u) + 1 => FsFits(call, Found(u))
<1> DEFINE k == Past
           n == Parted(call)
           f == Finding(call, u)
           g == Finding(call, "hidden")
<1>1. n \in Nat /\ f \in Nat /\ (u = "outer" /\ call.hidden => g = f + 5 + n) BY Marks
<1>2. /\ k >= f => Search(call, u).out = "found"
      /\ k >= f /\ (u = "outer" => ~call.hidden \/ k < g) => target = Found(u)
      /\ k > f => FsFits(call, Found(u))
    BY DEF FormatInv
<1>3. k \in Nat /\ k + 1 \in f + 1 .. f + 1 + n OBVIOUS
<1> HIDE DEF k, n, f, g
<1>4. k >= f /\ (k + 1 > f + 1 => k > f) BY <1>1, <1>3
<1>5. u = "outer" /\ call.hidden => k < g BY <1>1, <1>3
<1>6. QED BY <1>2, <1>4, <1>5 DEF k, f

(* A volume is found. *)
LEMMA FindStep ==
    ASSUME FormatInv, GoingWell, at' = at, len' = len, laid' = laid, call' = call,
           Past \in Nat, NEW i, i = Past + 1, Past' = i,
           NEW u \in Volumes(call), i = Finding(call, u), Search(call, u).out = "found", target' = Found(u)
    PROVE  FormatInv'
<1> DEFINE k == Past
           n == Parted(call)
           F(v) == Finding(call, v)
<1>1. k \in Nat /\ i = k + 1 /\ i = F(u) /\ n \in Nat /\ \A v \in Volumes(call) : F(v) \in Nat
    BY Marks
<1>2. \A v \in Volumes(call) : v # u =>
            call.hidden /\ (\/ u = "outer" /\ v = "hidden" /\ F(v) = F(u) + 5 + n
                            \/ u = "hidden" /\ v = "outer" /\ F(u) = F(v) + 5 + n)
    BY Marks
<1>3. /\ \A v : Search(call, v)' = Search(call, v) /\ Found(v)' = Found(v)
      /\ \A q, h : Present(q, h) => Present(q, h)'
    BY SameSearch, SamePresent
<1>4. /\ \A v \in Volumes(call) :
            /\ k >= F(v) => Search(call, v).out = "found"
            /\ k > F(v) => FsFits(call, Found(v))
            /\ \A j \in 1 .. n : k > F(v) + j => Present(FsOrder(call)[j], Found(v))
      /\ \A p \in laid : \E v \in Volumes(call) : k >= F(v) /\ p.header = Found(v)
    BY DEF FormatInv
<1> HIDE DEF k, n, F
<1>5. ASSUME NEW v \in Volumes(call)
      PROVE  /\ i >= F(v) => k >= F(v) \/ v = u
             /\ i > F(v) => k > F(v)
             /\ \A j \in 1 .. n : i > F(v) + j => k > F(v) + j
             /\ k >= F(v) => i >= F(v)
             /\ v = "outer" /\ i >= F(v) /\ v # u => call.hidden /\ ~(i < F("hidden"))
             /\ v = "hidden" /\ i >= F(v) => v = u
    <2>1. CASE v = u BY <1>1, <2>1
    <2>2. CASE v # u
        <3> DEFINE f == F(v)
                   g == F(u)
        <3>1. f \in Nat /\ g \in Nat /\ i = g /\ i = k + 1
              /\ (f = g + 5 + n \/ g = f + 5 + n)
            BY <1>1, <1>2, <2>2
        <3>2. v = "outer" => call.hidden /\ u = "hidden" /\ g = f + 5 + n BY <1>2, <2>2
        <3>3. v = "hidden" => f = g + 5 + n BY <1>2, <2>2
        <3> HIDE DEF f, g
        <3>4. /\ i >= f => k >= f
              /\ i > f => k > f
              /\ \A j \in 1 .. n : i > f + j => k > f + j
              /\ k >= f => i >= f
              /\ ~(i < g)
              /\ v = "hidden" => ~(i >= f)
            BY <1>1, <3>1, <3>3
        <3>5. QED BY <3>2, <3>4 DEF f, g
    <2>3. QED BY <2>1, <2>2
<1>6. /\ \A v \in Volumes(call) :
            /\ i >= F(v) => Search(call, v)'.out = "found"
            /\ i >= F(v) /\ (v = "outer" => ~call.hidden \/ i < F("hidden")) => target' = Found(v)'
            /\ i > F(v) => FsFits(call, Found(v)')
            /\ \A j \in 1 .. n : i > F(v) + j => Present(FsOrder(call)[j], Found(v))'
      /\ \A p \in laid : \E v \in Volumes(call) : i >= F(v) /\ p.header = Found(v)'
    <2>1. ASSUME NEW v \in Volumes(call)
          PROVE  /\ i >= F(v) => Search(call, v)'.out = "found"
                 /\ i >= F(v) /\ (v = "outer" => ~call.hidden \/ i < F("hidden")) => target' = Found(v)'
                 /\ i > F(v) => FsFits(call, Found(v)')
                 /\ \A j \in 1 .. n : i > F(v) + j => Present(FsOrder(call)[j], Found(v))'
        <3>1. v \in {"outer", "hidden"} BY HeaderVolume
        <3>2. i >= F(v) => Search(call, v)'.out = "found" BY <1>3, <1>4, <1>5
        <3>3. i >= F(v) /\ (v = "outer" => ~call.hidden \/ i < F("hidden")) => v = u BY <1>5, <3>1
        <3>4. i > F(v) => FsFits(call, Found(v)') BY <1>3, <1>4, <1>5
        <3>5. \A j \in 1 .. n : i > F(v) + j => Present(FsOrder(call)[j], Found(v))'
            BY <1>3, <1>4, <1>5, Zenon
        <3>6. QED BY <1>3, <3>2, <3>3, <3>4, <3>5, Zenon
    <2>2. \A p \in laid : \E v \in Volumes(call) : i >= F(v) /\ p.header = Found(v)'
        BY <1>3, <1>4, <1>5, Zenon
    <2>3. QED BY <2>1, <2>2
<1>7. GoingWell' => Past' = i /\ call' = call OBVIOUS
<1>8. QED BY <1>6, <1>7, Zenon DEF FormatInv, n, F

(* A step of the formatting of a volume. *)
LEMMA FormatStep ==
    ASSUME FormatInv, GoingWell, at' = at, len' = len, target' = target, call' = call,
           Past \in Nat, NEW i, i = Past + 1, Past' = i,
           NEW u \in Volumes(call), NEW m \in 0 .. Parted(call), i = Finding(call, u) + 1 + m,
           m = 0 => FsFits(call, Found(u)),
           m > 0 => Present(FsOrder(call)[m], Found(u))',
           \A q, h : Present(q, h) => Present(q, h)',
           \A p \in laid' : p \in laid \/ p.header = Found(u)
    PROVE  FormatInv'
<1> DEFINE k == Past
           n == Parted(call)
           F(v) == Finding(call, v)
<1>1. k \in Nat /\ i = k + 1 /\ i = F(u) + 1 + m /\ n \in Nat /\ m \in 0 .. n
      /\ \A v \in Volumes(call) : F(v) \in Nat
    BY Marks
<1>2. \A v \in Volumes(call) : v # u =>
            call.hidden /\ (\/ u = "outer" /\ v = "hidden" /\ F(v) = F(u) + 5 + n
                            \/ u = "hidden" /\ v = "outer" /\ F(u) = F(v) + 5 + n)
    BY Marks
<1>3. \A v : Search(call, v)' = Search(call, v) /\ Found(v)' = Found(v) BY SameSearch
<1>4. /\ \A v \in Volumes(call) :
            /\ k >= F(v) => Search(call, v).out = "found"
            /\ k >= F(v) /\ (v = "outer" => ~call.hidden \/ k < F("hidden")) => target = Found(v)
            /\ k > F(v) => FsFits(call, Found(v))
            /\ \A j \in 1 .. n : k > F(v) + j => Present(FsOrder(call)[j], Found(v))
      /\ \A p \in laid : \E v \in Volumes(call) : k >= F(v) /\ p.header = Found(v)
    BY DEF FormatInv
<1>h. F("hidden") \in Nat \/ ~call.hidden BY Marks
<1> HIDE DEF k, n, F
<1>5. ASSUME NEW v \in Volumes(call)
      PROVE  /\ i >= F(v) => k >= F(v)
             /\ i > F(v) => k > F(v) \/ (v = u /\ m = 0)
             /\ \A j \in 1 .. n : i > F(v) + j => k > F(v) + j \/ (v = u /\ j = m)
             /\ k >= F(v) => i >= F(v)
             /\ call.hidden /\ i < F("hidden") => k < F("hidden")
    <2>1. CASE v = u
        <3> DEFINE f == F(v)
        <3>1. f \in Nat /\ i = f + 1 + m BY <1>1, <2>1
        <3> HIDE DEF f
        <3>2. /\ i >= f => k >= f
              /\ i > f => k > f \/ m = 0
              /\ \A j \in 1 .. n : i > f + j => k > f + j \/ j = m
              /\ k >= f => i >= f
            BY <1>1, <3>1
        <3>3. call.hidden /\ i < F("hidden") => k < F("hidden") BY <1>1, <1>h
        <3>4. QED BY <2>1, <3>2, <3>3 DEF f
    <2>2. CASE v # u
        <3> DEFINE f == F(v)
                   g == F(u)
        <3>1. f \in Nat /\ g \in Nat /\ i = g + 1 + m /\ i = k + 1
              /\ (f = g + 5 + n \/ g = f + 5 + n)
            BY <1>1, <1>2, <2>2
        <3>2. call.hidden /\ i < F("hidden") => k < F("hidden") BY <1>1, <1>h
        <3> HIDE DEF f, g
        <3>3. /\ i >= f => k >= f
              /\ i > f => k > f
              /\ \A j \in 1 .. n : i > f + j => k > f + j
              /\ k >= f => i >= f
            BY <1>1, <3>1
        <3>4. QED BY <3>2, <3>3 DEF f, g
    <2>3. QED BY <2>1, <2>2
<1>6. i >= F(u) /\ (m > 0 \/ m = 0) BY <1>1
<1>7. /\ \A v \in Volumes(call) :
            /\ i >= F(v) => Search(call, v)'.out = "found"
            /\ i >= F(v) /\ (v = "outer" => ~call.hidden \/ i < F("hidden")) => target' = Found(v)'
            /\ i > F(v) => FsFits(call, Found(v)')
            /\ \A j \in 1 .. n : i > F(v) + j => Present(FsOrder(call)[j], Found(v))'
      /\ \A p \in laid' : \E v \in Volumes(call) : i >= F(v) /\ p.header = Found(v)'
    <2>1. ASSUME NEW v \in Volumes(call)
          PROVE  /\ i >= F(v) => Search(call, v)'.out = "found"
                 /\ i >= F(v) /\ (v = "outer" => ~call.hidden \/ i < F("hidden")) => target' = Found(v)'
                 /\ i > F(v) => FsFits(call, Found(v)')
                 /\ \A j \in 1 .. n : i > F(v) + j => Present(FsOrder(call)[j], Found(v))'
        <3>1. i >= F(v) => Search(call, v)'.out = "found" BY <1>3, <1>4, <1>5
        <3>2. i >= F(v) /\ (v = "outer" => ~call.hidden \/ i < F("hidden")) => target' = Found(v)'
            BY <1>3, <1>4, <1>5
        <3>3. i > F(v) => FsFits(call, Found(v)') BY <1>3, <1>4, <1>5
        <3>4. \A j \in 1 .. n : i > F(v) + j => Present(FsOrder(call)[j], Found(v))'
            <4> TAKE j \in 1 .. n
            <4> HAVE i > F(v) + j
            <4>1. CASE k > F(v) + j
                <5>1. Present(FsOrder(call)[j], Found(v)) BY <1>4, <4>1
                <5>2. QED BY <1>3, <5>1, Zenon
            <4>2. CASE v = u /\ j = m
                <5>1. m > 0 BY <4>2
                <5>2. Present(FsOrder(call)[m], Found(u))' BY <5>1, Zenon
                <5>3. QED BY <4>2, <5>2, Zenon
            <4>3. QED BY <1>5, <4>1, <4>2
        <3>5. QED BY <3>1, <3>2, <3>3, <3>4
    <2>2. ASSUME NEW p \in laid' PROVE \E v \in Volumes(call) : i >= F(v) /\ p.header = Found(v)'
        <3>1. CASE p \in laid BY <1>3, <1>4, <1>5, <3>1, Zenon
        <3>2. CASE p.header = Found(u) BY <1>3, <1>6, <3>2, Zenon
        <3>3. QED BY <3>1, <3>2
    <2>3. QED BY <2>1, <2>2
<1>8. GoingWell' => Past' = i /\ call' = call OBVIOUS
<1>9. QED BY <1>7, <1>8, Zenon DEF FormatInv, n, F

-----------------------------------------------------------------------------
(* Parts that are laid *)

(* What is laid for a volume is what its header says. *)
LEMMA LaidNew ==
    ASSUME CopyInv, len \in Nat, FormatInv, GoingWell, call \in Requests, Past \in Nat,
           NEW u \in Volumes(call), NEW j \in 1 .. Parted(call), Past + 1 = Finding(call, u) + 1 + j
    PROVE  /\ target = Found(u) /\ Search(call, u).out = "found" /\ FsFits(call, target)
           /\ \E w \in Volumes(call) :
                /\ Passed(call, w) /\ SecretOf(call, w) = SecretOf(call, u)
                /\ target = HeaderOf(call, w)
<1> DEFINE k == Past
           n == Parted(call)
           f == Finding(call, u)
<1>1. /\ Past + 1 \in Finding(call, u) + 1 .. Finding(call, u) + 1 + Parted(call)
      /\ Past + 1 > Finding(call, u) + 1
    <2>1. k + 1 = f + 1 + j /\ f \in Nat /\ n \in Nat /\ j \in 1 .. n BY Marks
    <2> HIDE DEF k, n, f
    <2>2. k + 1 \in f + 1 .. f + 1 + n /\ k + 1 > f + 1 BY <2>1
    <2>3. QED BY <2>2 DEF k, n, f
<1>2. target = Found(u) /\ Search(call, u).out = "found" /\ FsFits(call, Found(u)) BY <1>1, InFormat
<1>3. PICK w \in Volumes(call) :
            Passed(call, w) /\ SecretOf(call, w) = SecretOf(call, u) /\ Found(u) = HeaderOf(call, w)
    BY <1>2, FoundHeader
<1>4. QED BY <1>2, <1>3

(* Only what a hidden volume covers is displaced. *)
LEMMA Displaced ==
    ASSUME CopyInv, len \in Nat, FormatInv, LaidInv, GoingWell, call \in Requests, Past \in Nat,
           NEW u \in Volumes(call), NEW j \in 1 .. Parted(call), Past + 1 = Finding(call, u) + 1 + j,
           NEW p \in laid, p.header # target, ~Apart(p, Laid(FsOrder(call)[j], target))
    PROVE  Overlaid(p)
<1>1. target = Found(u) /\ Search(call, u).out = "found" /\ FsFits(call, target) BY LaidNew
<1>2. PICK v \in Volumes(call) : Past >= Finding(call, v) /\ p.header = Found(v) BY DEF FormatInv
<1>3. v # u BY <1>1, <1>2
<1>4. Search(call, v).out = "found" BY <1>2 DEF FormatInv
<1>5. SecretOf(call, u) # SecretOf(call, v)
    <2>1. SecretOf(call, u) = SecretOf(call, v) => Search(call, u) = Search(call, v) BY DEF Search
    <2>2. Search(call, u) # Search(call, v) BY <1>1, <1>2 DEF Found
    <2>3. QED BY <2>1, <2>2
<1>6. call.hidden /\ u \in {"outer", "hidden"} /\ v \in {"outer", "hidden"} BY <1>3 DEF Volumes
<1>7. SecretsDiffer(call) BY <1>3, <1>5, <1>6 DEF SecretsDiffer
<1>8. v = "outer" /\ u = "hidden"
    <2> DEFINE k == Past
               n == Parted(call)
               f == Finding(call, "outer")
               g == Finding(call, "hidden")
    <2>1. n \in Nat /\ f \in Nat /\ g = f + 5 + n BY <1>6, Marks
    <2>2. k \in Nat /\ j \in 1 .. n OBVIOUS
    <2>3. ~(u = "outer" /\ v = "hidden")
        <3>1. u = "outer" /\ v = "hidden" => k + 1 = f + 1 + j /\ k >= g BY <1>2
        <3> HIDE DEF k, n, f, g
        <3>2. ~(k + 1 = f + 1 + j /\ k >= g) BY <2>1, <2>2
        <3>3. QED BY <3>1, <3>2
    <2>4. QED BY <1>3, <1>6, <2>3
<1>9. target = HiddenHeader(call) /\ Passed(call, "hidden")
    <2>1. PICK w \in Volumes(call) :
            Passed(call, w) /\ SecretOf(call, w) = SecretOf(call, u) /\ target = HeaderOf(call, w)
        BY LaidNew
    <2>2. w = "hidden" BY <1>7, <1>8, <2>1, OwnHeader
    <2>3. QED BY <2>1, <2>2 DEF HeaderOf
<1>10. p.header = OuterHeader(call)
    <2>1. PICK w \in Volumes(call) :
            Passed(call, w) /\ SecretOf(call, w) = SecretOf(call, v) /\ Found(v) = HeaderOf(call, w)
        BY <1>4, FoundHeader
    <2>2. w = "outer" BY <1>7, <1>8, <2>1, OwnHeader
    <2>3. QED BY <1>2, <2>1, <2>2 DEF HeaderOf
<1>11. p.lo \in Nat /\ p.hi \in Nat
    <2>1. PICK w \in Volumes(call), i \in 1 .. Parted(call) :
            /\ Passed(call, w) /\ FsFits(call, HeaderOf(call, w))
            /\ p = Laid(FsOrder(call)[i], HeaderOf(call, w))
        BY DEF LaidInv
    <2>2. QED BY <2>1, LaidInside
<1> DEFINE new == Laid(FsOrder(call)[j], target)
<1>12. new.lo \in Nat /\ new.hi \in Nat /\ HiddenHeader(call).start <= new.lo
    <2>1. HeaderOf(call, "hidden") = target BY <1>9 DEF HeaderOf
    <2>2. FsFits(call, HeaderOf(call, "hidden")) BY <1>1, <2>1
    <2>3. /\ Laid(FsOrder(call)[j], HeaderOf(call, "hidden")).lo \in Nat
          /\ Laid(FsOrder(call)[j], HeaderOf(call, "hidden")).hi \in Nat
          /\ HeaderOf(call, "hidden").start <= Laid(FsOrder(call)[j], HeaderOf(call, "hidden")).lo
        BY <1>9, <2>2, LaidInside
    <2>4. QED BY <1>9, <2>1, <2>3
<1>13. HiddenHeader(call).start \in Int
    <2>1. HeaderOf(call, "hidden").start \in Nat BY <1>9, HeaderNumbers
    <2>2. QED BY <2>1 DEF HeaderOf
<1> HIDE DEF new
<1>14. ~(p.hi <= new.lo) BY DEF Apart, new
<1>15. p.hi > HiddenHeader(call).start BY <1>11, <1>12, <1>13, <1>14
<1>16. p.header.volume = "outer" BY <1>10 DEF OuterHeader, Header
<1>17. QED BY <1>6, <1>15, <1>16 DEF Overlaid

-----------------------------------------------------------------------------
(* Every action preserves FileInv *)

LEMMA SameLaid ==
    ASSUME laid' = laid, call' = call
    PROVE  (LaidInv => LaidInv') /\ (BootMeansComplete => BootMeansComplete')
<1>1. ASSUME LaidInv PROVE LaidInv' BY <1>1, Zenon DEF LaidInv
<1>2. \A q, h : Overlaid(Laid(q, h))' = Overlaid(Laid(q, h)) /\ Laid(q, h)' = Laid(q, h)
    BY DEF Overlaid, Laid
<1>3. ASSUME BootMeansComplete PROVE BootMeansComplete' BY <1>2, <1>3, Zenon DEF BootMeansComplete
<1>4. QED BY <1>1, <1>3

LEMMA SameCopies ==
    ASSUME at' = at, call' = call, damage' = damage, CopyInv
    PROVE  CopyInv'
BY Zenon DEF CopyInv

LEMMA NothingLaidFine == ASSUME laid' = {} PROVE LaidInv' /\ BootMeansComplete'
BY DEF LaidInv, BootMeansComplete

(* The steps of the script, one by one. *)
LEMMA StepTruncate == ASSUME FileInv, TruncateFile PROVE FileInv'
<1>1. /\ todo # <<>> /\ Head(todo).op = "truncate" /\ Continue
      /\ len' = 0 /\ at' = [o \in {} |-> 0] /\ laid' = {} /\ UNCHANGED <<unsynced, fds, handles, target>>
    BY DEF TruncateFile, At
<1>2. CallInv /\ NumbersInv /\ HeadersInv BY DEF FileInv
<1>3. todo' = Tail(todo) /\ UNCHANGED <<call, result, damage, stray>> BY <1>1 DEF Continue
<1>4. /\ CallInv' /\ GoingWell /\ GoingWell' /\ call \in Requests
      /\ Past \in Nat /\ Past' = Past + 1 /\ Past + 1 \in 1 .. ScriptLen(call)
      /\ StepAt(call, Past + 1, Head(todo))
    BY <1>1, <1>2, <1>3, Advanced
<1>5. Past + 1 <= Opening(call) BY <1>1, <1>4, WhereOpening
<1>6. NumbersInv' BY <1>1, <1>2, <1>3 DEF NumbersInv
<1>7. CopyInv' BY <1>1 DEF CopyInv
<1>8. HeadersInv'
    <2> DEFINE i == Past + 1
               o == Opening(call)
               l == LastFlush(call)
    <2>1. o \in Nat /\ l \in Nat /\ o < l BY Marks
    <2>2. i \in Nat /\ i <= o BY <1>4, <1>5
    <2>3. i = Past + 1 /\ Past' = i BY <1>4
    <2> HIDE DEF i, o, l
    <2>4. /\ i # o + 1 /\ i # o + 5 /\ i # o + 6 /\ i # o + 7 /\ i # o + 9 /\ i # o + 10 /\ i # o + 11
          /\ i <= o + 5 /\ i <= o + 4 /\ i < l
        BY <2>1, <2>2
    <2>5. call.size \in Nat BY <1>4, CallTyped
    <2>6. QED BY <1>2, <1>3, <1>4, <2>3, <2>4, <2>5, HeadersStep DEF o, l
<1>9. FormatInv'
    <2>1. Past + 1 \in Nat /\ Past + 1 < Finding(call, "outer") BY <1>4, <1>5, Marks
    <2>2. QED BY <1>1, <1>3, <1>4, <2>1, EarlyStep
<1>10. LaidInv' /\ BootMeansComplete' BY <1>1, NothingLaidFine
<1>11. QED BY <1>4, <1>6, <1>7, <1>8, <1>9, <1>10 DEF FileInv

(* What every step that goes well begins with. *)
LEMMA Going ==
    ASSUME FileInv, todo # <<>>, Continue
    PROVE  /\ CallInv' /\ GoingWell /\ GoingWell' /\ call \in Requests
           /\ Past \in Nat /\ Past' = Past + 1 /\ Past + 1 \in Nat
           /\ Past + 1 \in 1 .. ScriptLen(call)
           /\ StepAt(call, Past + 1, Head(todo))
           /\ call' = call /\ damage' = damage /\ damage = 0 /\ call.size \in Nat
           /\ NumbersInv /\ CopyInv /\ HeadersInv /\ FormatInv /\ LaidInv /\ BootMeansComplete
           /\ len \in Nat
<1>1. /\ CallInv /\ NumbersInv /\ CopyInv /\ HeadersInv /\ FormatInv /\ LaidInv /\ BootMeansComplete
    BY DEF FileInv
<1>2. todo' = Tail(todo) /\ UNCHANGED <<call, result, damage>> BY DEF Continue
<1>3. /\ CallInv' /\ GoingWell /\ GoingWell' /\ call \in Requests
      /\ Past \in Nat /\ Past' = Past + 1 /\ Past + 1 \in 1 .. ScriptLen(call)
      /\ StepAt(call, Past + 1, Head(todo))
    BY <1>1, <1>2, Advanced
<1>4. Past + 1 \in Nat BY <1>3
<1>5. damage = 0 BY <1>3 DEF GoingWell
<1>6. call.size \in Nat BY <1>3, CallTyped
<1>7. len \in Nat BY <1>1 DEF NumbersInv
<1>8. QED BY <1>1, <1>2, <1>3, <1>4, <1>5, <1>6, <1>7

(* Steps after the headers leave them alone. *)
LEMMA HeadersLate ==
    ASSUME HeadersInv, GoingWell, call' = call, Past \in Nat, NEW i, i = Past + 1, Past' = i,
           i <= Opening(call) \/ i = Opening(call) + 8 \/ i > Opening(call) + 11
             \/ (~call.hidden /\ i > Opening(call) + 7),
           at' = at, len' = len, len \in Nat, unsynced' => i < LastFlush(call), call.size \in Nat
    PROVE  HeadersInv'
<1> DEFINE o == Opening(call)
<1>1. o \in Nat BY Marks
<1>2. i \in Nat /\ (i <= o \/ i = o + 8 \/ i > o + 11 \/ (~call.hidden /\ i > o + 7)) OBVIOUS
<1> HIDE DEF o
<1>3. /\ i # o + 1 /\ i # o + 5 /\ i # o + 6 /\ i # o + 7
      /\ call.hidden => i # o + 9 /\ i # o + 10 /\ i # o + 11
    BY <1>1, <1>2
<1>4. DOMAIN at \subseteq DOMAIN at' /\ len \in Nat /\ len' \in Nat /\ len <= len' OBVIOUS
<1>5. QED BY <1>3, <1>4, HeadersStep DEF o

LEMMA StepSetLen == ASSUME FileInv, SetLen \/ SetLenRefused PROVE FileInv'
<1>1. /\ todo # <<>> /\ Head(todo).op \in {"set_len", "try set_len"} /\ Continue
      /\ len' \in {len, call.size} /\ UNCHANGED <<at, laid, unsynced, fds, handles, target>>
    BY DEF SetLen, SetLenRefused, At, file
<1>2. /\ CallInv' /\ GoingWell /\ GoingWell' /\ call \in Requests
      /\ Past \in Nat /\ Past' = Past + 1 /\ Past + 1 \in Nat
      /\ StepAt(call, Past + 1, Head(todo))
      /\ call' = call /\ damage' = damage /\ call.size \in Nat
      /\ NumbersInv /\ CopyInv /\ HeadersInv /\ FormatInv /\ LaidInv /\ BootMeansComplete
      /\ len \in Nat
    BY <1>1, Going
<1>3. Past + 1 <= Opening(call)
    <2>1. Head(todo).op \notin {"require", "noise", "copy", "flush", "find", "fit", "lay", "drop", "device"}
        BY <1>1
    <2>2. QED BY <1>2, <2>1, WhereOpening
<1>4. NumbersInv'
    <2>1. len' \in Nat BY <1>1, <1>2
    <2>2. QED BY <1>1, <1>2, <2>1 DEF NumbersInv
<1>5. CopyInv' BY <1>1, <1>2, SameCopies
<1>6. HeadersInv'
    <2> DEFINE i == Past + 1
               o == Opening(call)
               l == LastFlush(call)
    <2>1. o \in Nat /\ l \in Nat /\ o < l BY Marks
    <2>2. i \in Nat /\ i <= o BY <1>2, <1>3
    <2>3. i = Past + 1 /\ Past' = i BY <1>2
    <2> HIDE DEF i, o, l
    <2>4. /\ i # o + 1 /\ i # o + 5 /\ i # o + 6 /\ i # o + 7 /\ i # o + 9 /\ i # o + 10 /\ i # o + 11
          /\ i <= o + 5 /\ i <= o + 4 /\ i < l
        BY <2>1, <2>2
    <2>5. QED BY <1>2, <2>3, <2>4, HeadersStep DEF o, l
<1>7. Past < Finding(call, "outer") /\ Past + 1 < Finding(call, "outer") BY <1>2, <1>3, Marks
<1>8. laid = {} BY <1>2, <1>7, NothingLaid
<1>9. FormatInv' BY <1>1, <1>2, <1>7, <1>8, EarlyStep
<1>10. LaidInv' /\ BootMeansComplete' BY <1>1, <1>8, NothingLaidFine
<1>11. QED BY <1>2, <1>4, <1>5, <1>6, <1>9, <1>10 DEF FileInv

LEMMA StepRequire == ASSUME FileInv, RequireHolds PROVE FileInv'
<1>1. /\ todo # <<>> /\ Head(todo).op = "require" /\ Head(todo).holds /\ Continue
      /\ UNCHANGED <<len, at, laid, unsynced, fds, handles, target>>
    BY DEF RequireHolds, At, file
<1>2. /\ CallInv' /\ GoingWell /\ GoingWell' /\ call \in Requests
      /\ Past \in Nat /\ Past' = Past + 1 /\ Past + 1 \in Nat
      /\ StepAt(call, Past + 1, Head(todo))
      /\ call' = call /\ damage' = damage /\ call.size \in Nat
      /\ NumbersInv /\ CopyInv /\ HeadersInv /\ FormatInv /\ LaidInv /\ BootMeansComplete
      /\ len \in Nat
    BY <1>1, Going
<1>3. \/ Past + 1 = Opening(call) + 1 /\ SizeFits(call)
      \/ call.hidden /\ Past + 1 = Opening(call) + 9 /\ HiddenFits(call)
    BY <1>1, <1>2, WhereRequire
<1>4. NumbersInv' BY <1>1, <1>2 DEF NumbersInv
<1>5. CopyInv' BY <1>1, <1>2, SameCopies
<1> DEFINE i == Past + 1
           o == Opening(call)
           l == LastFlush(call)
           f == Finding(call, "outer")
<1>6. o \in Nat /\ l \in Nat /\ f \in Nat /\ f < l /\ (call.hidden => f = o + 15) /\ o + 8 < f
    BY Marks
<1>7. i \in Nat /\ i = Past + 1 /\ Past' = i /\ Past \in Nat /\ (i = o + 1 \/ (call.hidden /\ i = o + 9))
    BY <1>2, <1>3
<1>8. i < f
    <2> HIDE DEF i, o, l, f
    <2>1. QED BY <1>6, <1>7
<1>9. HeadersInv'
    <2>1. i = o + 1 => SizeFits(call) BY <1>3, <1>6
    <2>2. call.hidden /\ i = o + 9 => HiddenFits(call) BY <1>3, <1>6
    <2> HIDE DEF i, o, l, f
    <2>3. /\ i # o + 5 /\ i # o + 6 /\ i # o + 7 /\ i # o + 10 /\ i # o + 11 /\ i < l
        BY <1>6, <1>7, <1>8
    <2>4. DOMAIN at \subseteq DOMAIN at' /\ len' = len /\ len <= len' BY <1>1, <1>2
    <2>5. QED BY <1>1, <1>2, <1>7, <2>1, <2>2, <2>3, <2>4, HeadersStep DEF o, l
<1>10. Past < f BY <1>6, <1>7, <1>8
<1>11. laid = {} BY <1>2, <1>10, NothingLaid
<1>12. FormatInv' BY <1>1, <1>2, <1>8, <1>11, EarlyStep
<1>13. LaidInv' /\ BootMeansComplete' BY <1>1, <1>11, NothingLaidFine
<1>14. QED BY <1>2, <1>4, <1>5, <1>9, <1>12, <1>13 DEF FileInv

LEMMA StepNoise == ASSUME FileInv, WriteNoise PROVE FileInv'
<1> DEFINE st == Head(todo)
           x == st.at
           i == Past + 1
           o == Opening(call)
           l == LastFlush(call)
           f == Finding(call, "outer")
<1>1. /\ todo # <<>> /\ st.op = "noise" /\ Continue
      /\ at' = [p \in DOMAIN at \ {x} |-> at[p]]
      /\ len' = Max({len, x + REGION}) /\ unsynced' = TRUE
      /\ UNCHANGED <<laid, fds, handles, target>>
    BY DEF WriteNoise, At
<1>2. /\ CallInv' /\ GoingWell /\ GoingWell' /\ call \in Requests
      /\ Past \in Nat /\ Past' = i /\ i \in Nat /\ StepAt(call, i, st)
      /\ call' = call /\ damage' = damage /\ call.size \in Nat
      /\ NumbersInv /\ CopyInv /\ HeadersInv /\ FormatInv /\ len \in Nat
    BY <1>1, Going
<1>3. \/ i \in o + 2 .. o + 4 /\ x \in {0, HIDDEN_OFFSET, call.size - GROUP}
      \/ i = o + 5 /\ x = call.size - HIDDEN_OFFSET
    BY <1>1, <1>2, WhereNoise
<1>4. o \in Nat /\ l \in Nat /\ f \in Nat /\ f < l /\ o + 8 < f BY Marks
<1>5. i > o /\ Past > o /\ i < f /\ Past < f /\ i < l
    <2>1. i = Past + 1 /\ Past \in Nat /\ (i \in o + 2 .. o + 4 \/ i = o + 5) BY <1>2, <1>3
    <2> HIDE DEF i, o, l, f
    <2>2. QED BY <1>4, <2>1
<1>6. SizeFits(call) BY <1>2, <1>5 DEF HeadersInv
<1>7. /\ HIDDEN_OFFSET \in Nat /\ call.size - GROUP \in Nat /\ call.size - HIDDEN_OFFSET \in Nat
      /\ REGION \in Nat /\ call.size - GROUP < call.size - HIDDEN_OFFSET
    BY <1>2, <1>6, PlacesApart DEF REGION
<1>8. x \in Nat BY <1>3, <1>7
<1> HIDE DEF st, x
<1>9. len' \in Nat /\ len <= len' /\ x + REGION <= len'
    <2>1. x + REGION \in Int /\ len \in Int BY <1>2, <1>7, <1>8
    <2>2. Max({len, x + REGION}) \in Int /\ Max({len, x + REGION}) >= len
          /\ Max({len, x + REGION}) >= x + REGION
        BY <2>1, MaxTwo
    <2>3. QED BY <1>1, <1>2, <2>1, <2>2
<1>10. NumbersInv' BY <1>1, <1>2, <1>9 DEF NumbersInv
<1>11. CopyInv'
    <2>1. \A p \in DOMAIN at' : p \in DOMAIN at /\ at'[p] = at[p] BY <1>1
    <2>2. call # NoCall BY <1>2, KindsDiffer
    <2>3. QED BY <1>2, <2>1, <2>2, Zenon DEF CopyInv
<1>12. HeadersInv'
    <2>1. i = o + 5 => len' >= call.size - GROUP
        <3>1. i = o + 5 => x = call.size - HIDDEN_OFFSET
            <4>1. i = o + 5 => ~(i \in o + 2 .. o + 4) BY <1>4
            <4>2. QED BY <1>3, <4>1
        <3>2. QED BY <1>2, <1>7, <1>9, <3>1
    <2>2. i = Past + 1 /\ Past \in Nat BY <1>2
    <2>3. i \in o + 2 .. o + 4 \/ i = o + 5 BY <1>3
    <2> HIDE DEF i, o, l, f
    <2>4. /\ i # o + 1 /\ i # o + 6 /\ i # o + 7 /\ i # o + 9 /\ i # o + 10 /\ i # o + 11
          /\ i <= o + 5
        BY <1>2, <1>4, <2>3
    <2>5. QED BY <1>2, <1>5, <1>9, <2>1, <2>2, <2>4, HeadersStep DEF o, l
<1>13. laid = {} BY <1>2, <1>5, NothingLaid
<1>14. FormatInv' BY <1>1, <1>2, <1>5, <1>13, EarlyStep
<1>15. LaidInv' /\ BootMeansComplete' BY <1>1, <1>13, NothingLaidFine
<1>16. QED BY <1>2, <1>10, <1>11, <1>12, <1>14, <1>15 DEF FileInv

LEMMA StepCopy == ASSUME FileInv, WriteCopy PROVE FileInv'
<1> DEFINE st == Head(todo)
           x == st.at
           i == Past + 1
           o == Opening(call)
           l == LastFlush(call)
           f == Finding(call, "outer")
<1>1. /\ todo # <<>> /\ st.op = "copy" /\ Continue
      /\ at' = [p \in DOMAIN at \cup {x} |-> IF p = x THEN st.copy ELSE at[p]]
      /\ len' = Max({len, x + REGION}) /\ unsynced' = TRUE
      /\ UNCHANGED <<laid, fds, handles, target>>
    BY DEF WriteCopy, At
<1>2. /\ CallInv' /\ GoingWell /\ GoingWell' /\ call \in Requests
      /\ Past \in Nat /\ Past' = i /\ i \in Nat /\ StepAt(call, i, st)
      /\ call' = call /\ damage' = damage /\ damage = 0 /\ call.size \in Nat
      /\ NumbersInv /\ CopyInv /\ HeadersInv /\ FormatInv /\ len \in Nat
    BY <1>1, Going
<1>3. o \in Nat /\ l \in Nat /\ f \in Nat /\ f < l /\ o + 8 < f /\ (call.hidden => f = o + 15) BY Marks
<1>4. /\ \E v \in Volumes(call) :
            /\ st = CopyStep(call, v, x) /\ x \in CopyPlaces(call, v)
            /\ Past > o /\ (v = "hidden" => call.hidden /\ Past > o + 8)
      /\ i < f /\ Past < f /\ i # o + 1 /\ i # o + 5 /\ i # o + 9
      /\ i = o + 6 => x = 0
      /\ i = o + 7 => x = call.size - GROUP
      /\ call.hidden /\ i = o + 10 => x = HIDDEN_OFFSET
      /\ call.hidden /\ i = o + 11 => x = call.size - HIDDEN_OFFSET
      /\ i > o + 5
    <2>1. "outer" \in Volumes(call) /\ (call.hidden => "hidden" \in Volumes(call)) BY DEF Volumes
    <2>2. \/ i = o + 6 /\ st = CopyStep(call, "outer", 0)
          \/ i = o + 7 /\ st = CopyStep(call, "outer", call.size - GROUP)
          \/ call.hidden /\ i = o + 10 /\ st = CopyStep(call, "hidden", HIDDEN_OFFSET)
          \/ call.hidden /\ i = o + 11 /\ st = CopyStep(call, "hidden", call.size - HIDDEN_OFFSET)
        BY <1>1, <1>2, WhereCopy
    <2>3. \A v, y : st = CopyStep(call, v, y) => x = y BY OpOf
    <2>4. /\ 0 \in CopyPlaces(call, "outer") /\ call.size - GROUP \in CopyPlaces(call, "outer")
          /\ HIDDEN_OFFSET \in CopyPlaces(call, "hidden")
          /\ call.size - HIDDEN_OFFSET \in CopyPlaces(call, "hidden")
        BY DEF CopyPlaces
    <2> DEFINE k == Past
    <2>5. i = k + 1 /\ k \in Nat BY <1>2
    <2> HIDE DEF st, x, i, o, l, f, k
    <2>6. /\ i = o + 6 => i # o + 7 /\ i # o + 10 /\ i # o + 11
          /\ i = o + 7 => i # o + 10 /\ i # o + 11
          /\ i = o + 10 => i # o + 11
          /\ i = o + 6 \/ i = o + 7 \/ i = o + 10 \/ i = o + 11 =>
                k > o /\ i # o + 1 /\ i # o + 5 /\ i # o + 9 /\ i > o + 5
          /\ i = o + 10 \/ i = o + 11 => k > o + 8
          /\ i = o + 6 \/ i = o + 7 => i < f /\ k < f
          /\ call.hidden /\ (i = o + 10 \/ i = o + 11) => i < f /\ k < f
        BY <1>3, <2>5
    <2>7. "outer" # "hidden" OBVIOUS
    <2>8. QED BY <2>1, <2>2, <2>3, <2>4, <2>6, <2>7, Zenon DEF k
<1>5. PICK v \in Volumes(call) :
            /\ st = CopyStep(call, v, x) /\ x \in CopyPlaces(call, v)
            /\ Past > o /\ (v = "hidden" => call.hidden /\ Past > o + 8)
    BY <1>4
<1>6. Passed(call, v) BY <1>2, <1>5 DEF HeadersInv, Passed
<1>7. x \in Nat
    <2>1. SizeFits(call) BY <1>6 DEF Passed
    <2>2. QED BY <1>2, <1>5, <2>1, PlacesApart DEF CopyPlaces
<1>8. st.copy = CopyOf(call, v, x) BY <1>5 DEF CopyStep, Copy, CopyOf
<1> HIDE DEF st, x
<1>9. len' \in Nat /\ len <= len'
    <2>1. x + REGION \in Int /\ len \in Int BY <1>2, <1>7 DEF REGION
    <2>2. Max({len, x + REGION}) \in Int /\ Max({len, x + REGION}) >= len BY <2>1, MaxTwo
    <2>3. QED BY <1>1, <1>2, <2>1, <2>2
<1>10. NumbersInv' BY <1>1, <1>2, <1>9 DEF NumbersInv
<1>11. CopyInv'
    <2>1. \A p \in DOMAIN at' : p # x => p \in DOMAIN at /\ at'[p] = at[p] BY <1>1
    <2>2. at'[x] = CopyOf(call, v, x) /\ x \in DOMAIN at' BY <1>1, <1>8
    <2>3. at'[x].spoilt = {} /\ at'[x] = [CopyOf(call, v, x) EXCEPT !.spoilt = at'[x].spoilt]
        <3> DEFINE s == Sealed(HeaderOf(call, v), call.prf, Schemes[call.scheme], SecretOf(call, v), call.pim, x)
        <3>1. s = [plain |-> s.plain, salt |-> s.salt, spoilt |-> {}, coats |-> s.coats] BY DEF Sealed
        <3>2. CopyOf(call, v, x) = s BY DEF CopyOf
        <3> HIDE DEF s
        <3>3. s = [s EXCEPT !.spoilt = s.spoilt] /\ s.spoilt = {} BY <3>1
        <3>4. QED BY <2>2, <3>2, <3>3
    <2>4. call # NoCall /\ call \notin Desktop BY <1>2, KindsDiffer
    <2>5. ASSUME NEW p \in DOMAIN at'
          PROVE  /\ p \in Nat
                 /\ at'[p].spoilt \subseteq {"salt", "magic", "fields", "keys"}
                 /\ damage = 0 => at'[p].spoilt = {}
                 /\ \E w \in Volumes(call) :
                        Passed(call, w) /\ p \in CopyPlaces(call, w)
                        /\ at'[p] = [CopyOf(call, w, p) EXCEPT !.spoilt = at'[p].spoilt]
        <3>1. CASE p = x
            <4>1. {} \subseteq {"salt", "magic", "fields", "keys"} OBVIOUS
            <4>2. QED BY <1>5, <1>6, <1>7, <2>3, <3>1, <4>1, Zenon
        <3>2. CASE p # x
            <4>1. p \in DOMAIN at /\ at'[p] = at[p] BY <2>1, <3>2
            <4>2. QED BY <1>2, <4>1, Zenon DEF CopyInv
        <3>3. QED BY <3>1, <3>2
    <2>6. QED BY <1>2, <2>4, <2>5, Zenon DEF CopyInv
<1>12. HeadersInv'
    <2>1. DOMAIN at \subseteq DOMAIN at' /\ x \in DOMAIN at' BY <1>1
    <2>2. i = Past + 1 /\ Past \in Nat /\ i < l
        <3>1. i = Past + 1 /\ Past \in Nat /\ i < f BY <1>2, <1>4
        <3> HIDE DEF i, l, f
        <3>2. QED BY <1>2, <1>3, <3>1
    <2>3. /\ i = o + 6 => 0 \in DOMAIN at'
          /\ i = o + 7 => call.size - GROUP \in DOMAIN at'
          /\ call.hidden /\ i = o + 10 => HIDDEN_OFFSET \in DOMAIN at'
          /\ call.hidden /\ i = o + 11 => call.size - HIDDEN_OFFSET \in DOMAIN at'
        BY <1>4, <2>1
    <2>4. i # o + 1 /\ i # o + 5 /\ i # o + 9 BY <1>4
    <2> HIDE DEF i, o, l, f
    <2>5. QED BY <1>2, <1>9, <2>1, <2>2, <2>3, <2>4, HeadersStep DEF o, l
<1>13. laid = {} BY <1>2, <1>4, NothingLaid
<1>14. FormatInv' BY <1>1, <1>2, <1>4, <1>13, EarlyStep
<1>15. LaidInv' /\ BootMeansComplete' BY <1>1, <1>13, NothingLaidFine
<1>16. QED BY <1>2, <1>10, <1>11, <1>12, <1>14, <1>15 DEF FileInv

(* A step between the formattings. *)
LEMMA BetweenStep ==
    ASSUME FileInv, todo # <<>>, todo' = Tail(todo), UNCHANGED <<call, result, damage>>,
           Head(todo).op \in {"flush", "drop", "device"},
           UNCHANGED <<len, at, laid, target>>,
           Head(todo).op # "flush" => unsynced' = unsynced,
           Head(todo).op = "flush" => unsynced' = FALSE
    PROVE  FileInv'
<1> DEFINE st == Head(todo)
           i == Past + 1
           o == Opening(call)
           n == Parted(call)
           l == LastFlush(call)
           f == Finding(call, "outer")
           g == Finding(call, "hidden")
           m == ScriptLen(call)
<1>1. todo' = Tail(todo) /\ UNCHANGED <<call, result, damage>> OBVIOUS
<1>2. /\ CallInv /\ NumbersInv /\ CopyInv /\ HeadersInv /\ FormatInv /\ LaidInv /\ BootMeansComplete
    BY DEF FileInv
<1>3. /\ CallInv' /\ GoingWell /\ GoingWell' /\ call \in Requests
      /\ Past \in Nat /\ Past' = i /\ i \in 1 .. m /\ StepAt(call, i, st)
    BY <1>1, <1>2, Advanced
<1>4. /\ o \in 1 .. 3 /\ n \in Nat /\ l \in Nat /\ f \in Nat /\ f < l /\ o + 8 < f
      /\ \A v \in Volumes(call) : v = "outer" \/ v = "hidden"
      /\ call.hidden => f = o + 15 /\ g = f + 5 + n /\ l = g + 2 + n /\ m = l + 1
      /\ ~call.hidden => /\ f = o + 9 /\ l = f + 2 + n /\ m = l
                         /\ \A v \in Volumes(call) : v = "outer"
    <2>1. n \in Nat
        <3>1. n \in {3, 6} BY Numbers
        <3> HIDE DEF n
        <3>2. QED BY <3>1
    <2>2. o \in 1 .. 3 /\ l \in Nat /\ f \in Nat /\ f < l /\ o + 8 < f BY Marks
    <2>3. call.hidden => f = o + 15 /\ g = f + 5 + n /\ l = g + 2 + n /\ m = l + 1 BY Marks, Zenon
    <2>4. ~call.hidden => f = o + 9 /\ l = f + 2 + n /\ m = l /\ \A v \in Volumes(call) : v = "outer"
        BY Marks, Zenon
    <2>5. \A v \in Volumes(call) : v = "outer" \/ v = "hidden" BY DEF Volumes
    <2>6. QED BY <2>1, <2>2, <2>3, <2>4, <2>5
<1>5. \/ i <= o \/ i = o + 8
      \/ call.hidden /\ i \in o + 12 .. o + 14
      \/ i = f + 2 + n
      \/ call.hidden /\ i = g + 2 + n
      \/ call.hidden /\ i \in g - 2 .. g - 1
      \/ call.hidden /\ i = m
    <2>1. \/ i <= o \/ i = o + 8
          \/ call.hidden /\ i \in o + 12 .. o + 14
          \/ \E v \in Volumes(call) : i = Finding(call, v) + 2 + Parted(call)
          \/ call.hidden /\ i \in g - 2 .. g - 1
          \/ call.hidden /\ i = m
        BY <1>3, WhereQuiet
    <2>2. \A v \in Volumes(call) : v = "outer" \/ (call.hidden /\ v = "hidden") BY DEF Volumes
    <2>3. QED BY <2>1, <2>2, Zenon
<1>6. st.op # "flush" => \/ i <= o
                         \/ call.hidden /\ i \in o + 12 .. o + 14
                         \/ call.hidden /\ i \in g - 2 .. g - 1
                         \/ call.hidden /\ i = m
    <2>1. st.op # "flush" => st.op \in {"drop", "device"} OBVIOUS
    <2>2. QED BY <1>3, <2>1, WhereDevice
<1>7. i = Past + 1 /\ Past \in Nat /\ i \in Nat BY <1>3
<1>8. call.size \in Nat /\ len \in Nat BY <1>2, <1>3, CallTyped DEF NumbersInv
<1>9. unsynced \in BOOLEAN /\ unsynced' \in BOOLEAN BY <1>2 DEF NumbersInv
<1>10. NumbersInv' BY <1>1, <1>2, <1>9 DEF NumbersInv
<1>11. CopyInv' BY <1>1, <1>2, SameCopies
<1>12. unsynced => Past < l BY <1>2, <1>3 DEF HeadersInv
<1>13. unsynced' => i < l
    <2>1. CASE st.op = "flush" BY <2>1
    <2>2. CASE st.op # "flush"
        <3> DEFINE k == Past
        <3>1. unsynced' => k < l BY <1>12, <2>2
        <3>2. \/ i <= o
              \/ call.hidden /\ i \in o + 12 .. o + 14
              \/ call.hidden /\ i \in g - 2 .. g - 1
              \/ call.hidden /\ i = m
            BY <1>6, <2>2
        <3>3. i = k + 1 /\ k \in Nat BY <1>7
        <3>4. call.hidden => f = o + 15 /\ g = f + 5 + n /\ l = g + 2 + n /\ m = l + 1 BY <1>4
        <3>5. ~call.hidden => l = f + 2 + n BY <1>4
        <3>6. o \in 1 .. 3 /\ n \in Nat /\ f \in Nat /\ o + 8 < f BY <1>4
        <3> HIDE DEF st, i, o, n, l, f, g, m, k
        <3>7. k < l => i < l
            <4>1. CASE call.hidden BY <4>1, <3>2, <3>3, <3>4, <3>6
            <4>2. CASE ~call.hidden BY <4>2, <3>2, <3>3, <3>5, <3>6
            <4>3. QED BY <4>1, <4>2
        <3>8. QED BY <3>1, <3>7
    <2>3. QED BY <2>1, <2>2
<1>14. HeadersInv'
    <2>1. i <= o \/ i = o + 8 \/ i > o + 11 \/ (~call.hidden /\ i > o + 7)
        <3>1. o \in 1 .. 3 /\ n \in Nat /\ f \in Nat /\ (f = o + 9 \/ f = o + 15) BY <1>4
        <3>2. call.hidden => g = f + 5 + n /\ m = g + 3 + n /\ f = o + 15
            <4>1. call.hidden => f = o + 15 /\ g = f + 5 + n /\ l = g + 2 + n /\ m = l + 1 BY <1>4
            <4> HIDE DEF st, i, o, n, l, f, g, m
            <4>2. QED BY <3>1, <4>1
        <3>3. ~call.hidden => f = o + 9 BY <1>4
        <3> HIDE DEF st, i, o, n, l, f, g, m
        <3>4. CASE call.hidden BY <1>5, <3>1, <3>2, <3>4
        <3>5. CASE ~call.hidden BY <1>5, <3>1, <3>3, <3>5
        <3>6. QED BY <3>4, <3>5
    <2> HIDE DEF i, o, l
    <2>2. QED BY <1>1, <1>2, <1>3, <1>7, <1>8, <1>13, <2>1, HeadersLate DEF o, l
<1>15. FormatInv'
    <2>1. \A v \in Volumes(call) : i \notin Finding(call, v) .. Finding(call, v) + 1 + Parted(call)
        <3>1. i \notin f .. f + 1 + n /\ (call.hidden => i \notin g .. g + 1 + n)
            <4>1. /\ o \in 1 .. 3 /\ n \in Nat /\ f \in Nat /\ o + 8 < f
                  /\ call.hidden => f = o + 15 /\ g = f + 5 + n /\ l = g + 2 + n /\ m = l + 1
                BY <1>4
            <4> HIDE DEF st, i, o, n, l, f, g, m
            <4>2. CASE call.hidden BY <1>5, <4>1, <4>2
            <4>3. CASE ~call.hidden BY <1>5, <4>1, <4>3
            <4>4. QED BY <4>2, <4>3
        <3>2. \A v \in Volumes(call) : v = "outer" \/ (call.hidden /\ v = "hidden") BY DEF Volumes
        <3>3. QED BY <3>1, <3>2
    <2> HIDE DEF i
    <2>2. QED BY <1>1, <1>2, <1>3, <1>7, <2>1, QuietStep
<1>16. LaidInv' /\ BootMeansComplete' BY <1>1, <1>2, SameLaid
<1>17. QED BY <1>3, <1>10, <1>11, <1>14, <1>15, <1>16 DEF FileInv

LEMMA StepFlush == ASSUME FileInv, Flush PROVE FileInv'
<1>1. /\ todo # <<>> /\ Head(todo).op = "flush" /\ Continue
      /\ unsynced' = FALSE /\ UNCHANGED <<len, at, laid, target>>
      /\ todo' = Tail(todo) /\ UNCHANGED <<call, result, damage>>
    BY DEF Flush, At, Continue
<1>2. QED BY <1>1, BetweenStep

LEMMA StepDevice == ASSUME FileInv, OpenDevice \/ DropDevice PROVE FileInv'
<1>1. /\ todo # <<>> /\ Head(todo).op \in {"device", "drop"}
      /\ todo' = Tail(todo) /\ UNCHANGED <<call, result, damage>>
      /\ UNCHANGED <<len, at, laid, unsynced, target>>
    BY DEF OpenDevice, DropDevice, At, Continue, file
<1>2. QED BY <1>1, BetweenStep

LEMMA StepFind == ASSUME FileInv, FindVolume PROVE FileInv'
<1> DEFINE st == Head(todo)
           i == Past + 1
           o == Opening(call)
           l == LastFlush(call)
<1>1. /\ todo # <<>> /\ st.op = "find" /\ Continue
      /\ Search(call, st.volume).out = "found" /\ target' = Search(call, st.volume).header
      /\ UNCHANGED <<len, at, laid, unsynced>>
    BY DEF FindVolume, At, file
<1>2. /\ CallInv' /\ GoingWell /\ GoingWell' /\ call \in Requests
      /\ Past \in Nat /\ Past' = i /\ i \in Nat /\ StepAt(call, i, st)
      /\ call' = call /\ damage' = damage /\ call.size \in Nat
      /\ NumbersInv /\ CopyInv /\ HeadersInv /\ FormatInv /\ LaidInv /\ BootMeansComplete
      /\ len \in Nat
    BY <1>1, Going
<1>3. PICK u \in Volumes(call) : i = Finding(call, u) /\ st.volume = u BY <1>1, <1>2, WhereFind
<1>4. NumbersInv' BY <1>1, <1>2 DEF NumbersInv
<1>5. CopyInv' BY <1>1, <1>2, SameCopies
<1>6. LaidInv' /\ BootMeansComplete' BY <1>1, <1>2, SameLaid
<1>7. FormatInv'
    <2>1. Search(call, u).out = "found" /\ target' = Found(u) BY <1>1, <1>3 DEF Found
    <2> HIDE DEF i
    <2>2. QED BY <1>1, <1>2, <1>3, <2>1, FindStep DEF i
<1>8. HeadersInv'
    <2>1. i < l /\ (i > o + 11 \/ (~call.hidden /\ i > o + 7))
        <3> DEFINE n == Parted(call)
                   g == Finding(call, "hidden")
                   f == Finding(call, "outer")
        <3>1. n \in Nat
            <4>1. n \in {3, 6} BY Numbers
            <4> HIDE DEF n
            <4>2. QED BY <4>1
        <3>2. i = f \/ (call.hidden /\ i = g)
            <4>1. u = "outer" \/ (call.hidden /\ u = "hidden") BY DEF Volumes
            <4>2. QED BY <1>3, <4>1
        <3>3. o \in 1 .. 3 BY Numbers
        <3>4. call.hidden => f = o + 15 /\ g = f + 5 + n /\ l = g + 2 + n BY Marks, Zenon
        <3>5. ~call.hidden => f = o + 9 /\ l = f + 2 + n BY Marks, Zenon
        <3> HIDE DEF i, o, l, f, g, n
        <3>6. CASE call.hidden BY <3>1, <3>2, <3>3, <3>4, <3>6
        <3>7. CASE ~call.hidden BY <3>1, <3>2, <3>3, <3>5, <3>7
        <3>8. QED BY <3>6, <3>7
    <2>2. i = Past + 1 OBVIOUS
    <2> HIDE DEF i, o, l
    <2>3. QED BY <1>1, <1>2, <2>1, <2>2, HeadersLate DEF o, l
<1>9. QED BY <1>2, <1>4, <1>5, <1>6, <1>7, <1>8 DEF FileInv

(* Where a file system is made, the headers have long been written. *)
LEMMA FormatLate ==
    ASSUME NEW c, NEW u \in Volumes(c), NEW m \in 0 .. Parted(c), NEW i, i = Finding(c, u) + 1 + m
    PROVE  /\ i \in Nat /\ i < LastFlush(c)
           /\ i > Opening(c) + 11 \/ (~c.hidden /\ i > Opening(c) + 7)
<1> DEFINE n == Parted(c)
           g == Finding(c, "hidden")
           f == Finding(c, "outer")
           o == Opening(c)
           l == LastFlush(c)
<1>1. n \in Nat
    <2>1. n \in {3, 6} BY Numbers
    <2> HIDE DEF n
    <2>2. QED BY <2>1
<1>2. i = f + 1 + m \/ (c.hidden /\ i = g + 1 + m)
    <2>1. u = "outer" \/ (c.hidden /\ u = "hidden") BY DEF Volumes
    <2>2. QED BY <2>1
<1>3. o \in 1 .. 3 BY Numbers
<1>4. c.hidden => f = o + 15 /\ g = f + 5 + n /\ l = g + 2 + n BY Marks, Zenon
<1>5. ~c.hidden => f = o + 9 /\ l = f + 2 + n BY Marks, Zenon
<1>6. m \in 0 .. n OBVIOUS
<1> HIDE DEF o, l, f, g, n
<1>7. i \in Nat /\ i < l /\ (i > o + 11 \/ (~c.hidden /\ i > o + 7))
    <2>1. CASE c.hidden BY <1>1, <1>2, <1>3, <1>4, <1>6, <2>1
    <2>2. CASE ~c.hidden BY <1>1, <1>2, <1>3, <1>5, <1>6, <2>2
    <2>3. QED BY <2>1, <2>2
<1>8. QED BY <1>7 DEF o, l

LEMMA StepFit == ASSUME FileInv, FitsTarget PROVE FileInv'
<1> DEFINE st == Head(todo)
           i == Past + 1
<1>1. /\ todo # <<>> /\ st.op = "fit" /\ Continue /\ FsFits(call, target)
      /\ UNCHANGED <<len, at, laid, unsynced, target>>
    BY DEF FitsTarget, At, file, FsFits
<1>2. /\ CallInv' /\ GoingWell /\ GoingWell' /\ call \in Requests
      /\ Past \in Nat /\ Past' = i /\ i \in Nat /\ StepAt(call, i, st)
      /\ call' = call /\ damage' = damage /\ call.size \in Nat
      /\ NumbersInv /\ CopyInv /\ HeadersInv /\ FormatInv /\ LaidInv /\ BootMeansComplete
      /\ len \in Nat
    BY <1>1, Going
<1>3. PICK u \in Volumes(call) : i = Finding(call, u) + 1 BY <1>1, <1>2, WhereFit
<1>4. NumbersInv' BY <1>1, <1>2 DEF NumbersInv
<1>5. CopyInv' BY <1>1, <1>2, SameCopies
<1>6. LaidInv' /\ BootMeansComplete' BY <1>1, <1>2, SameLaid
<1>7. 0 \in 0 .. Parted(call) /\ i = Finding(call, u) + 1 + 0
      /\ i \in Finding(call, u) + 1 .. Finding(call, u) + 1 + Parted(call)
    <2> DEFINE n == Parted(call)
               f == Finding(call, u)
    <2>1. n \in {3, 6} BY Numbers
    <2>2. f \in Nat /\ i = f + 1 BY <1>3, Marks
    <2> HIDE DEF n, f, i
    <2>3. 0 \in 0 .. n /\ i = f + 1 + 0 /\ i \in f + 1 .. f + 1 + n BY <2>1, <2>2
    <2>4. QED BY <2>3 DEF n, f
<1>8. FsFits(call, Found(u))
    <2>1. target = Found(u) BY <1>2, <1>7, InFormat
    <2>2. QED BY <1>1, <2>1
<1>9. FormatInv'
    <2>1. \A q, h : Present(q, h) => Present(q, h)'
        <3>1. laid \subseteq laid' BY <1>1
        <3>2. QED BY <1>2, <3>1, SamePresent
    <2>2. \A p \in laid' : p \in laid \/ p.header = Found(u) BY <1>1
    <2>3. ~(0 > 0) OBVIOUS
    <2>4. i = Past + 1 OBVIOUS
    <2> HIDE DEF i
    <2>5. QED BY <1>1, <1>2, <1>7, <1>8, <2>1, <2>2, <2>3, <2>4, FormatStep
<1>10. HeadersInv'
    <2>1. i < LastFlush(call) /\ (i > Opening(call) + 11 \/ (~call.hidden /\ i > Opening(call) + 7))
        <3> HIDE DEF i
        <3>1. QED BY <1>7, FormatLate
    <2>2. i = Past + 1 OBVIOUS
    <2> HIDE DEF i
    <2>3. QED BY <1>1, <1>2, <2>1, <2>2, HeadersLate
<1>11. QED BY <1>2, <1>4, <1>5, <1>6, <1>9, <1>10 DEF FileInv

(* What a part that is laid changes among the others. *)
LEMMA LayKeeps ==
    ASSUME CopyInv, len \in Nat, FormatInv, LaidInv, GoingWell, call \in Requests, Past \in Nat,
           NEW u \in Volumes(call), NEW j \in 1 .. Parted(call), Past + 1 = Finding(call, u) + 1 + j,
           NEW new, new = Laid(FsOrder(call)[j], target), call' = call,
           laid' = {p \in laid : p.header = target \/ Apart(p, new)} \cup {new}
    PROVE  \A q, h : Present(q, h) => Present(q, h)'
<1> SUFFICES ASSUME NEW q, NEW h, Present(q, h) PROVE Present(q, h)' OBVIOUS
<1> DEFINE p == Laid(q, h)
<1>1. Overlaid(p)' = Overlaid(p) /\ Laid(q, h)' = p BY DEF Overlaid, Laid
<1>2. p \in laid \/ Overlaid(p) BY DEF Present
<1>3. p \in laid => p \in laid' \/ Overlaid(p)
    <2> SUFFICES ASSUME p \in laid, p \notin laid' PROVE Overlaid(p) OBVIOUS
    <2> HIDE DEF p
    <2>1. p.header # target /\ ~Apart(p, Laid(FsOrder(call)[j], target)) OBVIOUS
    <2>2. QED BY <2>1, Displaced
<1>4. p \in laid' \/ Overlaid(p)' BY <1>1, <1>2, <1>3
<1>5. QED BY <1>1, <1>4 DEF Present

(* A boot region is laid after the tables. *)
LEMMA BootIsLate ==
    ASSUME NEW c \in Requests, NEW j \in 1 .. Parted(c), FsOrder(c)[j] = "boot"
    PROVE  j = 5 /\ \A q \in {"fat", "bitmap", "upcase", "root"} : \E i \in 1 .. 4 :
                i \in 1 .. Parted(c) /\ FsOrder(c)[i] = q
<1>1. c.fs = "exFAT"
    <2>1. "boot" \notin {"fat boot", "fat tables", "fat root"} OBVIOUS
    <2>2. QED BY <2>1, OrderedParts
<1>2. FsOrder(c) = WriteOrder /\ Parted(c) = 6 BY <1>1 DEF FsOrder, Parted
<1>3. /\ WriteOrder[1] = "fat" /\ WriteOrder[2] = "bitmap" /\ WriteOrder[3] = "upcase"
      /\ WriteOrder[4] = "root" /\ WriteOrder[5] = "boot" /\ WriteOrder[6] = "boot copy"
    BY DEF WriteOrder
<1>4. j \in 1 .. 6 BY <1>2
<1>5. j = 5
    <2>1. j = 1 \/ j = 2 \/ j = 3 \/ j = 4 \/ j = 5 \/ j = 6 BY <1>4
    <2>2. /\ "fat" # "boot" /\ "bitmap" # "boot" /\ "upcase" # "boot" /\ "root" # "boot"
          /\ "boot copy" # "boot"
        OBVIOUS
    <2>3. QED BY <1>2, <1>3, <2>1, <2>2, Zenon
<1>6. /\ 1 \in 1 .. 4 /\ 2 \in 1 .. 4 /\ 3 \in 1 .. 4 /\ 4 \in 1 .. 4
      /\ 1 \in 1 .. 6 /\ 2 \in 1 .. 6 /\ 3 \in 1 .. 6 /\ 4 \in 1 .. 6
    OBVIOUS
<1>7. ASSUME NEW q \in {"fat", "bitmap", "upcase", "root"}
      PROVE  \E i \in 1 .. 4 : i \in 1 .. Parted(c) /\ FsOrder(c)[i] = q
    <2>1. q = WriteOrder[1] \/ q = WriteOrder[2] \/ q = WriteOrder[3] \/ q = WriteOrder[4]
        BY <1>3
    <2>2. QED BY <1>2, <1>6, <2>1, Zenon
<1>8. QED BY <1>5, <1>7

LEMMA StepLay == ASSUME FileInv, Lay PROVE FileInv'
<1> DEFINE st == Head(todo)
           i == Past + 1
           new == Laid(st.part, target)
<1>1. /\ todo # <<>> /\ st.op = "lay" /\ Continue
      /\ laid' = {p \in laid : p.header = target \/ Apart(p, new)} \cup {new}
      /\ len' = Max({len, new.hi}) /\ unsynced' = TRUE
      /\ UNCHANGED <<at, target>>
    BY DEF Lay, At
<1>2. /\ CallInv' /\ GoingWell /\ GoingWell' /\ call \in Requests
      /\ Past \in Nat /\ Past' = i /\ i \in Nat /\ StepAt(call, i, st)
      /\ call' = call /\ damage' = damage /\ call.size \in Nat
      /\ NumbersInv /\ CopyInv /\ HeadersInv /\ FormatInv /\ LaidInv /\ BootMeansComplete
      /\ len \in Nat
    BY <1>1, Going
<1>3. PICK u \in Volumes(call), j \in 1 .. Parted(call) :
            i = Finding(call, u) + 1 + j /\ st.part = FsOrder(call)[j]
    BY <1>1, <1>2, WhereLay
<1>n. new = Laid(FsOrder(call)[j], target) BY <1>3
<1>i. i = Past + 1 OBVIOUS
<1>4. /\ target = Found(u) /\ Search(call, u).out = "found" /\ FsFits(call, target)
      /\ \E w \in Volumes(call) : /\ Passed(call, w) /\ SecretOf(call, w) = SecretOf(call, u)
                                  /\ target = HeaderOf(call, w)
    BY <1>2, <1>3, LaidNew
<1>5. PICK w \in Volumes(call) : Passed(call, w) /\ target = HeaderOf(call, w) BY <1>4
<1> HIDE DEF st, i, new
<1>6. /\ new.part = FsOrder(call)[j] /\ new.header = target
      /\ new.hi \in Nat /\ new.hi <= target.start + target.size
    BY <1>2, <1>n, <1>4, <1>5, LaidInside
<1>7. j \in 0 .. Parted(call) /\ j > 0
    <2> DEFINE n == Parted(call)
    <2>1. n \in {3, 6} /\ j \in 1 .. n BY Numbers
    <2> HIDE DEF n
    <2>2. j \in 0 .. n /\ j > 0 BY <2>1
    <2>3. QED BY <2>2 DEF n
<1>8. i < LastFlush(call) /\ (i > Opening(call) + 11 \/ (~call.hidden /\ i > Opening(call) + 7))
    BY <1>3, <1>7, FormatLate
<1>9. len' = len
    <2> DEFINE o == Opening(call)
               k == Past
    <2>1. target.start \in Nat /\ target.size \in Nat
          /\ target.start + target.size <= call.size - GROUP
        BY <1>2, <1>4, <1>5, HeaderNumbers, AreaInside
    <2>2. k > o + 4 => len >= call.size - GROUP BY <1>2 DEF HeadersInv
    <2>3. k > o + 4
        <3>1. o \in 1 .. 3 /\ k \in Nat /\ i = k + 1 /\ (i > o + 11 \/ i > o + 7)
            BY <1>2, <1>i, <1>8, Numbers
        <3> HIDE DEF o, k
        <3>2. QED BY <3>1
    <2>4. new.hi <= len
        <3>1. call.size - GROUP \in Int BY <1>2 DEF GROUP, BACKUP_FROM_END
        <3>2. QED BY <1>2, <1>6, <2>1, <2>2, <2>3, <3>1
    <2>5. len \in Int /\ new.hi \in Int BY <1>2, <1>6
    <2>6. Max({len, new.hi}) = len BY <2>4, <2>5, MaxTwo
    <2>7. QED BY <1>1, <2>6
<1>10. NumbersInv' BY <1>1, <1>2, <1>9 DEF NumbersInv
<1>11. CopyInv' BY <1>1, <1>2, SameCopies
<1>12. HeadersInv' BY <1>1, <1>2, <1>i, <1>8, <1>9, HeadersLate
<1>13. \A q, h : Present(q, h) => Present(q, h)'
    BY <1>1, <1>2, <1>3, <1>n, <1>i, LayKeeps
<1>14. Found(u)' = Found(u) BY <1>1, <1>2, <1>9, SameSearch
<1>15. new \in laid' /\ \A p \in laid' : p \in laid \/ p = new BY <1>1
<1>16. FormatInv'
    <2>1. Present(FsOrder(call)[j], Found(u))'
        <3>1. Laid(FsOrder(call)[j], Found(u))' = new BY <1>2, <1>n, <1>4, <1>14 DEF Laid, FsOrder
        <3>2. QED BY <1>15, <3>1 DEF Present
    <2>2. \A p \in laid' : p \in laid \/ p.header = Found(u) BY <1>4, <1>6, <1>15
    <2>3. j > 0 => Present(FsOrder(call)[j], Found(u))' BY <2>1
    <2>4. ~(j = 0)
        <3>1. \A x \in Int : x > 0 => x # 0 OBVIOUS
        <3>2. j \in Int OBVIOUS
        <3>3. QED BY <1>7, <3>1, <3>2
    <2>5. i = Finding(call, u) + 1 + j BY <1>3
    <2>6. QED BY <1>1, <1>2, <1>7, <1>9, <1>13, <1>i, <2>2, <2>3, <2>4, <2>5, FormatStep
<1>17. LaidInv'
    <2>1. \A p : p \in laid =>
            /\ call \in Requests
            /\ \E v \in Volumes(call), m \in 1 .. Parted(call) :
                /\ Passed(call, v) /\ FsFits(call, HeaderOf(call, v))
                /\ p = Laid(FsOrder(call)[m], HeaderOf(call, v))
        BY <1>2, Zenon DEF LaidInv
    <2>2. new = Laid(FsOrder(call)[j], HeaderOf(call, w)) /\ FsFits(call, HeaderOf(call, w))
        BY <1>n, <1>4, <1>5
    <2>3. \A p : p \in laid' =>
            /\ call \in Requests
            /\ \E v \in Volumes(call), m \in 1 .. Parted(call) :
                /\ Passed(call, v) /\ FsFits(call, HeaderOf(call, v))
                /\ p = Laid(FsOrder(call)[m], HeaderOf(call, v))
        BY <1>2, <1>5, <1>15, <2>1, <2>2, Zenon
    <2>4. QED BY <1>2, <2>3, Zenon DEF LaidInv
<1>18. BootMeansComplete'
    <2>1. ASSUME NEW p \in laid', p.part = "boot", NEW q \in {"fat", "bitmap", "upcase", "root"}
          PROVE  Present(q, p.header)'
        <3>1. CASE p \in laid
            <4>1. Present(q, p.header) BY <1>2, <2>1, <3>1 DEF BootMeansComplete, Present
            <4>2. QED BY <1>13, <4>1, Zenon
        <3>2. CASE p = new
            <4>1. FsOrder(call)[j] = "boot" /\ p.header = Found(u) BY <1>4, <1>6, <2>1, <3>2
            <4>2. j = 5 /\ \E m \in 1 .. 4 : m \in 1 .. Parted(call) /\ FsOrder(call)[m] = q
                BY <1>2, <2>1, <4>1, BootIsLate
            <4>3. PICK m \in 1 .. 4 : m \in 1 .. Parted(call) /\ FsOrder(call)[m] = q BY <4>2
            <4>4. Past > Finding(call, u) + m
                <5> DEFINE k == Past
                           f == Finding(call, u)
                <5>1. k \in Nat /\ f \in Nat /\ i = k + 1 /\ i = f + 1 + 5 BY <1>2, <1>3, <1>i, <4>2, Marks
                <5> HIDE DEF k, f
                <5>2. k > f + m BY <5>1
                <5>3. QED BY <5>2 DEF k, f
            <4>5. Present(q, Found(u)) BY <1>2, <4>3, <4>4 DEF FormatInv
            <4>6. Present(q, p.header) BY <4>1, <4>5
            <4>7. QED BY <1>13, <4>6, Zenon
        <3>3. QED BY <1>15, <2>1, <3>1, <3>2
    <2>2. QED BY <2>1 DEF BootMeansComplete, Present
<1>19. QED BY <1>2, <1>10, <1>11, <1>12, <1>16, <1>17, <1>18 DEF FileInv

-----------------------------------------------------------------------------
(* The call begins and ends, the file is damaged *)

(* Copies as records. *)
LEMMA SealedRecord ==
    ASSUME NEW plain, NEW prf, NEW scheme, NEW secret, NEW pim, NEW salt, NEW s,
           s = Sealed(plain, prf, scheme, secret, pim, salt)
    PROVE  /\ "spoilt" \in DOMAIN s /\ s = [f \in DOMAIN s |-> s[f]]
           /\ s.spoilt = {} /\ s = [s EXCEPT !.spoilt = s.spoilt]
<1>1. s = [plain |-> s.plain, salt |-> s.salt, spoilt |-> {}, coats |-> s.coats] BY DEF Sealed
<1>2. DOMAIN s = {"plain", "salt", "spoilt", "coats"} BY <1>1
<1>3. s.spoilt = {} /\ s = [s EXCEPT !.spoilt = s.spoilt] BY <1>1
<1>4. s = [f \in DOMAIN s |-> s[f]] BY <1>1
<1>5. QED BY <1>2, <1>3, <1>4

(* A copy that is spoilt once more. *)
LEMMA Spoiling ==
    ASSUME NEW x, NEW a, NEW s, NEW t, a = [x EXCEPT !.spoilt = s], NEW b, b = [a EXCEPT !.spoilt = t],
           "spoilt" \in DOMAIN x, x = [f \in DOMAIN x |-> x[f]]
    PROVE  b = [x EXCEPT !.spoilt = t] /\ b.spoilt = t /\ a.spoilt = s
<1>1. DOMAIN a = DOMAIN x /\ DOMAIN b = DOMAIN x OBVIOUS
<1>2. b.spoilt = t /\ a.spoilt = s BY <1>1
<1>3. \A f \in DOMAIN x : f # "spoilt" => b[f] = x[f] BY <1>1
<1> DEFINE c == [x EXCEPT !.spoilt = t]
<1>4. DOMAIN c = DOMAIN x /\ c.spoilt = t /\ \A f \in DOMAIN x : f # "spoilt" => c[f] = x[f] OBVIOUS
<1>5. c = [f \in DOMAIN x |-> c[f]] /\ b = [f \in DOMAIN x |-> b[f]] OBVIOUS
<1>6. \A f \in DOMAIN x : b[f] = c[f] BY <1>2, <1>3, <1>4
<1> HIDE DEF c
<1>7. b = c BY <1>5, <1>6
<1>8. QED BY <1>2, <1>7 DEF c

(* What does not go well, or not yet, has only the file to answer for. *)
LEMMA NotGoing ==
    ASSUME ~GoingWell'
    PROVE  HeadersInv' /\ FormatInv'
BY DEF HeadersInv, FormatInv

(* A call begins on a new file, a container made elsewhere is given as it is. *)
LEMMA BeginStep == ASSUME FileInv, Begin PROVE FileInv'
<1>1. /\ CallInv /\ NumbersInv /\ CopyInv /\ HeadersInv /\ FormatInv /\ LaidInv /\ BootMeansComplete
    BY DEF FileInv
<1>2. call = NoCall /\ UNCHANGED <<len, at, laid, unsynced, target, damage>> BY DEF Begin, file
<1>3. PICK c \in Requests :
            /\ call' = c
            /\ todo' = IF Refused(c) THEN <<>> ELSE Script(c)
            /\ result' = IF Refused(c) THEN "failed" ELSE "ok"
    BY DEF Begin
<1>4. damage = 0 BY <1>1, <1>2, KindsDiffer DEF CallInv, GoingWell
<1>5. DOMAIN at = {} BY <1>1, <1>2 DEF CopyInv
<1>6. laid = {} BY <1>1, <1>2, KindsDiffer DEF LaidInv
<1>7. NumbersInv' BY <1>1, <1>2 DEF NumbersInv
<1>8. CopyInv'
    <2>1. DOMAIN at' = {} BY <1>2, <1>5
    <2>2. QED BY <2>1 DEF CopyInv
<1>9. LaidInv' /\ BootMeansComplete' BY <1>2, <1>6, NothingLaidFine
<1>10. CASE Refused(c)
    <2>1. ~GoingWell' BY <1>3, <1>10 DEF GoingWell
    <2>2. CallInv' BY <1>3, <1>10, <2>1 DEF CallInv
    <2>3. QED BY <1>7, <1>8, <1>9, <2>1, <2>2, NotGoing DEF FileInv
<1>11. CASE ~Refused(c)
    <2>1. GoingWell' /\ todo' = Script(c) BY <1>2, <1>3, <1>4, <1>11 DEF GoingWell
    <2>2. IsSequence(Script(c)) /\ Len(Script(c)) = ScriptLen(c) /\ ScriptLen(c) \in Nat
        BY ScriptTable, LengthOf DEF Table
    <2>3. Past' = 0
        <3>1. Past' = ScriptLen(c) - Len(Script(c)) BY <1>3, <2>1 DEF Past
        <3>2. QED BY <2>2, <3>1
    <2>4. SubSeq(Script(c), 1, ScriptLen(c)) = Script(c)
        <3>1. PICK S : Script(c) \in Seq(S) BY <2>2 DEF IsSequence
        <3>2. QED BY <2>2, <3>1, SubSeqFull
    <2>5. CallInv'
        <3>1. 0 \in 0 .. ScriptLen(c) /\ 0 + 1 = 1 BY <2>2
        <3>2. Past' \in 0 .. ScriptLen(call') BY <1>3, <2>3, <3>1
        <3>3. todo' = SubSeq(Script(call'), Past' + 1, ScriptLen(call')) BY <1>3, <2>1, <2>3, <2>4, <3>1
        <3>4. QED BY <2>1, <3>2, <3>3, Zenon DEF CallInv
    <2>6. Opening(c) \in 1 .. 3 /\ LastFlush(c) \in Nat /\ LastFlush(c) > 0
          /\ \A v \in Volumes(c) : Finding(c, v) \in Nat /\ Finding(c, v) > 0
        <3>1. Opening(c) \in 1 .. 3 /\ Finding(c, "outer") \in Nat /\ Finding(c, "outer") > Opening(c) + 8
              /\ LastFlush(c) \in Nat /\ Finding(c, "outer") < LastFlush(c)
              /\ \A v \in Volumes(c) : Finding(c, v) \in Nat /\ Finding(c, "outer") <= Finding(c, v)
            BY Marks
        <3>2. \A a, b, f, g \in Int : a >= 1 /\ b > a + 8 /\ b <= f /\ b < g => f > 0 /\ g > 0 /\ b > 0
            OBVIOUS
        <3>3. 0 < LastFlush(c) /\ 0 < Finding(c, "outer")
            BY <3>1
        <3>4. ASSUME NEW v \in Volumes(c) PROVE Finding(c, v) \in Nat /\ Finding(c, v) > 0
            <4>1. Finding(c, v) \in Nat /\ Finding(c, "outer") <= Finding(c, v) BY <3>1
            <4>2. QED BY <3>1, <3>3, <4>1
        <3>5. QED BY <3>1, <3>3, <3>4
    <2>7. HeadersInv'
        <3> DEFINE o == Opening(c)
                   l == LastFlush(c)
        <3>1. o \in 1 .. 3 /\ l \in Nat /\ l > 0 BY <2>6
        <3>2. Opening(call') = o /\ LastFlush(call') = l BY <1>3
        <3> HIDE DEF o, l
        <3>3. /\ ~(0 > o) /\ ~(0 > o + 4) /\ ~(0 > o + 5) /\ ~(0 > o + 6) /\ ~(0 > o + 8)
              /\ ~(0 > o + 9) /\ ~(0 > o + 10) /\ 0 < l
            BY <3>1
        <3>4. QED BY <2>3, <3>2, <3>3, Zenon DEF HeadersInv
    <2>8. FormatInv'
        <3>1. ASSUME NEW v \in Volumes(c)
              PROVE  ~(0 >= Finding(c, v)) /\ ~(0 > Finding(c, v))
                     /\ \A j \in 1 .. Parted(c) : ~(0 > Finding(c, v) + j)
            <4> DEFINE f == Finding(c, v)
            <4>1. f \in Nat /\ f > 0 BY <2>6
            <4> HIDE DEF f
            <4>2. ~(0 >= f) /\ ~(0 > f) /\ \A j \in 1 .. Parted(c) : ~(0 > f + j) BY <4>1
            <4>3. QED BY <4>2 DEF f
        <3>2. laid' = {} BY <1>2, <1>6
        <3>3. \A v \in Volumes(call') :
                ~(Past' >= Finding(call', v)) /\ ~(Past' > Finding(call', v))
                /\ \A j \in 1 .. Parted(call') : ~(Past' > Finding(call', v) + j)
            BY <1>3, <2>3, <3>1
        <3>4. QED BY <3>2, <3>3, Zenon DEF FormatInv
    <2>9. QED BY <1>7, <1>8, <1>9, <2>5, <2>7, <2>8 DEF FileInv
<1>12. QED BY <1>10, <1>11

(* A call that ends early leaves the file as it is. *)
LEMMA EndStep ==
    ASSUME FileInv, UNCHANGED <<len, at, laid, unsynced, target, call, damage>>,
           call \in Requests, todo' = <<>>, result' \in {"failed", "killed"}
    PROVE  FileInv'
<1>1. /\ CallInv /\ NumbersInv /\ CopyInv /\ HeadersInv /\ FormatInv /\ LaidInv /\ BootMeansComplete
    BY DEF FileInv
<1>2. ~GoingWell' BY DEF GoingWell
<1>3. CallInv' BY <1>2 DEF CallInv
<1>4. NumbersInv' BY <1>1 DEF NumbersInv
<1>5. CopyInv' BY <1>1, SameCopies
<1>6. LaidInv' /\ BootMeansComplete' BY <1>1, SameLaid
<1>7. QED BY <1>2, <1>3, <1>4, <1>5, <1>6, NotGoing DEF FileInv

(* A failed or killed call has no steps left. *)
LEMMA FailStep == ASSUME FileInv, Fail PROVE FileInv'
<1>1. /\ UNCHANGED <<len, at, laid, unsynced, target, call, damage>>
      /\ todo # <<>> /\ todo' = <<>> /\ result' \in {"failed", "killed"}
    BY DEF Fail, file
<1>2. call \in Requests BY <1>1 DEF FileInv, CallInv, GoingWell
<1>3. QED BY <1>1, <1>2, EndStep

LEMMA KillStep == ASSUME FileInv, Kill PROVE FileInv'
<1>1. /\ UNCHANGED <<len, at, laid, unsynced, target, call, damage>>
      /\ Running /\ todo' = <<>> /\ result' \in {"failed", "killed"}
    BY DEF Kill, file
<1>2. call \in Requests BY <1>1 DEF FileInv, CallInv, GoingWell, Running
<1>3. QED BY <1>1, <1>2, EndStep

(* Steps that touch descriptors only. *)
LEMMA StillStep ==
    ASSUME FileInv, UNCHANGED <<len, at, laid, unsynced, target, call, damage, todo, result>>,
           handles = <<>> => handles' = <<>>
    PROVE  FileInv'
<1>1. /\ CallInv /\ NumbersInv /\ CopyInv /\ HeadersInv /\ FormatInv /\ LaidInv /\ BootMeansComplete
    BY DEF FileInv
<1>2. GoingWell' = GoingWell /\ Past' = Past BY DEF GoingWell, Past
<1>3. CallInv'
    <2>1. Script(call)' = Script(call) /\ ScriptLen(call)' = ScriptLen(call) BY Zenon
    <2>2. QED BY <1>1, <1>2, <2>1, Zenon DEF CallInv
<1>4. NumbersInv' BY <1>1 DEF NumbersInv
<1>5. CopyInv' BY <1>1, SameCopies
<1>6. LaidInv' /\ BootMeansComplete' BY <1>1, SameLaid
<1>7. HeadersInv' BY <1>1, <1>2, Zenon DEF HeadersInv
<1>8. FormatInv'
    <2>1. \A v : Search(call, v)' = Search(call, v) /\ Found(v)' = Found(v) BY SameSearch
    <2>2. \A q, h : Present(q, h) => Present(q, h)'
        <3>1. laid \subseteq laid' OBVIOUS
        <3>2. QED BY <3>1, SamePresent
    <2>3. QED BY <1>1, <1>2, <2>1, <2>2, Zenon DEF FormatInv
<1>9. QED BY <1>3, <1>4, <1>5, <1>6, <1>7, <1>8 DEF FileInv

(* Damage spoils parts of a copy of a call that is over. *)
LEMMA DamageStep == ASSUME FileInv, Damage PROVE FileInv'
<1>1. /\ CallInv /\ NumbersInv /\ CopyInv /\ LaidInv /\ BootMeansComplete
    BY DEF FileInv
<1>2. /\ result \in {"ok", "desktop"} /\ ~Running /\ damage < MaxDamage /\ damage' = damage + 1
      /\ UNCHANGED <<len, laid, unsynced, call, todo, handles, target, result>>
    BY DEF Damage
<1>a. PICK o \in DOMAIN at : \E p \in {"salt", "magic", "fields", "keys"} \ at[o].spoilt :
            at' = [at EXCEPT ![o].spoilt = @ \cup {p}]
    BY DEF Damage
<1>3. PICK p \in {"salt", "magic", "fields", "keys"} : at' = [at EXCEPT ![o].spoilt = @ \cup {p}]
    BY <1>a
<1>4. damage \in Nat /\ damage' \in 0 .. MaxDamage /\ damage' # 0
    BY <1>1, <1>2, RequestsAssumption DEF NumbersInv
<1>5. NumbersInv' BY <1>1, <1>2, <1>4 DEF NumbersInv
<1>6. ~GoingWell' BY <1>4 DEF GoingWell
<1>7. CallInv'
    <2>1. call # NoCall BY <1>1, <1>3 DEF CopyInv
    <2>2. todo = <<>> BY <1>2 DEF Running
    <2>3. \/ call \in Desktop /\ result = "desktop" /\ handles = <<>>
          \/ call \in Requests /\ result \in {"ok", "failed", "killed"}
        <3>1. \/ call = NoCall
              \/ call \in Desktop /\ result = "desktop" /\ handles = <<>>
              \/ call \in Requests /\ result \in {"ok", "failed", "killed"}
              \/ GoingWell
            BY <1>1, Zenon DEF CallInv
        <3>2. GoingWell => call \in Requests /\ result \in {"ok", "failed", "killed"} BY DEF GoingWell
        <3>3. QED BY <2>1, <3>1, <3>2
    <2>4. QED BY <1>2, <1>6, <2>2, <2>3, Zenon DEF CallInv
<1>8. CopyInv'
    <2> DEFINE t == at[o].spoilt \cup {p}
               b == at'[o]
    <2>1. DOMAIN at' = DOMAIN at /\ \A x \in DOMAIN at : x # o => at'[x] = at[x] BY <1>3
    <2>2. b = [at[o] EXCEPT !.spoilt = t] BY <1>3
    <2>3. t \subseteq {"salt", "magic", "fields", "keys"} BY <1>1 DEF CopyInv
    <2> HIDE DEF t, b
    <2>4. call \in Desktop =>
            b = [Sealed(call.plain, call.prf, Schemes[call.scheme], SecretOf(call, "outer"), call.pim, o)
                    EXCEPT !.spoilt = t] /\ b.spoilt = t
        <3> SUFFICES ASSUME call \in Desktop
                     PROVE  b = [Sealed(call.plain, call.prf, Schemes[call.scheme], SecretOf(call, "outer"),
                                        call.pim, o) EXCEPT !.spoilt = t] /\ b.spoilt = t
            OBVIOUS
        <3> DEFINE x == Sealed(call.plain, call.prf, Schemes[call.scheme], SecretOf(call, "outer"), call.pim, o)
        <3>1. at[o] = [x EXCEPT !.spoilt = at[o].spoilt] BY <1>1, Zenon DEF CopyInv
        <3>2. "spoilt" \in DOMAIN x /\ x = [f \in DOMAIN x |-> x[f]] BY SealedRecord
        <3> HIDE DEF x
        <3>3. b = [x EXCEPT !.spoilt = t] /\ b.spoilt = t BY <2>2, <3>1, <3>2, Spoiling
        <3>4. QED BY <3>3 DEF x
    <2>5. ASSUME NEW v \in Volumes(call), at[o] = [CopyOf(call, v, o) EXCEPT !.spoilt = at[o].spoilt]
          PROVE  b = [CopyOf(call, v, o) EXCEPT !.spoilt = t] /\ b.spoilt = t
        <3> DEFINE x == CopyOf(call, v, o)
        <3>1. at[o] = [x EXCEPT !.spoilt = at[o].spoilt] BY <2>5
        <3>2. "spoilt" \in DOMAIN x /\ x = [f \in DOMAIN x |-> x[f]] BY SealedRecord DEF CopyOf
        <3> HIDE DEF x
        <3>3. b = [x EXCEPT !.spoilt = t] /\ b.spoilt = t BY <2>2, <3>1, <3>2, Spoiling
        <3>4. QED BY <3>3 DEF x
    <2>6. call \in Requests => \E v \in Volumes(call) :
            Passed(call, v) /\ o \in CopyPlaces(call, v)
            /\ b = [CopyOf(call, v, o) EXCEPT !.spoilt = t] /\ b.spoilt = t
        <3> SUFFICES ASSUME call \in Requests
                     PROVE  \E v \in Volumes(call) :
                                Passed(call, v) /\ o \in CopyPlaces(call, v)
                                /\ b = [CopyOf(call, v, o) EXCEPT !.spoilt = t] /\ b.spoilt = t
            OBVIOUS
        <3>1. PICK v \in Volumes(call) :
                Passed(call, v) /\ o \in CopyPlaces(call, v)
                /\ at[o] = [CopyOf(call, v, o) EXCEPT !.spoilt = at[o].spoilt]
            BY <1>1, Zenon DEF CopyInv
        <3>2. b = [CopyOf(call, v, o) EXCEPT !.spoilt = t] /\ b.spoilt = t BY <2>5, <3>1, Zenon
        <3>3. QED BY <3>1, <3>2, Zenon
    <2>7. call \in Requests \cup Desktop
        <3>1. call # NoCall BY <1>1, <1>3 DEF CopyInv
        <3>2. QED BY <1>1, <3>1, Zenon DEF CallInv, GoingWell
    <2>8. b.spoilt = t BY <2>4, <2>6, <2>7, Zenon
    <2>9. ASSUME NEW x \in DOMAIN at'
          PROVE  /\ x \in Nat
                 /\ at'[x].spoilt \subseteq {"salt", "magic", "fields", "keys"}
                 /\ call \in Desktop =>
                        at'[x] = [Sealed(call.plain, call.prf, Schemes[call.scheme],
                                         SecretOf(call, "outer"), call.pim, x) EXCEPT !.spoilt = at'[x].spoilt]
                 /\ call \in Requests =>
                        \E v \in Volumes(call) :
                            Passed(call, v) /\ x \in CopyPlaces(call, v)
                            /\ at'[x] = [CopyOf(call, v, x) EXCEPT !.spoilt = at'[x].spoilt]
        <3>1. CASE x = o
            <4>1. o \in Nat BY <1>1 DEF CopyInv
            <4>2. at'[x] = b /\ at'[x].spoilt = t BY <2>8, <3>1 DEF b
            <4>3. QED BY <2>3, <2>4, <2>6, <3>1, <4>1, <4>2, Zenon
        <3>2. CASE x # o
            <4>1. x \in DOMAIN at /\ at'[x] = at[x] BY <2>1, <3>2
            <4>2. QED BY <1>1, <4>1, Zenon DEF CopyInv
        <3>3. QED BY <3>1, <3>2
    <2>10. call # NoCall BY <1>1, <1>3 DEF CopyInv
    <2>11. QED BY <1>2, <1>4, <2>9, <2>10, Zenon DEF CopyInv
<1>9. LaidInv' /\ BootMeansComplete' BY <1>1, <1>2, SameLaid
<1>10. QED BY <1>5, <1>6, <1>7, <1>8, <1>9, NotGoing DEF FileInv

-----------------------------------------------------------------------------
(* The invariant *)

LEMMA FileInit == Init => FileInv
<1> SUFFICES ASSUME Init PROVE FileInv OBVIOUS
<1>1. /\ todo = <<>> /\ handles = <<>> /\ laid = {} /\ unsynced = FALSE /\ damage = 0 BY DEF Init
<1>2. 0 \in 0 .. MaxDamage BY RequestsAssumption
<1>3. LaidInv /\ BootMeansComplete BY <1>1 DEF LaidInv, BootMeansComplete
<1>4. ASSUME ~GoingWell PROVE HeadersInv /\ FormatInv BY <1>4 DEF HeadersInv, FormatInv
<1>5. CASE call = NoCall /\ result = "none" /\ len = 0 /\ at = [o \in {} |-> 0]
    <2>1. ~GoingWell BY <1>5, KindsDiffer DEF GoingWell
    <2>2. CallInv /\ NumbersInv BY <1>1, <1>2, <1>5 DEF CallInv, NumbersInv
    <2>3. DOMAIN at = {} BY <1>5
    <2>4. CopyInv BY <2>3 DEF CopyInv
    <2>5. QED BY <1>3, <1>4, <2>1, <2>2, <2>4 DEF FileInv
<1>6. CASE \E d \in Desktop :
            /\ call = d /\ result = "desktop" /\ len = d.size
            /\ at = [o \in {0, d.size - GROUP} |->
                        Sealed(d.plain, d.prf, Schemes[d.scheme], SecretOf(d, "outer"), d.pim, o)]
    <2>1. /\ call \in Desktop /\ result = "desktop" /\ len = call.size
          /\ at = [o \in {0, call.size - GROUP} |->
                      Sealed(call.plain, call.prf, Schemes[call.scheme], SecretOf(call, "outer"), call.pim, o)]
        BY <1>6
    <2>2. call \notin Requests /\ call # NoCall BY <2>1, KindsDiffer
    <2>3. ~GoingWell BY <2>2 DEF GoingWell
    <2>4. call.size \in Nat /\ call.size >= GROUP BY <2>1, RequestsAssumption DEF GROUP
    <2>5. CallInv /\ NumbersInv BY <1>1, <1>2, <2>1, <2>4 DEF CallInv, NumbersInv
    <2>6. CopyInv
        <3>1. \A o \in DOMAIN at : o = 0 \/ o = call.size - GROUP BY <2>1
        <3>2. 0 \in Nat /\ call.size - GROUP \in Nat BY <2>4 DEF GROUP, BACKUP_FROM_END
        <3>3. \A o \in DOMAIN at :
                at[o] = Sealed(call.plain, call.prf, Schemes[call.scheme], SecretOf(call, "outer"), call.pim, o)
            BY <2>1
        <3>4. ASSUME NEW o \in DOMAIN at
              PROVE  /\ at[o].spoilt = {}
                     /\ at[o] = [Sealed(call.plain, call.prf, Schemes[call.scheme], SecretOf(call, "outer"),
                                        call.pim, o) EXCEPT !.spoilt = at[o].spoilt]
            <4> DEFINE s == Sealed(call.plain, call.prf, Schemes[call.scheme], SecretOf(call, "outer"),
                                   call.pim, o)
            <4>1. at[o] = s BY <3>3
            <4>2. s.spoilt = {} /\ s = [s EXCEPT !.spoilt = s.spoilt] BY SealedRecord
            <4> HIDE DEF s
            <4>3. at[o].spoilt = {} /\ at[o] = [s EXCEPT !.spoilt = at[o].spoilt] BY <4>1, <4>2, Zenon
            <4>4. QED BY <4>3 DEF s
        <3>5. {} \subseteq {"salt", "magic", "fields", "keys"} OBVIOUS
        <3>6. ASSUME NEW o \in DOMAIN at PROVE o \in Nat BY <3>1, <3>2
        <3>7. QED BY <2>2, <3>4, <3>5, <3>6, Zenon DEF CopyInv
    <2>7. QED BY <1>3, <1>4, <2>3, <2>5, <2>6 DEF FileInv
<1>7. QED BY <1>5, <1>6 DEF Init

(* Every action keeps the invariant. *)
LEMMA FileStep == FileInv /\ [Next]_vars => FileInv'
<1> SUFFICES ASSUME FileInv, [Next]_vars PROVE FileInv' OBVIOUS
<1>1. CASE Begin BY <1>1, BeginStep
<1>2. CASE TruncateFile BY <1>2, StepTruncate
<1>3. CASE SetLen \/ SetLenRefused BY <1>3, StepSetLen
<1>4. CASE RequireHolds BY <1>4, StepRequire
<1>5. CASE WriteNoise BY <1>5, StepNoise
<1>6. CASE WriteCopy BY <1>6, StepCopy
<1>7. CASE Flush BY <1>7, StepFlush
<1>8. CASE FindVolume BY <1>8, StepFind
<1>9. CASE FitsTarget BY <1>9, StepFit
<1>10. CASE Lay BY <1>10, StepLay
<1>11. CASE OpenDevice \/ DropDevice BY <1>11, StepDevice
<1>12. CASE DropLast
    <2>1. /\ UNCHANGED <<len, at, laid, unsynced, target, call, damage, todo, result>>
          /\ handles # <<>>
        BY <1>12 DEF DropLast, file
    <2>2. QED BY <2>1, StillStep
<1>13. CASE Fail BY <1>13, FailStep
<1>14. CASE Kill BY <1>14, KillStep
<1>15. CASE OtherOpens \/ OtherCloses
    <2>1. UNCHANGED <<len, at, laid, unsynced, target, call, damage, todo, result, handles>>
        BY <1>15 DEF OtherOpens, OtherCloses, file
    <2>2. QED BY <2>1, StillStep
<1>16. CASE Damage BY <1>16, DamageStep
<1>17. CASE UNCHANGED vars
    <2>1. UNCHANGED <<len, at, laid, unsynced, target, call, damage, todo, result, handles>>
        BY <1>17 DEF vars
    <2>2. QED BY <2>1, StillStep
<1>18. QED
    BY <1>1, <1>2, <1>3, <1>4, <1>5, <1>6, <1>7, <1>8, <1>9, <1>10, <1>11, <1>12, <1>13, <1>14, <1>15,
       <1>16, <1>17, Zenon
    DEF Next, Advance

LEMMA FileAlways == Spec => []FileInv
BY FileInit, FileStep, PTL DEF Spec

(* The boot region of a file system comes last: a volume that mounts is
   whole, wherever the creation stopped. *)
THEOREM BootComesLast == Spec => []BootMeansComplete
<1>1. FileInv => BootMeansComplete BY DEF FileInv
<1>2. QED BY <1>1, FileAlways, PTL

-----------------------------------------------------------------------------
(* What follows from the invariant *)

(* A format is laid out only for a size that passed its checks, so every exFAT
   layout on the file is one that LayoutIsSound speaks of, and whether it is
   sound is a matter of its number of clusters alone (format of
   core/norse-exfat/src/format.rs). *)
THEOREM LayoutsSoundAlways == Spec => []LayoutsAreSound
<1>1. FileInv => LayoutsAreSound
    <2> SUFFICES ASSUME FileInv, NEW p \in laid, p.part \in Parts
                 PROVE  SoundLayout(p.header.size) <=> Addressable(p.header.size)
        BY DEF LayoutsAreSound
    <2>1. call \in Requests BY DEF FileInv, LaidInv
    <2>2. PICK v \in Volumes(call), i \in 1 .. Parted(call) :
            /\ Passed(call, v) /\ FsFits(call, HeaderOf(call, v))
            /\ p = Laid(FsOrder(call)[i], HeaderOf(call, v))
        BY Zenon DEF FileInv, LaidInv
    <2>3. p.part = FsOrder(call)[i] /\ p.header = HeaderOf(call, v) BY <2>1, <2>2, LaidInside
    <2>4. call.fs = "exFAT"
        <3>1. "fat boot" \notin Parts /\ "fat tables" \notin Parts /\ "fat root" \notin Parts BY DEF Parts
        <3>2. p.part \notin {"fat boot", "fat tables", "fat root"} BY <3>1
        <3>3. QED BY <2>1, <2>3, <3>2, OrderedParts
    <2>5. HeaderOf(call, v).size \in Nat BY <2>1, <2>2, HeaderNumbers
    <2>6. Fits(HeaderOf(call, v).size) BY <2>2, <2>4 DEF FsFits
    <2>7. QED BY <2>3, <2>5, <2>6, LayoutIsSound
<1>2. QED BY <1>1, FileAlways, PTL

(* Whatever 64-bit numbers are asked for as the sizes of a container and of its
   hidden volume, those included for which the check of the hidden size wraps,
   and whichever type of FAT is chosen, what a format writes keeps to the data
   area its header names, clear of both header groups, and the hidden one ends
   128 KiB before the outer area does (the checks of create_volume and
   create_hidden of core/vc-format/src/create.rs). *)
THEOREM VolumesKeepApart == Spec => []VolumesKeepToTheirAreas
<1>1. FileInv => VolumesKeepToTheirAreas
    <2> SUFFICES ASSUME FileInv, NEW p \in laid
                 PROVE  /\ p.header.start <= p.lo /\ p.hi <= p.header.start + p.header.size
                        /\ GROUP <= p.lo /\ p.hi <= call.size - GROUP
                        /\ p.header.volume = "hidden" => p.hi <= call.size - 2 * GROUP
        BY DEF VolumesKeepToTheirAreas
    <2>1. call \in Requests BY DEF FileInv, LaidInv
    <2>2. PICK v \in Volumes(call), i \in 1 .. Parted(call) :
            /\ Passed(call, v) /\ FsFits(call, HeaderOf(call, v))
            /\ p = Laid(FsOrder(call)[i], HeaderOf(call, v))
        BY Zenon DEF FileInv, LaidInv
    <2> DEFINE h == HeaderOf(call, v)
    <2>3. /\ p.header = h /\ p.lo \in Nat /\ p.hi \in Nat
          /\ h.start <= p.lo /\ p.hi <= h.start + h.size
        BY <2>1, <2>2, LaidInside
    <2>4. /\ h.start \in Nat /\ h.size \in Nat /\ GROUP <= h.start /\ h.start + h.size <= call.size - GROUP
          /\ v = "hidden" => h.start + h.size = call.size - 2 * GROUP
        BY <2>1, <2>2, HeaderNumbers, AreaInside
    <2>5. h.volume = v BY HeaderVolume
    <2>6. call.size \in Nat /\ GROUP = 131072 BY <2>1, CallTyped DEF GROUP, BACKUP_FROM_END
    <2> HIDE DEF h
    <2> DEFINE lo == p.lo
               hi == p.hi
               st == h.start
               sz == h.size
               c == call.size
    <2>7. /\ lo \in Nat /\ hi \in Nat /\ st \in Nat /\ sz \in Nat /\ c \in Nat
          /\ st <= lo /\ hi <= st + sz /\ GROUP <= st /\ st + sz <= c - GROUP
        BY <2>3, <2>4, <2>6
    <2>8. v = "hidden" => st + sz = c - 2 * GROUP BY <2>4
    <2> HIDE DEF lo, hi, st, sz, c
    <2>9. GROUP <= lo /\ hi <= c - GROUP BY <2>6, <2>7
    <2>10. v = "hidden" => hi <= c - 2 * GROUP BY <2>6, <2>7, <2>8
    <2>11. QED BY <2>3, <2>5, <2>7, <2>9, <2>10 DEF lo, hi, st, sz, c
<1>2. QED BY <1>1, FileAlways, PTL

-----------------------------------------------------------------------------
(* Verdicts *)

(* The verdict on one copy, by what is spoilt of it. *)
LEMMA VerdictOf ==
    ASSUME NEW x, x.spoilt \subseteq {"salt", "magic", "fields", "keys"}
    PROVE  /\ Verdict(x) = "found" <=> x.spoilt = {} /\ Parse(x.plain, <<>>, {}) = "found"
           /\ Verdict(x) = Miss <=> x.spoilt \cap {"salt", "magic"} # {}
<1>1. CASE "salt" \in x.spoilt BY <1>1 DEF Verdict, Miss
<1>2. CASE "salt" \notin x.spoilt /\ "magic" \in x.spoilt BY <1>2 DEF Verdict, Miss, Parse
<1>3. CASE x.spoilt \cap {"salt", "magic"} = {} /\ x.spoilt # {}
    <2>1. x.spoilt \cap {"fields", "keys"} # {} /\ "salt" \notin x.spoilt /\ "magic" \notin x.spoilt BY <1>3
    <2>2. Verdict(x) = "HeaderDamaged" BY <2>1 DEF Verdict, Parse
    <2>3. QED BY <1>3, <2>2 DEF Miss
<1>4. CASE x.spoilt = {}
    <2>1. Verdict(x) = Parse(x.plain, <<>>, {}) BY <1>4 DEF Verdict
    <2>2. Parse(x.plain, <<>>, {}) # Miss BY DEF Parse, Miss
    <2>3. QED BY <1>4, <2>1, <2>2
<1>5. QED BY <1>1, <1>2, <1>3, <1>4

(* No volume has the secret of nobody. *)
LEMMA WrongSecret ==
    ASSUME NEW c \in Requests \cup Desktop, NEW v, NEW keyfiles
    PROVE  SecretOf(c, v) # Secret("wrong", keyfiles)
<1>1. Secret("wrong", keyfiles).pass = "wrong" BY DEF Secret
<1>2. c.pass # "wrong" /\ c.hiddenPass # "wrong" BY RequestsAssumption
<1>3. SecretOf(c, v).pass = (IF v = "outer" THEN c.pass ELSE c.hiddenPass) BY DEF SecretOf, Secret
<1>4. QED BY <1>1, <1>2, <1>3

(* For any file that a creation left, whole, failed or damaged, the search tells
   found, damaged and not found apart as the copies under the secret deserve,
   and the wrong password finds nothing (find_header of core/vc-format). *)
THEOREM VerdictsHonestAlways == Spec => []VerdictsAreHonest
<1>1. FileInv => VerdictsAreHonest
    <2> SUFFICES ASSUME FileInv, Done, ~Unreadable(len) PROVE VerdictsAreHonest BY DEF VerdictsAreHonest
    <2>1. CopyInv /\ len \in Nat BY DEF FileInv, NumbersInv
    <2>2. call \in Requests \cup Desktop
        <3>1. CallInv /\ call # NoCall BY DEF FileInv, Done
        <3>2. QED BY <3>1, Zenon DEF CallInv, GoingWell
    <2>3. \A secret : Accounted(FindHeader(at, len, secret, call.pim), at, CopiesUnder(secret),
                                call.scheme, call.prf)
        BY <2>1, <2>2, SearchAnswers
    <2>4. \A o \in DOMAIN at : at[o].spoilt \subseteq {"salt", "magic", "fields", "keys"} BY <2>1 DEF CopyInv
    <2>5. \A secret : CopiesUnder(secret) \subseteq DOMAIN at BY DEF CopiesUnder
    <2>6. FindHeader(at, len, Secret("wrong", call.keyfiles), call.pim).out = Miss
        <3> DEFINE w == Secret("wrong", call.keyfiles)
        <3>1. \A v : SecretOf(call, v) # w BY <2>2, WrongSecret
        <3> HIDE DEF w
        <3>2. CopiesUnder(w) = {} BY <3>1 DEF CopiesUnder
        <3>3. Accounted(FindHeader(at, len, w, call.pim), at, {}, call.scheme, call.prf) BY <2>3, <3>2
        <3>4. FindHeader(at, len, w, call.pim).out = Miss BY <3>3 DEF Accounted
        <3>5. QED BY <3>4 DEF w
    <2>7. ASSUME NEW v \in Volumes(call)
          PROVE  LET mine == CopiesUnder(SecretOf(call, v))
                     shows(o) == at[o].spoilt \cap {"salt", "magic"} = {}
                     good == {o \in mine : at[o].spoilt = {} /\ Parse(at[o].plain, <<>>, {}) = "found"}
                     verdict == Search(call, v)
                 IN  /\ verdict.out = "found" <=> good # {}
                     /\ verdict.out = "found" =>
                            \E o \in good : verdict = Outcome("found", at[o].plain, call.scheme, call.prf)
                     /\ verdict.out = Miss <=> \A o \in mine : ~shows(o)
        <3> DEFINE mine == CopiesUnder(SecretOf(call, v))
                   good == {o \in mine : at[o].spoilt = {} /\ Parse(at[o].plain, <<>>, {}) = "found"}
                   verdict == Search(call, v)
        <3>1. Accounted(verdict, at, mine, call.scheme, call.prf) BY <2>3 DEF Search
        <3>2. mine \subseteq DOMAIN at BY <2>5
        <3> HIDE DEF mine, verdict
        <3>3. \A o \in mine : at[o].spoilt \subseteq {"salt", "magic", "fields", "keys"} BY <2>4, <3>2
        <3>4. \A o \in mine :
                /\ Verdict(at[o]) = "found" <=> at[o].spoilt = {} /\ Parse(at[o].plain, <<>>, {}) = "found"
                /\ Verdict(at[o]) = Miss <=> at[o].spoilt \cap {"salt", "magic"} # {}
            BY <3>3, VerdictOf
        <3>5. {o \in mine : Verdict(at[o]) = "found"} = good BY <3>4
        <3> HIDE DEF good
        <3>6. /\ verdict.out = "found" <=> good # {}
              /\ verdict.out = "found" =>
                    \E o \in good : verdict = Outcome("found", at[o].plain, call.scheme, call.prf)
              /\ verdict.out = Miss <=> \A o \in mine : Verdict(at[o]) = Miss
            BY <3>1, <3>5 DEF Accounted
        <3>7. verdict.out = Miss <=> \A o \in mine : ~(at[o].spoilt \cap {"salt", "magic"} = {})
            BY <3>4, <3>6
        <3>8. QED BY <3>6, <3>7 DEF mine, good, verdict
    <2>8. QED BY <2>6, <2>7 DEF VerdictsAreHonest
<1>2. QED BY <1>1, FileAlways, PTL

-----------------------------------------------------------------------------
(* The order of keyfiles *)

(* The pool a list of keyfiles makes does not depend on their order. *)
LEMMA PoolOrder ==
    ASSUME NEW pass, NEW k, k \in Seq(Range(k)), NEW p \in Bijection(DOMAIN k, DOMAIN k)
    PROVE  Secret(pass, [i \in DOMAIN k |-> k[p[i]]]) = Secret(pass, k)
<1> DEFINE other == [i \in DOMAIN k |-> k[p[i]]]
<1>1. Len(k) \in Nat /\ DOMAIN k = 1 .. Len(k) BY LenProperties
<1>2. /\ p \in [DOMAIN k -> DOMAIN k]
      /\ \A i, j \in DOMAIN k : p[i] = p[j] => i = j
      /\ \A j \in DOMAIN k : \E i \in DOMAIN k : p[i] = j
    BY DEF Bijection, Injection, Surjection, IsInjective
<1>3. IsFiniteSet(DOMAIN k)
    <2>1. IsFiniteSet(1 .. Len(k)) BY <1>1, FS_Interval
    <2>2. QED BY <1>1, <2>1
<1>4. other # <<>> <=> k # <<>>
    <2>1. DOMAIN other = DOMAIN k OBVIOUS
    <2>2. k = <<>> <=> DOMAIN k = {}
        <3>1. k = <<>> <=> Len(k) = 0 BY EmptySeq
        <3>2. \A n \in Nat : 1 .. n = {} <=> n = 0
            <4>1. \A n \in Nat : n # 0 => 1 \in 1 .. n OBVIOUS
            <4>2. 1 .. 0 = {} OBVIOUS
            <4>3. QED BY <4>1, <4>2
        <3>3. 1 .. Len(k) = {} <=> Len(k) = 0 BY <1>1, <3>2
        <3>4. QED BY <1>1, <3>1, <3>3, Zenon
    <2>3. other = <<>> <=> DOMAIN other = {}
        <3>1. <<>> = [i \in {} |-> k[p[i]]] OBVIOUS
        <3>2. QED BY <3>1
    <2>4. QED BY <2>1, <2>2, <2>3
<1>5. \A i \in DOMAIN k : p[i] \in DOMAIN k /\ other[i] = k[p[i]] BY <1>2
<1>6. DOMAIN other = DOMAIN k OBVIOUS
<1> HIDE DEF other
<1> DEFINE In(s, c) == {i \in DOMAIN s : Contribution(s, i) = c}
           Added(s) == {Contribution(s, i) : i \in DOMAIN s}
<1>7. Added(other) = Added(k) BY <1>2, <1>5, <1>6 DEF Contribution
<1>8. ASSUME NEW c PROVE Cardinality(In(other, c)) = Cardinality(In(k, c))
    <2> DEFINE S == In(other, c)
               T == In(k, c)
               f == [i \in S |-> p[i]]
    <2>1. \A i \in DOMAIN k : i \in S <=> p[i] \in T BY <1>5, <1>6 DEF Contribution
    <2>2. S \subseteq DOMAIN k /\ T \subseteq DOMAIN k BY <1>6
    <2> HIDE DEF S, T
    <2>3. f \in [S -> T] BY <2>1, <2>2
    <2>4. \A i, j \in S : f[i] = f[j] => i = j BY <1>2, <2>2
    <2>5. \A j \in T : \E i \in S : f[i] = j BY <1>2, <2>1, <2>2
    <2> HIDE DEF f
    <2>6. f \in Bijection(S, T) BY <2>3, <2>4, <2>5 DEF Bijection, Injection, Surjection, IsInjective
    <2>7. IsFiniteSet(S) BY <1>3, <2>2, FS_Subset
    <2>8. ExistsBijection(S, T) BY <2>6 DEF ExistsBijection
    <2>9. Cardinality(T) = Cardinality(S) BY <2>7, <2>8, FS_Bijection
    <2>10. QED BY <2>9 DEF S, T
<1>9. Pool(other) = [c \in Added(other) |-> Cardinality(In(other, c))] BY DEF Pool
<1>10. Pool(k) = [c \in Added(k) |-> Cardinality(In(k, c))] BY DEF Pool
<1> HIDE DEF In, Added
<1>11. Pool(other) = Pool(k) BY <1>7, <1>8, <1>9, <1>10
<1>12. Secret(pass, other) = Secret(pass, k) BY <1>4, <1>11 DEF Secret
<1>13. QED BY <1>12 DEF other

-----------------------------------------------------------------------------
(* A creation that is over *)

(* A call that reports success has done every step. *)
LEMMA FinishedCall ==
    ASSUME FileInv, result = "ok", Done, damage = 0
    PROVE  /\ GoingWell /\ call \in Requests /\ Past = ScriptLen(call)
           /\ Past \in Nat /\ Past >= LastFlush(call) /\ Past > Opening(call) + 8
           /\ call.hidden => Past > Opening(call) + 11
           /\ \A v \in Volumes(call) : /\ Past >= Finding(call, v)
                                       /\ \A i \in 1 .. Parted(call) : Past > Finding(call, v) + i
<1>1. CallInv /\ call # NoCall /\ todo = <<>> BY DEF FileInv, Done, Running
<1>2. GoingWell /\ call \in Requests BY <1>1 DEF CallInv, GoingWell
<1>3. Past = ScriptLen(call) /\ ScriptLen(call) \in Nat
    <2>1. IsSequence(Script(call)) /\ Len(Script(call)) = ScriptLen(call) BY <1>2, ScriptTable DEF Table
    <2>2. ScriptLen(call) \in Nat BY <2>1, LengthOf
    <2>3. Len(todo) = 0 BY <1>1
    <2>4. QED BY <2>2, <2>3 DEF Past
<1> DEFINE n == Parted(call)
           g == Finding(call, "hidden")
           f == Finding(call, "outer")
           o == Opening(call)
           l == LastFlush(call)
           m == ScriptLen(call)
<1>4. n \in Nat
    <2>1. n \in {3, 6} BY Numbers
    <2> HIDE DEF n
    <2>2. QED BY <2>1
<1>5. o \in 1 .. 3 BY Numbers
<1>6. call.hidden => f = o + 15 /\ g = f + 5 + n /\ l = g + 2 + n /\ m = l + 1 BY Marks, Zenon
<1>7. ~call.hidden => f = o + 9 /\ l = f + 2 + n /\ m = l BY Marks, Zenon
<1>8. \A v \in Volumes(call) : v = "outer" \/ (call.hidden /\ v = "hidden") BY DEF Volumes
<1> HIDE DEF o, l, f, g, n, m
<1>9. m >= l /\ m > o + 8 /\ m >= f /\ \A i \in 1 .. n : m > f + i
    <2>1. CASE call.hidden BY <1>4, <1>5, <1>6, <2>1
    <2>2. CASE ~call.hidden BY <1>4, <1>5, <1>7, <2>2
    <2>3. QED BY <2>1, <2>2
<1>10. call.hidden => m > o + 11 /\ m >= g /\ \A i \in 1 .. n : m > g + i BY <1>4, <1>5, <1>6
<1>11. ASSUME NEW v \in Volumes(call)
       PROVE  m >= Finding(call, v) /\ \A i \in 1 .. n : m > Finding(call, v) + i
    <2>1. CASE v = "outer" BY <1>9, <2>1, Zenon DEF f
    <2>2. CASE call.hidden /\ v = "hidden" BY <1>10, <2>2, Zenon DEF g
    <2>3. QED BY <1>8, <2>1, <2>2
<1>12. QED BY <1>2, <1>3, <1>9, <1>10, <1>11, Zenon DEF o, l, m, n

(* The file of a finished creation holds all its copies and no others. *)
LEMMA AllCopies ==
    ASSUME FileInv, result = "ok", Done, damage = 0
    PROVE  Cardinality(DOMAIN at) = 2 * Cardinality(Volumes(call))
<1>1. CopyInv /\ HeadersInv BY DEF FileInv
<1>2. GoingWell /\ call \in Requests /\ Past \in Nat /\ Past > Opening(call) + 8
      /\ (call.hidden => Past > Opening(call) + 11)
    BY FinishedCall
<1> DEFINE a == call.size - GROUP
           b == call.size - HIDDEN_OFFSET
           o == Opening(call)
           k == Past
<1>3. /\ k > o /\ k > o + 5 /\ k > o + 6
      /\ call.hidden => k > o + 9 /\ k > o + 10
    <2>1. o \in 1 .. 3 /\ k \in Nat /\ k > o + 8 /\ (call.hidden => k > o + 11) BY <1>2, Numbers
    <2> HIDE DEF o, k
    <2>2. QED BY <2>1
<1>4. SizeFits(call) /\ 0 \in DOMAIN at /\ a \in DOMAIN at BY <1>1, <1>2, <1>3 DEF HeadersInv
<1>5. call.hidden => HIDDEN_OFFSET \in DOMAIN at /\ b \in DOMAIN at BY <1>1, <1>2, <1>3 DEF HeadersInv
<1>6. \A x \in DOMAIN at : \E v \in Volumes(call) : x \in CopyPlaces(call, v)
    BY <1>1, <1>2, CopyOwned
<1>7. 0 < HIDDEN_OFFSET /\ HIDDEN_OFFSET < a /\ a < b /\ a \in Nat /\ b \in Nat /\ HIDDEN_OFFSET \in Nat
    BY <1>2, <1>4, PlacesApart
<1>8. CopyPlaces(call, "outer") = {0, a} /\ CopyPlaces(call, "hidden") = {HIDDEN_OFFSET, b}
    BY DEF CopyPlaces
<1> HIDE DEF a, b
<1>9. \A x, y : x # y => Cardinality({x, y}) = 2 /\ IsFiniteSet({x, y})
    <2> TAKE x, y
    <2> HAVE x # y
    <2>1. IsFiniteSet({x}) /\ Cardinality({x}) = 1 BY FS_Singleton
    <2>2. {x, y} = {x} \cup {y} /\ y \notin {x} OBVIOUS
    <2>3. QED BY <2>1, <2>2, FS_AddElement
<1>10. CASE ~call.hidden
    <2>1. Volumes(call) = {"outer"} BY <1>10 DEF Volumes
    <2>2. DOMAIN at = {0, a} BY <1>4, <1>6, <1>8, <2>1
    <2>3. 0 # a BY <1>7
    <2>4. Cardinality({0, a}) = 2 BY <1>9, <2>3, Zenon
    <2>5. Cardinality(Volumes(call)) = 1 BY <2>1, FS_Singleton
    <2>6. QED BY <2>2, <2>4, <2>5
<1>11. CASE call.hidden
    <2>1. Volumes(call) = {"outer", "hidden"} BY <1>11 DEF Volumes
    <2>2. DOMAIN at = {0, a, HIDDEN_OFFSET, b} BY <1>4, <1>5, <1>6, <1>8, <1>11, <2>1
    <2>3. 0 # a /\ HIDDEN_OFFSET \notin {0, a} /\ b \notin {0, a, HIDDEN_OFFSET} BY <1>7
    <2>4. Cardinality({0, a}) = 2 /\ IsFiniteSet({0, a}) BY <1>9, <2>3
    <2>5. Cardinality({0, a, HIDDEN_OFFSET}) = 3 /\ IsFiniteSet({0, a, HIDDEN_OFFSET})
        <3>1. {0, a, HIDDEN_OFFSET} = {0, a} \cup {HIDDEN_OFFSET} OBVIOUS
        <3>2. QED BY <2>3, <2>4, <3>1, FS_AddElement
    <2>6. Cardinality({0, a, HIDDEN_OFFSET, b}) = 4
        <3>1. {0, a, HIDDEN_OFFSET, b} = {0, a, HIDDEN_OFFSET} \cup {b} OBVIOUS
        <3>2. QED BY <2>3, <2>5, <3>1, FS_AddElement
    <2>7. Cardinality(Volumes(call)) = 2
        <3>1. "outer" # "hidden" OBVIOUS
        <3>2. QED BY <1>9, <2>1, <3>1, Zenon
    <2>8. QED BY <2>2, <2>6, <2>7
<1>12. QED BY <1>10, <1>11

OpenedAs(c, v) == Outcome("found", HeaderOf(c, v), c.scheme, c.prf)

(* With secrets of their own, the volumes of a finished creation open. *)
LEMMA VolumeOpens ==
    ASSUME FileInv, result = "ok", Done, damage = 0, NEW v \in Volumes(call), SecretsDiffer(call)
    PROVE  /\ Search(call, v) = OpenedAs(call, v) /\ Found(v) = HeaderOf(call, v)
           /\ ~Unreadable(len)
<1>1. CopyInv /\ FormatInv /\ len \in Nat BY DEF FileInv, NumbersInv
<1>2. GoingWell /\ call \in Requests /\ Past >= Finding(call, v) BY FinishedCall
<1>3. Search(call, v).out = "found" BY <1>1, <1>2 DEF FormatInv
<1>4. PICK u \in Volumes(call) :
            /\ SecretOf(call, u) = SecretOf(call, v)
            /\ Search(call, v) = Outcome("found", HeaderOf(call, u), call.scheme, call.prf)
            /\ Found(v) = HeaderOf(call, u)
    BY <1>1, <1>2, <1>3, FoundHeader
<1>5. u = v BY <1>4, OwnHeader
<1>6. ~Unreadable(len)
    <2>1. SUFFICES ASSUME Unreadable(len) PROVE FALSE OBVIOUS
    <2>2. Search(call, v) = Outcome("Io", {}, 0, "none") BY <2>1 DEF Search, FindHeader
    <2>3. Search(call, v).out = "Io" BY <2>2 DEF Outcome
    <2>4. QED BY <1>3, <2>3
<1>7. QED BY <1>4, <1>5, <1>6 DEF OpenedAs

LEMMA HeaderParses ==
    ASSUME NEW c, NEW v \in Volumes(c)
    PROVE  Parse(HeaderOf(c, v), <<>>, {}) = "found"
<1>1. /\ HeaderOf(c, v).version = 5 /\ HeaderOf(c, v).minVersion = 267
      /\ HeaderOf(c, v).system = FALSE /\ HeaderOf(c, v).sector = 512
    BY DEF HeaderOf, OuterHeader, HiddenHeader, Header
<1>2. QED BY <1>1 DEF Parse

(* One copy is enough. *)
LEMMA OneCopyOpens ==
    ASSUME FileInv, result = "ok", Done, damage = 0, NEW v \in Volumes(call), SecretsDiffer(call),
           NEW o \in CopiesUnder(SecretOf(call, v))
    PROVE  FindHeader([q \in {o} |-> at[o]], len, SecretOf(call, v), call.pim) = OpenedAs(call, v)
<1> DEFINE secret == SecretOf(call, v)
           one == [q \in {o} |-> at[o]]
           own == [q \in {o} |-> Own[o]]
           answer == FindHeader(one, len, secret, call.pim)
<1>1. CopyInv /\ len \in Nat BY DEF FileInv, NumbersInv
<1>2. call \in Requests /\ ~Unreadable(len) BY FinishedCall, VolumeOpens
<1>3. o \in DOMAIN at /\ o \in InReach(at, len) /\ Own[o] = secret
      /\ SecretOf(call, at[o].plain.volume) = secret
    BY DEF CopiesUnder, InReach, Own
<1>4. PICK p \in 1 .. 5 : Prfs[p] = call.prf /\ GenuineFile(at, Prfs[p], call.scheme, call.pim, Own)
    BY <1>1, <1>2, FileGenuine
<1>5. call.scheme \in 1 .. 15 BY <1>1, <1>2, FileGenuine
<1>6. GenuineFile(one, Prfs[p], call.scheme, call.pim, own)
    <2>1. DOMAIN one = {o} /\ one[o] = at[o] /\ own[o] = Own[o] OBVIOUS
    <2>2. DOMAIN at \subseteq Nat /\ Genuine(at[o], Prfs[p], call.scheme, Own[o], call.pim, o)
        BY <1>3, <1>4 DEF GenuineFile
    <2> HIDE DEF one, own
    <2>3. DOMAIN one \subseteq Nat BY <1>3, <2>1, <2>2
    <2>4. \A q \in DOMAIN one : Genuine(one[q], Prfs[p], call.scheme, own[q], call.pim, q)
        BY <2>1, <2>2
    <2>5. QED BY <2>3, <2>4 DEF GenuineFile
<1>7. one[o] = at[o] /\ own[o] = secret /\ InReach(one, len) = {o} BY <1>3 DEF InReach
<1> HIDE DEF one, own, secret
<1>8. {q \in InReach(one, len) : own[q] = secret} = {o} BY <1>7
<1>9. Accounted(answer, one, {o}, call.scheme, Prfs[p])
    <2>1. Accounted(answer, one, {q \in InReach(one, len) : own[q] = secret}, call.scheme, Prfs[p])
        BY <1>1, <1>2, <1>5, <1>6, SearchIsExact
    <2>2. QED BY <1>8, <2>1
<1>10. PICK u \in Volumes(call) : at[o].plain = HeaderOf(call, u) /\ at[o].plain.volume = u
    BY <1>1, <1>2, <1>3, CopyOwned
<1>11. u = v BY <1>3, <1>10, OwnHeader DEF secret
<1>12. Verdict(one[o]) = "found"
    <2>1. at[o].spoilt = {} BY <1>1, <1>3 DEF CopyInv
    <2>2. QED BY <1>7, <1>10, <2>1, HeaderParses DEF Verdict
<1> HIDE DEF answer
<1>13. answer = Outcome("found", one[o].plain, call.scheme, Prfs[p])
    <2>1. {q \in {o} : Verdict(one[q]) = "found"} = {o} BY <1>12
    <2>2. QED BY <1>9, <2>1 DEF Accounted
<1>14. answer = OpenedAs(call, v) BY <1>4, <1>7, <1>10, <1>11, <1>13 DEF OpenedAs
<1>15. QED BY <1>14 DEF answer, one, secret

(* Some copy is. *)
LEMMA SomeCopy ==
    ASSUME FileInv, result = "ok", Done, damage = 0, NEW v \in Volumes(call), SecretsDiffer(call)
    PROVE  CopiesUnder(SecretOf(call, v)) # {}
<1>1. CopyInv /\ len \in Nat BY DEF FileInv, NumbersInv
<1>2. call \in Requests BY FinishedCall
<1>3. Search(call, v) = OpenedAs(call, v) /\ ~Unreadable(len) BY VolumeOpens
<1>4. Accounted(Search(call, v), at, CopiesUnder(SecretOf(call, v)), call.scheme, call.prf)
    BY <1>1, <1>2, <1>3, SearchAnswers DEF Search
<1>5. Search(call, v).out = "found" BY <1>3 DEF OpenedAs, Outcome
<1>6. QED BY <1>4, <1>5 DEF Accounted

(* Its file system is complete. *)
LEMMA PartsPresent ==
    ASSUME FileInv, result = "ok", Done, damage = 0, NEW v \in Volumes(call), SecretsDiffer(call),
           NEW q \in IF call.fs = "exFAT" THEN Parts ELSE Range(FatOrder)
    PROVE  Present(q, HeaderOf(call, v))
<1>1. FormatInv BY DEF FileInv
<1>2. GoingWell /\ call \in Requests /\ \A i \in 1 .. Parted(call) : Past > Finding(call, v) + i
    BY FinishedCall
<1>3. Found(v) = HeaderOf(call, v) BY VolumeOpens
<1>4. \E i \in 1 .. Parted(call) : FsOrder(call)[i] = q
    <2>1. CASE call.fs = "exFAT"
        <3>1. Parted(call) = 6 /\ FsOrder(call) = WriteOrder /\ q \in Parts BY <2>1 DEF Parted, FsOrder
        <3>2. /\ WriteOrder[1] = "fat" /\ WriteOrder[2] = "bitmap" /\ WriteOrder[3] = "upcase"
              /\ WriteOrder[4] = "root" /\ WriteOrder[5] = "boot" /\ WriteOrder[6] = "boot copy"
            BY DEF WriteOrder
        <3>3. q = WriteOrder[1] \/ q = WriteOrder[2] \/ q = WriteOrder[3] \/ q = WriteOrder[4]
              \/ q = WriteOrder[5] \/ q = WriteOrder[6]
            BY <3>1, <3>2 DEF Parts
        <3>4. 1 \in 1 .. 6 /\ 2 \in 1 .. 6 /\ 3 \in 1 .. 6 /\ 4 \in 1 .. 6 /\ 5 \in 1 .. 6 /\ 6 \in 1 .. 6
            OBVIOUS
        <3>5. QED BY <3>1, <3>3, <3>4, Zenon
    <2>2. CASE call.fs # "exFAT"
        <3>1. Parted(call) = 3 /\ FsOrder(call) = FatOrder /\ q \in Range(FatOrder) BY <2>2 DEF Parted, FsOrder
        <3>2. DOMAIN FsOrder(call) = 1 .. Parted(call) BY OrderListed
        <3>3. \E i \in DOMAIN FatOrder : FatOrder[i] = q BY <3>1, Zenon DEF Range
        <3>4. QED BY <3>1, <3>2, <3>3, Zenon
    <2>3. QED BY <2>1, <2>2
<1>5. PICK i \in 1 .. Parted(call) : FsOrder(call)[i] = q BY <1>4
<1>6. Present(FsOrder(call)[i], Found(v)) BY <1>1, <1>2 DEF FormatInv
<1>7. QED BY <1>3, <1>5, <1>6

(* For any calls, a creation that reports success is synced, and each volume
   whose secret is its own opens under it with the scheme and PRF asked for,
   whatever the order of the keyfiles, from each copy alone that the search
   reaches: both copies of it when the file was given its length, the ones
   that are left where a refused ftruncate has moved the end of the file.  Its
   file system, exFAT or FAT of any type, lacks no part but what of an outer one
   the hidden volume covers (create_container_with_hidden of
   core/vault-core/src/session.rs, cmd_create of the command line). *)
THEOREM CreationsOpen == Spec => []CreatedOpens
<1>1. FileInv => CreatedOpens
    <2> SUFFICES ASSUME FileInv, result = "ok", Done, damage = 0 PROVE CreatedOpens
        BY DEF CreatedOpens
    <2>1. call \in Requests BY FinishedCall
    <2>2. ~unsynced
        <3>1. unsynced => Past < LastFlush(call) BY FinishedCall DEF FileInv, HeadersInv
        <3>2. Past >= LastFlush(call) /\ Past \in Nat /\ LastFlush(call) \in Nat BY FinishedCall, Marks
        <3>3. QED BY <3>1, <3>2
    <2>3. Cardinality(DOMAIN at) = 2 * Cardinality(Volumes(call)) BY AllCopies
    <2>4. ASSUME NEW v \in Volumes(call),
                 call.hidden => SecretOf(call, "outer") # SecretOf(call, "hidden")
          PROVE  LET h == IF v = "outer" THEN OuterHeader(call) ELSE HiddenHeader(call)
                     opened == Outcome("found", h, call.scheme, call.prf)
                     parts == IF call.fs = "exFAT" THEN Parts ELSE Range(FatOrder)
                 IN  /\ Search(call, v) = opened
                     /\ v = "outer" => \A p \in Bijection(DOMAIN call.keyfiles, DOMAIN call.keyfiles) :
                             LET other == [i \in DOMAIN call.keyfiles |-> call.keyfiles[p[i]]]
                             IN  FindHeader(at, len, Secret(call.pass, other), call.pim) = opened
                     /\ \A o \in CopiesUnder(SecretOf(call, v)) :
                             FindHeader([q \in {o} |-> at[o]], len, SecretOf(call, v), call.pim) = opened
                     /\ CopiesUnder(SecretOf(call, v)) # {}
                     /\ \A q \in parts : Laid(q, h) \in laid \/ Overlaid(Laid(q, h))
        <3> DEFINE h == IF v = "outer" THEN OuterHeader(call) ELSE HiddenHeader(call)
                   opened == Outcome("found", h, call.scheme, call.prf)
                   parts == IF call.fs = "exFAT" THEN Parts ELSE Range(FatOrder)
        <3>1. h = HeaderOf(call, v) /\ opened = OpenedAs(call, v) BY DEF HeaderOf, OpenedAs
        <3>2. SecretsDiffer(call) BY <2>4 DEF SecretsDiffer
        <3>3. parts = IF call.fs = "exFAT" THEN Parts ELSE Range(FatOrder) OBVIOUS
        <3> HIDE DEF h, opened, parts
        <3>4. Search(call, v) = opened BY <3>1, <3>2, VolumeOpens
        <3>5. ASSUME v = "outer", NEW p \in Bijection(DOMAIN call.keyfiles, DOMAIN call.keyfiles)
              PROVE  FindHeader(at, len, Secret(call.pass,
                        [i \in DOMAIN call.keyfiles |-> call.keyfiles[p[i]]]), call.pim) = opened
            <4>1. call.keyfiles \in Seq(Range(call.keyfiles)) BY <2>1, RequestsAssumption
            <4>2. Secret(call.pass, [i \in DOMAIN call.keyfiles |-> call.keyfiles[p[i]]])
                    = Secret(call.pass, call.keyfiles)
                BY <3>5, <4>1, PoolOrder
            <4>3. SecretOf(call, v) = Secret(call.pass, call.keyfiles) BY <3>5 DEF SecretOf
            <4>4. QED BY <3>4, <4>2, <4>3 DEF Search
        <3>6. \A o \in CopiesUnder(SecretOf(call, v)) :
                FindHeader([q \in {o} |-> at[o]], len, SecretOf(call, v), call.pim) = opened
            BY <3>1, <3>2, OneCopyOpens
        <3>7. CopiesUnder(SecretOf(call, v)) # {} BY <3>2, SomeCopy
        <3>8. \A q \in parts : Laid(q, h) \in laid \/ Overlaid(Laid(q, h))
            BY <3>1, <3>2, <3>3, PartsPresent DEF Present
        <3>9. QED BY <3>4, <3>5, <3>6, <3>7, <3>8, Zenon DEF h, opened, parts
    <2>5. QED BY <2>2, <2>3, <2>4, Zenon DEF CreatedOpens
<1>2. QED BY <1>1, FileAlways, PTL

LEMMA StrayTyped == Spec => [](stray \in BOOLEAN)
<1>1. Init => stray \in BOOLEAN BY DEF Init
<1>2. stray \in BOOLEAN /\ [Next]_vars => (stray \in BOOLEAN)'
    <2> SUFFICES ASSUME stray \in BOOLEAN, [Next]_vars PROVE stray' \in BOOLEAN OBVIOUS
    <2>1. CASE DropDevice BY <2>1 DEF DropDevice, Close
    <2>2. CASE DropLast BY <2>2 DEF DropLast, Close
    <2>3. CASE OpenDevice BY <2>3 DEF OpenDevice, Continue
    <2>4. CASE TruncateFile \/ SetLen \/ SetLenRefused \/ RequireHolds \/ WriteNoise \/ WriteCopy
        BY <2>4 DEF TruncateFile, SetLen, SetLenRefused, RequireHolds, WriteNoise, WriteCopy, Continue
    <2>5. CASE Flush \/ FindVolume \/ FitsTarget \/ Lay
        BY <2>5 DEF Flush, FindVolume, FitsTarget, Lay, Continue
    <2>6. CASE Begin \/ Fail \/ Kill \/ OtherOpens \/ OtherCloses \/ Damage \/ UNCHANGED vars
        BY <2>6 DEF Begin, Fail, Kill, OtherOpens, OtherCloses, Damage, vars
    <2>7. QED BY <2>1, <2>2, <2>3, <2>4, <2>5, <2>6, Zenon DEF Next, Advance
<1>3. QED BY <1>1, <1>2, PTL DEF Spec

(* Every variable keeps to its type. *)
THEOREM CreationTyped == Spec => []TypeOK
<1>1. FileInv /\ DescriptorInv /\ stray \in BOOLEAN => TypeOK
    <2> SUFFICES ASSUME FileInv, DescriptorInv, stray \in BOOLEAN PROVE TypeOK OBVIOUS
    <2>1. len \in Nat /\ damage \in 0 .. MaxDamage /\ unsynced \in BOOLEAN BY DEF FileInv, NumbersInv
    <2>2. DOMAIN at \subseteq Nat BY DEF FileInv, CopyInv
    <2>3. fds \in [Fds -> {"free", "call", "other"}] /\ \A i \in DOMAIN handles : handles[i] \in Fds
        BY DEF DescriptorInv
    <2>4. /\ call \in Requests \cup Desktop \cup {NoCall}
          /\ result \in {"none", "desktop", "ok", "failed", "killed"}
        <3>1. \/ call = NoCall /\ result = "none"
              \/ call \in Desktop /\ result = "desktop"
              \/ call \in Requests /\ result \in {"ok", "failed", "killed"}
              \/ GoingWell
            BY Zenon DEF FileInv, CallInv
        <3>2. GoingWell => call \in Requests /\ result = "ok" BY DEF GoingWell
        <3>3. QED BY <3>1, <3>2
    <2>5. QED BY <2>1, <2>2, <2>3, <2>4 DEF TypeOK
<1>2. Spec => []DescriptorInv BY DescriptorInit, DescriptorStep, PTL DEF Spec
<1>3. QED BY <1>1, <1>2, FileAlways, StrayTyped, PTL
=============================================================================
