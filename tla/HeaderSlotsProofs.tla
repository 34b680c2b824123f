------------------------- MODULE HeaderSlotsProofs -------------------------
(***************************************************************************)
(* Theorems about HeaderSlots.  No assumption is made on the number of     *)
(* PRFs, backups, failures or power cuts; CreationFormatsAll and           *)
(* NobodyIsLockedOut ask for different secrets of the two volumes, and     *)
(* NobodyIsLockedOut for one damaged slot at most.                         *)
(***************************************************************************)
EXTENDS HeaderSlotsInv, SequenceTheorems, TLAPS

-----------------------------------------------------------------------------
(* Lemmas about the operators *)

(* The search order is total: when a secret opens some slot, find_header
   names one that it opens. *)
LEMMA FoundMatches ==
    ASSUME NEW s \in [Positions -> Contents], NEW p, Opens(s, Positions, p)
    PROVE  FoundAt(s, Positions, p) \in Matches(s, Positions, p)
<1> DEFINE M == Matches(s, Positions, p)
<1>1. \A q \in M : q \in Positions /\ s[q].prf \in Nat
    BY JunkAssumption DEF Matches, Contents, Headers, Prfs
<1>2. \E q \in M : \A r \in M : TriedBefore(s, q, r)
    <2>1. M # {} BY DEF Opens
    <2> HIDE DEF M
    <2>2. QED BY <1>1, <2>1 DEF TriedBefore, Rank, Positions
<1>3. QED BY <1>2 DEF FoundAt

LEMMA HomeOfSlots ==
    ASSUME NEW v \in Volumes
    PROVE  /\ FirstCopy(v = "hidden") \in Positions
           /\ SecondCopy(v = "hidden") \in Positions
           /\ FirstCopy(v = "hidden") # SecondCopy(v = "hidden")
           /\ Home(FirstCopy(v = "hidden")) = v
           /\ Home(SecondCopy(v = "hidden")) = v
           /\ SlotsOf(v) = {FirstCopy(v = "hidden"), SecondCopy(v = "hidden")}
           /\ \A q \in Positions : Home(q) = v => q \in SlotsOf(v)
BY DEF Volumes, FirstCopy, SecondCopy, Positions, Home, IsHidden, SlotsOf

(* What is sound stays sound when the owners know more secrets. *)
LEMMA SoundMono ==
    ASSUME NEW k, NEW l, \A v \in Volumes : k[v] \subseteq l[v],
           NEW x, NEW q, Sound(x, q, k)
    PROVE  Sound(x, q, l)
BY DEF Sound, Headers

LEMMA ScriptMono ==
    ASSUME NEW k, NEW l, \A v \in Volumes : k[v] \subseteq l[v],
           NEW s \in Seq(SoundSteps(k))
    PROVE  s \in Seq(SoundSteps(l))
<1>1. SoundSteps(k) \subseteq SoundSteps(l) BY SoundMono DEF SoundSteps
<1>2. QED BY <1>1

(* The steps scripts are made of. *)
LEMMA StepTypes ==
    ASSUME NEW k
    PROVE  /\ Flush \in SoundSteps(k)
           /\ \A p \in Passwords : Format(p) \in SoundSteps(k)
           /\ \A qs \in SUBSET Positions : \A x \in Contents :
                 (\A q \in qs : Sound(x, q, k)) => Write(qs, x) \in SoundSteps(k)
           /\ \A b \in [LeadingGroup -> Contents] :
                 (\A q \in LeadingGroup : Sound(b[q], q, k)) => WriteGroup(b) \in SoundSteps(k)
<1> DEFINE To == UNION {[qs -> Contents] : qs \in SUBSET Positions}
<1>1. \A qs \in SUBSET Positions : [qs -> Contents] \subseteq To
    OBVIOUS
<1>2. << >> \in To
    <2>1. << >> \in [{} -> Contents] OBVIOUS
    <2>2. QED BY <1>1, <2>1
<1>3. ASSUME NEW op \in Ops, NEW to \in To, NEW p \in Passwords \cup {Junk},
             \A q \in DOMAIN to : Sound(to[q], q, k)
      PROVE  Step(op, to, p) \in SoundSteps(k)
    BY <1>3 DEF Step, SoundSteps, Steps
<1> HIDE DEF To
<1>4. Flush \in SoundSteps(k)
    BY <1>2, <1>3 DEF Flush, Ops
<1>5. ASSUME NEW p \in Passwords PROVE Format(p) \in SoundSteps(k)
    BY <1>2, <1>3 DEF Format, Ops
<1>6. ASSUME NEW qs \in SUBSET Positions, NEW x \in Contents, \A q \in qs : Sound(x, q, k)
      PROVE  Write(qs, x) \in SoundSteps(k)
    <2>1. [q \in qs |-> x] \in To BY <1>1
    <2>2. QED BY <1>3, <1>6, <2>1 DEF Write, Ops
<1>7. ASSUME NEW b \in [LeadingGroup -> Contents], \A q \in LeadingGroup : Sound(b[q], q, k)
      PROVE  WriteGroup(b) \in SoundSteps(k)
    <2>1. b \in To BY <1>1 DEF LeadingGroup, Positions
    <2>2. QED BY <1>3, <1>7, <2>1 DEF WriteGroup, Ops
<1>8. QED BY <1>4, <1>5, <1>6, <1>7

-----------------------------------------------------------------------------
(* Calls *)

LEMMA InitInv == Init => IInv
<1> SUFFICES ASSUME Init PROVE IInv OBVIOUS
<1>1. KnownInv
    BY DEF Init, KnownInv, NoCall, Kinds, Volumes
<1>2. SlotInv
    BY DEF Init, SlotInv, Contents, Sound
<1>3. ScriptInv
    BY EmptySeq DEF Init, ScriptInv
<1>4. BackupInv
    BY DEF Init, BackupInv
<1>5. ChangeInv
    BY DEF Init, ChangeInv, NoCall
<1>6. QED BY <1>1, <1>2, <1>3, <1>4, <1>5 DEF IInv

(* A new container is all junk, and everything to be written is sound. *)
LEMMA CreateInv ==
    ASSUME IInv, NEW p \in OuterPasswords, NEW f \in Prfs, CreateContainer(p, f)
    PROVE  IInv'
<1> DEFINE h == Header("outer", p, f)
<1>1. p \in Passwords /\ h \in Headers
    BY DEF Passwords, Headers, Header, Volumes
<1>2. known' \in [Volumes -> SUBSET Passwords] /\ p \in known'["outer"]
    BY <1>1 DEF CreateContainer, Volumes
<1>3. KnownInv'
    BY <1>1, <1>2 DEF CreateContainer, Start, KnownInv, Kinds, Volumes
<1>4. SlotInv'
    BY DEF CreateContainer, SlotInv, Contents, Sound
<1>5. ScriptInv'
    <2>1. /\ Sound(h, "Primary", known') /\ Sound(h, "BackupPrimary", known')
          /\ \A q \in Positions : Sound(Junk, q, known')
        BY <1>1, <1>2 DEF Sound, Home, IsHidden, Header
    <2>2. /\ Write({"Primary"}, h) \in SoundSteps(known')
          /\ Write({"BackupPrimary"}, h) \in SoundSteps(known')
          /\ Write(Positions, Junk) \in SoundSteps(known')
          /\ Flush \in SoundSteps(known') /\ Format(p) \in SoundSteps(known')
        BY <1>1, <2>1, StepTypes DEF Contents, Positions
    <2>3. todo' = VolumeScript(h) \o <<Format(p)>>
        BY DEF CreateContainer, Start
    <2>4. VolumeScript(h) \in Seq(SoundSteps(known'))
        BY <2>2 DEF VolumeScript
    <2>5. QED BY <2>2, <2>3, <2>4 DEF ScriptInv
<1>6. BackupInv'
    BY DEF IInv, BackupInv, CreateContainer
<1>7. ChangeInv'
    BY DEF CreateContainer, Start, ChangeInv
<1>8. QED BY <1>3, <1>4, <1>5, <1>6, <1>7 DEF IInv

LEMMA CreateHiddenInv ==
    ASSUME IInv, NEW p \in OuterPasswords, NEW h \in HiddenPasswords,
           NEW f \in Prfs, NEW g \in Prfs, CreateWithHidden(p, f, h, g)
    PROVE  IInv'
<1> DEFINE o == Header("outer", p, f)
           i == Header("hidden", h, g)
<1>1. p \in Passwords /\ o \in Headers /\ h \in Passwords /\ i \in Headers
    BY DEF Passwords, Headers, Header, Volumes
<1>2. known' \in [Volumes -> SUBSET Passwords] /\ p \in known'["outer"] /\ h \in known'["hidden"]
    BY <1>1 DEF CreateWithHidden, Volumes
<1>3. KnownInv'
    BY <1>1, <1>2 DEF CreateWithHidden, Start, KnownInv, Kinds, Volumes
<1>4. SlotInv'
    BY DEF CreateWithHidden, SlotInv, Contents, Sound
<1>5. ScriptInv'
    <2>1. /\ Sound(o, "Primary", known') /\ Sound(o, "BackupPrimary", known')
          /\ Sound(i, "Hidden", known') /\ Sound(i, "BackupHidden", known')
          /\ \A q \in Positions : Sound(Junk, q, known')
        BY <1>1, <1>2 DEF Sound, Home, IsHidden, Header
    <2>2. /\ Write({"Primary"}, o) \in SoundSteps(known')
          /\ Write({"BackupPrimary"}, o) \in SoundSteps(known')
          /\ Write({"Hidden"}, i) \in SoundSteps(known')
          /\ Write({"BackupHidden"}, i) \in SoundSteps(known')
          /\ Write(Positions, Junk) \in SoundSteps(known')
        BY <1>1, <2>1, StepTypes DEF Contents, Positions
    <2>3. Flush \in SoundSteps(known') /\ Format(p) \in SoundSteps(known')
          /\ Format(h) \in SoundSteps(known')
        BY <1>1, StepTypes
    <2>4. todo' = VolumeScript(o) \o HiddenScript(i) \o Formats(p, h)
        BY DEF CreateWithHidden, Start
    <2>5. /\ VolumeScript(o) \in Seq(SoundSteps(known'))
          /\ HiddenScript(i) \in Seq(SoundSteps(known'))
          /\ Formats(p, h) \in Seq(SoundSteps(known'))
        BY <2>2, <2>3 DEF VolumeScript, HiddenScript, Formats
    <2>6. QED BY <2>4, <2>5, ConcatProperties DEF ScriptInv
<1>6. BackupInv'
    BY DEF IInv, BackupInv, CreateWithHidden
<1>7. ChangeInv'
    BY DEF CreateWithHidden, Start, ChangeInv
<1>8. QED BY <1>3, <1>4, <1>5, <1>6, <1>7 DEF IInv

LEMMA ChangePasswordInv ==
    ASSUME IInv, NEW old, NEW new \in Passwords, ChangePassword(old, new)
    PROVE  IInv'
<1> DEFINE q == FoundAt(slot, Positions, old)
           v == slot[q].vol
           h == [slot[q] EXCEPT !.pwd = new]
           a == FirstCopy(v = "hidden")
           b == SecondCopy(v = "hidden")
<1>1. q \in Positions /\ slot[q] # Junk
    BY FoundMatches DEF ChangePassword, IInv, SlotInv, Matches
<1>2. slot[q] \in Headers /\ v = Home(q) /\ v \in Volumes
    BY <1>1 DEF IInv, SlotInv, Sound, Headers
<1>3. h \in Headers /\ h.vol = v /\ h.pwd = new
    BY <1>2 DEF Headers
<1>4. /\ Idle /\ todo' = Rekey(q, h)
      /\ call' = [kind |-> "change", vol |-> v, pwd |-> new]
      /\ known' = [known EXCEPT ![v] = @ \cup {new}]
      /\ UNCHANGED <<slot, flight, backups>>
    BY DEF ChangePassword, Start, device
<1>5. Rekey(q, h) = << Write({a}, h), Write({b}, h), Flush >>
    BY <1>2 DEF Rekey, Home, IsHidden, Volumes
<1> HIDE DEF q, v, h, a, b
<1>6. /\ known' \in [Volumes -> SUBSET Passwords] /\ new \in known'[v]
      /\ \A w \in Volumes : known[w] \subseteq known'[w]
    BY <1>2, <1>4 DEF IInv, KnownInv
<1>7. KnownInv'
    BY <1>2, <1>4, <1>6 DEF KnownInv, Kinds
<1>8. SlotInv'
    <2>1. ASSUME NEW r \in Positions, NEW x \in flight[r] PROVE Sound(x, r, known')
        BY <1>6, SoundMono DEF IInv, SlotInv
    <2>2. QED BY <1>4, <2>1 DEF IInv, SlotInv
<1>9. a \in Positions /\ b \in Positions /\ Home(a) = v /\ Home(b) = v
    BY <1>2, HomeOfSlots DEF a, b
<1>10. ScriptInv'
    <2>1. Sound(h, a, known') /\ Sound(h, b, known')
        BY <1>3, <1>6, <1>9 DEF Sound
    <2>2. Write({a}, h) \in SoundSteps(known') /\ Write({b}, h) \in SoundSteps(known')
        BY <1>3, <1>9, <2>1, StepTypes DEF Contents
    <2>3. Flush \in SoundSteps(known')
        BY StepTypes
    <2>4. QED BY <1>4, <1>5, <2>2, <2>3 DEF ScriptInv
<1>11. BackupInv'
    BY <1>4 DEF IInv, BackupInv
<1>12. ChangeInv'
    <2>1. h # Junk BY <1>3, JunkAssumption
    <2>2. /\ Write({a}, h).op = "write" /\ DOMAIN Write({a}, h).to = {a} /\ Write({a}, h).to[a] = h
          /\ Write({b}, h).op = "write" /\ DOMAIN Write({b}, h).to = {b} /\ Write({b}, h).to[b] = h
          /\ Flush.op = "flush"
        BY DEF Write, Flush, Step
    <2>3. call'.vol = v /\ call'.pwd = new
        BY <1>4
    <2>4. /\ call'.kind = "change" /\ a = FirstCopy(call'.vol = "hidden")
          /\ b = SecondCopy(call'.vol = "hidden")
        BY <1>4 DEF a, b
    <2>5. /\ Len(todo') = 3 /\ todo'[1] = Write({a}, h) /\ todo'[2] = Write({b}, h)
          /\ todo'[3] = Flush
        BY <1>4, <1>5
    <2>6. /\ todo'[1].op = "write" /\ DOMAIN todo'[1].to = {a} /\ todo'[1].to[a] = h
          /\ todo'[2].op = "write" /\ DOMAIN todo'[2].to = {b} /\ todo'[2].to[b] = h
          /\ todo'[3].op = "flush"
        BY <2>2, <2>5
    <2>7. h # Junk /\ h.vol = call'.vol /\ h.pwd = call'.pwd /\ call'.pwd \in Passwords
        BY <1>3, <2>1, <2>3
    <2>8. QED BY <2>4, <2>5, <2>6, <2>7 DEF ChangeInv, Rekeys, Rekeyed
<1>13. QED BY <1>7, <1>8, <1>10, <1>11, <1>12 DEF IInv

LEMMA ExportInv == IInv /\ Export => IInv'
<1> SUFFICES ASSUME IInv, Export PROVE IInv' OBVIOUS
<1> USE DEF Export
<1>1. KnownInv' BY DEF IInv, KnownInv
<1>2. SlotInv' BY DEF IInv, SlotInv, device
<1>3. ScriptInv' BY DEF IInv, ScriptInv
<1>4. BackupInv'
    <2> DEFINE group == [q \in LeadingGroup |-> slot[q]]
    <2>1. ASSUME NEW q \in LeadingGroup, slot[q] # Junk
          PROVE  slot[q] \in Headers /\ slot[q].vol = Home(q)
        BY <2>1 DEF IInv, SlotInv, Sound, LeadingGroup, Positions
    <2>2. group \in [LeadingGroup -> Contents]
        BY DEF IInv, SlotInv, LeadingGroup, Positions
    <2>3. QED BY <2>1, <2>2 DEF IInv, BackupInv
<1>5. ChangeInv' BY DEF IInv, ChangeInv, device, Rekeyed, Rekeys
<1>6. QED BY <1>1, <1>2, <1>3, <1>4, <1>5 DEF IInv

LEMMA RestoreInv ==
    ASSUME IInv, NEW b \in backups, RestoreFromFile(b)
    PROVE  IInv'
<1>1. /\ b \in [LeadingGroup -> Contents]
      /\ \A q \in LeadingGroup : b[q] # Junk => b[q] \in Headers /\ b[q].vol = Home(q)
    BY DEF IInv, BackupInv
<1>2. /\ todo' = << WriteGroup(b), Flush >>
      /\ call' = [kind |-> "restore", vol |-> "outer", pwd |-> b["Primary"].pwd]
      /\ UNCHANGED <<slot, flight, backups>>
    BY DEF RestoreFromFile, Start, device
<1>3. ASSUME NEW q \in LeadingGroup, b[q] # Junk
      PROVE  b[q].pwd \in Passwords /\ b[q].vol \in Volumes
    BY <1>1, <1>3 DEF Headers
<1>4. /\ known' \in [Volumes -> SUBSET Passwords]
      /\ \A w \in Volumes : known[w] \subseteq known'[w]
    BY <1>3 DEF RestoreFromFile, IInv, KnownInv
<1>5. \A q \in LeadingGroup : Sound(b[q], q, known')
    <2> SUFFICES ASSUME NEW q \in LeadingGroup, b[q] # Junk
                 PROVE  b[q].pwd \in known'[b[q].vol]
        BY <1>1 DEF Sound
    <2>1. QED BY <1>3 DEF RestoreFromFile
<1>6. KnownInv'
    <2>1. b["Primary"].pwd \in Passwords
        BY <1>3 DEF RestoreFromFile, LeadingGroup
    <2>2. QED BY <1>2, <1>4, <2>1 DEF KnownInv, Kinds, Volumes
<1>7. SlotInv'
    <2>1. ASSUME NEW r \in Positions, NEW x \in flight[r] PROVE Sound(x, r, known')
        BY <1>4, SoundMono DEF IInv, SlotInv
    <2>2. QED BY <1>2, <2>1 DEF IInv, SlotInv
<1>8. ScriptInv'
    <2>1. WriteGroup(b) \in SoundSteps(known') /\ Flush \in SoundSteps(known')
        BY <1>1, <1>5, StepTypes
    <2>2. QED BY <1>2, <2>1 DEF ScriptInv
<1>9. BackupInv' BY <1>2 DEF IInv, BackupInv
<1>10. ChangeInv' BY <1>2 DEF ChangeInv
<1>11. QED BY <1>6, <1>7, <1>8, <1>9, <1>10 DEF IInv

LEMMA RestoreEmbeddedInv == IInv /\ RestoreEmbedded => IInv'
<1> SUFFICES ASSUME IInv, RestoreEmbedded PROVE IInv' OBVIOUS
<1> DEFINE h == slot["BackupPrimary"]
<1>1. /\ todo' = << Write({"Primary"}, h), Flush >>
      /\ call' = [kind |-> "restore embedded", vol |-> "outer", pwd |-> h.pwd]
      /\ UNCHANGED <<slot, flight, backups, known>>
    BY DEF RestoreEmbedded, Start, device
<1>2. h \in Headers /\ Sound(h, "Primary", known)
    BY DEF RestoreEmbedded, IInv, SlotInv, Sound, Home, IsHidden, Positions
<1> HIDE DEF h
<1>3. KnownInv'
    BY <1>1, <1>2 DEF IInv, KnownInv, Kinds, Volumes, Headers
<1>4. SlotInv' BY <1>1 DEF IInv, SlotInv
<1>5. ScriptInv'
    <2>1. Write({"Primary"}, h) \in SoundSteps(known') /\ Flush \in SoundSteps(known')
        BY <1>1, <1>2, StepTypes DEF Contents, Positions
    <2>2. << Write({"Primary"}, h), Flush >> \in Seq(SoundSteps(known'))
        BY <2>1
    <2>3. QED BY <1>1, <2>2 DEF ScriptInv
<1>6. BackupInv' BY <1>1 DEF IInv, BackupInv
<1>7. ChangeInv' BY <1>1 DEF ChangeInv
<1>8. QED BY <1>3, <1>4, <1>5, <1>6, <1>7 DEF IInv

-----------------------------------------------------------------------------
(* Device steps *)

LEMMA SmallLength ==
    /\ \A n \in Nat : n > 0 => n = 1 \/ n > 1
    /\ \A n \in {1, 2, 3} : n > 1 => n = 2 \/ n = 3
OBVIOUS

LEMMA ChangeShape ==
    ASSUME KnownInv, ChangeInv, call.kind = "change"
    PROVE  /\ call.pwd \in Passwords /\ call.vol \in Volumes
           /\ Len(todo) \in {1, 2, 3}
           /\ Len(todo) = 1 => todo[1].op = "flush"
<1>1. call.vol \in Volumes BY DEF KnownInv
<1>2. QED BY <1>1 DEF ChangeInv

(* What Proceed does to the script, the call and what the owners know. *)
LEMMA ProceedFacts ==
    ASSUME KnownInv, ScriptInv, ChangeInv, ~Idle, Proceed
    PROVE  /\ Head(todo) \in SoundSteps(known) /\ Head(todo) = todo[1]
           /\ todo' \in Seq(SoundSteps(known))
           /\ Len(todo') = Len(todo) - 1 /\ Len(todo) > 0 /\ Len(todo) \in Nat
           /\ \A i \in 1 .. Len(todo) - 1 : todo'[i] = todo[i + 1]
           /\ Len(todo) > 1 => call' = call /\ known' = known
           /\ Len(todo) = 1 => call' = NoCall /\ todo' = << >>
           /\ Len(todo) = 1 /\ call.kind # "change" => known' = known
           /\ Len(todo) = 1 /\ call.kind = "change" =>
                 known' = [known EXCEPT ![call.vol] = {call.pwd}]
           /\ KnownInv'
<1>1. todo \in Seq(SoundSteps(known)) /\ todo # << >> /\ todo' = Tail(todo)
    BY DEF ScriptInv, Idle, Proceed
<1>2. Len(todo) > 1 => call' = call /\ known' = known
    BY DEF Proceed
<1>3. Len(todo) > 0 /\ Len(todo) \in Nat
    BY <1>1
<1>4. Len(todo) = 1 =>
          /\ call' = NoCall
          /\ known' = IF call.kind = "change" THEN [known EXCEPT ![call.vol] = {call.pwd}]
                      ELSE known
    <2>1. Len(todo) = 1 => ~(Len(todo) > 1) BY <1>3
    <2>2. QED BY <2>1, Zenon DEF Proceed
<1>5. KnownInv'
    <2>1. CASE Len(todo) > 1 BY <1>2, <2>1 DEF KnownInv
    <2>2. CASE Len(todo) = 1
        <3> NoCall \in [kind : Kinds, vol : Volumes, pwd : Passwords \cup {Junk}]
            BY DEF NoCall, Kinds, Volumes
        <3> call' = NoCall
            BY <1>4, <2>2
        <3>1. known \in [Volumes -> SUBSET Passwords] BY DEF KnownInv
        <3>2. CASE call.kind = "change"
            <4>1. known' = [known EXCEPT ![call.vol] = {call.pwd}] BY <1>4, <2>2, <3>2
            <4>2. known' \in [Volumes -> SUBSET Passwords] BY <3>1, <3>2, <4>1, ChangeShape
            <4>3. QED BY <4>2 DEF KnownInv
        <3>3. CASE call.kind # "change"
            <4>1. known' = known BY <1>4, <2>2, <3>3
            <4>2. QED BY <3>1, <4>1 DEF KnownInv
        <3>4. QED BY <3>2, <3>3
    <2>3. QED BY <1>3, <2>1, <2>2, SmallLength, Zenon
<1>6. /\ Head(todo) \in SoundSteps(known) /\ Head(todo) = todo[1]
      /\ todo' \in Seq(SoundSteps(known)) /\ Len(todo') = Len(todo) - 1
    BY <1>1
<1>7. \A i \in 1 .. Len(todo) - 1 : todo'[i] = todo[i + 1]
    BY <1>1
<1>8. Len(todo) = 1 => todo' = << >>
    BY <1>1, <1>6, EmptySeq
<1>9. QED BY <1>2, <1>3, <1>4, <1>5, <1>6, <1>7, <1>8

(* A change ends with a flush, so another step is not its last one. *)
LEMMA NotLastOfChange ==
    ASSUME KnownInv, ScriptInv, ChangeInv, ~Idle, Proceed, Head(todo).op # "flush"
    PROVE  known' = known /\ ScriptInv' /\ KnownInv'
<1>1. ~(Len(todo) = 1 /\ call.kind = "change")
    BY ProceedFacts, ChangeShape
<1>2. known' = known
    BY <1>1, ProceedFacts
<1>3. todo' \in Seq(SoundSteps(known'))
    BY <1>2, ProceedFacts
<1>4. QED BY <1>2, <1>3, ProceedFacts DEF ScriptInv

LEMMA WriteInv == IInv /\ DoWrite => IInv'
<1> SUFFICES ASSUME IInv, DoWrite PROVE IInv' OBVIOUS
<1> DEFINE to == Head(todo).to
<1>1. /\ ~Idle /\ Proceed /\ Head(todo).op = "write"
      /\ UNCHANGED backups
      /\ slot' = [q \in Positions |-> IF q \in DOMAIN to THEN to[q] ELSE slot[q]]
      /\ flight' = [q \in Positions |->
                        IF q \in DOMAIN to THEN flight[q] \cup {to[q]} ELSE flight[q]]
    BY DEF DoWrite, Doing
<1>2. known' = known /\ ScriptInv' /\ KnownInv'
    BY <1>1, NotLastOfChange DEF IInv
<1>3. \A q \in DOMAIN to : Sound(to[q], q, known)
    BY <1>1, ProceedFacts DEF IInv, SoundSteps
<1>4. \A x : \A q : Sound(x, q, known) => x \in Contents
    BY DEF Sound, Contents
<1>5. SlotInv'
    <2> HIDE DEF to
    <2>1. slot' \in [Positions -> Contents] /\ flight' \in [Positions -> SUBSET Contents]
        BY <1>1, <1>3, <1>4 DEF IInv, SlotInv
    <2>2. ASSUME NEW q \in Positions
          PROVE  slot'[q] \in flight'[q] /\ \A x \in flight'[q] : Sound(x, q, known')
        BY <1>1, <1>2, <1>3 DEF IInv, SlotInv
    <2>3. QED BY <2>1, <2>2 DEF SlotInv
<1>6. BackupInv' BY <1>1 DEF IInv, BackupInv
<1>7. ChangeInv'
    <2> SUFFICES ASSUME call'.kind = "change" PROVE ChangeInv'
        BY DEF ChangeInv
    <2> DEFINE a == FirstCopy(call.vol = "hidden")
               b == SecondCopy(call.vol = "hidden")
    <2>1. Len(todo) > 1 /\ call' = call
        BY <1>1, ProceedFacts DEF IInv, NoCall
    <2>2. a \in Positions /\ b \in Positions /\ a # b /\ call.pwd \in Passwords
        BY <2>1, HomeOfSlots DEF IInv, KnownInv, ChangeInv
    <2>3. Head(todo) = todo[1] /\ Len(todo') = Len(todo) - 1 /\ Len(todo) \in Nat
          /\ \A i \in 1 .. Len(todo) - 1 : todo'[i] = todo[i + 1]
        BY <1>1, ProceedFacts DEF IInv
    <2>4. CASE Len(todo) = 3
        <3>1. /\ todo[3].op = "flush" /\ Rekeys(todo[1], a) /\ Rekeys(todo[2], b)
            BY <2>1, <2>4 DEF IInv, ChangeInv
        <3>2. todo'[1] = todo[2] /\ todo'[2] = todo[3] /\ Len(todo') = 2
            BY <2>3, <2>4
        <3>3. Rekeyed(slot'[a])
            BY <1>1, <2>2, <2>3, <3>1 DEF Rekeys
        <3>4. QED BY <2>1, <2>2, <3>1, <3>2, <3>3 DEF ChangeInv, Rekeys, Rekeyed
    <2>5. CASE Len(todo) = 2
        <3>1. /\ todo[2].op = "flush" /\ Rekeyed(slot[a]) /\ Rekeys(todo[1], b)
            BY <2>1, <2>5 DEF IInv, ChangeInv
        <3>2. todo'[1] = todo[2] /\ Len(todo') = 1
            BY <2>3, <2>5
        <3>3. Rekeyed(slot'[a]) /\ Rekeyed(slot'[b])
            BY <1>1, <2>2, <2>3, <3>1 DEF Rekeys
        <3>4. QED BY <2>1, <2>2, <3>1, <3>2, <3>3 DEF ChangeInv, Rekeys, Rekeyed
    <2>6. Len(todo) \in {1, 2, 3}
        <3>1. call.kind = "change" BY <2>1
        <3>2. QED BY <3>1, ChangeShape DEF IInv
    <2>7. Len(todo) = 2 \/ Len(todo) = 3 BY <2>1, <2>6, SmallLength, Zenon
    <2>8. QED BY <2>4, <2>5, <2>7
<1>8. QED BY <1>2, <1>5, <1>6, <1>7 DEF IInv

LEMMA FlushInv == IInv /\ DoFlush => IInv'
<1> SUFFICES ASSUME IInv, DoFlush PROVE IInv' OBVIOUS
<1>1. /\ ~Idle /\ Proceed /\ Head(todo).op = "flush"
      /\ flight' = [q \in Positions |-> {slot[q]}]
      /\ UNCHANGED <<slot, backups>>
    BY DEF DoFlush, Doing, Flushed
<1>2. KnownInv' BY <1>1, ProceedFacts DEF IInv
<1>3. BackupInv' BY <1>1 DEF IInv, BackupInv
<1>4. slot' \in [Positions -> Contents] /\ flight' \in [Positions -> SUBSET Contents]
    BY <1>1 DEF IInv, SlotInv
<1>5. \A q \in Positions : Sound(slot[q], q, known)
    BY DEF IInv, SlotInv
<1>6. CASE call.kind = "change" /\ Len(todo) = 1
    <2>1. known' = [known EXCEPT ![call.vol] = {call.pwd}] /\ call' = NoCall /\ todo' = << >>
        BY <1>1, <1>6, ProceedFacts DEF IInv
    <2>2. call.vol \in Volumes /\ \A q \in SlotsOf(call.vol) : Rekeyed(slot[q])
        BY <1>6, HomeOfSlots DEF IInv, KnownInv, ChangeInv
    <2>3. ASSUME NEW q \in Positions PROVE Sound(slot[q], q, known')
        <3>1. CASE Home(q) = call.vol
            <4>1. Rekeyed(slot[q]) BY <2>2, <3>1, HomeOfSlots
            <4>2. slot[q].pwd \in known'[slot[q].vol]
                BY <2>1, <2>2, <4>1 DEF IInv, KnownInv, Rekeyed
            <4>3. QED BY <1>5, <4>2 DEF Sound
        <3>2. CASE Home(q) # call.vol
            <4>1. slot[q] # Junk => known'[slot[q].vol] = known[slot[q].vol]
                BY <1>5, <2>1, <3>2 DEF Sound, Headers, IInv, KnownInv
            <4>2. QED BY <1>5, <4>1 DEF Sound
        <3>3. QED BY <3>1, <3>2
    <2>4. SlotInv' BY <1>1, <1>4, <2>3 DEF SlotInv
    <2>5. ScriptInv' BY <2>1, EmptySeq DEF ScriptInv
    <2>6. ChangeInv' BY <2>1 DEF ChangeInv, NoCall
    <2>7. QED BY <1>2, <1>3, <2>4, <2>5, <2>6 DEF IInv
<1>7. CASE ~(call.kind = "change" /\ Len(todo) = 1)
    <2>1. known' = known
        <3>1. Len(todo) = 1 \/ Len(todo) > 1
            BY <1>1, ProceedFacts, SmallLength DEF IInv
        <3>2. QED BY <1>1, <1>7, <3>1, ProceedFacts DEF IInv
    <2>2. SlotInv' BY <1>1, <1>4, <1>5, <2>1 DEF SlotInv
    <2>3. todo' \in Seq(SoundSteps(known')) BY <1>1, <2>1, ProceedFacts DEF IInv
    <2>4. ScriptInv' BY <2>3 DEF ScriptInv
    <2>5. call'.kind # "change"
        <3>1. call.kind # "change"
            BY <1>1, <1>7, ProceedFacts DEF IInv, ChangeInv, Rekeys
        <3>2. Len(todo) = 1 \/ Len(todo) > 1
            BY <1>1, ProceedFacts, SmallLength DEF IInv
        <3>3. QED BY <1>1, <3>1, <3>2, ProceedFacts DEF IInv, NoCall
    <2>6. QED BY <1>2, <1>3, <2>2, <2>4, <2>5 DEF IInv, ChangeInv
<1>8. QED BY <1>6, <1>7

LEMMA FormatInv == IInv /\ DoFormat => IInv'
<1> SUFFICES ASSUME IInv, DoFormat PROVE IInv' OBVIOUS
<1>1. /\ ~Idle /\ Proceed /\ Head(todo).op = "format"
      /\ UNCHANGED <<slot, flight, backups>>
    BY DEF DoFormat, Doing, device
<1>2. known' = known /\ ScriptInv' /\ KnownInv'
    BY <1>1, NotLastOfChange DEF IInv
<1>3. SlotInv' BY <1>1, <1>2 DEF IInv, SlotInv
<1>4. BackupInv' BY <1>1 DEF IInv, BackupInv
<1>5. call'.kind # "change"
    <2>1. call.kind # "change"
        BY <1>1, ProceedFacts DEF IInv, ChangeInv, Rekeys
    <2>2. Len(todo) = 1 \/ Len(todo) > 1
        BY <1>1, ProceedFacts, SmallLength DEF IInv
    <2>3. QED BY <1>1, <2>1, <2>2, ProceedFacts DEF IInv, NoCall
<1>6. QED BY <1>2, <1>3, <1>4, <1>5 DEF IInv, ChangeInv

-----------------------------------------------------------------------------
(* Faults *)

LEMMA CallFailsInv == IInv /\ CallFails => IInv'
<1> SUFFICES ASSUME IInv, CallFails PROVE IInv' OBVIOUS
<1>1. todo' = << >> /\ call' = NoCall /\ UNCHANGED <<slot, flight, backups, known>>
    BY DEF CallFails, Ended, device
<1>2. KnownInv' BY <1>1 DEF IInv, KnownInv, NoCall, Kinds, Volumes
<1>3. SlotInv' BY <1>1 DEF IInv, SlotInv
<1>4. ScriptInv' BY <1>1, EmptySeq DEF ScriptInv
<1>5. BackupInv' BY <1>1 DEF IInv, BackupInv
<1>6. ChangeInv' BY <1>1 DEF ChangeInv, NoCall
<1>7. QED BY <1>2, <1>3, <1>4, <1>5, <1>6 DEF IInv

LEMMA PowerCutInv == IInv /\ PowerCut => IInv'
<1> SUFFICES ASSUME IInv, PowerCut PROVE IInv' OBVIOUS
<1>1. /\ todo' = << >> /\ call' = NoCall /\ UNCHANGED <<backups, known>>
      /\ slot' \in [Positions -> UNION {flight[q] : q \in Positions}]
      /\ \A q \in Positions : slot'[q] \in flight[q]
      /\ flight' = [q \in Positions |-> {slot'[q]}]
    BY DEF PowerCut, Ended
<1>2. KnownInv' BY <1>1 DEF IInv, KnownInv, NoCall, Kinds, Volumes
<1>3. SlotInv'
    <2>1. \A q \in Positions : slot'[q] \in Contents /\ Sound(slot'[q], q, known')
        BY <1>1 DEF IInv, SlotInv
    <2>2. QED BY <1>1, <2>1 DEF SlotInv
<1>4. ScriptInv' BY <1>1, EmptySeq DEF ScriptInv
<1>5. BackupInv' BY <1>1 DEF IInv, BackupInv
<1>6. ChangeInv' BY <1>1 DEF ChangeInv, NoCall
<1>7. QED BY <1>2, <1>3, <1>4, <1>5, <1>6 DEF IInv

LEMMA DamageInv ==
    ASSUME IInv, NEW q \in Positions, Damage(q)
    PROVE  IInv'
<1>1. /\ Idle /\ slot' = [slot EXCEPT ![q] = Junk] /\ flight' = [flight EXCEPT ![q] = {Junk}]
      /\ UNCHANGED <<todo, call, backups, known>>
    BY DEF Damage
<1>2. KnownInv' BY <1>1 DEF IInv, KnownInv
<1>3. SlotInv' BY <1>1 DEF IInv, SlotInv, Contents, Sound
<1>4. ScriptInv' BY <1>1 DEF IInv, ScriptInv
<1>5. BackupInv' BY <1>1 DEF IInv, BackupInv
<1>6. ChangeInv'
    <2>1. call.kind # "change" BY <1>1, EmptySeq, ChangeShape DEF IInv, Idle
    <2>2. QED BY <1>1, <2>1 DEF ChangeInv
<1>7. QED BY <1>2, <1>3, <1>4, <1>5, <1>6 DEF IInv

-----------------------------------------------------------------------------
(* Theorems *)

LEMMA StepInv == IInv /\ [Next]_vars => IInv'
<1> SUFFICES ASSUME IInv, [Next]_vars PROVE IInv' OBVIOUS
<1>1. ASSUME NEW p \in OuterPasswords, NEW f \in Prfs, CreateContainer(p, f) PROVE IInv'
    BY <1>1, CreateInv
<1>2. ASSUME NEW p \in OuterPasswords, NEW h \in HiddenPasswords, NEW f \in Prfs,
             NEW g \in Prfs, CreateWithHidden(p, f, h, g)
      PROVE  IInv'
    BY <1>2, CreateHiddenInv
<1>3. ASSUME NEW v \in Volumes, NEW old \in Tried(v), NEW new \in Tried(v),
             ChangePassword(old, new)
      PROVE  IInv'
    BY <1>3, ChangePasswordInv DEF Tried, Passwords
<1>4. CASE Export BY <1>4, ExportInv
<1>5. ASSUME NEW b \in backups, RestoreFromFile(b) PROVE IInv' BY <1>5, RestoreInv
<1>6. CASE RestoreEmbedded BY <1>6, RestoreEmbeddedInv
<1>7. CASE DoWrite BY <1>7, WriteInv
<1>8. CASE DoFlush BY <1>8, FlushInv
<1>9. CASE DoFormat BY <1>9, FormatInv
<1>10. CASE CallFails BY <1>10, CallFailsInv
<1>11. CASE PowerCut BY <1>11, PowerCutInv
<1>12. ASSUME NEW q \in Positions, Damage(q) PROVE IInv' BY <1>12, DamageInv
<1>13. CASE UNCHANGED vars
    <2> USE <1>13 DEF vars, device
    <2>1. KnownInv' /\ BackupInv' BY DEF IInv, KnownInv, BackupInv
    <2>2. SlotInv' BY DEF IInv, SlotInv
    <2>3. ScriptInv' BY DEF IInv, ScriptInv
    <2>4. ChangeInv' BY DEF IInv, ChangeInv, Rekeys, Rekeyed
    <2>5. QED BY <2>1, <2>2, <2>3, <2>4 DEF IInv
<1>14. QED
    BY <1>1, <1>2, <1>3, <1>4, <1>5, <1>6, <1>7, <1>8, <1>9, <1>10, <1>11, <1>12, <1>13
    DEF Next, Call

LEMMA Invariance == Spec => []IInv
<1>1. QED BY InitInv, StepInv, PTL DEF Spec

(* A secret that change_password has replaced opens nothing any more, in any
   slot, after any failures and power cuts, until a backup that holds it is
   restored: change_password rewrites and flushes every copy. *)
THEOREM ReplacedSecretsAreDead == Spec => []OnlyKnownSecretsOpen
<1>1. IInv => OnlyKnownSecretsOpen
    BY DEF IInv, SlotInv, Sound, OnlyKnownSecretsOpen
<1>2. QED BY <1>1, Invariance, PTL

LEMMA FaultsStep == FaultsInv /\ [Next]_vars => FaultsInv'
<1> SUFFICES ASSUME FaultsInv, [Next]_vars PROVE FaultsInv' OBVIOUS
<1>1. CASE UNCHANGED faults BY <1>1 DEF FaultsInv
<1>2. CASE Export BY <1>2 DEF FaultsInv, Export
<1>3. CASE CallFails BY <1>3 DEF FaultsInv, CallFails
<1>4. CASE PowerCut BY <1>4 DEF FaultsInv, PowerCut
<1>5. ASSUME NEW q \in Positions, Damage(q) PROVE FaultsInv'
    BY <1>5 DEF FaultsInv, Damage
<1>6. QED
    BY <1>1, <1>2, <1>3, <1>4, <1>5
    DEF Next, Call, vars, CreateContainer, CreateWithHidden, ChangePassword,
        RestoreFromFile, RestoreEmbedded, DoWrite, DoFlush, DoFormat

(* A change of password that reports success has put both copies of the
   header under the new secret on the medium, whatever the slots held. *)
LEMMA ChangeStep ==
    ASSUME IInv, FaultsInv, [Next]_vars,
           call.kind = "change", Idle', faults' = faults
    PROVE  \A q \in SlotsOf(call.vol) :
              slot'[q] # Junk /\ slot'[q].pwd = call.pwd /\ flight'[q] = {slot'[q]}
<1>1. ~Idle
    BY EmptySeq, ChangeShape DEF IInv, Idle
<1>2. ~UNCHANGED vars
    BY <1>1 DEF vars, Idle
<1>3. ~Call
    BY <1>1 DEF Call, CreateContainer, CreateWithHidden, ChangePassword, Export,
                RestoreFromFile, RestoreEmbedded, Start
<1>4. ~CallFails /\ ~PowerCut /\ \A q \in Positions : ~Damage(q)
    BY DEF CallFails, PowerCut, Damage, FaultsInv
<1>5. DoWrite \/ DoFlush \/ DoFormat
    BY <1>2, <1>3, <1>4 DEF Next
<1>6. Proceed
    BY <1>5 DEF DoWrite, DoFlush, DoFormat
<1>7. Len(todo) = 1
    <2>1. Len(todo') = 0 BY EmptySeq DEF Idle
    <2>2. QED BY <1>1, <1>6, <2>1, ProceedFacts DEF IInv
<1>8. DoFlush
    <2>1. Head(todo).op = "flush" BY <1>1, <1>6, <1>7, ChangeShape, ProceedFacts DEF IInv
    <2>2. QED BY <1>5, <2>1 DEF DoWrite, DoFormat, Doing
<1>9. slot' = slot /\ flight' = [q \in Positions |-> {slot[q]}]
    BY <1>8 DEF DoFlush, Flushed
<1>10. call.vol \in Volumes /\ \A q \in SlotsOf(call.vol) : Rekeyed(slot[q]) /\ q \in Positions
    BY <1>7, HomeOfSlots DEF IInv, KnownInv, ChangeInv
<1>11. QED BY <1>9, <1>10 DEF Rekeyed

THEOREM SuccessfulChangeIsComplete == Spec => ChangeRewritesBothCopies
<1>1. Init => FaultsInv
    BY DEF Init, FaultsInv, NoFaults
<1>2. Spec => []FaultsInv
    BY <1>1, FaultsStep, PTL DEF Spec
<1>3. IInv /\ FaultsInv /\ [Next]_vars =>
          [call.kind = "change" /\ Idle' /\ faults' = faults =>
              \A q \in SlotsOf(call.vol) :
                 slot'[q] # Junk /\ slot'[q].pwd = call.pwd /\ flight'[q] = {slot'[q]}]_vars
    BY ChangeStep
<1>4. QED
    BY <1>2, <1>3, Invariance, PTL DEF Spec, ChangeRewritesBothCopies

-----------------------------------------------------------------------------
(* Types *)

HistoryInv == formatted \subseteq Volumes /\ created \subseteq Volumes

LEMMA HistoryStep == IInv /\ HistoryInv /\ [Next]_vars => HistoryInv'
<1> SUFFICES ASSUME IInv, HistoryInv, [Next]_vars PROVE HistoryInv' OBVIOUS
<1>1. CASE UNCHANGED <<formatted, created>> BY <1>1 DEF HistoryInv
<1>2. ASSUME Proceed PROVE created' \subseteq Volumes
    BY <1>2 DEF Proceed, HistoryInv, Volumes
<1>3. CASE DoFormat
    <2> DEFINE p == Head(todo).pwd
    <2>1. slot \in [Positions -> Contents] BY DEF IInv, SlotInv
    <2>2. FoundAt(slot, Positions, p) \in Matches(slot, Positions, p)
        BY <1>3, <2>1, FoundMatches DEF DoFormat
    <2>3. slot[FoundAt(slot, Positions, p)] \in Headers
        BY <2>1, <2>2 DEF Matches, Contents
    <2>4. slot[FoundAt(slot, Positions, p)].vol \in Volumes BY <2>3 DEF Headers
    <2>5. formatted' \subseteq Volumes BY <1>3, <2>4 DEF DoFormat, HistoryInv
    <2>6. QED BY <1>2, <1>3, <2>5 DEF DoFormat, HistoryInv
<1>4. CASE DoWrite \/ DoFlush
    BY <1>2, <1>4 DEF DoWrite, DoFlush, HistoryInv
<1>5. CASE CallFails \/ PowerCut BY <1>1, <1>5 DEF CallFails, PowerCut, Ended
<1>6. ASSUME NEW q \in Positions, Damage(q) PROVE HistoryInv' BY <1>1, <1>6 DEF Damage
<1>7. CASE Call
    BY <1>1, <1>7 DEF HistoryInv, Call, CreateContainer, CreateWithHidden, ChangePassword, Export,
                      RestoreFromFile, RestoreEmbedded
<1>8. CASE UNCHANGED vars BY <1>1, <1>8 DEF vars
<1>9. QED BY <1>3, <1>4, <1>5, <1>6, <1>7, <1>8 DEF Next

LEMMA TypesFollow == IInv /\ FaultsInv /\ HistoryInv => TypeOK
<1> SUFFICES ASSUME IInv, FaultsInv, HistoryInv PROVE TypeOK OBVIOUS
<1>1. ASSUME NEW i \in 1 .. Len(todo)
      PROVE  /\ todo[i].op \in Ops
             /\ DOMAIN todo[i].to \subseteq Positions
             /\ \A q \in DOMAIN todo[i].to : todo[i].to[q] \in Contents
             /\ todo[i].pwd \in Passwords \cup {Junk}
    <2>1. todo[i] \in Steps BY DEF IInv, ScriptInv, SoundSteps
    <2>2. PICK qs \in SUBSET Positions : todo[i].to \in [qs -> Contents] BY <2>1 DEF Steps
    <2>3. QED BY <2>1, <2>2 DEF Steps
<1>2. backups \subseteq [LeadingGroup -> Contents] BY DEF IInv, BackupInv
<1>3. QED
    BY <1>1, <1>2 DEF IInv, KnownInv, SlotInv, FaultsInv, HistoryInv, TypeOK

(* Every variable keeps its type: calls in progress only hold writes of
   headers of known volumes into the four slots. *)
THEOREM TypeCorrect == Spec => []TypeOK
<1>1. Init => FaultsInv /\ HistoryInv
    BY DEF Init, FaultsInv, NoFaults, HistoryInv
<1>2. QED
    BY <1>1, FaultsStep, HistoryStep, Invariance, TypesFollow, PTL DEF Spec

-----------------------------------------------------------------------------
(* Nobody is locked out: the secrets *)

(* What a secret of volume v opens is a header of v. *)
LEMMA OwnerOf ==
    ASSUME SecretsApart, SlotInv, SecretInv,
           NEW v \in Volumes, NEW p \in Tried(v), NEW q \in Matches(slot, Positions, p)
    PROVE  /\ slot[q] \in Headers /\ slot[q].vol = v /\ q \in Positions /\ slot[q].pwd = p
           /\ p \in known[v]
<1>1. q \in Positions /\ slot[q] # Junk /\ slot[q].pwd = p
    BY DEF Matches
<1>2. slot[q] \in Headers /\ p \in known[slot[q].vol]
    BY <1>1 DEF SlotInv, Sound
<1>3. slot[q].vol \in Volumes
    BY <1>2 DEF Headers
<1>4. p \in Tried(slot[q].vol)
    BY <1>2, <1>3 DEF SecretInv
<1>5. slot[q].vol = v
    BY <1>3, <1>4 DEF SecretsApart, Tried, Volumes
<1>6. QED BY <1>1, <1>2, <1>5

LEMMA SecretStep == SecretsApart /\ IInv /\ SecretInv /\ [Next]_vars => SecretInv'
<1> SUFFICES ASSUME SecretsApart, IInv, SecretInv, [Next]_vars PROVE SecretInv'
    OBVIOUS
<1>1. CASE UNCHANGED <<known, backups>> BY <1>1 DEF SecretInv
<1>2. ASSUME NEW p \in OuterPasswords, NEW f \in Prfs, CreateContainer(p, f)
      PROVE  SecretInv'
    BY <1>2 DEF SecretInv, CreateContainer, Tried, Volumes
<1>3. ASSUME NEW p \in OuterPasswords, NEW h \in HiddenPasswords, NEW f \in Prfs,
             NEW g \in Prfs, CreateWithHidden(p, f, h, g)
      PROVE  SecretInv'
    BY <1>3 DEF SecretInv, CreateWithHidden, Tried, Volumes
<1>4. ASSUME NEW v \in Volumes, NEW old \in Tried(v), NEW new \in Tried(v),
             ChangePassword(old, new)
      PROVE  SecretInv'
    <2> DEFINE q == FoundAt(slot, Positions, old)
    <2>1. slot \in [Positions -> Contents] /\ known \in [Volumes -> SUBSET Passwords]
        BY DEF IInv, SlotInv, KnownInv
    <2>2. q \in Matches(slot, Positions, old)
        BY <1>4, <2>1, FoundMatches DEF ChangePassword
    <2>3. slot[q].vol = v
        BY <2>2, OwnerOf DEF IInv
    <2>4. known' = [known EXCEPT ![v] = @ \cup {new}] /\ backups' = backups
        BY <1>4, <2>3 DEF ChangePassword
    <2>5. QED BY <2>1, <2>4 DEF SecretInv
<1>5. CASE Export
    <2> DEFINE group == [q \in LeadingGroup |-> slot[q]]
    <2>1. backups' = backups \cup {group} /\ known' = known
        BY <1>5 DEF Export
    <2>2. ASSUME NEW q \in LeadingGroup, group[q] # Junk
          PROVE  group[q].pwd \in Tried(group[q].vol)
        <3>1. group[q] = slot[q] /\ q \in Positions BY DEF LeadingGroup, Positions
        <3>2. group[q] \in Headers /\ group[q].pwd \in known[group[q].vol]
            BY <2>2, <3>1 DEF IInv, SlotInv, Sound
        <3>3. QED BY <3>2 DEF SecretInv, Headers
    <2> HIDE DEF group
    <2>3. QED BY <2>1, <2>2 DEF SecretInv
<1>6. ASSUME NEW b \in backups, RestoreFromFile(b) PROVE SecretInv'
    <2>1. /\ backups' = backups
          /\ known' = [v \in Volumes |-> known[v] \cup
                {b[q].pwd : q \in {r \in LeadingGroup : b[r] # Junk /\ b[r].vol = v}}]
        BY <1>6 DEF RestoreFromFile
    <2>2. \A q \in LeadingGroup : b[q] # Junk => b[q].pwd \in Tried(b[q].vol)
        BY DEF SecretInv
    <2>3. \A v \in Volumes : known'[v] \subseteq Tried(v)
        BY <2>1, <2>2 DEF SecretInv
    <2>4. QED BY <2>1, <2>3 DEF SecretInv
<1>7. CASE DoWrite \/ DoFlush \/ DoFormat
    <2>1. backups' = backups /\ Proceed
        BY <1>7 DEF DoWrite, DoFlush, DoFormat
    <2>2. ~Idle
        BY <1>7 DEF DoWrite, DoFlush, DoFormat, Doing
    <2>3. known' = known \/ (call.kind = "change" /\ Len(todo) = 1
                             /\ known' = [known EXCEPT ![call.vol] = {call.pwd}])
        <3>1. Len(todo) = 1 \/ Len(todo) > 1
            BY <2>1, <2>2, ProceedFacts, SmallLength DEF IInv
        <3>2. QED BY <2>1, <2>2, <3>1, ProceedFacts DEF IInv
    <2>4. CASE known' = known BY <2>1, <2>4 DEF SecretInv
    <2>5. CASE /\ call.kind = "change" /\ Len(todo) = 1
               /\ known' = [known EXCEPT ![call.vol] = {call.pwd}]
        <3>1. call.vol \in Volumes /\ Rekeyed(slot[FirstCopy(call.vol = "hidden")])
            BY <2>5, ChangeShape DEF IInv, ChangeInv
        <3>2. FirstCopy(call.vol = "hidden") \in Positions BY <3>1, HomeOfSlots
        <3>3. call.pwd \in known[call.vol]
            BY <3>1, <3>2 DEF IInv, SlotInv, Sound, Rekeyed
        <3>4. call.pwd \in Tried(call.vol) BY <3>1, <3>3 DEF SecretInv
        <3>5. QED BY <2>1, <2>5, <3>1, <3>4 DEF SecretInv, IInv, KnownInv
    <2>6. QED BY <2>3, <2>4, <2>5
<1>8. QED
    BY <1>1, <1>2, <1>3, <1>4, <1>5, <1>6, <1>7
    DEF Next, Call, vars, RestoreEmbedded, CallFails, PowerCut, Ended, Damage

-----------------------------------------------------------------------------
(* Nobody is locked out: the creations *)

Work == DoWrite \/ DoFlush \/ DoFormat

LEMMA Concat ==
    ASSUME NEW S, NEW s \in Seq(S), NEW t \in Seq(S), NEW r \in Seq(S),
           Len(r) = Len(s) + Len(t),
           \A j \in 1 .. Len(r) : r[j] = IF j <= Len(s) THEN s[j] ELSE t[j - Len(s)]
    PROVE  s \o t = r
<1> DEFINE u == s \o t
<1>1. /\ u \in Seq(S) /\ Len(u) = Len(s) + Len(t)
      /\ \A j \in 1 .. Len(s) + Len(t) : u[j] = IF j <= Len(s) THEN s[j] ELSE t[j - Len(s)]
    BY ConcatProperties, Zenon
<1> HIDE DEF u
<1>2. Len(u) = Len(r) BY <1>1
<1>3. \A j \in 1 .. Len(u) : u[j] = r[j] BY <1>1
<1>4. u = r BY <1>1, <1>2, <1>3, SeqEqual
<1>5. QED BY <1>4 DEF u

LEMMA FourAndOne ==
    ASSUME NEW a, NEW b, NEW c, NEW d, NEW e
    PROVE  << a, b, c, d >> \o << e >> = << a, b, c, d, e >>
<1> DEFINE S == {a, b, c, d, e}
           s == << a, b, c, d >>
           t == << e >>
           r == << a, b, c, d, e >>
<1>1. s \in Seq(S) /\ t \in Seq(S) /\ r \in Seq(S) /\ Len(s) = 4 /\ Len(t) = 1 /\ Len(r) = 5
    OBVIOUS
<1>2. \A j \in 1 .. 5 : r[j] = IF j <= 4 THEN s[j] ELSE t[j - 4]
    OBVIOUS
<1> HIDE DEF S, s, t, r
<1>3. /\ Len(r) = Len(s) + Len(t)
      /\ \A j \in 1 .. Len(r) : r[j] = IF j <= Len(s) THEN s[j] ELSE t[j - Len(s)]
    BY <1>1, <1>2
<1>4. s \o t = r BY <1>1, <1>3, Concat, Zenon
<1>5. QED BY <1>4 DEF s, t, r

LEMMA FourAndThreeAndTwo ==
    ASSUME NEW a, NEW b, NEW c, NEW d, NEW e, NEW f, NEW g, NEW h, NEW i
    PROVE  << a, b, c, d >> \o << e, f, g >> \o << h, i >> = << a, b, c, d, e, f, g, h, i >>
<1> DEFINE S == {a, b, c, d, e, f, g, h, i}
           s == << a, b, c, d >>
           t == << e, f, g >>
           r == << a, b, c, d, e, f, g >>
           u == << h, i >>
           w == << a, b, c, d, e, f, g, h, i >>
<1>1. /\ s \in Seq(S) /\ t \in Seq(S) /\ r \in Seq(S) /\ u \in Seq(S) /\ w \in Seq(S)
      /\ Len(s) = 4 /\ Len(t) = 3 /\ Len(r) = 7 /\ Len(u) = 2 /\ Len(w) = 9
    OBVIOUS
<1>2. \A j \in 1 .. 7 : r[j] = IF j <= 4 THEN s[j] ELSE t[j - 4]
    OBVIOUS
<1>3. \A j \in 1 .. 9 : w[j] = IF j <= 7 THEN r[j] ELSE u[j - 7]
    OBVIOUS
<1> HIDE DEF S, s, t, r, u, w
<1>4. /\ Len(r) = Len(s) + Len(t)
      /\ \A j \in 1 .. Len(r) : r[j] = IF j <= Len(s) THEN s[j] ELSE t[j - Len(s)]
    BY <1>1, <1>2
<1>5. s \o t = r BY <1>1, <1>4, Concat, Zenon
<1>6. /\ Len(w) = Len(r) + Len(u)
      /\ \A j \in 1 .. Len(w) : w[j] = IF j <= Len(r) THEN r[j] ELSE u[j - Len(r)]
    BY <1>1, <1>3
<1>7. r \o u = w BY <1>1, <1>6, Concat, Zenon
<1>8. QED BY <1>5, <1>7 DEF s, t, u, w

LEMMA OuterScript ==
    ASSUME NEW o \in OuterHeaders
    PROVE  VolumeScript(o) \o <<Format(o.pwd)>> = OuterMaking(o)
BY FourAndOne DEF VolumeScript, OuterMaking

LEMMA OuterLength ==
    ASSUME NEW o \in OuterHeaders
    PROVE  Len(OuterMaking(o)) = 5 /\ Len(OuterMaking(o)) \in Nat \ {0}
BY DEF OuterMaking

LEMMA BothScript ==
    ASSUME NEW o \in OuterHeaders, NEW i \in HiddenHeaders
    PROVE  /\ VolumeScript(o) \o HiddenScript(i) \o Formats(o.pwd, i.pwd) = BothMaking(o, i)
           /\ Len(BothMaking(o, i)) = 9
BY FourAndThreeAndTwo DEF VolumeScript, HiddenScript, Formats, BothMaking

(* One step along a script. *)
LEMMA BehindStep ==
    ASSUME IInv, NEW script, NEW n \in Nat, Len(script) \in Nat, Behind(script, n), Proceed
    PROVE  /\ ~Idle /\ Head(todo) = script[n + 1] /\ Len(todo) = Len(script) - n
           /\ Len(todo) > 1 => Behind(script, n + 1)'
<1>1. todo \in Seq(SoundSteps(known)) /\ Len(todo) > 0 /\ Len(todo) = Len(script) - n
    BY DEF IInv, ScriptInv, Behind
<1>2. ~Idle
    BY <1>1, EmptySeq DEF Idle
<1>3. /\ Head(todo) = todo[1] /\ Len(todo') = Len(todo) - 1
      /\ \A j \in 1 .. Len(todo) - 1 : todo'[j] = todo[j + 1]
    BY <1>2, ProceedFacts DEF IInv
<1>4. \A j \in 1 .. Len(todo) : todo[j] = script[n + j]
    BY DEF Behind
<1>5. Head(todo) = script[n + 1]
    BY <1>1, <1>3, <1>4
<1>6. ASSUME Len(todo) > 1 PROVE Behind(script, n + 1)'
    <2>1. ASSUME NEW j \in 1 .. Len(todo') PROVE todo'[j] = script[n + 1 + j]
        <3>1. j \in 1 .. Len(todo) - 1 /\ j + 1 \in 1 .. Len(todo)
            BY <1>1, <1>3
        <3>2. todo'[j] = script[n + (j + 1)] BY <1>3, <1>4, <3>1
        <3>3. n + (j + 1) = n + 1 + j BY <3>1
        <3>4. QED BY <3>2, <3>3
    <2>2. n + 1 + Len(todo') = Len(script) /\ Len(todo') > 0
        BY <1>1, <1>3, <1>6
    <2>3. QED BY <2>1, <2>2 DEF Behind
<1>7. QED BY <1>1, <1>2, <1>5, <1>6

(* What the steps of a creation do. *)
LEMMA WorkWrites ==
    ASSUME Work, NEW qs, NEW x, Head(todo) = Write(qs, x)
    PROVE  /\ \A q \in Positions :
                 /\ slot'[q] = IF q \in qs THEN x ELSE slot[q]
                 /\ flight'[q] = IF q \in qs THEN flight[q] \cup {x} ELSE flight[q]
           /\ formatted' = formatted
<1>1. Head(todo).op = "write" /\ DOMAIN Head(todo).to = qs /\ \A q \in qs : Head(todo).to[q] = x
    BY DEF Write, Step
<1>2. DoWrite
    BY <1>1 DEF Work, DoFlush, DoFormat, Doing
<1>3. QED BY <1>1, <1>2 DEF DoWrite

LEMMA WorkFlushes ==
    ASSUME Work, Head(todo) = Flush
    PROVE  slot' = slot /\ flight' = [q \in Positions |-> {slot[q]}] /\ formatted' = formatted
<1>1. Head(todo).op = "flush" BY DEF Flush, Step
<1>2. DoFlush BY <1>1 DEF Work, DoWrite, DoFormat, Doing
<1>3. QED BY <1>2 DEF DoFlush, Flushed

LEMMA WorkFormats ==
    ASSUME SecretsApart, IInv, SecretInv, Work,
           NEW v \in Volumes, NEW p \in Tried(v), Head(todo) = Format(p)
    PROVE  slot' = slot /\ flight' = flight /\ formatted' = formatted \cup {v}
<1>1. Head(todo).op = "format" /\ Head(todo).pwd = p BY DEF Format, Step
<1>2. DoFormat BY <1>1 DEF Work, DoWrite, DoFlush, Doing
<1>3. slot \in [Positions -> Contents] BY DEF IInv, SlotInv
<1>4. FoundAt(slot, Positions, p) \in Matches(slot, Positions, p)
    BY <1>1, <1>2, <1>3, FoundMatches DEF DoFormat
<1>5. slot[FoundAt(slot, Positions, p)].vol = v BY <1>4, OwnerOf DEF IInv
<1>6. QED BY <1>1, <1>2, <1>5 DEF DoFormat, device

(* The step after n steps of a creation brings it to n + 1. *)
LEMMA MakesOuter ==
    ASSUME SecretsApart, IInv, SecretInv, Work,
           NEW o \in OuterHeaders, NEW n \in 0 .. 3, OuterMade(o, n),
           Head(todo) = OuterMaking(o)[n + 1]
    PROVE  OuterMade(o, n + 1)'
<1>1. CASE n = 0 BY <1>1 DEF OuterMade
<1>2. CASE n = 1
    <2>1. Head(todo) = Write({"Primary"}, o) BY <1>2 DEF OuterMaking
    <2>2. slot'["Primary"] = o BY <2>1, WorkWrites DEF Positions
    <2>3. QED BY <1>2, <2>2 DEF OuterMade
<1>3. CASE n = 2
    <2>1. Head(todo) = Write({"BackupPrimary"}, o) BY <1>3 DEF OuterMaking
    <2>2. slot["Primary"] = o BY <1>3 DEF OuterMade
    <2>3. slot'["Primary"] = o /\ slot'["BackupPrimary"] = o
        <3>1. \A q \in Positions :
                 /\ slot'[q] = IF q \in {"BackupPrimary"} THEN o ELSE slot[q]
                 /\ flight'[q] = IF q \in {"BackupPrimary"} THEN flight[q] \cup {o} ELSE flight[q]
            BY <2>1, WorkWrites
        <3>2. QED BY <2>2, <3>1 DEF Positions
    <2>4. QED BY <1>3, <2>3 DEF OuterMade
<1>4. CASE n = 3
    <2>1. Head(todo) = Flush BY <1>4 DEF OuterMaking
    <2>2. slot["Primary"] = o /\ slot["BackupPrimary"] = o BY <1>4 DEF OuterMade
    <2>3. slot' = slot /\ flight'["Primary"] = {o} /\ flight'["BackupPrimary"] = {o}
        BY <2>1, <2>2, WorkFlushes DEF Positions
    <2>4. QED BY <1>4, <2>2, <2>3 DEF OuterMade
<1>5. QED BY <1>1, <1>2, <1>3, <1>4

LEMMA MakesBoth ==
    ASSUME SecretsApart, IInv, SecretInv, Work,
           NEW o \in OuterHeaders, NEW i \in HiddenHeaders, NEW n \in 0 .. 8,
           OuterMade(o, n), HiddenMade(i, n), Head(todo) = BothMaking(o, i)[n + 1]
    PROVE  OuterMade(o, n + 1)' /\ HiddenMade(i, n + 1)'
<1>1. CASE n \in 0 .. 3
    <2>1. Head(todo) = OuterMaking(o)[n + 1]
        BY <1>1 DEF OuterMaking, BothMaking
    <2>2. OuterMade(o, n + 1)' BY <1>1, <2>1, MakesOuter
    <2>3. QED BY <1>1, <2>2 DEF HiddenMade
<1>2. ASSUME n >= 4
      PROVE  /\ slot["Primary"] = o /\ slot["BackupPrimary"] = o
             /\ flight["Primary"] = {o} /\ flight["BackupPrimary"] = {o}
    BY <1>2 DEF OuterMade
<1>3. CASE n = 4
    <2>1. Head(todo) = Write({"Hidden"}, i) BY <1>3 DEF BothMaking
    <2>2. \A q \in Positions :
             /\ slot'[q] = IF q \in {"Hidden"} THEN i ELSE slot[q]
             /\ flight'[q] = IF q \in {"Hidden"} THEN flight[q] \cup {i} ELSE flight[q]
        BY <2>1, WorkWrites
    <2>3. /\ slot'["Hidden"] = i
          /\ \A q \in {"Primary", "BackupPrimary"} : slot'[q] = o /\ flight'[q] = {o}
        BY <1>2, <1>3, <2>2 DEF Positions
    <2>4. QED BY <1>3, <2>3 DEF OuterMade, HiddenMade
<1>4. CASE n = 5
    <2>1. Head(todo) = Write({"BackupHidden"}, i) BY <1>4 DEF BothMaking
    <2>2. slot["Hidden"] = i BY <1>4 DEF HiddenMade
    <2>3. \A q \in Positions :
             /\ slot'[q] = IF q \in {"BackupHidden"} THEN i ELSE slot[q]
             /\ flight'[q] = IF q \in {"BackupHidden"} THEN flight[q] \cup {i} ELSE flight[q]
        BY <2>1, WorkWrites
    <2>4. /\ slot'["Hidden"] = i /\ slot'["BackupHidden"] = i
          /\ \A q \in {"Primary", "BackupPrimary"} : slot'[q] = o /\ flight'[q] = {o}
        BY <1>2, <1>4, <2>2, <2>3 DEF Positions
    <2>5. QED BY <1>4, <2>4 DEF OuterMade, HiddenMade
<1>5. CASE n = 6
    <2>1. Head(todo) = Flush BY <1>5 DEF BothMaking
    <2>2. slot["Hidden"] = i /\ slot["BackupHidden"] = i BY <1>5 DEF HiddenMade
    <2>3. /\ slot' = slot /\ flight'["Hidden"] = {i} /\ flight'["BackupHidden"] = {i}
          /\ flight'["Primary"] = {o} /\ flight'["BackupPrimary"] = {o}
        BY <1>2, <1>5, <2>1, <2>2, WorkFlushes DEF Positions
    <2>4. QED BY <1>2, <1>5, <2>2, <2>3 DEF OuterMade, HiddenMade
<1>6. CASE n = 7
    <2>1. Head(todo) = Format(o.pwd) BY <1>6 DEF BothMaking
    <2>2. "outer" \in Volumes /\ o.pwd \in Tried("outer") BY DEF Volumes, OuterHeaders, Tried
    <2>3. slot' = slot /\ flight' = flight /\ "outer" \in formatted'
        BY <2>1, <2>2, WorkFormats
    <2>4. /\ slot["Hidden"] = i /\ slot["BackupHidden"] = i
          /\ flight["Hidden"] = {i} /\ flight["BackupHidden"] = {i}
        BY <1>6 DEF HiddenMade
    <2>5. QED BY <1>2, <1>6, <2>3, <2>4 DEF OuterMade, HiddenMade
<1>7. CASE n = 8
    <2>1. Head(todo) = Format(i.pwd) BY <1>7 DEF BothMaking
    <2>2. "hidden" \in Volumes /\ i.pwd \in Tried("hidden") BY DEF Volumes, HiddenHeaders, Tried
    <2>3. slot' = slot /\ flight' = flight /\ formatted' = formatted \cup {"hidden"}
        BY <2>1, <2>2, WorkFormats
    <2>4. QED BY <1>7, <2>3 DEF OuterMade, HiddenMade
<1>8. QED BY <1>1, <1>3, <1>4, <1>5, <1>6, <1>7

(* What Proceed reports. *)
LEMMA ProceedReports ==
    ASSUME IInv, ~Idle, Proceed
    PROVE  /\ Len(todo) > 1 \/ Len(todo) = 1
           /\ Len(todo) > 1 => call' = call /\ created' = created
           /\ Len(todo) = 1 => /\ call' = NoCall /\ todo' = << >>
                               /\ created' = CASE call.kind = "create" -> {"outer"}
                                               [] call.kind = "create with hidden" -> Volumes
                                               [] OTHER -> created
<1>1. Len(todo) \in Nat /\ Len(todo) > 0 /\ (Len(todo) = 1 => call' = NoCall /\ todo' = << >>)
    BY ProceedFacts DEF IInv
<1>2. Len(todo) = 1 => ~(Len(todo) > 1)
    BY <1>1
<1>3. Len(todo) > 1 \/ Len(todo) = 1
    BY <1>1, SmallLength
<1>4. Len(todo) > 1 => call' = call /\ created' = created
    BY DEF Proceed
<1>5. Len(todo) = 1 => created' = CASE call.kind = "create" -> {"outer"}
                                    [] call.kind = "create with hidden" -> Volumes
                                    [] OTHER -> created
    BY <1>2 DEF Proceed
<1>6. QED BY <1>1, <1>3, <1>4, <1>5

(* A creation that is not at its end goes on as its script says. *)
LEMMA OuterGoesOn ==
    ASSUME SecretsApart, IInv, SecretInv, Work, Len(todo) > 1,
           NEW o \in OuterHeaders, NEW n \in 0 .. 4, Behind(OuterMaking(o), n), OuterMade(o, n)
    PROVE  \E m \in 0 .. 4 : Behind(OuterMaking(o), m)' /\ OuterMade(o, m)'
<1>1. Proceed
    BY DEF Work, DoWrite, DoFlush, DoFormat
<1>2. Len(OuterMaking(o)) = 5 /\ Len(OuterMaking(o)) \in Nat /\ n \in Nat BY OuterLength
<1>3. /\ Head(todo) = OuterMaking(o)[n + 1] /\ Len(todo) = 5 - n
      /\ Behind(OuterMaking(o), n + 1)'
    BY <1>1, <1>2, BehindStep, Zenon
<1>4. n \in 0 .. 3 /\ n + 1 \in 0 .. 4
    BY <1>3
<1>5. OuterMade(o, n + 1)' BY <1>3, <1>4, MakesOuter
<1>6. QED BY <1>3, <1>4, <1>5

LEMMA BothGoOn ==
    ASSUME SecretsApart, IInv, SecretInv, Work, Len(todo) > 1,
           NEW o \in OuterHeaders, NEW i \in HiddenHeaders, NEW n \in 0 .. 8,
           Behind(BothMaking(o, i), n), OuterMade(o, n), HiddenMade(i, n)
    PROVE  \E m \in 0 .. 8 :
               Behind(BothMaking(o, i), m)' /\ OuterMade(o, m)' /\ HiddenMade(i, m)'
<1>1. Proceed
    BY DEF Work, DoWrite, DoFlush, DoFormat
<1>2. Len(BothMaking(o, i)) = 9 /\ Len(BothMaking(o, i)) \in Nat /\ n \in Nat BY BothScript
<1>3. /\ Head(todo) = BothMaking(o, i)[n + 1] /\ Len(todo) = 9 - n
      /\ Behind(BothMaking(o, i), n + 1)'
    BY <1>1, <1>2, BehindStep, Zenon
<1>4. n + 1 \in 0 .. 8
    BY <1>3
<1>5. OuterMade(o, n + 1)' /\ HiddenMade(i, n + 1)' BY <1>3, MakesBoth
<1>6. QED BY <1>3, <1>4, <1>5

LEMMA HalvesGoOn ==
    ASSUME SecretsApart, IInv, SecretInv, Work, Len(todo) > 1
    PROVE  (OuterInMaking => OuterInMaking') /\ (BothInMaking => BothInMaking')
<1>1. ASSUME OuterInMaking PROVE OuterInMaking'
    <2>1. PICK o \in OuterHeaders, n \in 0 .. 4 : Behind(OuterMaking(o), n) /\ OuterMade(o, n)
        BY <1>1, Zenon DEF OuterInMaking
    <2>2. \E m \in 0 .. 4 : Behind(OuterMaking(o), m)' /\ OuterMade(o, m)'
        BY <2>1, OuterGoesOn
    <2>3. QED BY <2>2, Zenon DEF OuterInMaking
<1>2. ASSUME BothInMaking PROVE BothInMaking'
    <2>1. PICK o \in OuterHeaders, i \in HiddenHeaders, n \in 0 .. 8 :
              Behind(BothMaking(o, i), n) /\ OuterMade(o, n) /\ HiddenMade(i, n)
        BY <1>2, Zenon DEF BothInMaking
    <2>2. \E m \in 0 .. 8 :
              Behind(BothMaking(o, i), m)' /\ OuterMade(o, m)' /\ HiddenMade(i, m)'
        BY <2>1, BothGoOn
    <2>3. QED BY <2>2, Zenon DEF BothInMaking
<1>3. QED BY <1>1, <1>2

LEMMA MakingWork ==
    ASSUME SecretsApart, IInv, SecretInv, MakingInv, Work
    PROVE  MakingInv'
<1>1. Proceed /\ ~Idle
    BY DEF Work, DoWrite, DoFlush, DoFormat, Doing
<1>2. CASE Len(todo) = 1
    <2>1. call' = NoCall BY <1>1, <1>2, ProceedReports
    <2>2. QED BY <2>1 DEF MakingInv, NoCall
<1>3. CASE Len(todo) > 1
    <2>1. call' = call /\ created' = created BY <1>1, <1>3, ProceedReports
    <2>2. QED BY <1>3, <2>1, HalvesGoOn DEF MakingInv
<1>4. QED BY <1>1, <1>2, <1>3, ProceedReports

(* A creation begins at the beginning of its script. *)
LEMMA MakingBegins ==
    /\ \A o \in OuterHeaders : todo' = OuterMaking(o) => OuterInMaking'
    /\ \A o \in OuterHeaders : \A i \in HiddenHeaders :
          todo' = BothMaking(o, i) => BothInMaking'
<1>1. ASSUME NEW script, todo' = script, Len(script) \in Nat \ {0} PROVE Behind(script, 0)'
    BY <1>1 DEF Behind
<1>2. ASSUME NEW x PROVE OuterMade(x, 0)' /\ HiddenMade(x, 0)'
    BY DEF OuterMade, HiddenMade
<1>3. ASSUME NEW o \in OuterHeaders, todo' = OuterMaking(o) PROVE OuterInMaking'
    <2>1. Len(OuterMaking(o)) \in Nat \ {0} BY OuterLength
    <2>2. Behind(OuterMaking(o), 0)' BY <1>1, <1>3, <2>1, Zenon
    <2>3. 0 \in 0 .. 4 OBVIOUS
    <2>4. QED BY <1>2, <2>2, <2>3, Zenon DEF OuterInMaking
<1>4. ASSUME NEW o \in OuterHeaders, NEW i \in HiddenHeaders, todo' = BothMaking(o, i)
      PROVE  BothInMaking'
    <2>1. Len(BothMaking(o, i)) \in Nat \ {0}
        <3>1. Len(BothMaking(o, i)) = 9 BY BothScript
        <3>2. QED BY <3>1
    <2>2. Behind(BothMaking(o, i), 0)' BY <1>1, <1>4, <2>1, Zenon
    <2>3. 0 \in 0 .. 8 OBVIOUS
    <2>4. QED BY <1>2, <2>2, <2>3, Zenon DEF BothInMaking
<1>5. QED BY <1>3, <1>4

LEMMA MakingStep ==
    SecretsApart /\ IInv /\ SecretInv /\ MakingInv /\ [Next]_vars => MakingInv'
<1> SUFFICES ASSUME SecretsApart, IInv, SecretInv, MakingInv, [Next]_vars PROVE MakingInv'
    OBVIOUS
<1>1. CASE UNCHANGED <<slot, flight, todo, call, formatted, created>>
    <2>1. \A script, n : Behind(script, n) => Behind(script, n)'
        BY <1>1 DEF Behind
    <2>2. /\ \A o, n : OuterMade(o, n) => OuterMade(o, n)'
          /\ \A i, n : HiddenMade(i, n) => HiddenMade(i, n)'
        BY <1>1 DEF OuterMade, HiddenMade
    <2>3. QED BY <1>1, <2>1, <2>2 DEF MakingInv, OuterInMaking, BothInMaking
<1>2. ASSUME NEW p \in OuterPasswords, NEW f \in Prfs, CreateContainer(p, f)
      PROVE  MakingInv'
    <2> DEFINE o == Header("outer", p, f)
    <2>1. o \in OuterHeaders /\ o.pwd = p
        BY DEF OuterHeaders, Headers, Header, Volumes, Passwords
    <2>2. todo' = OuterMaking(o) /\ call'.kind = "create" /\ created' = {}
        BY <1>2, <2>1, OuterScript DEF CreateContainer, Start
    <2> HIDE DEF o
    <2>3. OuterInMaking' BY <2>1, <2>2, MakingBegins
    <2>4. call'.kind # "create with hidden" BY <2>2
    <2>5. QED BY <2>2, <2>3, <2>4 DEF MakingInv
<1>3. ASSUME NEW p \in OuterPasswords, NEW h \in HiddenPasswords, NEW f \in Prfs,
             NEW g \in Prfs, CreateWithHidden(p, f, h, g)
      PROVE  MakingInv'
    <2> DEFINE o == Header("outer", p, f)
               i == Header("hidden", h, g)
    <2>1. o \in OuterHeaders /\ o.pwd = p /\ i \in HiddenHeaders /\ i.pwd = h
        BY DEF OuterHeaders, HiddenHeaders, Headers, Header, Volumes, Passwords
    <2>2. todo' = BothMaking(o, i) /\ call'.kind = "create with hidden" /\ created' = {}
        BY <1>3, <2>1, BothScript DEF CreateWithHidden, Start
    <2> HIDE DEF o, i
    <2>3. BothInMaking' BY <2>1, <2>2, MakingBegins
    <2>4. call'.kind # "create" BY <2>2
    <2>5. QED BY <2>2, <2>3, <2>4 DEF MakingInv
<1>4. ASSUME NEW old, NEW new, ChangePassword(old, new) PROVE MakingInv'
    BY <1>4 DEF ChangePassword, Start, MakingInv
<1>5. CASE Export BY <1>1, <1>5 DEF Export, device
<1>6. ASSUME NEW b \in backups, RestoreFromFile(b) PROVE MakingInv'
    BY <1>6 DEF RestoreFromFile, Start, MakingInv
<1>7. CASE RestoreEmbedded BY <1>7 DEF RestoreEmbedded, Start, MakingInv
<1>8. CASE DoWrite \/ DoFlush \/ DoFormat BY <1>8, MakingWork DEF Work
<1>9. CASE CallFails \/ PowerCut
    <2>1. call' = NoCall BY <1>9 DEF CallFails, PowerCut, Ended
    <2>2. QED BY <2>1 DEF NoCall, MakingInv
<1>10. ASSUME NEW q \in Positions, Damage(q) PROVE MakingInv'
    BY <1>10 DEF Damage, MakingInv
<1>11. CASE UNCHANGED vars BY <1>1, <1>11 DEF vars, device
<1>12. QED
    BY <1>2, <1>3, <1>4, <1>5, <1>6, <1>7, <1>8, <1>9, <1>10, <1>11 DEF Next, Call

(* The last step of a creation: every volume is formatted and no copy of its
   header is or may become junk. *)
LEMMA OuterFinishes ==
    ASSUME SecretsApart, IInv, SecretInv, Work, Len(todo) = 1, OuterInMaking
    PROVE  /\ "outer" \in formatted'
           /\ Junk \notin flight'["Primary"] /\ Junk \notin flight'["BackupPrimary"]
<1>1. Proceed
    BY DEF Work, DoWrite, DoFlush, DoFormat
<1>2. PICK o \in OuterHeaders, n \in 0 .. 4 : Behind(OuterMaking(o), n) /\ OuterMade(o, n)
    BY Zenon DEF OuterInMaking
<1>3. Len(OuterMaking(o)) = 5 /\ Len(OuterMaking(o)) \in Nat /\ n \in Nat BY OuterLength
<1>4. Head(todo) = OuterMaking(o)[n + 1] /\ Len(todo) = Len(OuterMaking(o)) - n
    BY <1>1, <1>2, <1>3, BehindStep, Zenon
<1>5. n = 4
    <2>1. 1 = 5 - n BY <1>3, <1>4, Zenon
    <2>2. QED BY <1>3, <2>1
<1>6. Head(todo) = Format(o.pwd) BY <1>4, <1>5 DEF OuterMaking
<1>7. "outer" \in Volumes /\ o.pwd \in Tried("outer") BY DEF Volumes, OuterHeaders, Tried
<1>8. flight' = flight /\ "outer" \in formatted' BY <1>6, <1>7, WorkFormats
<1>9. flight["Primary"] = {o} /\ flight["BackupPrimary"] = {o}
    BY <1>2, <1>5 DEF OuterMade
<1>10. o # Junk BY JunkAssumption DEF OuterHeaders
<1>11. QED BY <1>8, <1>9, <1>10

LEMMA BothFinish ==
    ASSUME SecretsApart, IInv, SecretInv, Work, Len(todo) = 1, BothInMaking
    PROVE  Volumes \subseteq formatted' /\ \A q \in Positions : Junk \notin flight'[q]
<1>1. Proceed
    BY DEF Work, DoWrite, DoFlush, DoFormat
<1>2. PICK o \in OuterHeaders, i \in HiddenHeaders, n \in 0 .. 8 :
          Behind(BothMaking(o, i), n) /\ OuterMade(o, n) /\ HiddenMade(i, n)
    BY Zenon DEF BothInMaking
<1>3. Len(BothMaking(o, i)) = 9 /\ Len(BothMaking(o, i)) \in Nat /\ n \in Nat BY BothScript
<1>4. Head(todo) = BothMaking(o, i)[n + 1] /\ Len(todo) = Len(BothMaking(o, i)) - n
    BY <1>1, <1>2, <1>3, BehindStep, Zenon
<1>5. n = 8
    <2>1. 1 = 9 - n BY <1>3, <1>4, Zenon
    <2>2. QED BY <1>3, <2>1
<1>6. Head(todo) = Format(i.pwd) BY <1>4, <1>5 DEF BothMaking
<1>7. "hidden" \in Volumes /\ i.pwd \in Tried("hidden") BY DEF Volumes, HiddenHeaders, Tried
<1>8. flight' = flight /\ formatted' = formatted \cup {"hidden"}
    BY <1>6, <1>7, WorkFormats
<1>9. flight["Primary"] = {o} /\ flight["BackupPrimary"] = {o}
    BY <1>2, <1>5 DEF OuterMade
<1>10. flight["Hidden"] = {i} /\ flight["BackupHidden"] = {i} /\ "outer" \in formatted
    BY <1>2, <1>5 DEF HiddenMade
<1>11. o # Junk /\ i # Junk BY JunkAssumption DEF OuterHeaders, HiddenHeaders
<1>12. Volumes \subseteq formatted' BY <1>8, <1>10 DEF Volumes
<1>13. \A q \in Positions : Junk \notin flight'[q]
    BY <1>8, <1>9, <1>10, <1>11 DEF Positions
<1>14. QED BY <1>12, <1>13

LEMMA Finish ==
    ASSUME SecretsApart, IInv, SecretInv, MakingInv, Work, Len(todo) = 1
    PROVE  created' # created =>
              /\ created = {} /\ created' \subseteq formatted'
              /\ \A q \in Positions : Home(q) \in created' => Junk \notin flight'[q]
<1>1. Proceed /\ ~Idle
    BY DEF Work, DoWrite, DoFlush, DoFormat, Doing
<1>2. CASE call.kind = "create"
    <2>1. created = {} /\ OuterInMaking BY <1>2 DEF MakingInv
    <2>2. created' = {"outer"} BY <1>1, <1>2, ProceedReports
    <2>3. QED BY <2>1, <2>2, OuterFinishes DEF Home, IsHidden, Positions
<1>3. CASE call.kind = "create with hidden"
    <2>1. created = {} /\ BothInMaking BY <1>3 DEF MakingInv
    <2>2. created' = Volumes BY <1>1, <1>3, ProceedReports
    <2>3. QED BY <2>1, <2>2, BothFinish
<1>4. CASE call.kind \notin {"create", "create with hidden"}
    BY <1>1, <1>4, ProceedReports
<1>5. QED BY <1>2, <1>3, <1>4

-----------------------------------------------------------------------------
(* Nobody is locked out: damage does not spread *)

LEMMA FreshStep ==
    IInv /\ FaultsInv /\ FreshInv /\ [Next]_vars => FreshInv'
<1> SUFFICES ASSUME IInv, FaultsInv, FreshInv, [Next]_vars PROVE FreshInv'
    OBVIOUS
<1>1. CASE UNCHANGED <<created, backups, faults>> BY <1>1 DEF FreshInv
<1>2. CASE Work
    <2>1. Proceed /\ ~Idle /\ backups' = backups /\ faults' = faults
        BY <1>2 DEF Work, DoWrite, DoFlush, DoFormat, Doing
    <2>2. \/ created' = created
          \/ created' \in {{"outer"}, Volumes}
        BY <2>1, ProceedReports
    <2>3. {"outer"} # {} /\ Volumes # {} BY DEF Volumes
    <2>4. QED BY <2>1, <2>2, <2>3 DEF FreshInv
<1>3. CASE Export
    BY <1>3 DEF Export, FreshInv
<1>4. CASE CallFails \/ PowerCut
    <2>1. /\ UNCHANGED <<created, backups>>
          /\ faults'.damage = faults.damage
        BY <1>4 DEF CallFails, PowerCut, Ended, FaultsInv
    <2>2. QED BY <2>1 DEF FreshInv
<1>5. ASSUME NEW q \in Positions, Damage(q) PROVE FreshInv'
    <2>1. /\ created # {} /\ UNCHANGED <<created, backups>>
          /\ faults.damage < MaxDamage /\ faults'.damage = faults.damage + 1
        BY <1>5 DEF Damage, FaultsInv
    <2>2. faults.damage \in Nat BY DEF FaultsInv
    <2>3. faults'.damage <= MaxDamage BY <2>1, <2>2, BoundsAssumption
    <2>4. QED BY <2>1, <2>3 DEF FreshInv
<1>6. CASE Call
    BY <1>1, <1>3, <1>6 DEF Call, CreateContainer, CreateWithHidden, ChangePassword,
                            RestoreFromFile, RestoreEmbedded
<1>7. CASE UNCHANGED vars BY <1>1, <1>7 DEF vars
<1>8. QED BY <1>2, <1>4, <1>5, <1>6, <1>7 DEF Next, Work

(* What is written over a clear position of a volume that was created is a
   header: only damage to the position itself makes it unclear. *)
LEMMA ClearStays ==
    ASSUME IInv, [Next]_vars, NEW q \in Positions, Home(q) \in created, Clear(q), ~Damage(q)
    PROVE  Clear(q)'
<1>1. /\ Junk \notin flight[q] /\ slot[q] \in flight[q]
      /\ \A j \in 1 .. Len(todo) : q \in DOMAIN todo[j].to => todo[j].to[q] # Junk
      /\ q \in LeadingGroup => \A b \in backups : b[q] # Junk
    BY DEF Clear, IInv, SlotInv
<1>2. CASE UNCHANGED <<slot, flight, todo, backups>> BY <1>2 DEF Clear
<1>3. CASE Work
    <2>1. Proceed /\ ~Idle /\ backups' = backups
        BY <1>3 DEF Work, DoWrite, DoFlush, DoFormat, Doing
    <2>2. /\ Len(todo') = Len(todo) - 1 /\ Len(todo) \in Nat /\ Len(todo) > 0
          /\ \A j \in 1 .. Len(todo) - 1 : todo'[j] = todo[j + 1]
          /\ Head(todo) = todo[1]
        BY <2>1, ProceedFacts DEF IInv
    <2>3. ASSUME NEW j \in 1 .. Len(todo'), q \in DOMAIN todo'[j].to
          PROVE  todo'[j].to[q] # Junk
        <3>1. j \in 1 .. Len(todo) - 1 /\ j + 1 \in 1 .. Len(todo) BY <2>2
        <3>2. todo'[j] = todo[j + 1] BY <2>2, <3>1
        <3>3. QED BY <1>1, <2>3, <3>1, <3>2
    <2>4. Junk \notin flight'[q]
        <3>1. 1 \in 1 .. Len(todo) BY <2>2
        <3>2. q \in DOMAIN Head(todo).to => Head(todo).to[q] # Junk
            BY <1>1, <2>2, <3>1
        <3>3. CASE DoWrite BY <1>1, <3>2, <3>3 DEF DoWrite
        <3>4. CASE DoFlush BY <1>1, <3>4 DEF DoFlush, Flushed
        <3>5. CASE DoFormat BY <1>1, <3>5 DEF DoFormat, device
        <3>6. QED BY <1>3, <3>3, <3>4, <3>5 DEF Work
    <2>5. QED BY <1>1, <2>1, <2>3, <2>4 DEF Clear
<1>4. ASSUME NEW old, NEW new \in Passwords, ChangePassword(old, new) PROVE Clear(q)'
    <2> DEFINE r == FoundAt(slot, Positions, old)
               h == [slot[r] EXCEPT !.pwd = new]
               a == FirstCopy(IsHidden(r))
               b == SecondCopy(IsHidden(r))
    <2>1. r \in Positions /\ slot[r] # Junk
        BY <1>4, FoundMatches DEF ChangePassword, IInv, SlotInv, Matches
    <2>2. h \in Headers
        BY <2>1 DEF IInv, SlotInv, Sound, Headers
    <2>3. /\ todo' = << Write({a}, h), Write({b}, h), Flush >>
          /\ UNCHANGED <<flight, backups>>
        BY <1>4 DEF ChangePassword, Start, Rekey, device
    <2>4. h # Junk BY <2>2, JunkAssumption
    <2> HIDE DEF r, h, a, b
    <2>5. /\ \A x : x \in DOMAIN Write({a}, h).to => Write({a}, h).to[x] = h
          /\ \A x : x \in DOMAIN Write({b}, h).to => Write({b}, h).to[x] = h
          /\ DOMAIN Flush.to = {}
        BY DEF Write, Flush, Step
    <2>6. \A j \in 1 .. Len(todo') : q \in DOMAIN todo'[j].to => todo'[j].to[q] # Junk
        BY <2>3, <2>4, <2>5
    <2>7. QED BY <1>1, <2>3, <2>6 DEF Clear
<1>5. CASE Export
    <2> DEFINE group == [r \in LeadingGroup |-> slot[r]]
    <2>1. backups' = backups \cup {group} /\ UNCHANGED <<flight, todo>>
        BY <1>5 DEF Export, device
    <2>2. q \in LeadingGroup => group[q] # Junk BY <1>1
    <2> HIDE DEF group
    <2>3. QED BY <1>1, <2>1, <2>2 DEF Clear
<1>6. ASSUME NEW b \in backups, RestoreFromFile(b) PROVE Clear(q)'
    <2>1. todo' = << WriteGroup(b), Flush >> /\ UNCHANGED <<flight, backups>>
        BY <1>6 DEF RestoreFromFile, Start, device
    <2>2. DOMAIN b = LeadingGroup BY DEF IInv, BackupInv
    <2>3. /\ q \in DOMAIN WriteGroup(b).to => WriteGroup(b).to[q] # Junk
          /\ DOMAIN Flush.to = {}
        BY <1>1, <2>2 DEF WriteGroup, Flush, Step
    <2>4. \A j \in 1 .. Len(todo') : q \in DOMAIN todo'[j].to => todo'[j].to[q] # Junk
        BY <2>1, <2>3
    <2>5. QED BY <1>1, <2>1, <2>4 DEF Clear
<1>7. CASE RestoreEmbedded
    <2> DEFINE h == slot["BackupPrimary"]
    <2>1. /\ todo' = << Write({"Primary"}, h), Flush >> /\ UNCHANGED <<flight, backups>>
          /\ h # Junk
        BY <1>7 DEF RestoreEmbedded, Start, device
    <2> HIDE DEF h
    <2>2. /\ \A x : x \in DOMAIN Write({"Primary"}, h).to => Write({"Primary"}, h).to[x] = h
          /\ DOMAIN Flush.to = {}
        BY DEF Write, Flush, Step
    <2>3. \A j \in 1 .. Len(todo') : q \in DOMAIN todo'[j].to => todo'[j].to[q] # Junk
        BY <2>1, <2>2
    <2>4. QED BY <1>1, <2>1, <2>3 DEF Clear
<1>8. CASE CallFails \/ PowerCut
    <2>1. todo' = << >> /\ backups' = backups BY <1>8 DEF CallFails, PowerCut, Ended
    <2>2. Junk \notin flight'[q] BY <1>1, <1>8 DEF CallFails, PowerCut, device
    <2>3. \A j \in 1 .. Len(todo') : q \in DOMAIN todo'[j].to => todo'[j].to[q] # Junk
        BY <2>1
    <2>4. QED BY <1>1, <2>1, <2>2, <2>3 DEF Clear
<1>9. ASSUME NEW r \in Positions, Damage(r) PROVE Clear(q)'
    <2>1. r # q BY <1>9
    <2>2. flight'[q] = flight[q] /\ UNCHANGED <<todo, backups>>
        BY <1>9, <2>1 DEF Damage, IInv, SlotInv
    <2>3. QED BY <1>1, <2>2 DEF Clear
<1>10. created # {} BY DEF Home
<1>11. CASE Call
    BY <1>4, <1>5, <1>6, <1>7, <1>10, <1>11
    DEF Call, CreateContainer, CreateWithHidden, Tried, Passwords
<1>12. CASE UNCHANGED vars BY <1>2, <1>12 DEF vars, device
<1>13. QED BY <1>3, <1>8, <1>9, <1>11, <1>12 DEF Next, Work

(* Only the last step of a creation changes what is created. *)
LEMMA CreatedGrows ==
    ASSUME SecretsApart, IInv, SecretInv, MakingInv, [Next]_vars, created' # created
    PROVE  /\ created = {} /\ todo' = << >> /\ UNCHANGED <<backups, faults>>
           /\ created' \subseteq formatted'
           /\ \A q \in Positions : Home(q) \in created' => Junk \notin flight'[q]
<1>1. Work
    BY DEF Next, Call, vars, Work, CreateContainer, CreateWithHidden, ChangePassword, Export,
           RestoreFromFile, RestoreEmbedded, CallFails, PowerCut, Ended, Damage
<1>2. Proceed /\ ~Idle /\ UNCHANGED <<backups, faults>>
    BY <1>1 DEF Work, DoWrite, DoFlush, DoFormat, Doing
<1>3. Len(todo) = 1 /\ todo' = << >> BY <1>2, ProceedReports
<1>4. QED BY <1>1, <1>2, <1>3, Finish

LEMMA SurvivalStep ==
    SecretsApart /\ OneDamage /\ IInv /\ FaultsInv /\ OpensInv /\ [Next]_vars => SurvivalInv'
<1> SUFFICES ASSUME SecretsApart, OneDamage, IInv, FaultsInv, OpensInv, [Next]_vars
             PROVE  SurvivalInv'
    OBVIOUS
<1>1. PICK D \in SUBSET Positions :
          /\ \A q, r \in D : q = r
          /\ faults.damage = 0 => D = {}
          /\ \A q \in Positions \ D : Home(q) \in created => Clear(q)
    BY DEF OpensInv, SurvivalInv
<1>2. CASE created' # created
    <2>1. /\ created = {} /\ todo' = << >> /\ UNCHANGED <<backups, faults>>
          /\ \A q \in Positions : Home(q) \in created' => Junk \notin flight'[q]
        BY <1>2, CreatedGrows DEF OpensInv, CreationInv
    <2>2. backups = {} /\ faults.damage = 0 BY <2>1 DEF OpensInv, CreationInv, FreshInv
    <2>3. \A q \in Positions : Home(q) \in created' => Clear(q)'
        BY <2>1, <2>2 DEF Clear
    <2>4. \A q \in Positions \ {} : Home(q) \in created' => Clear(q)'
        BY <2>3
    <2>5. {} \in SUBSET Positions /\ \A x, y \in {} : x = y
        OBVIOUS
    <2>6. QED BY <2>4, <2>5, Zenon DEF SurvivalInv
<1>3. ASSUME created' = created, NEW r \in Positions, Damage(r) PROVE SurvivalInv'
    <2>1. faults.damage \in Nat /\ faults.damage < MaxDamage
          /\ faults'.damage = faults.damage + 1
        BY <1>3 DEF Damage, FaultsInv
    <2>2. faults.damage = 0 /\ faults'.damage # 0
        BY <2>1, BoundsAssumption DEF OneDamage
    <2>3. D = {} BY <1>1, <2>2
    <2>4. ASSUME NEW q \in Positions \ {r}, Home(q) \in created'
          PROVE  Clear(q)'
        <3>1. Clear(q) BY <1>1, <1>3, <2>3, <2>4
        <3>2. slot[q] # Junk BY <3>1 DEF Clear, IInv, SlotInv
        <3>3. slot'[q] = slot[q] BY <1>3 DEF Damage, IInv, SlotInv
        <3>4. ~Damage(q) BY <3>2, <3>3 DEF Damage, IInv, SlotInv
        <3>5. QED BY <1>3, <2>4, <3>1, <3>4, ClearStays
    <2>5. {r} \in SUBSET Positions /\ \A x, y \in {r} : x = y OBVIOUS
    <2>6. QED BY <2>2, <2>4, <2>5, Zenon DEF SurvivalInv
<1>4. CASE created' = created /\ \A r \in Positions : ~Damage(r)
    <2>1. faults'.damage = faults.damage
        BY <1>4 DEF Next, Call, vars, CreateContainer, CreateWithHidden, ChangePassword, Export,
                    RestoreFromFile, RestoreEmbedded, DoWrite, DoFlush, DoFormat, CallFails,
                    PowerCut, FaultsInv
    <2>2. \A q \in Positions \ D : Home(q) \in created' => Clear(q)'
        BY <1>1, <1>4, ClearStays
    <2>3. QED BY <1>1, <2>1, <2>2 DEF SurvivalInv
<1>5. QED BY <1>2, <1>3, <1>4

LEMMA FormattedStep ==
    SecretsApart /\ IInv /\ CreationInv /\ [Next]_vars => CreatedVolumesFormatted'
<1> SUFFICES ASSUME SecretsApart, IInv, CreationInv, [Next]_vars PROVE CreatedVolumesFormatted'
    OBVIOUS
<1>1. CASE created' # created
    BY <1>1, CreatedGrows DEF CreationInv, CreatedVolumesFormatted
<1>2. CASE created' = created /\ (created = {} \/ formatted \subseteq formatted')
    BY <1>2 DEF CreationInv, CreatedVolumesFormatted
<1>3. created = {} \/ formatted \subseteq formatted'
    BY DEF Next, Call, vars, CreateContainer, CreateWithHidden, ChangePassword, Export,
           RestoreFromFile, RestoreEmbedded, DoWrite, DoFlush, DoFormat, CallFails, PowerCut,
           Ended, Damage
<1>4. QED BY <1>1, <1>2, <1>3

LEMMA OpensInit == Init => OpensInv
<1> SUFFICES ASSUME Init PROVE OpensInv OBVIOUS
<1>1. SecretInv BY DEF Init, SecretInv
<1>2. FreshInv BY BoundsAssumption DEF Init, FreshInv, NoFaults
<1>3. MakingInv BY DEF Init, MakingInv, NoCall
<1>4. SurvivalInv BY DEF Init, SurvivalInv
<1>5. CreatedVolumesFormatted BY DEF Init, CreatedVolumesFormatted
<1>6. QED BY <1>1, <1>2, <1>3, <1>4, <1>5 DEF OpensInv, CreationInv

LEMMA OpensFollows == SecretsApart /\ IInv /\ HistoryInv /\ OpensInv => EveryVolumeOpens
<1> SUFFICES ASSUME SecretsApart, IInv, HistoryInv, OpensInv, NEW v \in created
             PROVE  \E p \in known[v] : v \in Opened(p)
    BY DEF EveryVolumeOpens
<1> DEFINE a == FirstCopy(v = "hidden")
           b == SecondCopy(v = "hidden")
<1>1. v \in Volumes BY DEF HistoryInv
<1>2. a \in Positions /\ b \in Positions /\ a # b /\ Home(a) = v /\ Home(b) = v
    BY <1>1, HomeOfSlots
<1> HIDE DEF a, b
<1>3. PICK q \in {a, b} : Clear(q)
    BY <1>2 DEF OpensInv, SurvivalInv
<1>4. q \in Positions /\ slot[q] # Junk
    BY <1>2, <1>3 DEF Clear, IInv, SlotInv
<1>5. slot[q] \in Headers /\ slot[q].vol = v /\ slot[q].pwd \in known[v]
    BY <1>2, <1>3, <1>4 DEF IInv, SlotInv, Sound
<1> DEFINE p == slot[q].pwd
           r == FoundAt(slot, Positions, p)
<1>6. q \in Matches(slot, Positions, p) BY <1>4 DEF Matches
<1>7. r \in Matches(slot, Positions, p)
    BY <1>6, FoundMatches DEF Opens, IInv, SlotInv
<1>8. p \in Tried(v) BY <1>1, <1>5 DEF OpensInv, CreationInv, SecretInv
<1>9. slot[r].vol = v BY <1>1, <1>7, <1>8, OwnerOf DEF IInv, OpensInv, CreationInv
<1>10. v \in Opened(p) BY <1>7, <1>9 DEF Opened
<1>11. QED BY <1>5, <1>10

LEMMA CreationStep ==
    SecretsApart /\ IInv /\ FaultsInv /\ CreationInv /\ [Next]_vars => CreationInv'
BY SecretStep, FreshStep, MakingStep, FormattedStep DEF CreationInv

(* Where the two volumes have different secrets, a creation that reports
   success has laid a file system in every volume it made: format_data, which
   searches for each header again by its secret, finds the right one. *)
THEOREM CreationFormatsAll ==
    ASSUME SecretsApart
    PROVE  Spec => []CreatedVolumesFormatted
<1>1. Init => FaultsInv
    BY DEF Init, FaultsInv, NoFaults
<1>2. Init => CreationInv
    BY OpensInit DEF OpensInv
<1>3. Spec => []CreationInv
    BY <1>1, <1>2, FaultsStep, CreationStep, Invariance, PTL DEF Spec
<1>4. CreationInv => CreatedVolumesFormatted
    BY DEF CreationInv
<1>5. QED BY <1>3, <1>4, PTL

LEMMA OpensStep ==
    SecretsApart /\ OneDamage /\ IInv /\ FaultsInv /\ OpensInv /\ [Next]_vars => OpensInv'
BY CreationStep, SurvivalStep DEF OpensInv

(* Where the two volumes have different secrets and one slot is damaged at
   most, nobody is locked out: whatever calls fail half-way or are cut by the
   power, some secret the owner of a created volume knows still opens it. *)
THEOREM NobodyIsLockedOut ==
    ASSUME SecretsApart, OneDamage
    PROVE  Spec => []EveryVolumeOpens
<1>1. Init => FaultsInv /\ HistoryInv
    BY DEF Init, FaultsInv, NoFaults, HistoryInv
<1>2. Spec => []OpensInv
    BY <1>1, OpensInit, FaultsStep, OpensStep, Invariance, PTL DEF Spec
<1>3. Spec => []HistoryInv
    BY <1>1, HistoryStep, Invariance, PTL DEF Spec
<1>4. IInv /\ HistoryInv /\ OpensInv => EveryVolumeOpens
    BY OpensFollows
<1>5. QED
    BY <1>2, <1>3, <1>4, Invariance, PTL
=============================================================================
