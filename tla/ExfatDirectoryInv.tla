-------------------------- MODULE ExfatDirectoryInv --------------------------
(***************************************************************************)
(* The inductive invariants behind the theorems of ExfatDirectoryProofs:   *)
(* what a script promises about the slots it will write.  DirInv is for    *)
(* types: a directory that a caller can find must have a first cluster,    *)
(* although its entry set is written slot by slot over whatever earlier    *)
(* calls left there.  SoundInv says whose the clusters of directories are. *)
(***************************************************************************)
EXTENDS ExfatDirectory

-----------------------------------------------------------------------------
(* Slots *)

(* A file entry that says "directory", as locate reads it. *)
DirHead(s) == s.type = "file" /\ s.live /\ s.dir
LiveName(s) == s.type = "name" /\ s.live
Sound(s) == s.type = "stream" => s.first \in Clusters

(* If a file entry at index i were that of a directory, the entries behind
   it would not be read as one without a first cluster. *)
Tame(c, i) ==
    i + 2 <= PerCluster =>
        \/ ~LiveName(slot[c][i + 2])
        \/ Sound(slot[c][i + 1])

SlotsInv ==
    \A c \in Clusters : \A i \in Index :
        /\ slot[c][i].type = "stream" => i >= 2
        /\ slot[c][i].type = "name" => i >= 3
        /\ DirHead(slot[c][i]) => Tame(c, i)

-----------------------------------------------------------------------------
(* Scripts *)

Entries == FileSlots \cup StreamSlots \cup NameSlots
Writes ==
    [op : {"slot"}, at : Addresses, val : Entries]
        \cup [op : {"clear"}, at : Addresses]
        \cup [op : {"bit"}, cluster : Clusters, val : BOOLEAN]
        \cup [op : {"fat"}, cluster : Clusters, val : Clusters \cup {0, END_OF_CHAIN}]
        \cup [op : {"zero"}, cluster : Clusters]
        \cup {Flush}

(* The k-th write of script s puts an entry of the given type. *)
Puts(s, k, type) == s[k].op = "slot" /\ s[k].val.type = type
(* What is b slots before the target of the k-th write when its turn comes. *)
Back(s, k, b) ==
    IF k > b THEN s[k - b].val ELSE slot[s[k].at[1]][s[k].at[2] - b]
(* The write before the k-th one is to the slot before it. *)
NextTo(s, k) ==
    /\ s[k - 1].op = "slot"
    /\ s[k - 1].at = <<s[k].at[1], s[k].at[2] - 1>>
Zeroed(s, k) == {c \in Clusters : \E j \in 1 .. k - 1 : s[j].op = "zero" /\ s[j].cluster = c}

(* A file entry goes where no stale set can complete it; Z: clusters that
   will be zeros by the time the script starts. *)
FileFits(Z, s, k) ==
    Puts(s, k, "file") /\ DirHead(s[k].val) =>
        /\ s[k].at[1] \in Z \cup Zeroed(s, k) \/ Tame(s[k].at[1], s[k].at[2])
        /\ \A j \in 1 .. k - 1 : s[j].op = "slot" =>
              s[j].val.type # "name" /\ Sound(s[j].val)
(* A stream entry goes behind its file entry. *)
StreamFits(s, k) ==
    Puts(s, k, "stream") =>
        /\ s[k].at[2] >= 2
        /\ k > 1 => NextTo(s, k) /\ s[k - 1].val.type = "file"
        /\ DirHead(Back(s, k, 1)) => Sound(s[k].val)
(* Name entries go behind their stream entry. *)
NameFits(s, k) ==
    Puts(s, k, "name") =>
        /\ s[k].at[2] >= 3
        /\ k > 1 => NextTo(s, k) /\ s[k - 1].val.type \in {"stream", "name"}
        /\ DirHead(Back(s, k, 2)) => Sound(Back(s, k, 1))

Good(Z, s) ==
    \A k \in DOMAIN s : FileFits(Z, s, k) /\ StreamFits(s, k) /\ NameFits(s, k)

(* What a script clears is part of an entry set. *)
Erasable(s) ==
    \A k \in DOMAIN s :
        s[k].op = "clear" => slot[s[k].at[1]][s[k].at[2]].type # "system"

DirInv ==
    TypeOK /\ SlotsInv /\ todo \in Seq(Writes) /\ Good({}, todo) /\ Erasable(todo)
(* For TLC, which cannot enumerate the entries of a file slot. *)
DirInvChecked == SlotsInv /\ Good({}, todo) /\ Erasable(todo)

-----------------------------------------------------------------------------
(* The directories on a disk *)

(* Entry sets as locate sees them: u holds the slots of a disk, a is where
   the file entry is. *)
IsSet(u, a) ==
    /\ a[2] + 2 \in Index
    /\ IsFile(u[a[1]][a[2]])
    /\ u[a[1]][a[2] + 1].type = "stream"
    /\ LiveName(u[a[1]][a[2] + 2])
Sets(u) == {a \in Addresses : IsSet(u, a)}
DirOf(u, a) == u[a[1]][a[2]].dir
FirstOf(u, a) == u[a[1]][a[2] + 1].first
NameOf(u, a) == u[a[1]][a[2] + 2].name
Heads(u) == {a \in Sets(u) : DirOf(u, a)}
Alive(u) == {RootCluster} \cup {FirstOf(u, a) : a \in Heads(u)}

(* The disk as one value.  A system entry that is not in use is none that
   the driver leaves, but clearing one gives it. *)
AnySlots == Slots \cup {[type |-> "system", live |-> FALSE]}
Disks ==
    [slot : [Clusters -> [Index -> AnySlots]],
     fat : [Clusters -> Clusters \cup {0, END_OF_CHAIN}],
     bitmap : [Clusters -> BOOLEAN]]
Disk == [slot |-> slot, fat |-> fat, bitmap |-> bitmap]

(* own[c] is the first cluster of the directory that cluster c belongs to and
   pos[c] grows along its chain; clusters of no directory can be anything. *)
Kept(d, own, pos) ==
    /\ \A a \in Sets(d.slot) : DirOf(d.slot, a) <=> NameOf(d.slot, a) \in Dirs
    /\ \A a \in Heads(d.slot) : FirstOf(d.slot, a) \in Clusters \ {RootCluster}
    /\ \A f \in Alive(d.slot) : own[f] = f
    /\ \A c \in Clusters : own[c] \in Alive(d.slot) =>
          /\ d.bitmap[c]
          /\ \/ d.fat[c] = END_OF_CHAIN
             \/ d.fat[c] \in Clusters /\ own[d.fat[c]] = own[c] /\ pos[c] < pos[d.fat[c]]
(* No two entry sets are of the same directory. *)
Apart(d) ==
    \A a, b \in Heads(d.slot) : FirstOf(d.slot, a) = FirstOf(d.slot, b) => a = b
Owners == [Clusters -> Nat]
Kempt(apart) ==
    {d \in Disks : (apart => Apart(d)) /\ \E own, pos \in Owners : Kept(d, own, pos)}

(* The disk after one device write. *)
SlotsBy(u, w) ==
    IF w.op = "slot" THEN [u EXCEPT ![w.at[1]][w.at[2]] = w.val]
    ELSE IF w.op = "clear" THEN [u EXCEPT ![w.at[1]][w.at[2]].live = FALSE]
    ELSE IF w.op = "zero" THEN [u EXCEPT ![w.cluster] = [i \in Index |-> EndSlot]]
    ELSE u
FatBy(v, w) == IF w.op = "fat" THEN [v EXCEPT ![w.cluster] = w.val] ELSE v
BitsBy(b, w) == IF w.op = "bit" THEN [b EXCEPT ![w.cluster] = w.val] ELSE b
Do(d, w) ==
    [slot |-> SlotsBy(d.slot, w), fat |-> FatBy(d.fat, w), bitmap |-> BitsBy(d.bitmap, w)]

(* The writes of s, one after the other, lead from disk d to disk e, and
   every disk on the way is in S. *)
Leads(S, d, s, e) ==
    \E D \in [1 .. Len(s) + 1 -> S] :
        /\ D[1] = d /\ D[Len(s) + 1] = e
        /\ \A k \in 1 .. Len(s) : D[k + 1] = Do(D[k], s[k])

(* Two entry sets are of one directory only while it is renamed. *)
Renaming == call.kind = "rename" /\ call.path[2] \in Dirs
SoundInv ==
    /\ DirInv
    /\ Idle => todo = << >>
    /\ call.kind \in Ops \cup {"none"}
    /\ Renaming => \E m, n \in Dirs : m # n
    /\ \E e \in Kempt(TRUE) : Leads(Kempt(~Renaming), Disk, todo, e)
=============================================================================
