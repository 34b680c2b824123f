-------------------------- MODULE ContainerFilesInv --------------------------
(***************************************************************************)
(* Why a creation makes what it promises: how far the call has come in its *)
(* script, and what that says about the file.                              *)
(***************************************************************************)
EXTENDS ContainerFiles

HeaderOf(c, v) == IF v = "outer" THEN OuterHeader(c) ELSE HiddenHeader(c)
CopyOf(c, v, o) == Sealed(HeaderOf(c, v), c.prf, Schemes[c.scheme], SecretOf(c, v), c.pim, o)
CopyPlaces(c, v) ==
    IF v = "outer" THEN {0, c.size - GROUP} ELSE {HIDDEN_OFFSET, c.size - HIDDEN_OFFSET}

FsOrder(c) == IF c.fs = "exFAT" THEN WriteOrder ELSE FatOrder

(* The volumes whose size passes the checks. *)
Passed(c, v) == v \in Volumes(c) /\ SizeFits(c) /\ (v = "hidden" => HiddenFits(c))

SecretsDiffer(c) == c.hidden => SecretOf(c, "outer") # SecretOf(c, "hidden")

-----------------------------------------------------------------------------
(* Where a script has what *)

Parted(c) == IF c.fs = "exFAT" THEN 6 ELSE 3
(* The last step before those of create_volume. *)
Opening(c) == IF c.via = "cli" THEN 3 ELSE IF c.hidden THEN 2 ELSE 1
Finding(c, v) ==
    Opening(c) + (IF c.hidden THEN 15 ELSE 9) + (IF v = "outer" THEN 0 ELSE Parted(c) + 5)
LastVolume(c) == IF c.hidden THEN "hidden" ELSE "outer"
LastFlush(c) == Finding(c, LastVolume(c)) + Parted(c) + 2
ScriptLen(c) == LastFlush(c) + (IF c.hidden THEN 1 ELSE 0)

(* The steps that are done. *)
Past == ScriptLen(call) - Len(todo)
GoingWell == call \in Requests /\ result = "ok" /\ damage = 0

-----------------------------------------------------------------------------
(* The invariant *)

CallInv ==
    \/ call = NoCall /\ result = "none" /\ damage = 0 /\ todo = <<>> /\ handles = <<>>
    \/ call \in Desktop /\ result = "desktop" /\ todo = <<>> /\ handles = <<>>
    \/ call \in Requests /\ result \in {"ok", "failed", "killed"} /\ ~GoingWell /\ todo = <<>>
    \/ GoingWell /\ Past \in 0 .. ScriptLen(call)
       /\ todo = SubSeq(Script(call), Past + 1, ScriptLen(call))

NumbersInv == len \in Nat /\ damage \in 0 .. MaxDamage /\ unsynced \in BOOLEAN

(* Every copy in the file is one the call has sealed, at its place, or the
   container was made elsewhere. *)
CopyInv ==
    /\ call = NoCall => DOMAIN at = {}
    /\ \A o \in DOMAIN at :
        /\ o \in Nat
        /\ at[o].spoilt \subseteq {"salt", "magic", "fields", "keys"}
        /\ damage = 0 => at[o].spoilt = {}
        /\ call \in Desktop =>
            at[o] = [Sealed(call.plain, call.prf, Schemes[call.scheme], SecretOf(call, "outer"),
                            call.pim, o) EXCEPT !.spoilt = at[o].spoilt]
        /\ call \in Requests =>
            \E v \in Volumes(call) :
                Passed(call, v) /\ o \in CopyPlaces(call, v)
                /\ at[o] = [CopyOf(call, v, o) EXCEPT !.spoilt = at[o].spoilt]

(* What was checked before the steps that are left, and what is written. *)
HeadersInv ==
    GoingWell =>
        /\ Past > Opening(call) => SizeFits(call)
        /\ Past > Opening(call) + 4 => len >= call.size - GROUP
        /\ Past > Opening(call) + 5 => 0 \in DOMAIN at
        /\ Past > Opening(call) + 6 => call.size - GROUP \in DOMAIN at
        /\ call.hidden =>
            /\ Past > Opening(call) + 8 => HiddenFits(call)
            /\ Past > Opening(call) + 9 => HIDDEN_OFFSET \in DOMAIN at
            /\ Past > Opening(call) + 10 => call.size - HIDDEN_OFFSET \in DOMAIN at
        /\ unsynced => Past < LastFlush(call)

(* The volume found last is the one the search finds, and it fits; what is
   laid belongs to the volumes found. *)
Found(v) == Search(call, v).header
Present(q, h) == Laid(q, h) \in laid \/ Overlaid(Laid(q, h))
FormatInv ==
    GoingWell =>
        /\ \A v \in Volumes(call) :
            /\ Past >= Finding(call, v) => Search(call, v).out = "found"
            /\ Past >= Finding(call, v)
               /\ (v = "outer" => ~call.hidden \/ Past < Finding(call, "hidden")) => target = Found(v)
            /\ Past > Finding(call, v) => FsFits(call, Found(v))
            /\ \A i \in 1 .. Parted(call) :
                    Past > Finding(call, v) + i => Present(FsOrder(call)[i], Found(v))
        /\ \A p \in laid : \E v \in Volumes(call) :
                Past >= Finding(call, v) /\ p.header = Found(v)

(* What is laid was laid for a header of the call that its file system fits. *)
LaidInv ==
    \A p \in laid :
        /\ call \in Requests
        /\ \E v \in Volumes(call), i \in 1 .. Parted(call) :
            /\ Passed(call, v) /\ FsFits(call, HeaderOf(call, v))
            /\ p = Laid(FsOrder(call)[i], HeaderOf(call, v))

FileInv == CallInv /\ NumbersInv /\ CopyInv /\ HeadersInv /\ FormatInv /\ LaidInv /\ BootMeansComplete
=============================================================================
