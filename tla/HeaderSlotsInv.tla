-------------------------- MODULE HeaderSlotsInv --------------------------
(***************************************************************************)
(* The inductive invariant behind the theorems about HeaderSlots.          *)
(***************************************************************************)
EXTENDS HeaderSlots

Home(q) == IF IsHidden(q) THEN "hidden" ELSE "outer"

(* Contents that position q may have when the owners know the secrets k. *)
Sound(x, q, k) == x = Junk \/ (x \in Headers /\ x.vol = Home(q) /\ x.pwd \in k[x.vol])

Steps == [op : Ops, to : UNION {[qs -> Contents] : qs \in SUBSET Positions},
          pwd : Passwords \cup {Junk}]
SoundSteps(k) == {s \in Steps : \A q \in DOMAIN s.to : Sound(s.to[q], q, k)}

KnownInv ==
    /\ known \in [Volumes -> SUBSET Passwords]
    /\ call \in [kind : Kinds, vol : Volumes, pwd : Passwords \cup {Junk}]

(* Every value a slot may have, now or after a power cut, is sound. *)
SlotInv ==
    /\ slot \in [Positions -> Contents]
    /\ flight \in [Positions -> SUBSET Contents]
    /\ \A q \in Positions :
          slot[q] \in flight[q] /\ \A x \in flight[q] : Sound(x, q, known)

(* Every value still to be written is sound. *)
ScriptInv == todo \in Seq(SoundSteps(known))

(* A backup holds headers of the volumes its slots belong to. *)
BackupInv ==
    \A b \in backups :
        /\ b \in [LeadingGroup -> Contents]
        /\ \A q \in LeadingGroup : b[q] # Junk => b[q] \in Headers /\ b[q].vol = Home(q)

(* change_password writes the first copy, then the second, then flushes. *)
Rekeyed(x) == x # Junk /\ x.vol = call.vol /\ x.pwd = call.pwd
Rekeys(s, q) == s.op = "write" /\ DOMAIN s.to = {q} /\ Rekeyed(s.to[q])
ChangeInv ==
    call.kind = "change" =>
        LET first == FirstCopy(call.vol = "hidden")
            second == SecondCopy(call.vol = "hidden")
        IN  /\ call.pwd \in Passwords
            /\ \/ /\ Len(todo) = 3 /\ todo[3].op = "flush"
                  /\ Rekeys(todo[1], first) /\ Rekeys(todo[2], second)
               \/ /\ Len(todo) = 2 /\ todo[2].op = "flush"
                  /\ Rekeyed(slot[first]) /\ Rekeys(todo[1], second)
               \/ /\ Len(todo) = 1 /\ todo[1].op = "flush"
                  /\ Rekeyed(slot[first]) /\ Rekeyed(slot[second])

(* The history of faults counts. *)
FaultsInv == faults \in [backup : Nat, damage : Nat, cut : Nat, failure : Nat]

IInv == KnownInv /\ SlotInv /\ ScriptInv /\ BackupInv /\ ChangeInv

-----------------------------------------------------------------------------
(* Nobody is locked out                                                    *)

(* The command line refuses one secret for both volumes. *)
SecretsApart == OuterPasswords \cap HiddenPasswords = {}
OneDamage == MaxDamage <= 1

(* The owner of a volume only ever uses secrets of that volume. *)
SecretInv ==
    /\ \A v \in Volumes : known[v] \subseteq Tried(v)
    /\ \A b \in backups : \A q \in LeadingGroup : b[q] # Junk => b[q].pwd \in Tried(b[q].vol)

(* Damage and backups only come after the creation succeeded. *)
FreshInv ==
    /\ created \in {{}, {"outer"}, Volumes}
    /\ created = {} => faults.damage = 0 /\ backups = {}
    /\ faults.damage <= MaxDamage

(* The whole scripts of the two creations, for the headers o and i. *)
OuterMaking(o) ==
    << Write(Positions, Junk), Write({"Primary"}, o), Write({"BackupPrimary"}, o), Flush,
       Format(o.pwd) >>
BothMaking(o, i) ==
    << Write(Positions, Junk), Write({"Primary"}, o), Write({"BackupPrimary"}, o), Flush,
       Write({"Hidden"}, i), Write({"BackupHidden"}, i), Flush,
       Format(o.pwd), Format(i.pwd) >>

(* The call in progress has n steps of script behind it. *)
Behind(script, n) ==
    /\ n + Len(todo) = Len(script) /\ Len(todo) > 0
    /\ \A j \in 1 .. Len(todo) : todo[j] = script[n + j]

(* What n steps of a creation leave behind for the outer, the hidden volume. *)
OuterMade(o, n) ==
    /\ n >= 2 => slot["Primary"] = o
    /\ n >= 3 => slot["BackupPrimary"] = o
    /\ n >= 4 => flight["Primary"] = {o} /\ flight["BackupPrimary"] = {o}
HiddenMade(i, n) ==
    /\ n >= 5 => slot["Hidden"] = i
    /\ n >= 6 => slot["BackupHidden"] = i
    /\ n >= 7 => flight["Hidden"] = {i} /\ flight["BackupHidden"] = {i}
    /\ n >= 8 => "outer" \in formatted

OuterHeaders == {o \in Headers : o.vol = "outer" /\ o.pwd \in OuterPasswords}
HiddenHeaders == {i \in Headers : i.vol = "hidden" /\ i.pwd \in HiddenPasswords}

OuterInMaking ==
    \E o \in OuterHeaders, n \in 0 .. 4 : Behind(OuterMaking(o), n) /\ OuterMade(o, n)
BothInMaking ==
    \E o \in OuterHeaders, i \in HiddenHeaders, n \in 0 .. 8 :
        Behind(BothMaking(o, i), n) /\ OuterMade(o, n) /\ HiddenMade(i, n)
MakingInv ==
    /\ call.kind = "create" => created = {} /\ OuterInMaking
    /\ call.kind = "create with hidden" => created = {} /\ BothInMaking

(* Position q has a header, and so has everything that may replace it. *)
Clear(q) ==
    /\ Junk \notin flight[q]
    /\ \A j \in 1 .. Len(todo) : q \in DOMAIN todo[j].to => todo[j].to[q] # Junk
    /\ q \in LeadingGroup => \A b \in backups : b[q] # Junk

(* One damaged position at most is not clear; damage spreads from it only to
   itself, through a backup that is restored. *)
SurvivalInv ==
    \E D \in SUBSET Positions :
        /\ \A q, r \in D : q = r
        /\ faults.damage = 0 => D = {}
        /\ \A q \in Positions \ D : Home(q) \in created => Clear(q)

CreationInv == SecretInv /\ FreshInv /\ MakingInv /\ CreatedVolumesFormatted

OpensInv == CreationInv /\ SurvivalInv
=============================================================================
