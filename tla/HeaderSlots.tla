---------------------------- MODULE HeaderSlots ----------------------------
(***************************************************************************)
(* The four header slots of a container (core/vc-format: lib.rs, create.rs,*)
(* repair.rs; core/vault-core/src/session.rs), the operations that write   *)
(* them and the search that reads them.                                    *)
(*                                                                         *)
(* A header is abstracted to what it unlocks: the volume whose master keys *)
(* it holds, the secret (password, PIM and keyfiles) and the key           *)
(* derivation function (PRF) it is encrypted under.  Every operation first *)
(* reads what it needs and then issues a fixed list of device steps; a     *)
(* write stays in flight until the next flush, and a power failure keeps   *)
(* any of the writes in flight.  One header is one sector and is written   *)
(* whole or not at all.                                                    *)
(***************************************************************************)
EXTENDS Naturals, Sequences, FiniteSets

CONSTANTS
    OuterPasswords,     \* the secrets tried for the outer volume
    HiddenPasswords,    \* the secrets tried for the hidden volume
    PrfCount,           \* the number of PRFs, numbered in registry order
    Junk,               \* contents of a slot that no secret opens
    MaxBackups,         \* bound on the header backups kept in files
    MaxDamage,          \* bound on the slots damaged
    MaxCuts,            \* bound on the power cuts
    MaxFailures         \* bound on the calls that fail or are killed half-way

Passwords == OuterPasswords \cup HiddenPasswords
Prfs == 1 .. PrfCount
Volumes == {"outer", "hidden"}
Positions == {"Primary", "Hidden", "BackupPrimary", "BackupHidden"}
LeadingGroup == {"Primary", "Hidden"}

(* Fault: the PRF is recorded one past its place in the registry. *)
HeaderNextPrf(v, p, f) == [vol |-> v, pwd |-> p, prf |-> f + 1]
(* build_header and write_header_copy: one encrypted header copy. *)
Header(v, p, f) == [vol |-> v, pwd |-> p, prf |-> f]
Headers == [vol : Volumes, pwd : Passwords, prf : Prfs]

ASSUME PrfAssumption == PrfCount \in Nat \ {0}
ASSUME JunkAssumption == Junk \notin Headers
ASSUME BoundsAssumption ==
    MaxBackups \in Nat /\ MaxDamage \in Nat /\ MaxCuts \in Nat /\ MaxFailures \in Nat

VARIABLES
    slot,       \* slot[p]: what a read of position p returns
    flight,     \* flight[p]: what position p may hold after a power cut
    todo,       \* the device steps the call in progress has left
    call,       \* the call in progress: its kind, its volume, the new secret
    backups,    \* the leading header groups exported to files
    formatted,  \* the volumes a file system was laid in
    created,    \* history: the volumes whose creation was reported done
    known,      \* history: known[v]: the secrets the owner of v may have to try
    faults      \* how many backups, damages, cuts and failures so far

device == <<slot, flight>>
vars == <<device, todo, call, backups, formatted, created, known, faults>>

-----------------------------------------------------------------------------
(* Searching *)

(* find_header tries the positions in this order. *)
Rank(q) == CASE q = "Primary" -> 1 [] q = "Hidden" -> 2
             [] q = "BackupPrimary" -> 3 [] q = "BackupHidden" -> 4

Matches(s, qs, p) == {q \in qs : s[q] # Junk /\ s[q].pwd = p}

(* One PRF is swept across all the positions before the next is tried. *)
TriedBefore(s, q, r) ==
    \/ s[q].prf < s[r].prf
    \/ s[q].prf = s[r].prf /\ Rank(q) <= Rank(r)

(* find_header_at: the position whose header secret p opens. *)
Opens(s, qs, p) == Matches(s, qs, p) # {}
FoundAt(s, qs, p) ==
    CHOOSE q \in Matches(s, qs, p) : \A r \in Matches(s, qs, p) : TriedBefore(s, q, r)

(* HeaderPosition::is_hidden, and the two slots of a volume. *)
IsHidden(q) == q \in {"Hidden", "BackupHidden"}
(* Fault: the copies of a hidden header go to the outer volume's slots. *)
FirstCopyOuter(hidden) == "Primary"
FirstCopy(hidden) == IF hidden THEN "Hidden" ELSE "Primary"
SecondCopy(hidden) == IF hidden THEN "BackupHidden" ELSE "BackupPrimary"
SlotsOf(v) == {FirstCopy(v = "hidden"), SecondCopy(v = "hidden")}

-----------------------------------------------------------------------------
(* Device steps *)

Step(op, to, pwd) == [op |-> op, to |-> to, pwd |-> pwd]
Write(qs, x) == Step("write", [q \in qs |-> x], Junk)
WriteGroup(group) == Step("write", group, Junk)
Flush == Step("flush", << >>, Junk)
Format(p) == Step("format", << >>, p)

Idle == todo = << >>
NoCall == [kind |-> "none", vol |-> "outer", pwd |-> Junk]
NoFaults == [backup |-> 0, damage |-> 0, cut |-> 0, failure |-> 0]

Init ==
    /\ slot = [q \in Positions |-> Junk]
    /\ flight = [q \in Positions |-> {Junk}]
    /\ todo = << >> /\ call = NoCall
    /\ backups = {} /\ formatted = {}
    /\ created = {} /\ known = [v \in Volumes |-> {}]
    /\ faults = NoFaults

Start(kind, v, p, script) ==
    /\ Idle
    /\ todo' = script
    /\ call' = [kind |-> kind, vol |-> v, pwd |-> p]

-----------------------------------------------------------------------------
(* Calls.  A call that finds no header writes nothing and is not a step.   *)

(* create_volume: random bytes in all four slots, then the two copies. *)
VolumeScript(h) ==
    << Write(Positions, Junk),
       Write({"Primary"}, h), Write({"BackupPrimary"}, h), Flush >>
HiddenScript(h) ==
    << Write({"Hidden"}, h), Write({"BackupHidden"}, h), Flush >>

(* create_container on a new, empty file *)
CreateContainer(p, f) ==
    /\ created = {}
    /\ Start("create", "outer", p, VolumeScript(Header("outer", p, f)) \o <<Format(p)>>)
    /\ known' = [v \in Volumes |-> IF v = "outer" THEN {p} ELSE {}]
    /\ slot' = [q \in Positions |-> Junk] /\ flight' = [q \in Positions |-> {Junk}]
    /\ formatted' = {}
    /\ UNCHANGED <<backups, created, faults>>

(* Fault: the hidden volume is laid out under the outer volume's secret. *)
FormatsOuterTwice(p, h) == <<Format(p), Format(p)>>
(* format_data for the outer volume, then for the hidden one. *)
Formats(p, h) == <<Format(p), Format(h)>>

(* create_container_with_hidden on a new, empty file *)
CreateWithHidden(p, f, h, g) ==
    /\ created = {}
    /\ Start("create with hidden", "hidden", h,
             VolumeScript(Header("outer", p, f)) \o HiddenScript(Header("hidden", h, g))
                 \o Formats(p, h))
    /\ known' = [v \in Volumes |-> IF v = "outer" THEN {p} ELSE {h}]
    /\ slot' = [q \in Positions |-> Junk] /\ flight' = [q \in Positions |-> {Junk}]
    /\ formatted' = {}
    /\ UNCHANGED <<backups, created, faults>>

(* Fault: the embedded backup keeps the old header. *)
RekeyFirstOnly(q, h) == << Write({FirstCopy(IsHidden(q))}, h), Flush >>
(* change_password: both copies of the volume found, then one flush. *)
Rekey(q, h) ==
    << Write({FirstCopy(IsHidden(q))}, h), Write({SecondCopy(IsHidden(q))}, h), Flush >>

(* change_password: the old secret decides the volume. *)
ChangePassword(old, new) ==
    /\ Opens(slot, Positions, old)
    /\ LET q == FoundAt(slot, Positions, old)
           v == slot[q].vol
       IN  /\ Start("change", v, new, Rekey(q, [slot[q] EXCEPT !.pwd = new]))
           /\ known' = [known EXCEPT ![v] = @ \cup {new}]
    /\ UNCHANGED <<device, backups, formatted, created, faults>>

(* export_headers *)
Export ==
    /\ Idle /\ created # {}
    /\ faults.backup < MaxBackups
    /\ backups' = backups \cup {[q \in LeadingGroup |-> slot[q]]}
    /\ faults' = [faults EXCEPT !.backup = @ + 1]
    /\ UNCHANGED <<device, todo, call, formatted, created, known>>

(* restore_from_file: the backup's primary slot must open; the whole group
   is written.  The secrets of the backup are in use again. *)
RestoreFromFile(b) ==
    /\ b["Primary"] # Junk
    /\ Start("restore", "outer", b["Primary"].pwd, << WriteGroup(b), Flush >>)
    /\ known' = [v \in Volumes |-> known[v] \cup
                     {b[q].pwd : q \in {r \in LeadingGroup : b[r] # Junk /\ b[r].vol = v}}]
    /\ UNCHANGED <<device, backups, formatted, created, faults>>

(* restore_primary_from_embedded *)
RestoreEmbedded ==
    /\ slot["BackupPrimary"] # Junk
    /\ Start("restore embedded", "outer", slot["BackupPrimary"].pwd,
             << Write({"Primary"}, slot["BackupPrimary"]), Flush >>)
    /\ UNCHANGED <<device, backups, formatted, created, known, faults>>

-----------------------------------------------------------------------------
(* One device step of the call in progress.  When it was the last one, the *)
(* call reports success.                                                   *)

Doing(op) == ~Idle /\ Head(todo).op = op

Proceed ==
    /\ todo' = Tail(todo)
    /\ IF Len(todo) > 1
       THEN UNCHANGED <<call, created, known>>
       ELSE /\ call' = NoCall
            /\ created' = CASE call.kind = "create" -> {"outer"}
                            [] call.kind = "create with hidden" -> Volumes
                            [] OTHER -> created
            /\ known' = IF call.kind = "change"
                        THEN [known EXCEPT ![call.vol] = {call.pwd}]
                        ELSE known

DoWrite ==
    /\ Doing("write")
    /\ LET to == Head(todo).to IN
           /\ slot' = [q \in Positions |-> IF q \in DOMAIN to THEN to[q] ELSE slot[q]]
           /\ flight' = [q \in Positions |->
                            IF q \in DOMAIN to THEN flight[q] \cup {to[q]} ELSE flight[q]]
    /\ Proceed
    /\ UNCHANGED <<backups, formatted, faults>>

(* Fault: the flush returns before the writes are durable. *)
FlushedNot(q) == flight[q]
(* Durably flush all prior writes. *)
Flushed(q) == {slot[q]}
DoFlush ==
    /\ Doing("flush")
    /\ flight' = [q \in Positions |-> Flushed(q)]
    /\ Proceed
    /\ UNCHANGED <<slot, backups, formatted, faults>>

(* format_data: search for the header again, lay a file system in its area. *)
DoFormat ==
    /\ Doing("format")
    /\ Opens(slot, Positions, Head(todo).pwd)
    /\ formatted' = formatted \cup {slot[FoundAt(slot, Positions, Head(todo).pwd)].vol}
    /\ Proceed
    /\ UNCHANGED <<device, backups, faults>>

-----------------------------------------------------------------------------
(* Faults *)

Ended ==
    /\ todo' = << >> /\ call' = NoCall
    /\ UNCHANGED <<backups, formatted, created, known>>

(* A write or flush fails, or the process is killed: what was written stays. *)
CallFails ==
    /\ ~Idle /\ faults.failure < MaxFailures
    /\ Ended
    /\ faults' = [faults EXCEPT !.failure = @ + 1]
    /\ UNCHANGED device

(* The power fails: any of the writes in flight may be lost. *)
PowerCut ==
    /\ faults.cut < MaxCuts
    /\ slot' \in {s \in [Positions -> UNION {flight[q] : q \in Positions}] :
                     \A q \in Positions : s[q] \in flight[q]}
    /\ flight' = [q \in Positions |-> {slot'[q]}]
    /\ Ended
    /\ faults' = [faults EXCEPT !.cut = @ + 1]

(* A slot is overwritten or decays; the repair calls exist for this. *)
Damage(q) ==
    /\ Idle /\ created # {}
    /\ faults.damage < MaxDamage
    /\ slot' = [slot EXCEPT ![q] = Junk]
    /\ flight' = [flight EXCEPT ![q] = {Junk}]
    /\ faults' = [faults EXCEPT !.damage = @ + 1]
    /\ UNCHANGED <<todo, call, backups, formatted, created, known>>

-----------------------------------------------------------------------------
Tried(v) == IF v = "outer" THEN OuterPasswords ELSE HiddenPasswords

Call ==
    \/ \E p \in OuterPasswords, f \in Prfs : CreateContainer(p, f)
    \/ \E p \in OuterPasswords, h \in HiddenPasswords, f, g \in Prfs :
          CreateWithHidden(p, f, h, g)
    \/ \E v \in Volumes : \E old, new \in Tried(v) : ChangePassword(old, new)
    \/ Export
    \/ \E b \in backups : RestoreFromFile(b)
    \/ RestoreEmbedded

Next ==
    \/ Call
    \/ DoWrite \/ DoFlush \/ DoFormat
    \/ CallFails \/ PowerCut
    \/ \E q \in Positions : Damage(q)

Spec == Init /\ [][Next]_vars
-----------------------------------------------------------------------------
(* Properties *)

Contents == Headers \cup {Junk}
Kinds == {"none", "create", "create with hidden", "change", "restore", "restore embedded"}
Ops == {"write", "flush", "format"}

TypeOK ==
    /\ slot \in [Positions -> Contents]
    /\ flight \in [Positions -> SUBSET Contents]
    /\ \A i \in 1 .. Len(todo) :
          /\ todo[i].op \in Ops
          /\ DOMAIN todo[i].to \subseteq Positions
          /\ \A q \in DOMAIN todo[i].to : todo[i].to[q] \in Contents
          /\ todo[i].pwd \in Passwords \cup {Junk}
    /\ call \in [kind : Kinds, vol : Volumes, pwd : Passwords \cup {Junk}]
    /\ backups \subseteq [LeadingGroup -> Contents]
    /\ formatted \subseteq Volumes /\ created \subseteq Volumes
    /\ known \in [Volumes -> SUBSET Passwords]
    /\ faults \in [backup : Nat, damage : Nat, cut : Nat, failure : Nat]

(* The volume secret p opens, if any. *)
Opened(p) == {slot[q].vol : q \in {r \in Matches(slot, Positions, p) :
                                     r = FoundAt(slot, Positions, p)}}

(* A volume that was created stays reachable: whatever calls are cut short
   by failures or power cuts, and even with one slot damaged, some secret
   its owner knows of still opens it. *)
EveryVolumeOpens ==
    \A v \in created : \E p \in known[v] : v \in Opened(p)

(* A secret that change_password has replaced opens its volume no more, in
   any slot and after any power cut, unless a backup brings it back. *)
OnlyKnownSecretsOpen ==
    \A q \in Positions : slot[q] # Junk => slot[q].pwd \in known[slot[q].vol]

(* change_password returns success only when both copies of the header are
   under the new secret and on the medium, a damaged one included:
   "rewritten together ... (and a damaged primary is repaired in passing)". *)
ChangeRewritesBothCopies ==
    [][call.kind = "change" /\ Idle' /\ faults' = faults =>
          \A q \in SlotsOf(call.vol) :
             slot'[q] # Junk /\ slot'[q].pwd = call.pwd /\ flight'[q] = {slot'[q]}]_vars

(* A creation that reports success leaves a file system in every volume:
   "one to format the outer FAT, one to format the hidden FAT". *)
CreatedVolumesFormatted == created \subseteq formatted

=============================================================================
