---------------------------- MODULE VaultSession ----------------------------
(* The object that foreign callers share (vault-ffi/src/lib.rs): a Session *)
(* in a mutex, over the adapters of vc-fs.  A call waits for the mutex,    *)
(* makes its device steps one by one and leaves; lock takes the session    *)
(* out and drops it.  What the file systems do to the device is modelled   *)
(* elsewhere: here a call is which blocks it touches, in any order, where  *)
(* it may fail, and where its adapter waits for the medium.                *)
EXTENDS Naturals

CONSTANTS Callers,       \* threads that hold the object
          Nobody,        \* holder of the mutex while it is free
          Blocks,        \* blocks of the volume
          Hidden,        \* those that lie in the hidden volume
          MaxMutations   \* bound on mutating calls

ASSUME HiddenAssumption == Hidden \subseteq Blocks
ASSUME NobodyAssumption == Nobody \notin Callers
ASSUME MaxMutationsAssumption == MaxMutations \in Nat

VARIABLES kind,       \* the adapter: Vfs::kind
          shielded,   \* whether the device is a ProtectedDevice
          readOnly,   \* its latch
          view,       \* the call that wrote each block last, 0 for none
          unsynced,   \* calls with writes that no sync_data has covered
          inner,      \* whether the mutex holds a Session
          fd,         \* the descriptor, and with it the keys of the engine
          holder,     \* who is inside the mutex
          poisoned,   \* a call has panicked inside the mutex
          call,       \* the call of each caller,
          at,         \*   how far it is,
          left,       \*   the blocks it has still to read or write,
          got,        \*   what it has read,
          result,     \*   and what it returns
          entry,      \* history: view when the mutex was taken
          started     \* history: number of mutating calls made

device == <<readOnly, view, unsynced>>
work == <<at, left, got, result>>
session == <<kind, shielded, inner, fd, holder, poisoned, entry>>
vars == <<session, device, call, work, started>>

Kinds == {"Fat", "Exfat", "Ntfs"}

(* Mutating calls: "write" stands for write_at and truncate, "create" for  *)
(* create and mkdir, "remove" for unlink and rename.  "read" stands for    *)
(* list, stat and read_at; "facts" and "flush" touch nothing.              *)
Mutating == {"write", "create", "remove"}
Quiet == {"facts", "flush"}
Ops == Mutating \cup Quiet \cup {"read", "lock"}

Unread == [b \in Blocks |-> 0]
Idle == [op |-> "none", id |-> 0, blocks |-> {}]

Phases == {"idle", "waiting", "steps", "sync", "drop", "dropping", "leaving",
           "done"}
Results == {"none", "Ok", "Filesystem", "HiddenVolumeProtected", "Io",
            "Internal", "Panic"}

TypeOK ==
    /\ kind \in Kinds /\ shielded \in BOOLEAN /\ readOnly \in BOOLEAN
    /\ view \in [Blocks -> 0 .. MaxMutations]
    /\ unsynced \subseteq 0 .. MaxMutations
    /\ inner \in {"open", "taken"} /\ fd \in {"open", "closed"}
    /\ holder \in Callers \cup {Nobody} /\ poisoned \in BOOLEAN
    /\ entry \in [Blocks -> 0 .. MaxMutations]
    /\ started \in 0 .. MaxMutations
    /\ call \in [Callers -> [op : Ops \cup {"none"}, id : 0 .. MaxMutations,
                             blocks : SUBSET Blocks]]
    /\ at \in [Callers -> Phases] /\ left \in [Callers -> SUBSET Blocks]
    /\ got \in [Callers -> [Blocks -> 0 .. MaxMutations]]
    /\ result \in [Callers -> Results]

(* unlock_fd, or unlock_outer_protected_fd: shielded *)
Init ==
    /\ kind \in Kinds /\ shielded \in BOOLEAN
    /\ readOnly = FALSE /\ view = Unread /\ unsynced = {}
    /\ inner = "open" /\ fd = "open" /\ holder = Nobody /\ poisoned = FALSE
    /\ call = [c \in Callers |-> Idle]
    /\ at = [c \in Callers |-> "idle"] /\ left = [c \in Callers |-> {}]
    /\ got = [c \in Callers |-> Unread]
    /\ result = [c \in Callers |-> "none"]
    /\ entry = Unread /\ started = 0

-----------------------------------------------------------------------------
(* Errors on their way up.  A device error becomes an I/O error: one of    *)
(* its own kind if it was one, else a text (to_io, DeviceReadAt).  The     *)
(* adapters make a file-system error of every I/O error (fs_err), and      *)
(* VaultError keeps the variant (From<VcError>).                           *)
ToIo(e) == IF e = "Io" THEN "Io" ELSE "Other"
FsErr(io) == "Filesystem"
FromVc(e) ==
    CASE e \in {"Filesystem", "Io", "Internal", "HiddenVolumeProtected"} -> e

(* Fault: a catch-all arm of the conversion. *)
ReportedInternal(e) ==
    IF ToIo(e) = "Other" THEN "Internal" ELSE FromVc(FsErr(ToIo(e)))

(* Fault: an adapter lets the I/O error through as it is. *)
ReportedUnmapped(e) == ToIo(e)

Reported(e) == FromVc(FsErr(ToIo(e)))

(* Fault: only the range is tested, not the latch. *)
RefusedInRange(b) == shielded /\ b \in Hidden

(* ProtectedDevice::write_at *)
Refused(b) == readOnly \/ (shielded /\ b \in Hidden)

(* Fault: truncate and write_at of FatVfs leave the flush to Drop. *)
PromisesExfat(op) == kind = "Exfat" /\ op \in Mutating

(* Whether the adapter waits for the medium before it reports success: the *)
(* exFAT driver at the end of every mutating call, FatVfs in write_at and  *)
(* truncate.                                                               *)
Promises(op) == \/ kind = "Exfat" /\ op \in Mutating
                \/ kind = "Fat" /\ op = "write"

-----------------------------------------------------------------------------
(* A call is made.  A mutating one may have nothing to write: creating a   *)
(* file that is there (FatVfs), truncating to the same length.             *)
Begin(c) ==
    /\ at[c] = "idle"
    /\ \/ \E op \in Mutating, blocks \in SUBSET Blocks :
             /\ started < MaxMutations
             /\ started' = started + 1
             /\ call' = [call EXCEPT ![c] =
                    [op |-> op, id |-> started + 1, blocks |-> blocks]]
       \/ \E op \in Quiet \cup {"read", "lock"} :
             /\ call' = [call EXCEPT ![c] = [op |-> op, id |-> 0, blocks |-> {}]]
             /\ UNCHANGED started
    /\ at' = [at EXCEPT ![c] = "waiting"]
    /\ UNCHANGED <<session, device, left, got, result>>

(* Fault: the session is handed out and the mutex let go. *)
MayEnterAlways(c) == TRUE

(* Fault: lock does not wait for the call in progress. *)
LockNeedNotWait(c) == holder = Nobody \/ call[c].op = "lock"

(* slot.lock() *)
MayEnter(c) == holder = Nobody

(* A poisoned mutex or None inside: with_session refuses, and lock, which  *)
(* reports nothing, does nothing.                                          *)
EnterInVain(c) ==
    /\ at[c] = "waiting" /\ MayEnter(c)
    /\ poisoned \/ inner = "taken"
    /\ at' = [at EXCEPT ![c] = "done"]
    /\ result' = [result EXCEPT ![c] =
                      IF call[c].op = "lock" THEN "Ok" ELSE "Internal"]
    /\ UNCHANGED <<session, device, call, left, got, started>>

Enter(c) ==
    /\ at[c] = "waiting" /\ MayEnter(c)
    /\ call[c].op # "lock"
    /\ ~poisoned /\ inner = "open"
    /\ holder' = c
    /\ entry' = view
    /\ at' = [at EXCEPT ![c] = "steps"]
    /\ left' = [left EXCEPT ![c] =
                    IF call[c].op = "read" THEN Blocks ELSE call[c].blocks]
    /\ UNCHANGED <<kind, shielded, device, inner, fd, poisoned, call, got,
                   result, started>>

(* Fault: the guard is a temporary and ends with the take. *)
TakeAndRelease(c) == inner' = "taken" /\ UNCHANGED holder

(* guard.take() in lock; the guard lives until the session is dropped. *)
TakeSession(c) == inner' = "taken" /\ holder' = c

EnterLock(c) ==
    /\ at[c] = "waiting" /\ MayEnter(c)
    /\ call[c].op = "lock"
    /\ ~poisoned /\ inner = "open"
    /\ TakeSession(c)
    /\ entry' = view
    /\ at' = [at EXCEPT ![c] = "dropping"]
    /\ UNCHANGED <<kind, shielded, device, fd, poisoned, call, left, got,
                   result, started>>

-----------------------------------------------------------------------------
(* The result is known.  fatfs still has File objects to drop. *)
Conclude(c, answer) ==
    /\ at' = [at EXCEPT ![c] = IF kind = "Fat" THEN "drop" ELSE "leaving"]
    /\ result' = [result EXCEPT ![c] = answer]
    /\ got' = [got EXCEPT ![c] = IF answer = "Ok" THEN @ ELSE Unread]
    /\ UNCHANGED <<session, call, left, started>>

(* facts and flush make no device step, whatever the adapter. *)
AnswerQuiet(c) ==
    /\ at[c] = "steps" /\ call[c].op \in Quiet
    /\ at' = [at EXCEPT ![c] = "leaving"]
    /\ result' = [result EXCEPT ![c] = "Ok"]
    /\ UNCHANGED <<session, device, call, left, got, started>>

(* NtfsVfs refuses every mutating call. *)
RefuseNtfs(c) ==
    /\ at[c] = "steps" /\ call[c].op \in Mutating /\ kind = "Ntfs"
    /\ Conclude(c, FromVc("Filesystem"))
    /\ UNCHANGED device

ReadBlock(c) ==
    /\ at[c] = "steps" /\ call[c].op = "read"
    /\ \E b \in left[c] :
          /\ left' = [left EXCEPT ![c] = @ \ {b}]
          /\ got' = [got EXCEPT ![c] = [@ EXCEPT ![b] = view[b]]]
    /\ UNCHANGED <<session, device, call, at, result, started>>

ReadDone(c) ==
    /\ at[c] = "steps" /\ call[c].op = "read" /\ left[c] = {}
    /\ Conclude(c, "Ok")
    /\ UNCHANGED device

Writing(c) == at[c] = "steps" /\ call[c].op \in Mutating /\ kind # "Ntfs"

WriteBlock(c) ==
    /\ Writing(c)
    /\ \E b \in left[c] :
          /\ ~Refused(b)
          /\ view' = [view EXCEPT ![b] = call[c].id]
          /\ left' = [left EXCEPT ![c] = @ \ {b}]
    /\ unsynced' = unsynced \cup {call[c].id}
    /\ UNCHANGED <<session, readOnly, call, at, got, result, started>>

(* The first write into the hidden volume sets the latch. *)
WriteRefused(c) ==
    /\ Writing(c)
    /\ \E b \in left[c] : Refused(b)
    /\ readOnly' = TRUE
    /\ Conclude(c, Reported("HiddenVolumeProtected"))
    /\ UNCHANGED <<view, unsynced>>

(* An error of the device or of the file system (a name that is not there, *)
(* a full volume): the call ends with what it has done so far.             *)
DeviceFails(c) ==
    /\ at[c] = "steps" /\ (Writing(c) \/ call[c].op = "read")
    /\ Conclude(c, Reported("Io"))
    /\ UNCHANGED device

(* The exFAT driver also waits for the medium between its writes. *)
Barrier(c) ==
    /\ Writing(c) /\ kind = "Exfat" /\ unsynced # {}
    /\ unsynced' = {}
    /\ UNCHANGED <<session, readOnly, view, call, work, started>>

(* The writes are done.  A call that had none need not wait. *)
StartSync(c) ==
    /\ Writing(c) /\ left[c] = {}
    /\ Promises(call[c].op)
    /\ at' = [at EXCEPT ![c] = "sync"]
    /\ UNCHANGED <<session, device, call, left, got, result, started>>

SkipSync(c) ==
    /\ Writing(c) /\ left[c] = {}
    /\ ~Promises(call[c].op) \/ call[c].blocks = {}
    /\ Conclude(c, "Ok")
    /\ UNCHANGED device

Sync(c) ==
    /\ at[c] = "sync"
    /\ unsynced' = {}
    /\ Conclude(c, "Ok")
    /\ UNCHANGED <<readOnly, view>>

SyncFails(c) ==
    /\ at[c] = "sync"
    /\ Conclude(c, Reported("Io"))
    /\ UNCHANGED device

(* A File that is dropped syncs the device and swallows the error; calls   *)
(* in the root of a FAT12 or FAT16 volume may have no File at all.  After  *)
(* a failure it also tries to write its directory entry, which is seen as  *)
(* one of the writes before the failure: no call comes between.            *)
DropSyncs == unsynced' \in (IF kind = "Fat" THEN {unsynced, {}} ELSE {unsynced})

DropFiles(c) ==
    /\ at[c] = "drop"
    /\ DropSyncs
    /\ at' = [at EXCEPT ![c] = "leaving"]
    /\ UNCHANGED <<session, readOnly, view, call, left, got, result, started>>

(* A panic unwinds through the guard and poisons the mutex; the session    *)
(* stays in it.  A build that aborts instead ends here.                    *)
Panic(c) ==
    /\ at[c] = "steps" /\ call[c].op \notin Quiet
    /\ holder' = Nobody
    /\ poisoned' = TRUE
    /\ at' = [at EXCEPT ![c] = "done"]
    /\ result' = [result EXCEPT ![c] = "Panic"]
    /\ got' = [got EXCEPT ![c] = Unread]
    /\ left' = [left EXCEPT ![c] = {}]
    /\ DropSyncs
    /\ UNCHANGED <<kind, shielded, readOnly, view, inner, fd, entry, call,
                   started>>

(* Dropping a FAT file system writes its dirty flag and free count. *)
Unmount(c) ==
    /\ at[c] = "dropping" /\ kind = "Fat"
    /\ ~readOnly /\ 0 \notin unsynced
    /\ unsynced' = unsynced \cup {0}
    /\ UNCHANGED <<session, readOnly, view, call, work, started>>

(* The device goes last: the engine wipes its keys, the file is closed. *)
CloseDevice(c) ==
    /\ at[c] = "dropping"
    /\ fd' = "closed"
    /\ at' = [at EXCEPT ![c] = "leaving"]
    /\ result' = [result EXCEPT ![c] = "Ok"]
    /\ UNCHANGED <<kind, shielded, device, inner, holder, poisoned, entry, call,
                   left, got, started>>

(* The guard is dropped and the call returns. *)
Leave(c) ==
    /\ at[c] = "leaving"
    /\ holder' = Nobody
    /\ at' = [at EXCEPT ![c] = "done"]
    /\ left' = [left EXCEPT ![c] = {}]
    /\ UNCHANGED <<kind, shielded, device, inner, fd, poisoned, entry, call, got,
                   result, started>>

(* The caller has its answer. *)
Answered(c) ==
    /\ at[c] = "done"
    /\ call' = [call EXCEPT ![c] = Idle]
    /\ at' = [at EXCEPT ![c] = "idle"]
    /\ got' = [got EXCEPT ![c] = Unread]
    /\ result' = [result EXCEPT ![c] = "none"]
    /\ UNCHANGED <<session, device, left, started>>

Step(c) ==
    \/ Begin(c) \/ EnterInVain(c) \/ Enter(c) \/ EnterLock(c)
    \/ AnswerQuiet(c) \/ RefuseNtfs(c) \/ ReadBlock(c) \/ ReadDone(c)
    \/ WriteBlock(c) \/ WriteRefused(c) \/ DeviceFails(c) \/ Barrier(c)
    \/ StartSync(c) \/ SkipSync(c) \/ Sync(c) \/ SyncFails(c) \/ DropFiles(c)
    \/ Panic(c) \/ Unmount(c) \/ CloseDevice(c) \/ Leave(c) \/ Answered(c)

Next == \E c \in Callers : Step(c)

Spec == Init /\ [][Next]_vars

-----------------------------------------------------------------------------
(* When lock has returned, the descriptor is closed and the keys are       *)
(* wiped, also for the caller that came second and found the session gone  *)
(* (lib.rs:564-570).  A poisoned mutex is the exception.                   *)
LockedMeansGone ==
    \A c \in Callers : call[c].op = "lock" /\ at[c] = "done"
        => fd = "closed" \/ poisoned

(* Nothing reaches the device once it is closed, not even the call that    *)
(* was in progress when lock was called (lib.rs:361-370).                  *)
ClosedStaysUntouched ==
    [][fd = "closed" => UNCHANGED <<view, unsynced>> /\ fd' = fd]_vars

(* Internal tells a shell that the session is gone; a failing device or a  *)
(* refused write never looks like that (lib.rs:357, 304-330).              *)
InternalMeansGone ==
    \A c \in Callers : result[c] = "Internal" => inner = "taken" \/ poisoned

(* A mutating call of an exFAT volume, and write_at and truncate of a FAT  *)
(* volume, are on the medium when they return success, and stay there      *)
(* whatever the other threads do (exfat.rs, fat.rs:173).                   *)
AcknowledgedIsDurable ==
    \A c \in Callers :
        /\ at[c] = "done" /\ result[c] = "Ok"
        /\ \/ kind = "Exfat" /\ call[c].op \in Mutating
           \/ kind = "Fat" /\ call[c].op = "write"
        => call[c].id \notin unsynced

(* From the first refused write on the volume does not change any more,    *)
(* whichever thread writes where, and the latch is never released as long  *)
(* as the session lives (protect.rs:62-73).                                *)
LatchFreezesVolume == [][readOnly => view' = view /\ readOnly']_vars

(* The threads see one volume, call after call. *)
Inhabited == holder # Nobody
Settled == IF Inhabited THEN entry ELSE view
Unlocked == Inhabited \/ (inner = "open" /\ ~poisoned)

What(op) == CASE op \in Mutating -> "mutate"
              [] op \in Quiet -> "quiet"
              [] OTHER -> op
Request(c) ==
    CASE at[c] = "idle" -> [state |-> "idle"]
      [] at[c] = "done" ->
            [state |-> "answered", result |-> result[c], got |-> got[c]]
      [] OTHER -> [state |-> "asked", what |-> What(call[c].op), id |-> call[c].id,
                   blocks |-> call[c].blocks]

Serial == INSTANCE SerialVolume
    WITH Mutations <- 1 .. MaxMutations, content <- Settled, open <- Unlocked,
         request <- [c \in Callers |-> Request(c)]

(* Every call takes effect at once and in one order for all threads,       *)
(* reads are never torn by another thread's write, a success is complete   *)
(* (lib.rs:354-370).                                                       *)
ImplementsSerialVolume == Serial!Spec
=============================================================================
