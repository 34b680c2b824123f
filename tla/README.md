# Verification of VaultPonyCore

This directory holds TLA+ specifications of the storage core of VaultPonyCore,
the TLC configurations that check them on small instances, and proofs for
TLAPS of the results that hold for every instance. Paths are relative to the
repository; `write.rs`, `alloc.rs`, `fat.rs` and `dir.rs` are in
`core/norse-exfat/src`.

    tlc -config VolumeAll.cfg MCExfatVolume     one run (module and cfg: PROJECT.json)
    tlapm ExfatVolumeProofs.tla                 the proofs of one module

## 1. The system

VaultPony opens, creates and edits VeraCrypt containers. A container is one
file: a header group (128 KiB) at either end, the encrypted data area of the
outer volume between them, and perhaps a hidden volume at the end of that
area. A stack of synchronous components turns file operations into writes of
that file:

    vault-ffi / vaultpony-cli        VaultSession: a Session behind a mutex
      vault-core  Session            create, unlock, unlock with protection, lock
        vc-fs  Vfs                   adapters over exFAT, FAT (vendored), NTFS (read-only)
          norse-exfat                the exFAT driver: directories, FAT, bitmap, data
        vc-format  ProtectedDevice   refuses outer writes into the hidden volume
        vc-format  DecryptedDevice   XTS units over the data area
        vc-format  find_header, create, repair    the four header slots
          vc-io  BlockDevice         FileDevice, RawFdDevice: read, write in place, flush

Every call runs on its caller's thread from start to end; there is no
background work, no callback that changes state (`on_progress` only reports)
and no retry. The only concurrency is between threads that share a
`VaultSession`, and they meet at its mutex. What makes the system hard is
below the calls: a call is dozens of device writes, a power cut or a kill may
come between any two, a volume may fill up in the middle, and the same blocks
are used again by other calls in an order that nobody planned.

| component | state it keeps | operations | what makes it hard | what makes it correct |
|---|---|---|---|---|
| norse-exfat, file data (`write.rs`, `alloc.rs`, `fat.rs`) | bitmap, FAT, entry of each file, clusters | create, write with gap, extend, shrink, empty, remove, rename | many device writes per call; power cuts; chains reused by other files; full volume | chains apart and marked, committed files readable, nothing lost, bytes as written |
| norse-exfat, directories (`write.rs`, `dir.rs`) | slots of each directory, its chain, the length in its own entry | create, mkdir, remove, rename, growth, listing | a name is several slots; two readers with different rules; slots reused; growth | both readers see one tree of names, no half effects, no lost clusters |
| vc-format, header slots (`lib.rs`, `create.rs`, `repair.rs`) with creation in `session.rs` | four header slots | create, create with hidden, change password, back up, restore, restore from the embedded copy, search | two copies rewritten in place with one flush; damaged copies; failing calls; old backups | nobody is locked out, replaced secrets are dead, success means complete |
| vc-format, data areas (`decrypted.rs`, `protect.rs`) | container bytes, the shielded range, the latch | read, write, refuse, format, unlock protected | partial units; three systems of coordinates; two keys over one area | writes change the bytes they name, the hidden volume survives |
| vault-ffi `VaultSession` | the session behind a mutex | calls of several threads, lock | lock against calls in progress; which calls are durable | calls take effect one at a time, nothing after lock, durable calls are durable |
| vc-fs adapters, detection | file-system object, position of a stream | forwarding, mapping of errors | no-op flushes, errors that change on the way up | errors reach the caller as what they are |
| norse-exfat mounting, reading, formatting, up-casing | geometry, up-case table | open, lookup, read, format | arithmetic at boundaries | a formatted volume opens, lookups ignore case |
| vc-format header parsing, vc-types, vc-crypto | none | registries, key derivation, XTS, keyfile pool, verdicts | fifteen schemes and five PRFs tried over four places; damaged copies; a 32-bit iteration count | what was sealed is found, and the verdict is true |
| vc-io | descriptor | read, write, flush, ownership | who closes a descriptor | closed once |
| making a container (`vault-ffi` free functions, `vaultpony-cli`) | the file, its length, descriptors | create, create with hidden | dozens of steps that fail one by one; a kill between any two; other threads' descriptors | success means complete, nothing mounts half made |
| fuzz targets, fixture generator | none of their own | | | |

The hazards of this code, each at the line where it bites, with the properties
that watch it, are listed in `PROJECT.json`.

## 2. The modules

| module | models | kind |
|---|---|---|
| `FileStore` | what file operations promise: named byte sequences | abstract specification |
| `ExfatVolume` | `write.rs`, `alloc.rs`, `fat.rs` for the files of a directory | detailed specification |
| `ExfatVolumeInv`, `ExfatVolumeProofs` | its inductive invariant, its theorems on types and on which clusters are whose | proofs |
| `ExfatStoreInv`, `ExfatStoreProofs` | the larger invariant, the theorems on lengths, leaks and bytes, the refinement of `FileStore` | proofs |
| `ExfatCache` | the same driver over a write cache that a power failure empties in any order | composition of `ExfatVolume` with a device |
| `ExfatCacheInv`, `ExfatCacheProofs` | its inductive invariant, its theorems | proofs |
| `MachineWords` | u32 and u64 as a release build computes with them | operators |
| `ExfatFormat` | `format.rs` and what `boot.rs` accepts: the layout of a volume of any length | operators; their theorem is in `ContainerFilesProofs` |
| `DirectoryTree` | what directory operations promise: a tree of names | abstract specification |
| `ExfatDirectory` | `write.rs`, `dir.rs` for entry sets, slot by slot | detailed specification |
| `ExfatDirectoryInv`, `ExfatDirectoryProofs` | its inductive invariants, its theorems on types and on which clusters are whose | proofs |
| `HeaderSlots` | `vc-format/lib.rs`, `create.rs`, `repair.rs`, creation in `session.rs` | specification |
| `HeaderSlotsInv`, `HeaderSlotsProofs` | its inductive invariant, its theorems | proofs |
| `HeaderSearch` | registries, keyfiles, keys, layers, `parse.rs`, `find_header` | operators; their theorem is in `ContainerFilesProofs` |
| `ContainerFiles` | creation in `vault-ffi`, `vaultpony-cli`, `session.rs`, `create.rs` over a file and descriptors | composition of `HeaderSearch` and `ExfatFormat` |
| `ContainerFilesInv`, `ContainerFilesProofs` | its inductive invariant, its theorems, those of `HeaderSearch` and `ExfatFormat` | proofs |
| `TwoVolumes` | what a container with a hidden volume promises: two arrays of bytes | abstract specification |
| `OuterProtection` | `decrypted.rs`, `protect.rs`, layout in `create.rs`, sessions in `session.rs` | detailed specification |
| `OuterProtectionProofs` | its theorems | proofs |
| `SerialVolume` | what a shared session promises: calls that take effect one at a time | abstract specification |
| `VaultSession` | `vault-ffi/src/lib.rs`, the adapters of `vc-fs`, the latch, `lock` | detailed specification |
| `VaultSessionInv`, `VaultSessionProofs` | its inductive invariant, its theorems | proofs |
| `MC...` | instances for TLC (symmetry sets) | |

Some definitions come in two forms, the second one with the comment "Fault:".
The fault is what a plausible bug in the same code would make of the
definition; putting it in the place of the other makes a property fail, and
`PROJECT.json` lists which one. No specification uses a fault.

### ExfatVolume

`bitmap`, `fat`, `data` and `dir` are the medium; `pc`, `call`, `chain`,
`got`, `linked`, `todo`, `cur` and `pos` are the locals of the call in
progress; `mishap` and `cuts` are history. A call (`Create`, `WriteFile`,
`Extend`, `Shrink`, `Remove`, `Rename`) does its first step and `Advance`
makes the others, one action per device write or loop iteration and in the
code's order:

    write     read the chain -> take clusters -> link them -> hang them on the
              tail -> fill the gap, write the data -> flush -> publish -> flush
    shrink    read the chain -> cut it -> (bit, FAT entry) of each cluster -> publish -> flush
    remove    clear the entry -> flush -> walk the chain -> free each cluster -> flush
    rename    place the new entry -> flush -> clear the old one -> flush

Errors leave a call where the code does (`AllocFails`, `WalkFails`,
`ReadChainFails`, `WritePastChain`, `FreeBitFails`, and `CutPanics` for an
index out of bounds), with what was written so far on the medium. Truncation
to nothing (`"empty"`) is a call of its own because it frees clusters by
position. The directory has one slot per name: an entry set is one unit here,
its slots are in `ExfatDirectory`. Cluster contents are bytes; `Noise` is what
was there before.

### ExfatCache

The variables and steps of `ExfatVolume`, and `flight`: for each FAT entry,
bitmap bit, entry set and data cluster the values it was given since the last
flush, and the one it had then. `Lose` is a power failure: it picks one value
for each location, in every combination. A kill (`PowerCut`) ends the process
and loses nothing. `Barriers` are the statements of the driver that wait for the device;
there, and nowhere else, `flight` settles. `writer` is history: the file whose
call wrote a byte of a cluster. It is forgotten when the allocator takes the
cluster (`Taken`), follows a file to its new name (`Renamed`), and is lost and kept
by a failure like the bytes themselves, so that a byte a deleted file left in a
reused cluster has no writer or another one. The driver then goes on with
whatever it finds: the properties speak of the volume after the failure, too,
and of the calls made on it. `harmed` is history; it marks the steps after
which no promise is made (section 6).

### ExfatFormat

The numbers of `format`, one definition per `let` of the code, as functions of
the length of the volume in bytes; `Extent` says which sectors each of its six
writes covers, `WriteOrder` in which order, `Stored` what the 32-bit fields of the
boot region keep of the numbers, `BootAccepted` what the reader asks of these,
`SoundLayout` what a reader and the allocator rely on.

### HeaderSearch

Ciphers and hashes are symbols. A derived key is a function from slices to
tuples that say what they were derived from, so that two keys are equal exactly
when everything that went into them is; a scheme takes its primary and secondary
slices from it as `SchemeXts::new` does. A sealed header carries its coats in
the order they were put on; `Decrypt` takes them off from the last, and a coat
that is not the outermost leaves garbage. `Parse` is the cascade of checks with
the verdict of each, `TrySchemes` all schemes over one copy, `FindHeader` the
sweep over PRFs and places. What is spoilt in a copy is its salt, its magic
(first cipher block), its fields or its keys.

### ContainerFiles

`len` and `at` are the file of the host: its length and the sealed headers by
offset. `laid` has the parts of file systems that are intact in it, as byte
ranges; what is written over them takes them out. A call becomes a list of
steps (`Script`), one per system call or device write; an action takes the
first one off, `Fail` may end the call at any, `Kill` the process.

    library        set_len (its error ignored) -> noise in four places -> header copies -> flush
                   -> find the header by the secret -> fit -> parts of the file system -> flush
    command line   truncate, set_len, open -> the same
    with hidden    a device of its own for each pass: headers, outer format, hidden format

`fds` is the descriptor table with owners, `handles` what the call will close,
`stray` tells that it closed what was not its own; another thread opens and
closes a descriptor in between. `Damage` spoils parts of the headers of a
finished container, one of ours or one of another program (`Desktop`).

### ExfatDirectory

`slot[c][i]` is the i-th 32-byte slot of a cluster, next to `fat` and
`bitmap`. A name is a run of slots: file entry, stream entry, name entries. A
call reads the disk, decides and writes, and nothing can run in between, so
the action `Call` turns what the call read into the script `todo` of its
device writes; `DoSlot`, `DoClear`, `DoZero`, `DoFat`, `DoBit` and `DoFlush`
then make them one at a time, and `PowerCut` may stop them after any. A call
that the code refuses before its first write changes nothing and is no step.
Both readers are modelled as they are: `Locate` (the write path, `write.rs`)
walks whole chains, stops at an end mark and trusts every set;
`RawEntries`/`ListFails` (`read_directory`) stop at the length in the
directory's own entry and check every set. A checksum is what it was computed
over. A free cluster starts out zeroed or full of bytes that look like the
start of an entry set (`Fresh` excludes these). Files have no clusters here and `update` is the entry
rewrite of a write.

`TreeView` and `RequestView` map it to `DirectoryTree`: a name appears with
the last slot written and goes with the first slot cleared.

### HeaderSlots

A header is what it unlocks: its volume, the secret (password, PIM, keyfiles)
and the PRF it is under. `slot` is what a read returns and `flight` what may
be there after a power cut: a write adds a value, a flush leaves one, a cut
picks any. A call reads what it needs and issues its list of writes, flushes
and formattings (`todo`). `CallFails` is a device error or a kill;
`Damage` spoils a slot outside a call. The search (`FoundAt`) is the code's:
one PRF is swept over all slots before the next is tried. `known[v]` is
history: the secrets the owner of v may have to try, that is the current one,
those of a change that did not return, and those a restored backup brings back.

### OuterProtection

A byte of the container is a pair: the key its cipher block was last encrypted
under, and its plaintext. Read under another key it is `Scrambled`. A write is
widened to whole units that are decrypted, changed and encrypted again
(`Span`, `UnitsOf`, `Plain`, `Encrypted`); `WriteCut` keeps any units of it.
`IntersectsProtected`, `RefuseWrite` and `readOnly` are `ProtectedDevice`.
Sessions (`Unlock`, `UnlockProtected`, `Lock`) write anything anywhere a file
system could: any offset and length, also outside the volume, where
`InBounds` refuses. Formatting is reduced to the boot sector. `View` and
`Region` map it to `TwoVolumes`.

### VaultSession

Each caller (a thread) has one call at a time: `call` is what it asked for,
`at` how far it is, `left` the blocks it has still to read or write, `got` what
it read, `result` its answer. `holder` is the guard of the mutex, `inner` the
`Option` in it, `fd` the descriptor with the keys, `poisoned` what a panic
leaves.

    Begin -> wait -> Enter -> blocks one by one -> sync -> drop the Files -> Leave -> Answered
                  -> EnterInVain (poisoned, or the session is gone)
                  -> EnterLock -> Unmount -> CloseDevice -> Leave

A call is the set of blocks it writes, in any order, with an error possible
before each (`DeviceFails`, also for "no such file") and a panic too. What
depends on the adapter is kept: NTFS refuses; exFAT waits for the medium
between its writes and at the end; FAT only in `write_at` and `truncate`
(`Promises`), while its destructors may sync and swallow the error
(`DropSyncs`). `unsynced` holds the calls with writes that no `sync_data` has
covered, `readOnly` is the latch. `Reported` is the way of an error through
`to_io` (`ToIo`), `fs_err` (`FsErr`) and `From<VcError>` (`FromVc`).

`SerialVolume` has `content`, `open` and one `request` per caller, and gives a
call its whole effect in one step. Under the mapping the content is that of the
last moment the mutex was free (`Settled`), so a call takes effect when it
leaves; a call that fails or panics has written some of its blocks, a success
all of them, and a read returns one content.

## 3. The runs

| run | properties | bounds | shows |
|---|---|---|---|
| VolumeAll | NoSharedClusters, LiveClustersAllocated, NoLostClusters, ImplementsFileStore | 2 files, 2 clusters of 2 bytes, 2 byte values, 1 cut of a create, write or remove; all calls but empty | offsets, gaps, partial clusters, reuse of freed and of lost clusters; nothing leaks but by a cut |
| VolumeCached | CommittedChainsApart, OnlyWrittenBytes, LossHitsOnlyTheCall, KeepsFileStore, EveryCallReturns | 2 files of up to 2 bytes, 3 clusters of 1 byte, 1 failure or kill, every call, before and after it | no order of the cached writes hurts a committed file; finished calls stay; calls end even on damaged chains |
| VolumeEmptyFragmented | LiveClustersAllocated: violated | 2 files, 4 clusters | finding 1 |
| VolumeShrinkCut | CommittedFilesReadable: violated | 2 files, 4 clusters, 1 cut | finding 2 |
| Directory | TypeOK, ReadersAgree, NoLostDirectoryClusters, CreatedIsFound, ImplementsTree | 2 files, 2 directories, 4 clusters of 4 slots, stale free clusters, no cut | slots are a tree of names, through growth and reuse until the volume is full |
| DirectoryCut | NamesUnique, DirectoriesSound, KeepsTree | 2 files, 1 directory, sets of 4 slots in 3 clusters of 8, 1 cut | no half effect is ever found and no other name is lost, whichever slot write was the last; new sets lie across torn ones and may be out of sight |
| DirectoryEndMark | CreatedIsFound: violated | 1 short name, 4 slots in a cluster, 3 system entries | finding 3 |
| HeaderCopies | TypeOK, EveryVolumeOpens, OnlyKnownSecretsOpen, CreatedVolumesFormatted, ChangeRewritesBothCopies | 3 + 2 secrets, 1 PRF, one each of backup, damage, cut, failure | nobody locked out, replaced secrets dead |
| Protection | TypeOK, HeadersUntouched, KeepsTwoVolumes, CreatedVolumesOpen | 20 bytes, units of 4, cipher blocks of 2, hidden sizes 4 and 12 (too large), 2 writes of any offset and length | two independent arrays; protection shields exactly the hidden one |
| ProtectionMargin | CreatedVolumesOpen: violated | hidden size 8 of 12 | finding 4 |
| Session | TypeOK, LockedMeansGone, InternalMeansGone, AcknowledgedIsDurable, ClosedStaysUntouched, LatchFreezesVolume, ImplementsSerialVolume | 2 threads, 3 blocks (one hidden), 2 mutating calls, any number of others; every adapter, with and without protection | calls are serial, lock is final, durable calls are durable, the latch freezes the volume |
| Containers | TypeOK, CreatedOpens, BootMeansComplete, VerdictsAreHonest, DescriptorsSettled, VolumesKeepToTheirAreas, LayoutsAreSound | 21 requests, 6 foreign headers, 3 descriptors, 2 spoilt parts, all schemes, places and PRFs | success means complete and findable, verdicts are true, nothing half made mounts, descriptors are closed once |

Why these bounds are enough for what they show:

- Two files and three or four clusters are the least in which a chain is
  fragmented by another file, the allocator's hint wraps, a freed cluster is
  taken over by the other file and a growing call runs out of space half-way.
  With three files nothing new can happen to a pair, which is all that
  `NoSharedClusters` speaks of; for all sizes it is a theorem.
- One cut is the interesting number: the medium after it is a starting point
  for every later call, and the runs continue after it. A second cut only
  matters where the first one leaves damage, which the proofs exclude for
  every number of cuts where they apply.
- Clusters of two bytes tell the first, an inner and the last byte of a cluster
  apart. `Protection` has five units of two blocks, so that a write starts and
  ends before, at, inside and behind units, blocks, volumes and the hidden
  area.
- In `Directory` a cluster holds one entry set (four slots: names of two
  name entries), so that every second name makes its directory grow and four
  clusters are used up; system entries (bitmap, up-case table, label,
  volume identifier) fill the first cluster of the root. Sets that do not fill
  a cluster exactly make the code fail without any cut (finding 3), which is why
  the passing runs avoid them. `Directory` starts with free clusters of zeros and
  with stale ones, `DirectoryCut` with zeros (section 6 says why).
- In `DirectoryCut` a cluster holds two such sets. A set that is cut short after
  one, two or three slots leaves the others free, so that the next run of four
  starts inside it and ends behind it, and what is then left of the cluster is too
  small for a set and holds end marks. Both readers step over a set placed there:
  a call that makes or renames a name to it returns success and the name is not
  found (section 6). `KeepsTree` is `ImplementsTree` but for these effects
  (`PlacedUnseen`), which may occur after a cut only: they take nothing away but
  the name that the call itself gives, and nothing placed like that appears later.
  `CHECK_DEADLOCK FALSE`: on a full volume every call may be refused, and then
  nothing happens.
- `Session` needs two threads (one inside the mutex, one that waits or locks)
  and two mutating calls (so that one may overwrite the other, or trip the latch
  the other runs into); three blocks, so that a call writes two outside the
  hidden volume and one inside it, in any order. `MaxMutations` bounds only the
  mutating calls: reads, `facts`, `flush` and `lock` are called for ever.
- In `VolumeAll` two clusters are enough for a file that crosses a cluster
  boundary, for a full volume that fails an allocation half way, and for two
  files that take turns with the same clusters; chains of more files and
  clusters are what `VolumeCached` and the theorems are about. `CutKinds` keeps
  its cut to calls that leave a volume the abstract store allows: a cut shrink is
  finding 2, a cut rename leaves two names (section 6). `VolumeCached` cuts
  every call.
- In `VolumeCached` a cluster is one byte and there is one byte value: who
  wrote a byte is told by `writer`, so that one value is enough, and offsets inside clusters are the business of `VolumeAll`. The
  bitmap is as long as the heap. One failure, because the calls after it run on
  what it left, and the second only matters where the first did harm.
- `Containers` has real byte offsets. Its sizes are a file shorter than its
  headers, an empty data area, the smallest exFAT volume and one sector less, a
  volume whose clusters just fill a FAT sector, hidden volumes that leave the
  outer one room, none at all, or do not fit, an exFAT volume of 300 MiB, which has
  larger clusters, and FAT volumes below 4 MiB, of 8 MiB and of 512 MiB, of which the
  vendored driver makes FAT12, FAT16 and FAT32. Two hidden sizes are so close to the
  end of the 64-bit numbers that the sum in the check of `create_hidden` wraps. The
  layout for every length is the theorem `LayoutIsSound`. TLC computes with 32 bits:
  `Word` is 2^21 instead of 2^32, so that a PIM of 2200 wraps and the largest volume
  still has fewer sectors, `LongWord` is 3 * 2^29 instead of 2^64, and `Memory`, what no
  vector can have, is less than the FAT of a volume of that size and more than any
  other FAT of the run.
  Two spoilt parts (`MaxDamage`) can take one copy or a bit of both. Between
  them the requests use every PRF and eleven of the fifteen schemes, and
  the search tries every one of them at each copy.
  `CHECK_DEADLOCK FALSE`: a container is made once.
- `SYMMETRY` exchanges descriptor numbers in `Containers`, callers with callers in `Session`, and elsewhere file
  names with file names and directories with directories; nothing is compared
  with anything but its own kind, and these runs check no liveness.

Fairness: only the file driver claims liveness (`EveryCallReturns`), in
`ExfatVolume` under `WF_vars(Advance)` and in `ExfatCache`, where the run is,
under `WF_cacheVars(CacheAdvance)`: a call runs on its caller's thread and nothing in the
driver waits, so its next step is taken unless the power fails, which no
fairness forces or forbids. New calls are never required. The other
specifications claim safety only.

## 4. The proofs

All are checked by `tlapm` down to the last leaf; the assumptions are the named
`ASSUME`s of the modules, which TLC evaluates in the runs, and what a theorem
assumes in its own statement.

**ExfatVolumeProofs.** `TypeCorrect`: `Spec => []TypeOK`. `TypeOK` alone is not
inductive, since a loop indexes its vector: `LoopsInv` says that the vector is
not empty where it is indexed. `ChainsStayApart`:
`ASSUME SoundOps PROVE Spec => [](NoSharedClusters /\ LiveClustersAllocated)`,
for any number of files, clusters, calls and power cuts. The inductive
invariant is `IInv` of `ExfatVolumeInv`. Why it is needed: that two chains are
disjoint says nothing of the clusters a call has taken but not linked, of the
chain behind the published length, of a chain whose entry is cleared but whose
bits are not. `AllocInv`, `PublishInv` and `FreeInv` say of those that they are
nobody's; `ReadInv` ties the vector read at the start of a call to the FAT as
it still is; `Paths` (no two clusters of a chain have the same successor) makes
a chain that is cut fall into two disjoint parts. `Tree(f, c)`, the clusters
reachable from c in the table f, is a least closed set, so that no induction
over chains is needed: `TreeLeast`, `TreeShrinks` and their like are all that
the steps use. `SoundOps` leaves out what really breaks the invariant: freeing
by position (finding 1) and renames cut in half (two names on one chain); the
calls themselves, renames included, may come before and after any other cut.
`EntriesLeadToLiveClusters` (`ASSUME SoundOps PROVE Spec => []LiveClustersAllocated`)
is its half that readers rely on, by itself.

**ExfatStoreProofs.** What a caller sees of a volume, for any cluster size,
number of files and clusters, and length of the calls. Three theorems from one
inductive invariant, `StoreIInv`:

- `IsFileStore`: `ASSUME SoundOps, ShrinksComplete PROVE Spec => ImplementsFileStore`.
  `StepMaps` has one lemma per action: `WriteData` is `Overwrite` where the
  payload meets bytes the entry covers and a stutter behind them (`PieceSeen`),
  `Publish` is `Write` (`WrittenSeen`: the payload in its place, zeros in the
  gap, the rest as it was), `CutChain` is `Shrink`, `ClearOld` is `Rename`, a
  call that ends or is cut is `End`, and everything else changes nothing that is
  seen. All these lemmas rest on `FrameInv` alone, the part of the invariants that
  says where the call is and how long the chains are, and on `Steady`, that a step
  leaves the links and bytes of a file as they are; both hold over the cache too.
- `NothingLeaks`: `ASSUME SoundOps PROVE Spec => []NoLostClusters`.
- `FilesStayReadable`: `ASSUME SoundOps, ShrinksComplete PROVE Spec => []CommittedFilesReadable`.

`ShrinksComplete` excludes power cuts within a truncation, which really break
both (finding 2, run VolumeShrinkCut); failing calls are not excluded. The
invariant says on top of `IInv`: that every chain is as long as its entry asks
(`WholeInv`; the entry is ahead of the chain while `truncate_file` frees,
`Kept`), that the sizes and the vector of the call are still those of its file
(`SizesInv`, `VectorInv`), and which bytes are already in place (`FillInv`).
These hold while nothing but whole truncations have happened (`Healthy`). As
long as nothing was cut short at all (`~mishap`), also that every chain ends
exactly where the length says (`ExactInv`) and that every marked cluster is a
file's or in the hands of the call (`OwnedInv`; `Held` says which those are at
every statement). `ExactInv` is not needed to read a file but to know that
`free_chain`, which follows the FAT to its end mark, frees no more and no less
than the file had.

The chain of a file is a recursive function (`ChainFrom`), so its lemmas need
induction. The library's induction theorems cannot be used (they take an
operator), but `LeastNumber` follows from well-foundedness of `<` on the
naturals as a fact about sets (`WellFoundedInduction`), and `Induction`, in the
form `0 \in S`, `n \in S => n + 1 \in S`, from it; `ChainExists`, `ChainUnique`,
`ChainInjective`, `ChainIsTree` and the others are proved by it, each with the
set of the positions up to which it holds.

**ExfatCacheProofs.** `LossKeepsChainsApart` (`CacheSpec => []CommittedChainsApart`),
`LossKeepsBytesWritten` (`CacheSpec => []OnlyWrittenBytes`) and `CacheKeepsFileStore`
(`CacheSpec => KeepsFileStore`), for any number of
names, clusters and bytes, any calls before and after any number of power
failures and kills; and `LossHitsOneCall` (`CacheSpec => LossHitsOnlyTheCall`) for
one failure. They need neither `SoundOps` nor `ShrinksComplete`: these
properties, like `SafeInv`, speak of histories in which no truncation to nothing
and no tangled removal happened and no rename or shrink was cut short
(`~harmed`), and what happens after these is findings 1 and 2 and section 6.

The invariant, `CacheInv` of `ExfatCacheInv`, cannot be that of `ExfatVolume` with
more values in it: a power failure may leave an old entry over a new FAT, and
most of what `IInv` says of the medium is not true of such a mixture. It speaks
of the entries instead. `Entries(n)` are those a failure may leave of n, `Line(n, e)`
the chain that e leads to in the FAT as it is written now, and `Owed(n, e)` how many
clusters of it e asks for.

- `PinnedInv`: along a line every value in flight agrees. Each cluster of it is
  marked and linked to the next in all of them, so that no failure changes the
  chain of any entry it may bring back. This is why the order of the driver
  works: a growth writes one link behind the last cluster of a line, which is not
  part of it, and the longer entry is published after a flush.
- `ApartInv`: the lines of entries of different names share no cluster. `SameInv`:
  what is in flight of one name are lengths of one file, the last one the
  longest except while a truncation frees; not so for the name that a rename
  gives to another file.
- `BytesInv`: whatever a failure leaves, a byte that some entry covers was written by a
  call on that file (`writer` is one of its `Authors`) after it took the cluster.
- `TakenInv`, `GrownInv`, `FreedInv` say that what the call takes or frees is in no
  line (`Unclaimed`), and what it has written so far; for a removal this follows from
  the flush after the entry is cleared. `FlushedInv` lists the statements before which
  nothing else can be in flight.

`AllTraced` keeps the proof short. It says of a step that every entry in flight
after it is empty or is a length of one that was in flight before, whose line the
step has left alone so far; then `TracedLines`,
`TracedBytes` and `TracedUnclaimed` give the first four parts for all steps at once,
failures included, and only `Publish` of a growth (`SafePublishGrown`) and the
renaming of a name bring in entries that are not. `Ground` holds with or without
harm and is what a failure needs. TLC has checked `CacheInv` in the instance of
`VolumeCached` (924 539 states).

`ProgressInv` adds what a write has filled so far (`FillInv`) and, before the first
failure, that nothing is in flight but the clusters of the write in progress and
the entries its call names (`CalmInv`). With `FillInv`, `SafeInv` gives `FrameInv`
(`FrameOf`), and each step of the driver is one of `FileStore` by the lemmas of
`ExfatStoreProofs`: what is new is that the other files are `Steady`, which comes from
`Unclaimed`, `ApartInv` and `GrownInv` (`QuietSpares`, `WriteDataSpares`,
`CutChainSpares`). `CalmInv` gives `FirstLossHitsOnlyTheCall`, which holds of the first
failure however many may follow, and from it follows `LossHitsOneCall`, whose hypothesis is
that one is all. It is needed: what a killed call has left in the cache may
still be taken back by a power failure in a later call on another file.

**ExfatDirectoryProofs.** `DirectoryTypes`: `Spec => []TypeOK`. This is the one
type theorem that is hard: `locate` trusts what it meets, and what it says of a
directory's first cluster ends up in the FAT. It must never complete an entry set
from slots of different calls whose stream entry has no cluster, although a set is
written and erased slot by slot, over whatever earlier calls left there, and the
power may fail after any slot. The invariant (`DirInv` of `ExfatDirectoryInv`) says
of the slots that behind a live directory entry there is no live name, or a stream
entry with a cluster (`Tame`), and of every write the call in progress still has to
make that it fits (`FileFits`, `StreamFits`, `NameFits`): it looks at the slots
before its target as they will be when its turn comes, which are those of the
script's own writes if there are any (`Back`), and otherwise those on the disk.
`Erasable` says that no system entry is cleared. What a script of the code starts
with is proved from how `locate`, `find_or_make_slot_run` and `rewrite_stream`
choose their slots (`LocateFacts`, `FirstRunFacts`, `RewriteFacts`, `PlaceFacts`,
put together by `JoinGood`), with the arithmetic of clusters and slots
(`SlotsSideBySide`); what the first write changes keeps the rest fitting
(`SlotsStay`, `RestGood`). TLC has checked `DirInv` in three instances.

`DirectoriesAreSound`: `Spec => []DirectoriesSound`, where no call renames, or the
power never fails, or there is at most one directory. The hypothesis is necessary: a
cut in the middle of the rename of a directory leaves two names of it (section 6), and
removing one frees the clusters of the other; with one name there is nothing to rename
it to. `DirectoriesSound` speaks of what chains of the FAT, read from the entries
`locate` finds, have to do with each other. The invariant (`SoundInv`) is about disks as
values:

- `Kept(d, own, pos)`: there is a map `own` from clusters to directories and a number
  `pos` that grows along each chain, such that from every cluster of a directory that
  some entry set names the FAT leads to an end mark or to a later cluster of the same
  directory, and its bit is set. It ranges over every entry set that is complete in
  the slots, whether a search would reach it or not, since a later call may uncover
  it. That chains are apart and are read to the end then follows without induction
  over chains (`ChainKept`: a chain read without end would visit more clusters than
  there are).
- `Apart(d)`: no two entry sets name one directory. Without it the second entry of a
  directory would go on leading to clusters that a removal has freed.
- The device writes left to the call in progress lead through `Kept` disks only to one
  that is also `Apart` (`Leads`, `Kempt`); on the way only the rename of a directory
  has two entry sets of one (`Renaming`). A write step and a power cut then preserve the
  invariant at once (`WriteSound`, `CutSound`).

What a call starts with is such a script, part by part: `TakeRun` (a cluster is taken),
`LinkRun` (a chain grows by one that is `own`ed by nobody yet), `BlankRun`,
`RewriteRun`, `FillRun` (a set is completed by its first name entry and by nothing
else, `PutSets`), `ClearRun` (its file entry goes first, so it is never half a set),
`QuietRun` (`free_chain` touches only what no entry names any more). `GrowRun` and
`PlaceRun` put these together, and `CreateRun`, `MakeDirRun`, `UpdateRun`, `RemoveRun`
and `RenameRun` are the calls. What the free clusters of the volume start with is as in
`Init`: zeros or file entries without a set behind them.

**HeaderSlotsProofs.** `ReplacedSecretsAreDead` is
`Spec => []OnlyKnownSecretsOpen`, and `SuccessfulChangeIsComplete` is
`Spec => ChangeRewritesBothCopies`. The invariant (`HeaderSlotsInv`) extends
what is said of the slots to what may be in flight (`SlotInv`), to every write
the call in progress has left (`ScriptInv`) and to the backups (`BackupInv`,
they hold only headers of the volume whose slot they are for); `ChangeInv`
follows the script of a password change. `TypeCorrect` is `Spec => []TypeOK`,
which follows from the invariant: a script is only as well typed as what it
was made from.

`NobodyIsLockedOut` (`ASSUME SecretsApart, OneDamage PROVE Spec =>
[]EveryVolumeOpens`) and `CreationFormatsAll` (`ASSUME SecretsApart PROVE Spec
=> []CreatedVolumesFormatted`) rest on a second invariant, `OpensInv`. Its parts:
every secret in use belongs to one volume (`SecretInv`), so that whatever a
search finds has the volume it was searched for; a creation in progress is some
number of steps along its script, with what those steps left on the medium
(`MakingInv`); and all positions of the created volumes but one are `Clear`
(`SurvivalInv`): no value in flight, no write still to come and no backup holds
junk for them. The one exception is needed because a backup taken of a damaged
group writes the damage back, yet never to another position (`ClearStays`). Both
hypotheses are necessary: the command line refuses equal passwords
(`main.rs:591`), and two damaged slots may be both copies of one volume.

**OuterProtectionProofs.** `TypeCorrect`: `Spec => []TypeOK`; its deep part is
that the shield is exactly the hidden area in the outer volume's coordinates.
`VolumesKeepTheirBytes`: `ASSUME Aligned PROVE Spec => KeepsTwoVolumes`, that
is, every step of the byte-level model is a step of `TwoVolumes` or none.
`Aligned` says that the container's size is a multiple of the cipher block (16
bytes); without it the hidden volume shares a cipher block with the outer one
(section 6). `HeadersStay`: `ASSUME UnitAligned PROVE Spec => []HeadersUntouched`,
for which the size must be a multiple of the encrypted unit (512 bytes); without
it the last unit of the outer data area reaches into the embedded backup.
`CreationKeepsBothBootSectors`: `ASSUME Aligned, Margin PROVE Spec =>
CreatedVolumesOpen`, where `Margin` is what `create_hidden` promises and does not
see to (section 6): every hidden volume it accepts leaves the outer one its
first sector. Formatting the hidden volume then leaves the outer boot sector
alone because the two share no cipher block.

`ContainerFilesProofs` begins with the two modules of operators under `ContainerFiles`.
The layout of `ExfatFormat` is `LayoutIsSound`:
`\A b \in Nat : Fits(b) => (SoundLayout(b) <=> Addressable(b))`. `Addressable` says
that the cluster numbers fit into 32 bits, which the formatter does not check:
below, which is below 512 TiB, the fields of the boot region are the numbers themselves, the
offset of the heap included, far smaller than a large number of clusters; from there on the
layout read is not the one made (section 6). The code sizes the FAT for `MaxClusters`, computed before the FAT takes its
room; that the final `Count` is never larger, that what is rounded up to a
cluster stays on the volume and that the bitmap of that many clusters fits its
own are lemmas about division, proved for the three cluster sizes.

The search of `HeaderSearch` is `SearchIsExact`: for any file of copies that were sealed
under known secrets and spoilt in any way, `FindHeader` under a secret finds a
header exactly when a copy under that secret is in reach, whole and acceptable,
and then names its scheme and PRF; it answers `Miss` exactly when no copy under
that secret shows its magic. `DecryptExact` is the heart of it: the layers of a
scheme take off exactly the coats of that scheme and that key, because what a
layer that does not fit leaves is never taken off again. `LayersDiffer` then says
that no two of the fifteen schemes, five PRFs, secrets or salts share their
layers. `Decrypt` is written as a recursive function over at most three layers,
whose existence is proved (`PeelingExists`) from the well-foundedness of the
naturals: the one place where induction is needed, and within reach because the
set it is about can be named.

**ContainerFilesProofs.** Every property of the run `Containers` is a theorem, for
any set of calls (any sizes, passwords, lists of keyfiles, PIMs, schemes and file
systems), any descriptor table and any bound on the damage: `CreationTyped`,
`CreationsOpen`, `BootComesLast`, `VerdictsHonestAlways`, `VolumesKeepApart`,
`LayoutsSoundAlways`, `DescriptorsAreSettled`. What is assumed of a call
(`RequestsAssumption`) is that its numbers are numbers, its scheme and PRF are in
the registries, its keyfiles are a list and no password is the one taken as wrong;
sizes are any 64-bit numbers. `MemoryAssumption` says of the machine that it cannot hold the FAT
of a volume of almost 2^64 bytes and that the sectors of one do not fit into 32 bits. It is
needed by `VolumesKeepApart`: a hidden size whose sum wraps passes the check of
`create_hidden` and is only stopped because neither formatter takes a volume of that
length (`NoWrappedVolume`); all other sizes keep to their areas by the checks themselves.

- The descriptors have an invariant of their own (`DescriptorInv`): `handles` has
  no duplicates and names exactly the descriptors of the call. That no
  descriptor is left over when nothing runs says nothing of those a failing pass
  still holds.
- For the file it is `FileInv` of `ContainerFilesInv`, which TLC has also checked
  in the instance of the run. A call that goes well is `Past` steps along its
  script (`CallInv`); which step stands where is `ScriptTable`, a table of places
  relative to `Opening`, `Finding` and `LastFlush`, proved from the way scripts
  are joined, for both entry points, with and without a hidden volume, for both
  file systems. `HeadersInv` says by that place which checks have passed and which
  copies lie where, `FormatInv` which volume was found, that it fits and which of
  its parts are written. `CopyInv` says that every copy was sealed for a volume of
  the call at its place, `LaidInv` that every part was laid for a header whose
  sizes passed. Hence the search in the file is one that `SearchIsExact` speaks
  of; it enters the invariant, because what a format writes goes where the search
  found a header and not where the call put one. With equal passwords these
  differ: the invariant holds for them too, and `CreatedOpens` asks nothing of
  them.
- `PoolOrder`, that the order of keyfiles does not matter, is a bijection between
  the positions at which one contribution occurs in two orders. `LayoutIsSound`
  gives the numbers of exFAT, `FatNumbers` and `FatPlaces` those of FAT12, FAT16 and FAT32:
  the driver takes the type whose cluster count agrees with its own guess, and with it
  the tables and the root directory end before the volume does.

**VaultSessionProofs.** Every property of the run `Session` is a theorem, for
any number of threads, blocks and calls: `TypeCorrect`, `LockIsFinal`,
`InternalIsHonest`, `SuccessIsDurable`, `ClosedIsUntouched`, `LatchIsFinal` and
`CallsAreSerial` (`Spec => ImplementsSerialVolume`). The invariant says who is
inside (`MutexInv`), where the session is when (`SessionInv`), that no two calls
share an identity (`IdInv`), which calls have nothing in the cache
(`DurableInv`), what the call inside has written since it entered (`WorkInv`)
and what it will answer (`AnswerInv`). The last two make the refinement work:
between `Enter` and `Leave` the medium differs from the abstract content by
exactly the blocks the call has written, so that its last step accounts for all
of them at once.

Checked by TLC only: `NamesUnique`, `ReadersAgree`, `CreatedIsFound`,
`NoLostDirectoryClusters`, `ImplementsTree` and `KeepsTree` of `ExfatDirectory`, and
`EveryCallReturns`, which like all liveness is beyond the prover. Those of
`ExfatDirectory` hold where entry sets fill a cluster exactly, as in the runs;
elsewhere finding 3 breaks them.

## 5. Abstractions

- In `ExfatVolume`, `ExfatDirectory` and `OuterProtection` the device applies
  writes in program order, as the power-loss harness of
  `core/norse-exfat/tests/powerloss.rs` does. In `ExfatCache` and `HeaderSlots`
  writes between two flushes may be lost in any combination; in
  `ContainerFiles` the process is killed, which loses nothing it has written.
- In `ExfatCache` each FAT entry and bitmap bit reaches the medium by itself, as
  if no two shared a sector; those that do share one are lost together, which
  is one of the combinations.
- A derived key, a keyfile's contribution and a coat of encryption are equal
  only when their inputs are: collisions are not modelled. A part of a file
  system is one write.
- `usize` has 64 bits. On the 32-bit target of `rust-toolchain.toml` (armv7) the
  length of the vector for the FAT of a volume of 128 TiB and more would be cut.
- A header is one 512-byte sector and written whole; so is a sector of a data
  area. A slot of a directory, a FAT entry, a byte of the bitmap are written
  whole.
- Other device errors than those listed are not modelled below the header
  slots; they end a call where a power cut would.
- `HeaderSlots` has different secrets for the two volumes. A secret that a
  restored backup brings back counts as known to the owner.
- `ExfatDirectory` has two levels of directories and never renames a directory
  into another one; names are either one or two name entries long and differ
  without regard to case in their first 15 units.
- `VaultSession` starts with an unlocked session: unlocking is in `HeaderSlots`
  (search) and `OuterProtection` (protection). The file system's own
  bookkeeping (the free count and the dirty flag of FAT) is no block of the
  volume; `Unmount` notes that writing them is not followed by a sync.
- Files written by other systems (NoFatChain) are not in the volume.
- Counters (`cuts`, `writes`, `faults`) are history with the bounds `MaxCuts`,
  `MaxWrites`, `MaxDamage`, `MaxBackups`, `MaxFailures`, `MaxMutations`.

## 6. Findings

1. **Truncating a fragmented file to nothing frees another file's clusters**
   (`write.rs:532`, run VolumeEmptyFragmented). Clusters are freed by position
   although they are chained; a bit and a FAT entry of a live file are cleared.
2. **A shrink cut by a power failure leaves an entry longer than its chain**
   (`write.rs:542`, run VolumeShrinkCut). The file cannot be read, and a later
   shrink indexes past the vector.
3. **Names behind an end mark are lost** (`write.rs:213`, run
   DirectoryEndMark). When a directory grows, the last free slots of its old
   cluster stay end marks, at which both readers stop. A cluster has 2^n slots
   and a short name takes three, so a directory of short names never shows its
   second cluster: `create_file` returns success and the file is not there.
   `tests/write_roundtrip.rs:75` means to grow the root, but its 302 names fit
   into the 1024 slots of its first cluster.
4. **The largest hidden volume destroys the outer one** (`create.rs:201`, run
   ProtectionMargin). The bound lets the hidden area start where the outer
   boot sector is.

Observed while modelling, without a run of their own:

- A set that is half written when the power fails fails its checksum or its
  length, and `read_directory` then refuses the whole directory (root
  included) until the slots are overwritten; `write.rs:6-8` promises lost
  clusters at worst. The write path still finds the names that were there before
  the cut, which is part of what DirectoryCut shows.
- Not all that come after it: the file entry of a torn set is live and claims
  `secondary` slots behind it, of which those not yet written are free.
  `find_or_make_slot_run` (`write.rs:217-232`) starts the next set in them, and
  `locate` (`:145`) steps over its beginning. A create or mkdir repeated
  after the cut returns success and the name is not there; a rename to such a
  place clears the old name, and the file is lost. With `CreatedIsFound` in place of
  the properties of DirectoryCut TLC shows it at once. The same run without
  cuts keeps `CreatedIsFound`.
- `locate` compares only the units it could collect, not their number with the
  name length of the stream entry: a torn set of a longer name, of which the
  first name entry is written and the next slot is an end mark, is found under
  the first 15 units of that name. No two names of the model are that close.
- A rename cut between its two halves leaves two names on one chain, for files
  and directories; removing one frees the clusters of the other.
- A directory is linked to its new cluster before that is zeroed
  (`write.rs:237-239`). After a cut in between, what was there is read as
  entries; a stale entry at the end of the cluster makes both readers step over
  the beginning of the next one, and names placed there later are not found.
- `make_dir` takes a cluster before it looks for room in the parent and keeps
  it when there is none.
- `rename("/d", "/d/x")` is accepted and loses the tree below `/d`.
- Without `Aligned`, a write that ends right before the hidden volume, which
  `ProtectedDevice` lets through, re-encrypts the cipher block both share and
  changes the first bytes of the hidden volume.
- With one secret for both volumes, which `create_container_with_hidden`
  accepts, the search finds the same header twice: one area is formatted
  twice, the other never, and creation reports success. The command line
  refuses equal passwords (`main.rs:591`), `vault-ffi` does not. (`CreatedOpens`
  asks only for different secrets.)
- With a cache that loses writes, a growth may leave the tail of a file linked
  to a cluster whose bitmap bit is lost. Another file takes that cluster; the
  first file still reads as it should, since its length ends before it, but
  removing it frees the other one's cluster, against `write.rs:6-8`. The
  properties of `ExfatCache` hold up to that removal (`Tangled`).
- When `ftruncate` is refused on an empty document (`vault-ffi/src/lib.rs:99-102`),
  the last write leaves the file at its size less 64 KiB and 512 bytes, and both
  embedded backups are where no search looks: creation reports success for a
  container whose only reachable header is the primary one. The comment says
  that "tail writes extend the file anyway".
- `create_hidden_container` returns on an unknown name before it owns the
  descriptor (`vault-ffi/src/lib.rs:148-156`), so that nobody closes it, though
  `:129` says it "closes every handle before returning". The dup'd descriptors
  of `:164` do share a file position; the passes are sequential, so this is
  harmless.
- The exFAT formatter does not check the number of clusters, and stores it in 32
  bits (`format.rs:204-208`). From 2^32 - 2 clusters (512 TiB) on, creation reports
  success and `boot.rs:72` refuses the volume, or a heap without its end is read.
- `create_hidden` adds 128 KiB to the hidden size and compares (`create.rs:201`); in release
  builds the sum wraps, so that a size just below 2^64 passes. Headers of a hidden
  volume that is not in the file are then written, the outer volume is formatted, and the
  format of the hidden one fails (FAT: too many sectors) or aborts on the
  allocation of its FAT (exFAT). Nothing is written outside its area.
- The FAT formatter writes its boot sector first: a kill right after it leaves a
  volume that mounts with whatever the FAT and the root were. `format` of the
  exFAT driver writes its boot region last, but without a flush before it.
- "volume header is damaged; the embedded backup header may help"
  (`vault-ffi/src/lib.rs:290`) is shown after the search has tried the embedded
  copies. "The most specific error" (`vc-format/src/lib.rs:138`) is the last one
  found. A header older than version 5 is reported as `VersionTooNew`.
- `15000 + PIM * 1000` wraps at 2^32 in release builds (and panics in debug
  builds); creation and search wrap alike, VeraCrypt need not.
- `create` and `create-hidden` truncate a container that exists before the size
  is validated (`main.rs:601`, `:701`).
- `add` does not clean up: after one that failed half-way, on exFAT a second one
  fails because the name exists. Containers are opened without any lock against
  other processes.
- A file without a FAT chain made elsewhere: `write_file` and the shrink of
  `truncate_file` read and extend it through the FAT, which has no chain for it;
  `contiguous_len` is given where files are ours (`write.rs:537`) and not where
  they may be foreign (`write.rs:588`), the other way round than `alloc.rs:129-131`
  has it.
- The search sweeps one PRF over all positions before the next
  (`vc-format/src/lib.rs:60` speaks of position order); the order only matters
  for such shared secrets.
- `restore_from_file` verifies the primary slot and writes the hidden one too:
  the outer owner's restore brings an old hidden header back. A restore that
  fails has written, although the command line says that nothing was.
- After a power cut inside `change_password` the two copies may be under
  different secrets for good; each is known to the owner, so the volume opens.
- `VaultError::HiddenVolumeProtected` reaches no caller of a file operation:
  `to_io` and `DeviceReadAt` turn the core's error into an I/O error with a text
  and `fs_err` that into `Filesystem`. `vault-ffi/src/lib.rs:412-413` and
  `THREAT_MODEL.md:117-119` say that a shell can tell. `VaultError::Io` is not
  returned by file operations either.
- `flush` of every adapter does nothing (`fat.rs:212`), though
  `vault-ffi/src/lib.rs:554` says it goes "through every layer to the backing
  store". On FAT, `create`, `mkdir`, `rename` and `unlink` are synced only by
  the destructor of a `File`, whose error is swallowed; renames and removals in
  the root of a FAT12 or FAT16 volume have no `File` and stay in the cache. The
  free count and dirty flag written on unmounting are never synced.
- Where panics unwind, one inside the mutex poisons it, and `lock` then does
  nothing and says nothing: keys and descriptor live on. The release profile
  aborts.
- `facts` goes on saying `writable` after the latch has closed the volume.
- `create` of a name that exists returns success on FAT, although
  `vault-ffi/src/lib.rs:514` says it errors.

## 7. Not modelled, and what could follow

Built in this order, most important first: ExfatVolume with FileStore,
HeaderSlots, OuterProtection with TwoVolumes, ExfatDirectory with
DirectoryTree, VaultSession with SerialVolume, ExfatCache, ExfatFormat and
HeaderSearch over MachineWords, ContainerFiles. Worth doing next:

1. More proofs about `ExfatDirectory`: `NamesUnique` and `NoLostDirectoryClusters` from
   `SoundInv`, for names that fill a cluster exactly.
2. Up-case table decoding and FAT timestamps against reference definitions.

Not planned: the ciphers and hashes themselves (their correctness is no question
of states), what the NTFS adapter reads, `probe` (a read-only report),
`candidates.rs` (nothing calls it), the commands `add`, `extract`, `list` and
`info` (loops over the calls of a session), the vendored FAT driver but for
what is named above, fuzz targets and the fixture generator.
