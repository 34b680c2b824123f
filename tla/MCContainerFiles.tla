--------------------------- MODULE MCContainerFiles ---------------------------
EXTENDS ContainerFilesInv

(* A file shorter than its headers, an empty data area, the smallest exFAT
   volume and one sector less, one whose clusters just fill a FAT sector, one
   with larger clusters; FAT12, FAT16 and FAT32; a hidden volume that leaves the
   outer one room, none at all, does not fit, or is so large that the check of
   its size wraps; a PIM whose iterations do not fit into a word. *)
Ask(via, size, hiddenSize, fs, prf, scheme, keyfiles) ==
    [via |-> via, hidden |-> hiddenSize # 0, size |-> size, hiddenSize |-> hiddenSize, fs |-> fs,
     prf |-> prf, scheme |-> scheme, pim |-> 0, pass |-> "p", keyfiles |-> keyfiles,
     hiddenPass |-> "q", named |-> TRUE]

KiB(n) == n * 1024
MiBs(n) == n * 1048576
PimThatWraps == 2200    \* 15000 + 2200 * 1000 > Word
G == 2 * GROUP

MCRequests ==
    { Ask("cli", KiB(64), 0, "FAT", "SHA-512", 1, <<>>),
      Ask("ffi", G, 0, "FAT", "SHA-512", 1, <<>>),
      Ask("cli", G + KiB(32) - 512, 0, "exFAT", "SHA-512", 1, <<>>),
      Ask("ffi", G + KiB(32), 0, "exFAT", "Streebog", 9, <<"k", "l">>),
      Ask("ffi", G + KiB(256), 0, "FAT", "SHA-256", 6, <<"k", "k", "l">>),
      Ask("cli", G + 4206592, 0, "exFAT", "Whirlpool", 14, <<"k">>),
      Ask("ffi", G + MiBs(300), 0, "exFAT", "SHA-256", 2, <<>>),
      Ask("cli", G + MiBs(8), 0, "FAT", "SHA-512", 10, <<>>),
      Ask("ffi", G + MiBs(512), 0, "FAT", "SHA-512", 12, <<>>),
      Ask("ffi", G + KiB(512), LongWord - KiB(64), "exFAT", "SHA-512", 1, <<>>),
      Ask("cli", G + KiB(512), LongWord - KiB(128), "FAT", "SHA-512", 1, <<>>),
      Ask("cli", G + KiB(512), KiB(64), "exFAT", "SHA-512", 8, <<>>),
      Ask("ffi", G + KiB(512), KiB(64), "FAT", "BLAKE2s-256", 15, <<>>),
      Ask("ffi", G + KiB(512), KiB(384), "exFAT", "SHA-512", 7, <<>>),
      Ask("ffi", G + KiB(512), KiB(400), "exFAT", "SHA-512", 2, <<>>),
      Ask("ffi", G + KiB(512), 513, "exFAT", "SHA-512", 3, <<>>) }
    \cup { [Ask("ffi", G + KiB(512), KiB(64), "exFAT", "SHA-512", 4, <<>>) EXCEPT !.hiddenPass = "p"],
           [Ask("cli", G + KiB(512), KiB(64), "exFAT", "SHA-512", 4, <<>>) EXCEPT !.hiddenPass = "p"],
           [Ask("ffi", G + KiB(512), KiB(64), "exFAT", "SHA-512", 5, <<>>) EXCEPT !.named = FALSE],
           [Ask("ffi", G + KiB(512), 0, "exFAT", "SHA-512", 5, <<>>) EXCEPT !.named = FALSE],
           [Ask("ffi", G + KiB(64), 0, "FAT", "SHA-256", 1, <<>>) EXCEPT !.pim = PimThatWraps] }

Foreign(version, minVersion, system, sector) ==
    [Ask("desktop", G + KiB(512), 0, "FAT", "SHA-512", 1, <<>>) EXCEPT !.pim = 485]
    @@ [plain |-> [Header("outer", GROUP, KiB(512)) EXCEPT !.version = version,
                       !.minVersion = minVersion, !.system = system, !.sector = sector]]

FdSymmetry == Permutations(Fds)

MCDesktop ==
    { Foreign(5, 267, FALSE, 512), Foreign(5, 267, FALSE, 4096), Foreign(5, 268, FALSE, 512),
      Foreign(4, 267, FALSE, 512), Foreign(5, 267, TRUE, 512), Foreign(5, 267, FALSE, 2048) }
===============================================================================
