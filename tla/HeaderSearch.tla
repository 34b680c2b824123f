---------------------------- MODULE HeaderSearch ----------------------------
(***************************************************************************)
(* How a volume header is sealed and how the search finds it again         *)
(* (core/vc-crypto, core/vc-types/src/registry.rs, and find_header and     *)
(* parse_decrypted_header of core/vc-format).                              *)
(*                                                                         *)
(* Ciphers and hashes are symbols: a sealed header is its plaintext under  *)
(* a sequence of coats, one per cipher layer with its two keys, and only   *)
(* the same coat taken off last-on first-off gives the plaintext back.     *)
(* `spoilt` says which parts of a copy on the medium are damaged.  Places  *)
(* are byte offsets into the container file.                               *)
(***************************************************************************)
EXTENDS MachineWords, SequencesExt, FiniteSetsExt

-----------------------------------------------------------------------------
(* Registries *)

(* The layers of every scheme, innermost first. *)
Schemes == <<
    <<"Aes">>, <<"Serpent">>, <<"Twofish">>, <<"Camellia">>, <<"Kuznyechik">>,
    <<"Twofish", "Aes">>, <<"Serpent", "Twofish", "Aes">>, <<"Aes", "Serpent">>,
    <<"Aes", "Twofish", "Serpent">>, <<"Serpent", "Twofish">>, <<"Kuznyechik", "Camellia">>,
    <<"Twofish", "Kuznyechik">>, <<"Serpent", "Camellia">>, <<"Aes", "Kuznyechik">>,
    <<"Camellia", "Serpent", "Kuznyechik">> >>

(* In the order they are tried; every one defaults to 500000 iterations. *)
Prfs == <<"SHA-512", "SHA-256", "BLAKE2s-256", "Whirlpool", "Streebog">>
Iterations(pim) == IF pim = 0 THEN 500000 ELSE AsU32(15000 + pim * 1000)

-----------------------------------------------------------------------------
(* Secrets and keys *)

(* Fault: register and write position run on from one keyfile to the next. *)
ContributionRunningOn(keyfiles, i) == <<keyfiles[i], i>>
(* What keyfile i adds to the pool: it starts at position 0 with a fresh
   register, whatever came before. *)
Contribution(keyfiles, i) == <<keyfiles[i], 1>>

(* The pool is a sum, so that only what is added counts, and how often. *)
Pool(keyfiles) ==
    LET added == {Contribution(keyfiles, i) : i \in DOMAIN keyfiles}
    IN  [c \in added |-> Cardinality({i \in DOMAIN keyfiles : Contribution(keyfiles, i) = c})]

(* Without keyfiles the passphrase is the secret; with some, even empty ones,
   it is extended to the length of the pool. *)
Secret(pass, keyfiles) == [pass |-> pass, extended |-> keyfiles # <<>>, pool |-> Pool(keyfiles)]

(* Slices of 32 bytes, each computed on its own: a longer key starts with the
   shorter ones. *)
HeaderKey(prf, secret, pim, salt, slices) ==
    [i \in 0 .. slices - 1 |-> <<prf, secret, Iterations(pim), salt, i>>]

MaxSlices == 2 * Max({Len(Schemes[s]) : s \in DOMAIN Schemes})

(* All primary keys in layer order, then all secondary ones. *)
Layers(scheme, key) ==
    [i \in DOMAIN scheme |-> <<scheme[i], key[i - 1], key[Len(scheme) + i - 1]>>]

-----------------------------------------------------------------------------
(* Sealing and unsealing *)

Encrypt(layers) == layers

(* Taking off a coat that is not the outermost scrambles what is below. *)
Peel(layer, coats) ==
    IF coats # <<>> /\ Last(coats) = layer THEN Front(coats) ELSE Append(coats, <<"not", layer>>)

(* The layers are taken off from the last to the first. *)
Decrypt(layers, coats) ==
    LET left[i \in 0 .. Len(layers)] ==
            IF i = 0 THEN coats ELSE Peel(layers[Len(layers) - i + 1], left[i - 1])
    IN  left[Len(layers)]

(* A copy of a header as write_header_copy leaves it. *)
Sealed(plain, prf, scheme, secret, pim, salt) ==
    [plain |-> plain, salt |-> salt, spoilt |-> {},
     coats |-> Encrypt(Layers(scheme, HeaderKey(prf, secret, pim, salt, 2 * Len(scheme))))]

(* parse_decrypted_header.  Damage to the first cipher block spoils the magic,
   to the next eleven the fields, to the others the keys. *)
Parse(plain, coats, spoilt) ==
    IF coats # <<>> \/ "magic" \in spoilt THEN "NotFoundOrWrongPassword"
    ELSE IF spoilt \cap {"fields", "keys"} # {} THEN "HeaderDamaged"
    ELSE IF plain.version < 5 \/ plain.minVersion > 267 THEN "VersionTooNew"
    ELSE IF plain.system THEN "SystemVolume"
    ELSE IF plain.sector \notin {512, 4096} THEN "HeaderDamaged"
    ELSE "found"

Miss == "NotFoundOrWrongPassword"
Outcome(out, header, scheme, prf) == [out |-> out, header |-> header, scheme |-> scheme, prf |-> prf]

(* try_schemes: the first scheme that fits, else the last finding. *)
TrySchemes(copy, secret, pim, prf) ==
    LET salt == IF "salt" \in copy.spoilt THEN -1 - copy.salt ELSE copy.salt
        key == HeaderKey(prf, secret, pim, salt, MaxSlices)
        says(s) == Parse(copy.plain, Decrypt(Layers(Schemes[s], key), copy.coats), copy.spoilt)
        found == {s \in DOMAIN Schemes : says(s) = "found"}
        findings == {s \in DOMAIN Schemes : says(s) # Miss}
    IN  IF found # {} THEN Outcome("found", copy.plain, Min(found), prf)
        ELSE IF findings # {} THEN Outcome(says(Max(findings)), copy.plain, 0, prf)
        ELSE Outcome(Miss, copy.plain, 0, prf)

-----------------------------------------------------------------------------
(* The search *)

REGION == 512           \* salt and encrypted header
HIDDEN_OFFSET == 65536
BACKUP_FROM_END == 131072

(* Where a file of len bytes has its copies, in the order they are tried; a
   file too short for a copy has none there. *)
PrimaryOffsets(len) == <<0>>
HiddenOffsets(len) == IF len >= HIDDEN_OFFSET + REGION THEN <<HIDDEN_OFFSET>> ELSE <<>>
BackupOffsets(len) == IF len >= BACKUP_FROM_END THEN <<len - BACKUP_FROM_END>> ELSE <<>>
BackupHiddenOffsets(len) == IF len >= HIDDEN_OFFSET THEN <<len - HIDDEN_OFFSET>> ELSE <<>>
Places(len) == PrimaryOffsets(len) \o HiddenOffsets(len) \o BackupOffsets(len) \o BackupHiddenOffsets(len)

Unreadable(len) == \E i \in DOMAIN Places(len) : Places(len)[i] + REGION > len

(* Fault: the search ends at the first copy that says anything. *)
DecisiveAny(o) == o.out # Miss
Decisive(o) == o.out = "found"

(* find_header: every PRF in turn over all places; the first header found,
   else the last finding.  `at` maps offsets to the copies of a file. *)
FindHeader(at, len, secret, pim) ==
    LET places == Places(len)
        prf(k) == Prfs[(k \div Len(places)) + 1]
        place(k) == places[(k % Len(places)) + 1]
        tries == {k \in 0 .. (Len(Prfs) * Len(places)) - 1 : place(k) \in DOMAIN at}
        said == [k \in tries |-> TrySchemes(at[place(k)], secret, pim, prf(k))]
        decisive == {k \in tries : Decisive(said[k])}
        findings == {k \in tries : said[k].out # Miss}
    IN  IF Unreadable(len) THEN Outcome("Io", {}, 0, "none")
        ELSE IF decisive # {} THEN said[Min(decisive)]
        ELSE IF findings # {} THEN said[Max(findings)]
        ELSE Outcome(Miss, {}, 0, "none")
=============================================================================
