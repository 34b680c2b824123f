CONSTANTS
    OuterPasswords = {a1, a2, a3}
    HiddenPasswords = {b1, b2}
    PrfCount = 1
    Junk = junk
    MaxBackups = 1
    MaxDamage = 1
    MaxCuts = 1
    MaxFailures = 1
SPECIFICATION Spec
INVARIANTS
    TypeOK
    EveryVolumeOpens
    OnlyKnownSecretsOpen
    CreatedVolumesFormatted
PROPERTY ChangeRewritesBothCopies
