SPECIFICATION Spec
CONSTANTS
    Films = {f}
    TVs = {t}
    Nobody = Nobody
    MaxRestarts = 1
    Contents <- MCContents
    Profiles <- MCProfiles
    Configs <- MCConfigs
INVARIANTS Inv SentIsPlayable OfferKept
PROPERTY OldRowsAreCompleted
