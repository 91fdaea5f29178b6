\* Two writers of the preference, one call that may be repeated, one reader.
CONSTANTS
    w1 = w1
    w2 = w2
    m1 = m1
    r1 = r1
    Writers = {w1, w2}
    MaxPrefs = 2
    Messages = {m1}
    Readers = {r1}
    Take = 1
    Keep = 2
    MaxOld = 3
    MaxIds = 4
    MaxFaults = 1
SPECIFICATION MCSpec
SYMMETRY Symmetry
CONSTRAINT Apart
INVARIANTS
    TypeOK
    PreferenceHonoured
    StoredOrReplayed
    PagesCover
    ViewedWasListed
PROPERTIES
    RetentionKeepsNewest
