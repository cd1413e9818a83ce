CONSTANTS
    jean = jean
    key = key
    fake = fake
    None = None
    Values <- MCValues
    Credentials = {key}
    Types = {"PERSON", "CITY", "SECRET", "CARD"}
    SecretType = "SECRET"
    Irreversible = {"SECRET"}
    FakeTypes = {"CITY"}
    Blocked = {"CARD"}
    DetectableAs <- MCDetectableAs
    FakeOf <- MCFakeOf
    MaxRetries = 1
    Literals <- MCLiterals
    MaxTexts = 2
    MaxWords = 2
    MaxIndex = 6
SPECIFICATION Spec
INVARIANTS IssuedNotReserved RestoreExact DetectedNeverSent
PROPERTIES KnownNeverVerbatim KnownNeverReversible
