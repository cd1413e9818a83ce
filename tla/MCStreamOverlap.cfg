CONSTANTS
    l = l
    d = d
    r = r
    Chars = {l, d, r}
    Fakes <- Names
    plain = plain
    quoted = quoted
    Originals = {plain, quoted}
    OriginalOf <- MCOriginalOf
    JsonUnsafe = {quoted}
    ChannelSeq <- OneChannel
    Structured = {"arguments"}
    JsonFields = {"arguments"}
    MaxChars = 3
    MaxToken = 2
SPECIFICATION Spec
INVARIANTS SameAsWhole
