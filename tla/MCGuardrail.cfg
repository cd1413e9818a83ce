CONSTANTS
    l = l
    d = d
    r = r
    Chars = {l, d, r}
    Fakes <- Placeholders
    plain = plain
    quoted = quoted
    Originals = {plain, quoted}
    OriginalOf <- MCOriginalOf
    JsonUnsafe = {quoted}
    Channels <- MCChannels
    JsonFields = {"tool"}
    MaxChars = 3
    MaxToken = 2
    MaxFields = 2
SPECIFICATION Spec
INVARIANTS ForwardedMasked OwnMapConsumed
PROPERTIES PromiseKept
