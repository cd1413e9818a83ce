CONSTANTS
    l = l
    d = d
    r = r
    Chars = {l, d, r}
    Fakes <- SSEFakes
    plain = plain
    quoted = quoted
    Originals = {plain, quoted}
    OriginalOf <- MCOriginalOf
    JsonUnsafe = {quoted}
    Channels <- MCChannels
    JsonKinds = {"json"}
    Blocks = {0, 1}
    ChannelsOf <- MCChannelsOf
    MaxChars = 3
    MaxToken = 2
    v = v
    w = w
    Values = {v, w}
    Settings <- MCSettings
    MaxEntries = 3
    MaxRequests = 2
    MaxNumber = 4
    MaxLiteral = 1
SPECIFICATION Spec
INVARIANT ScrubMatchesRestore
