CONSTANTS
    l = l
    d = d
    r = r
    Chars = {l, d, r}
    Fakes <- Placeholders
    plain = plain
    quoted = quoted
    Originals = {plain, quoted}
    OriginalOf <- MCOriginalOf
    JsonUnsafe = {quoted}
    ChannelSeq <- TwoChoices
    Structured = {"arguments"}
    JsonFields = {"arguments"}
    MaxChars = 3
    MaxToken = 2
SPECIFICATION FairSpec
INVARIANTS FlushedWhenFinished
PROPERTIES PromiseKept HandlerEnds
