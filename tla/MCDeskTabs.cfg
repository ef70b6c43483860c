SPECIFICATION DeskSpec
CONSTANTS
    NoText = NoText
    NoLock = NoLock
    Segments = {s1}
    ModelTexts = {m1}
    HumanTexts = {h1, h2}
    Tabs = {t1, t2}
    Shells = {p1}
    Clients = {t1, t2, p1}
    Impatient = {t1}
    Locks = {k1, k2, k3}
    Wants <- OwnWords
INVARIANT BookNeverAheadOfStore
INVARIANT QuietBookIsCurrent
PROPERTY CorrectionsEnd
