SPECIFICATION DeskSpec
CONSTANTS
    NoText = NoText
    NoLock = NoLock
    Segments = {s1, s2}
    ModelTexts = {m1}
    HumanTexts = {h1}
    Tabs = {t1}
    Shells = {p1}
    Clients = {t1, p1}
    Impatient = {}
    Locks = {k1, k2}
    Wants <- Anything
\* Two witnesses on one instance: one property at a time.
INVARIANT SavedCorrectionIsPublished
\* INVARIANT SavedStageIsKept
