SPECIFICATION DeskSpec
CONSTANTS
    NoText = NoText
    NoLock = NoLock
    Segments = {s1, s2}
    ModelTexts = {m1}
    HumanTexts = {h1}
    Tabs = {t1, t2}
    Shells = {}
    Clients = {t1, t2}
    Impatient = {t1}
    Locks = {k1, k2, k3}
    Wants <- Anything
\* Two witnesses on one instance: one property at a time.
INVARIANT NoTabStagesStaleSnapshot
\* INVARIANT TabsTakeTurns
