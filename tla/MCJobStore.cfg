SPECIFICATION Spec
CONSTANTS
    NoText = NoText
    Segments = {s1, s2}
    ModelTexts = {m1, m2}
    HumanTexts = {h1}
    Clients = {c1, c2}
INVARIANT CorrectionStands
INVARIANT ResolvedIsRebuildable
PROPERTY LateFailureKeepsWork
PROPERTY StopHolds
CHECK_DEADLOCK FALSE
