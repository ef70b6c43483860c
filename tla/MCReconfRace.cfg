SPECIFICATION ReconfSpec
CONSTANTS
    NoText = NoText
    Segments = {s1}
    ModelTexts = {}
    HumanTexts = {}
    Clients = {}
    Commands = {"pause", "resume"}
    Writers = {w1, w2}
    Fields = {f1, f2}
    Values = {v1}
    Unset = Unset
    NoWriter = NoWriter
    Legacy = {}
    MaxChanges = 1
    MaxRevision = 2
\* Two witnesses on one instance: one property at a time.
PROPERTY ResumeReleasesNewSettings
\* INVARIANT ClearedSettingsStayCleared
