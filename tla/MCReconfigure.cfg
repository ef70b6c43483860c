SPECIFICATION FairReconfSpec
CONSTANTS
    NoText = NoText
    Segments = {s1}
    ModelTexts = {}
    HumanTexts = {}
    Clients = {}
    Commands = {"pause", "resume"}
    Writers = {w1, w2}
    Fields = {f1, f2}
    Values = {v1}
    Unset = Unset
    NoWriter = NoWriter
    Legacy = {}
    MaxChanges = 1
    MaxRevision = 2
INVARIANTS AcceptedSettingsStand WorkFollowsRevisions
PROPERTY SettingsReachWork
