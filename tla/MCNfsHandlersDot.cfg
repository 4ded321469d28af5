SPECIFICATION Spec
CONSTANTS
    MaxId = 3
    Names = {"a", "b"}
    SourceNames = {"a", "."}
    Verfs = {v0}
    NoVerf = v0
    Tasks = {t1}
INVARIANT OneParent
