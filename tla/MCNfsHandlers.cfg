SPECIFICATION Spec
CONSTANTS
    MaxId = 4
    Names = {"a", "b"}
    SourceNames = {"a"}
    Verfs = {v0}
    NoVerf = v0
    Tasks = {t1, t2}
SYMMETRY Symmetry
VIEW View
INVARIANTS TypeOK NoDanglingChild OneParent ParentLists UniqueFileNames NoCycle
PROPERTY LostOnlyByLateRename
