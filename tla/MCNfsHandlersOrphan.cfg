SPECIFICATION Spec
CONSTANTS
    MaxId = 3
    Names = {"a"}
    SourceNames = {"a"}
    Verfs = {v0}
    NoVerf = v0
    Tasks = {t1, t2}
SYMMETRY Symmetry
INVARIANT NoOrphanFile
