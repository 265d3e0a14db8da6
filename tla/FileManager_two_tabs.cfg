SPECIFICATION Spec
CONSTANTS
    Tabs = {t1, t2}
    Paths <- MCPaths
    MaxTexts = 2
    Dropped <- MCDropped
    TooLarge <- MCTooLarge
    NoPath = NoPath
    Marker <- MCMarker
    Absent = Absent
    Dir = Dir
    Uploads <- MCUploads
    NoRequest = NoRequest
INVARIANTS TypeOK UntouchedSaveIsHarmless MovesKeepContent
SYMMETRY Symmetry
CHECK_DEADLOCK FALSE
