SPECIFICATION Spec
CONSTANTS
    Chunks = {c1, c2}
    Rows = {1, 2, 3, 4}
    Nullmaps = {{}, {1}, {1, 2, 3}, {1, 2, 3, 4}}
    MaxObjects = 5
INVARIANTS TypeOK NullmapRight FreedOnce NoDangling NothingLeaks
CHECK_DEADLOCK FALSE
