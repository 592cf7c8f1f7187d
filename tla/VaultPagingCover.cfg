SPECIFICATION Spec
CONSTANTS
    ItemIds = {1, 2, 3}
    ItemTypes = {"credential"}
    ListMax = 2
    ListDefault = 1
    PageLimit = 2
    TypeFilter = ""
    MaxWrites = 0
CHECK_DEADLOCK FALSE
INVARIANT PagesCoverAll
