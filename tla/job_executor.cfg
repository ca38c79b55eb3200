SPECIFICATION JESpec
CONSTANTS
    MaxJobs = 4
INVARIANTS JETypeOK NoJobAbandoned ContinuationsInOrder
PROPERTIES HangsOnlyOnNestedCall
CHECK_DEADLOCK FALSE
