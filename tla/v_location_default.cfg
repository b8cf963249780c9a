SPECIFICATION LocationSpec
CONSTANTS
    Places = {"shop", "branch"}
    Foreign = {"elsewhere"}
    Editors = {w1}
INVARIANT
    DefaultOnceAny
CHECK_DEADLOCK FALSE
