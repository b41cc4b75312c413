CONSTANTS
    Rows = {1, 2, 3, 4}
    Positioned = {1, 2}
    Capacity = 27
    Restarts = 0
SPECIFICATION WarmSpec
INVARIANT ReadsBack
