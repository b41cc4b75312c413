CONSTANTS
    Rows = {1, 2}
    Positioned = {1, 2}
    Capacity = 27
    Restarts = 1
SPECIFICATION WarmSpecReopen
INVARIANT ReadsBack
