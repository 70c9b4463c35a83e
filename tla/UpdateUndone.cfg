\* One helper; the program may be opened again while it works.
SPECIFICATION HelperSpec
CONSTANTS
    Helpers = {h1}
    Starts = TRUE
    MaxOutages = 0
INVARIANTS RolledBackIsTrue
CHECK_DEADLOCK FALSE
