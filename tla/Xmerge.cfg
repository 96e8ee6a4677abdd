SPECIFICATION FairSpec
CONSTANTS
    Lens <- MCLens
    PAGE_SIZE = 2
    IntBits = 3
INVARIANTS NothingLeaks Concatenates ReportsTruly
PROPERTY Terminates
