CONSTANTS
    Tile = {t1, t2, t3}
    MaxLength = 4
    Unbound = Unbound
SPECIFICATION PrefetchSpec
INVARIANTS Partitioned
\* The loop is over once the report is returned or the exception raised.
CHECK_DEADLOCK FALSE
