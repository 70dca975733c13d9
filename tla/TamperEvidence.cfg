\* Every log of at most 3 records, with and without a key, under every
\* sequence of at most 2 edits.
CONSTANTS
    Payload = {p1, p2}
    Stamp = {t1}
    Key = {k1}
    MaxRecords = 3
    MaxEdits = 2
SPECIFICATION Spec
INVARIANT HonestLogVerifies
INVARIANT SealedFileIsPrefix
INVARIANT AnchoredFileIsWhole
CHECK_DEADLOCK FALSE
