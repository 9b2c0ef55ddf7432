\* Two locks, three clients that send what they like, one command at a time,
\* which may be truncated away.
CONSTANTS
    Key = {k1, k2}
    Owner = {o1, o2, o3}
    MaxPending = 1
SPECIFICATION Spec
SYMMETRY Symmetry
INVARIANTS TypeOK Exclusion WaitersHaveHolders
PROPERTIES OnlyReleaseRevokes ImplementsReadersWriter
           HandoverInOrder WaitersKeepPlace CircleHasCause
