SPECIFICATION FairSpec
CONSTANTS
    sts1 = sts1  sts2 = sts2
    StatefulSet <- TwoStatefulSets
    Interval <- TwoIntervals
    CronRun = cron
    ManualRun = {manual}
    None = None
    MaxHeight = 5
    MaxRaises = 1
INVARIANTS
    TypeOK
    RotationSpacing
PROPERTIES
    DueIsRotated
