SPECIFICATION TickOrEditSpec
CHECK_DEADLOCK FALSE
CONSTANTS
    c1 = c1
    c2 = c2
    ContainerOrder <- OneContainer
    Ticks = {t1}
    First = first
    Pointers = {a1, a2, a3}
    None = None
    MaxTicks = 1
    MaxFaults = 1
    MaxEdits = 1
INVARIANTS
    TypeOK
    PublishedImageIsPushed
    GoneIsUnscheduled
PROPERTIES
    JobBecomesCurrent
    ImplementsContract
