SPECIFICATION FairSpec
CONSTANTS
    SlotCount = 3
    Task = {t1, t2, t3}
    Delay = {0, 1, 6, 15}
    Null = Null
PROPERTIES ImplementsTimers CanceledDropped
