\* Three tasks and the init task, slices short enough to be used up often.
SPECIFICATION FairSpec
CONSTANTS
    NR_TASK = 4
    NR_FREE = 7
    DEF_COUNTER = 3
    PRIORITY = 1
INVARIANTS TypeOK RunQueueOK NoSchedulingBug ParkedOK KernelHonoursFlag
PROPERTIES LateByOneTrap ImplementsTimeSlicing NoStarvation
