\* The ratio of HZ = 100 and VS_HZ = 50.
SPECIFICATION FairSpec
CONSTANTS
    Period = 3
    VsPeriod = 6
INVARIANTS OneLink OneVirtualLink
PROPERTIES NoEarlyTick HostIsOneShot VcpuIsOneShot TicksForever GuestTicks
