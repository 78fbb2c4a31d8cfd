\* 8 pages to a 2 MB region, 4 regions to a 1 GB one: MMIO and VS_MEM in the first
\* gigabyte, DDR in the second, with 20 free pages that fill in three regions.
SPECIFICATION FairSpec
CONSTANTS
    PtrsPerPte = 8
    PtrsPerPmd = 4
    DdrBase = 32
    DdrEnd = 64
    TextBoot = 40
    Etext = 42
    MemMap = 42
    VsDir = 43
    End = 44
    Clint = 8
    Uart = 16
    VsMem = 24
INVARIANTS PagesExclusive PagesAccounted GuestReadsTheMark PanicsOnlyWithoutPages
PROPERTIES GuestFinishes
