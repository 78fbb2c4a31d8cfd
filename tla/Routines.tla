------------------------------ MODULE Routines ------------------------------
(***************************************************************************)
(* The routines of the kernel, the firmware and the build that compute a   *)
(* result from their arguments and a little state: a behaviour picks one   *)
(* of them and makes its calls.  Each has its own module; the parameters   *)
(* of them all are the parameters here.                                    *)
(***************************************************************************)
EXTENDS Kallsyms

CONSTANTS
  PAGE_SIZE, PTRS, TextBoot, DdrEnd, PgDir,           \* PageTable
  FreePages, Mappings, MaxMappings, DumpAt,
  XLEN, Requests, MaxRequests,                        \* Pmp
  MemEnd, Fills,                                      \* Memset
  LongBits, IntBits, ShortBits,                       \* PrintFormat
  Directives, Args, Strings,
  TextEnd, Top, Sizes, Sites                          \* StackTrace

(* What memset is called with: an address, a value, a number of bytes.     *)
ASSUME FillsAssumption == \A f \in Fills : f.s \in Nat /\ f.c \in Int /\ f.count \in Nat

(* The text ends below the stacks, sp keeps to two words, and a frame has
   room for the two words of struct stackframe.                            *)
ASSUME StackAssumption ==
    /\ TextEnd \in Nat /\ Top \in Nat /\ TextEnd <= Top /\ Top % 2 = 0
    /\ Sites \in SUBSET (1 .. TextEnd - 1)
    /\ \A size \in Sizes : size \in Nat /\ size >= 2 /\ size % 2 = 0

VARIABLES unit,
          entry, taken, calls,
          pmpaddr, pmpcfg, asked, requests,
          memory, misaligned, fill,
          directive, arg, text,
          mode, vector, medeleg, mideleg, hedeleg, hideleg, enabled, trap,
          mem, ra, sp, fp, chain, smashed

Tables == INSTANCE PageTable
Firmware == INSTANCE Pmp
Filler == INSTANCE Memset
Printer == INSTANCE PrintFormat
Routing == INSTANCE TrapRouting WITH taken <- trap
Tracer == INSTANCE StackTrace WITH pc <- ra

(* sbi_set_pmp is called with the number of an entry and a range that begins
   in the address space; the space holds more than one smallest region.    *)
ASSUME RequestsAssumption ==
    /\ XLEN \in Nat /\ XLEN > Firmware!PMP_SHIFT
    /\ \A r \in Requests : r.reg \in Nat /\ r.start \in Firmware!Word /\ r.size \in Nat

(* A directive as myprintf has parsed it, the words of a long, and strings
   without blanks, so that the field can be told from its padding.         *)
ASSUME FieldsAssumption ==
    /\ LongBits \in Nat /\ {IntBits, ShortBits} \subseteq 1 .. LongBits
    /\ \A w \in Args : w \in Nat /\ w < Printer!Pow2[LongBits]
    /\ Directives \in SUBSET [conv : {"c", "s", "d", "i", "u", "o", "x", "X", "p"},
                              flags : SUBSET {"ZEROPAD", "PLUS", "SPACE", "LEFT", "SPECIAL"},
                              width : Int, precision : Int, qualifier : {"", "h", "l", "L"}]
    /\ \A s \in Strings : s \in Seq(STRING) /\ \A k \in DOMAIN s : s[k] # " "

(* The tables lie in the DDR and get_free_page gives pages of the DDR, each
   once, as many as the calls need tables.  The sections of boot.S share one
   directory entry; what is mapped later are pages of the address space, not
   the sections once more, by which the kernel's tables are known.         *)
Needed ==
  LET spanned == UNION {Tables!Covered(c) : c \in Mappings}
  IN  {<<"pgd", va \div Tables!PGDIR_SIZE>> : va \in spanned}
        \cup {<<"pmd", va \div Tables!PMD_SIZE>> : va \in spanned}

ASSUME TablesAssumption ==
    /\ PAGE_SIZE \in Nat \ {0} /\ PTRS \in Nat \ {0, 1}
    /\ {TextBoot, DdrEnd, PgDir} \subseteq Nat /\ {PgDir, PgDir + 1} \subseteq TextBoot .. DdrEnd - 1
    /\ FreePages \in Seq((TextBoot .. DdrEnd - 1) \ {PgDir, PgDir + 1})
    /\ \A k, l \in DOMAIN FreePages : FreePages[k] = FreePages[l] => k = l
    /\ Cardinality(Needed) <= Len(FreePages)
    /\ Tables!BootStart \div Tables!PGDIR_SIZE = (Tables!BootEnd - 1) \div Tables!PGDIR_SIZE
    /\ Tables!BootEnd <= Tables!VaEnd
    /\ \A c \in Mappings :
         /\ {c.virt, c.phys, c.size} \subseteq Nat /\ c.size > 0
         /\ "V" \in c.prot /\ c.prot \cap {"R", "W", "X"} # {}
         /\ Tables!Covered(c) \subseteq 0 .. Tables!VaEnd - 1
    /\ Tables!SectionCall \notin Mappings
    /\ DumpAt \subseteq 0 .. PTRS * PTRS * PTRS

-----------------------------------------------------------------------------
tables == <<entry, taken, calls>>
firmware == <<pmpaddr, pmpcfg, asked, requests>>
filler == <<memory, misaligned, fill>>
printer == <<directive, arg, text>>
routing == <<mode, vector, medeleg, mideleg, hedeleg, hideleg, enabled, trap>>
tracer == <<mem, ra, sp, fp, chain, smashed>>
symbols == vars
units == <<unit, symbols, tables, firmware, filler, printer, routing, tracer>>

(* The routines that are not picked have no state.                         *)
InitRoutines ==
  /\ unit \in {"symbols", "tables", "firmware", "filler", "printer",
              "routing", "tracer"}
  /\ IF unit = "symbols" THEN Init
     ELSE pc = "none" /\ maps = {} /\ pass = {} /\ listed = {} /\ table = {}
          /\ best = {} /\ profit = {} /\ slot = {} /\ out = {} /\ addr = {}
          /\ low = {} /\ high = {} /\ result = {}
  /\ IF unit = "tables" THEN Tables!Init
     ELSE entry = {} /\ taken = {} /\ calls = {}
  /\ IF unit = "firmware" THEN Firmware!Init
     ELSE pmpaddr = {} /\ pmpcfg = {} /\ asked = {} /\ requests = {}
  /\ IF unit = "filler" THEN Filler!Init
     ELSE memory = {} /\ misaligned = {} /\ fill = {}
  /\ IF unit = "printer" THEN Printer!Init
     ELSE directive = {} /\ arg = {} /\ text = {}
  /\ IF unit = "routing" THEN Routing!Init
     ELSE mode = {} /\ vector = {} /\ medeleg = {} /\ mideleg = {}
          /\ hedeleg = {} /\ hideleg = {} /\ enabled = {} /\ trap = {}
  /\ IF unit = "tracer" THEN Tracer!Init
     ELSE mem = {} /\ ra = {} /\ sp = {}
          /\ fp = {} /\ chain = {} /\ smashed = {}

MakeSymbols == /\ unit = "symbols" /\ Next
               /\ UNCHANGED <<unit, tables, firmware, filler, printer, routing, tracer>>
MapPages == /\ unit = "tables" /\ Tables!Next
            /\ UNCHANGED <<unit, symbols, firmware, filler, printer, routing, tracer>>
SetPmp == /\ unit = "firmware" /\ Firmware!Next
          /\ UNCHANGED <<unit, symbols, tables, filler, printer, routing, tracer>>
FillMemory == /\ unit = "filler" /\ Filler!Next
              /\ UNCHANGED <<unit, symbols, tables, firmware, printer, routing, tracer>>
PrintField == /\ unit = "printer" /\ Printer!Next
              /\ UNCHANGED <<unit, symbols, tables, firmware, filler, routing, tracer>>
RouteTraps == /\ unit = "routing" /\ Routing!Next
              /\ UNCHANGED <<unit, symbols, tables, firmware, filler, printer, tracer>>
TraceCalls == /\ unit = "tracer" /\ Tracer!Next
              /\ UNCHANGED <<unit, symbols, tables, firmware, filler, printer, routing>>

NextRoutines ==
  \/ MakeSymbols \/ MapPages \/ SetPmp \/ FillMemory
  \/ PrintField \/ RouteTraps \/ TraceCalls
SpecRoutines == InitRoutines /\ [][NextRoutines]_units

-----------------------------------------------------------------------------
(* mmu.c, dump_pgtable.c: what the hart sees and what the dump prints is
   what the calls have mapped.                                             *)
TablesShowMappings == unit = "tables" => Tables!TablesShowMappings

(* sbi_set_pmp: an access has the permission of the first request that
   holds its address, whatever was set before.                             *)
AccessAsRequested == unit = "firmware" => Firmware!AccessAsRequested

(* memset.c: exactly the bytes asked for are set.                          *)
FilledExactly == unit = "filler" => Filler!FilledExactly

(* printk.c: a printed field reads back as the value it was given.         *)
FieldReadsBack == unit = "printer" => Printer!FieldReadsBack

(* sbi_trap.c, trap.c, vs_trap.c: every trap reaches the routine that
   serves it or is reported under its name.                                *)
TrapsFindHandlers == unit = "routing" => Routing!TrapsFindHandlers

(* stacktrace.c: the back trace is the chain of calls, and always ends.    *)
TraceIsTheCallChain == unit = "tracer" => Tracer!TraceIsTheCallChain
=============================================================================
