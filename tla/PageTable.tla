----------------------------- MODULE PageTable -----------------------------
(***************************************************************************)
(* The three-level page tables of benos: the 2 MB sections boot.S maps     *)
(* before the MMU is on, the calls of __create_pgd_mapping that add to     *)
(* them (create_mmio_mapping for the kernel, stage2_mmu.c for the guest)   *)
(* and the walk dump_pgtable prints.  Table entries lie in memory one      *)
(* behind the other, so that a pointer that runs off its table hits the    *)
(* page behind it.  Addresses are counted in units: PAGE_SIZE units make a *)
(* page, PTRS entries a table (4096 bytes and 512 in the source), and the  *)
(* addresses stay far from 2^64, where the macros would wrap.              *)
(***************************************************************************)
EXTENDS Naturals, Sequences, SequencesExt

CONSTANTS PAGE_SIZE, PTRS,   \* units in a page, entries in a table
          TextBoot, DdrEnd,  \* _text_boot and DDR_END, in pages
          PgDir,             \* the page of idmap_pg_dir
          FreePages,         \* the pages get_free_page gives, in this order
          Mappings,          \* what __create_pgd_mapping is called with
          MaxMappings,       \* bound on the calls, the sections counted
          DumpAt             \* the pages a dump begins and ends at

VARIABLES entry,   \* memory of the pages of the DDR, as page table entries
          taken,   \* how many of FreePages are in use
          calls    \* the calls so far; the first says whose tables these are

vars == <<entry, taken, calls>>

PMD_SIZE == PAGE_SIZE * PTRS
PGDIR_SIZE == PMD_SIZE * PTRS
VaEnd == PGDIR_SIZE * PTRS

(* (addr >> SHIFT) & (PTRS_PER_... - 1), and the alignment macros.         *)
Index(addr, span) == (addr \div span) % PTRS
AlignDown(addr, span) == (addr \div span) * span
AlignUp(addr, span) == AlignDown(addr + span - 1, span)

(* Mutant: the end of the range is forgotten.                              *)
X_AddrEnd(addr, end, span) == AlignDown(addr + span, span)

(* The end of what the entry for addr covers, at most end.                 *)
AddrEnd(addr, end, span) ==
  LET boundary == AlignDown(addr + span, span)
  IN  IF boundary - 1 < end - 1 THEN boundary ELSE end

(* The pieces of the do-while loops over one table: from addr to next.     *)
Pieces(start, end, span) ==
  LET from[addr \in start .. end - 1] ==
        LET next == AddrEnd(addr, end, span)
        IN  <<[addr |-> addr, next |-> next]>>
              \o (IF next < end THEN from[next] ELSE <<>>)
  IN  from[start]

-----------------------------------------------------------------------------
(* An entry is a page number and protection bits; the empty one is 0.      *)
None == [page |-> 0, prot |-> {}]
PAGE_TABLE == {"V"}
SECTION_KERNEL_RWX == {"V", "A", "R", "X", "W", "D"}
PAGE_KERNEL == {"V", "R", "W", "A", "D", "G"}
PAGE_KERNEL_READ_EXEC == {"V", "R", "X", "A", "D", "G"}
Leaf(e) == "V" \in e.prot /\ e.prot \cap {"R", "W", "X"} # {}

(* The address of entry i of the table in a page.                          *)
At(page, i) == page * PTRS + i

(* pgdp, pmdp and ptep: where the entry for addr is.                       *)
PgdOffset(addr) == At(PgDir, Index(addr, PGDIR_SIZE))
PmdpFromPgdp(mem, pgdp, addr) == At(mem[pgdp].page, Index(addr, PMD_SIZE))
PtepFromPmdp(mem, pmdp, addr) == At(mem[pmdp].page, Index(addr, PAGE_SIZE))

(* m is the memory with the number of pages taken from the allocator.
   early_pgtable_alloc: a zeroed page, entered at p when p is empty.       *)
WithTable(m, p) ==
  IF m.entry[p] # None THEN m
  ELSE LET page == FreePages[m.taken + 1] IN
       [taken |-> m.taken + 1,
        entry |-> [a \in DOMAIN m.entry |->
                     IF a = p THEN [page |-> page, prot |-> PAGE_TABLE]
                     ELSE IF a \div PTRS = page THEN None
                     ELSE m.entry[a]]]

AllocInitPte(m, pmdp, addr, end, phys, prot) ==
  LET t == WithTable(m, pmdp)
      ptep == PtepFromPmdp(t.entry, pmdp, addr)
      n == (end - addr) \div PAGE_SIZE
  IN  [t EXCEPT !.entry = [a \in DOMAIN @ |->
         IF a \in ptep .. ptep + n - 1
         THEN [page |-> phys \div PAGE_SIZE + (a - ptep), prot |-> prot]
         ELSE @[a]]]

(* The piece number k is entered at pmdp + k - 1.                          *)
AllocInitPmd(m, pgdp, addr, end, phys, prot) ==
  LET t == WithTable(m, pgdp)
      pmdp == PmdpFromPgdp(t.entry, pgdp, addr)
      pieces == Pieces(addr, end, PMD_SIZE)
      rounds[k \in 0 .. Len(pieces)] ==
        IF k = 0 THEN t
        ELSE AllocInitPte(rounds[k - 1], pmdp + k - 1, pieces[k].addr, pieces[k].next,
                          phys + pieces[k].addr - addr, prot)
  IN  rounds[Len(pieces)]

CreatePgdMapping(m, c) ==
  LET addr == AlignDown(c.virt, PAGE_SIZE)
      end == AlignUp(c.virt + c.size, PAGE_SIZE)
      phys == AlignDown(c.phys, PAGE_SIZE)
      pieces == Pieces(addr, end, PGDIR_SIZE)
      rounds[k \in 0 .. Len(pieces)] ==
        IF k = 0 THEN m
        ELSE AllocInitPmd(rounds[k - 1], PgdOffset(c.virt) + k - 1, pieces[k].addr,
                          pieces[k].next, phys + pieces[k].addr - addr, c.prot)
  IN  rounds[Len(pieces)]

-----------------------------------------------------------------------------
(* boot.S: the sections from _text_boot, aligned down, to DDR_END, aligned
   up, in the table behind idmap_pg_dir.  The guest's tables start empty.  *)
BootStart == AlignDown(TextBoot * PAGE_SIZE, PMD_SIZE)
BootEnd == AlignUp(DdrEnd * PAGE_SIZE, PMD_SIZE)
BootPmd(i) == CHOOSE va \in BootStart .. BootEnd - 1 : Index(va, PMD_SIZE) = i
SectionMapping ==
  [a \in At(TextBoot, 0) .. At(DdrEnd, 0) - 1 |->
     IF a = PgdOffset(BootStart) THEN [page |-> PgDir + 1, prot |-> PAGE_TABLE]
     ELSE IF a \div PTRS = PgDir + 1 /\ \E va \in BootStart .. BootEnd - 1 :
                                           Index(va, PMD_SIZE) = a % PTRS
     THEN [page |-> AlignDown(BootPmd(a % PTRS), PMD_SIZE) \div PAGE_SIZE,
           prot |-> SECTION_KERNEL_RWX]
     ELSE IF a \div PTRS \in {PgDir, PgDir + 1} THEN None
     ELSE [page |-> TextBoot, prot |-> PAGE_KERNEL]]

EmptyTables == [a \in DOMAIN SectionMapping |->
                  IF a \div PTRS \in {PgDir, PgDir + 1} THEN None ELSE SectionMapping[a]]

(* The sections as a call, and the addresses a call covers.                *)
SectionCall == [virt |-> BootStart, phys |-> BootStart, size |-> BootEnd - BootStart,
                prot |-> SECTION_KERNEL_RWX]
Covered(c) == AlignDown(c.virt, PAGE_SIZE) .. AlignUp(c.virt + c.size, PAGE_SIZE) - 1

Init == /\ \E kernel \in BOOLEAN :
             /\ entry = IF kernel THEN SectionMapping ELSE EmptyTables
             /\ calls = IF kernel THEN <<SectionCall>> ELSE <<>>
        /\ taken = 0

(* The kernel maps its devices, which lie away from its sections; the guest
   faults on any address.                                                  *)
Kernel == calls # <<>> /\ calls[1] = SectionCall
Requested ==
  {c \in Mappings : Kernel => Covered(c) \cap (BootStart .. BootEnd - 1) = {}}

(* create_mmio_mapping and set_stage2_page_mapping: one more call.         *)
Map == \E c \in Requested :
         /\ Len(calls) < MaxMappings
         /\ LET m == CreatePgdMapping([entry |-> entry, taken |-> taken], c)
            IN  entry' = m.entry /\ taken' = m.taken
         /\ calls' = Append(calls, c)

Next == Map
Spec == Init /\ [][Next]_vars

-----------------------------------------------------------------------------
(* dump_pgtable.c: the lines the walk prints for start <= addr < end.      *)
Line(start, end, e) ==
  IF e = None THEN <<>> ELSE <<[start |-> start, end |-> end, prot |-> e.prot]>>

WalkPte(pmdp, start, end) ==
  LET ptep == PtepFromPmdp(entry, pmdp, start)
      n == (end - start) \div PAGE_SIZE
  IN  FlattenSeq([k \in 1 .. n |->
        LET addr == start + (k - 1) * PAGE_SIZE
        IN  Line(addr, addr + PAGE_SIZE, entry[ptep + k - 1])])

WalkPmd(pgdp, start, end) ==
  LET pmdp == PmdpFromPgdp(entry, pgdp, start)
      pieces == Pieces(start, end, PMD_SIZE)
  IN  FlattenSeq([k \in 1 .. Len(pieces) |->
        LET p == pieces[k]
            pmd == entry[pmdp + k - 1]
        IN  IF pmd = None \/ Leaf(pmd) THEN Line(p.addr, p.next, pmd)
            ELSE WalkPte(pmdp + k - 1, p.addr, p.next)])

WalkPgd(start, end) ==
  LET pieces == Pieces(start, end, PGDIR_SIZE)
  IN  FlattenSeq([k \in 1 .. Len(pieces) |->
        LET p == pieces[k]
            pgdp == PgdOffset(start) + k - 1
        IN  IF entry[pgdp] = None THEN Line(p.addr, p.next, None)
            ELSE WalkPmd(pgdp, p.addr, p.next)])

-----------------------------------------------------------------------------
(* What the hart makes of the tables: the leaf on the way of va.           *)
Walk(va) ==
  LET pgd == entry[PgdOffset(va)]
      pmd == entry[PmdpFromPgdp(entry, PgdOffset(va), va)]
      pte == entry[PtepFromPmdp(entry, PmdpFromPgdp(entry, PgdOffset(va), va), va)]
      Leads(e, span) == [pa |-> e.page * PAGE_SIZE + (va % span), prot |-> e.prot]
      Nowhere == [pa |-> va, prot |-> {}]
  IN  IF pgd = None THEN Nowhere
      ELSE IF Leaf(pmd) THEN Leads(pmd, PMD_SIZE)
      ELSE IF pmd = None \/ pte = None THEN Nowhere
      ELSE Leads(pte, PAGE_SIZE)

(* The calls that cover the page of va, and what the last of them asks.    *)
Covering(va) == {k \in DOMAIN calls : va \in Covered(calls[k])}
Asked(va) ==
  IF Covering(va) = {} THEN [pa |-> va, prot |-> {}]
  ELSE LET c == calls[CHOOSE k \in Covering(va) : \A j \in Covering(va) : j <= k]
       IN  [pa |-> AlignDown(c.phys, PAGE_SIZE) + va - AlignDown(c.virt, PAGE_SIZE),
            prot |-> c.prot]

TablePages == {PgDir, PgDir + 1} \cup {FreePages[k] : k \in 1 .. taken}

(* Every address leads where the last mapping that covers its page says,
   also where a range begins or ends inside a table, and nothing else of
   memory is written.                                                      *)
MapsExactly ==
  /\ \A va \in 0 .. VaEnd - 1 : Walk(va) = Asked(va)
  /\ \A a \in DOMAIN entry : a \div PTRS \notin TablePages =>
                               entry[a] = SectionMapping[a]

(* The dump of a range tells the truth: its lines are in order, and an
   address lies in one exactly when it is mapped, with its protection.     *)
DumpShowsMapping ==
  \A p, q \in DumpAt :
    p < q =>
      LET start == p * PAGE_SIZE
          end == q * PAGE_SIZE
          lines == WalkPgd(start, end)
      IN  /\ \A k \in 2 .. Len(lines) : lines[k - 1].end <= lines[k].start
          /\ \A va \in start .. end - 1 :
               {l.prot : l \in {m \in ToSet(lines) : va \in m.start .. m.end - 1}}
                 = {Walk(va).prot} \ {{}}

(* Both: what the hart sees and what the dump prints is what was mapped.   *)
TablesShowMappings == MapsExactly /\ DumpShowsMapping
=============================================================================
