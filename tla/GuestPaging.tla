---------------------------- MODULE GuestPaging ----------------------------
(****************************************************************************)
(* The memory of the guest of src/benos/virt: the page allocator, stage 2   *)
(* filled on demand by stage2_page_fault, and the stage-1 tables that the   *)
(* guest builds for itself.  The guest runs the kernel's own code on the    *)
(* kernel's own mem_map, and every access it makes may end in a fault in    *)
(* which the hypervisor calls the same allocator: in between the test and   *)
(* the set of get_free_page, too.                                           *)
(*                                                                          *)
(* One step is one access of the guest to memory, or one fault with all of  *)
(* its handler (SIE = 0).  Memory is counted in pages.  The walk through    *)
(* __create_pgd_mapping and its two loops is taken page by page.  The guest *)
(* may touch its image at any time, in any order: which page holds which    *)
(* instruction or variable is left open.  The hart sets the D bit of        *)
(* stage-2 entries itself (PAGE_WRITE_EXEC leaves it clear).                *)
(****************************************************************************)
EXTENDS Integers, Sequences, FiniteSets

CONSTANTS
    PtrsPerPte, PtrsPerPmd,     \* entries of a table of the last two levels
    DdrBase, DdrEnd,            \* DDR_BASE, DDR_END
    TextBoot, Etext, End,       \* _text_boot, _etext, _end
    MemMap, VsDir,              \* the pages of mem_map and vs_page_table_dir
    Uart, Clint, VsMem          \* UART, VIRT_CLINT_ADDR, VS_MEM

NR_PAGES == DdrEnd - DdrBase
Pages == 0 .. End + NR_PAGES - 1
Frames == End .. End + NR_PAGES - 1
NoPage == -1

Region(p) == p \div PtrsPerPte
Gig(p) == Region(p) \div PtrsPerPmd
Regions == {Region(p) : p \in Pages}
Gigs == {Gig(p) : p \in Pages}

ASSUME LayoutAssumption ==
    /\ {PtrsPerPte, PtrsPerPmd} \subseteq Nat \ {0}
    /\ {DdrBase, DdrEnd, TextBoot, Etext, End, MemMap, VsDir, Uart, Clint, VsMem} \subseteq Nat
    /\ DdrBase <= TextBoot /\ TextBoot < Etext /\ Etext < End /\ End < DdrEnd
    /\ {MemMap, VsDir} \subseteq Etext .. End - 1
    /\ Uart < DdrBase /\ Clint < DdrBase /\ VsMem < DdrBase
    /\ Cardinality({Uart, Clint, VsMem}) = 3
    /\ Region(TextBoot) = Region(End - 1)    \* linker.ld: the image is far below 2 MB

VARIABLES
    mem_map,        \* the indices of mem_map that are not 0
    s2_pgd, s2_pmd, \* the table page an entry of stage 2 points to, or NoPage
    s2_pte,         \* the accesses the stage-2 leaf of a page allows
    vs_pgd, vs_pmd, \* the same for the guest's stage 1
    vs_pte,         \* the page a stage-1 leaf points to, or NoPage
    vsatp,          \* stage 1 is on
    pc,             \* where the guest is, see Places
    job,            \* which page of VsPages it maps
    i,              \* get_free_page's i
    page,           \* the page get_free_page has returned, not yet in a table
    gpa,            \* vs_main's gpa_addr
    cell,           \* the word at gpa_addr
    seen,           \* the values read at VS_MEM so far
    panicked        \* panic(), in the hypervisor or in the guest

s2 == <<s2_pgd, s2_pmd, s2_pte>>
vs == <<vs_pgd, vs_pmd, vs_pte>>
vars == <<mem_map, s2, vs, vsatp, pc, job, i, page, gpa, cell, seen, panicked>>

Places == {
    "pgd",          \* alloc_init_pmd: test of *pgdp
    "pmd",          \* alloc_init_pte: test of *pmdp
    "pte",          \* set_pte
    "scan", "take", \* get_free_page: test of mem_map[i], mem_map[i] = 1
    "zero",         \* early_pgtable_alloc: memset
    "hang",         \* set_pgd or set_pmd of the new table
    "vsatp",        \* the end of vs_paging_init
    "print",        \* printk
    "read", "hlv", "hsv", "reread", "done" }

-----------------------------------------------------------------------------
(* The hypervisor: get_free_page, early_pgtable_alloc, stage2_page_fault. *)

\* get_free_page: the lowest index that is 0.
get_free_page(map) ==
    LET free == (0 .. NR_PAGES - 1) \ map
    IN  IF free = {} THEN NoPage ELSE End + CHOOSE k \in free : \A l \in free : k <= l

\* The hypervisor's own map ends at DDR_END; 0 is not in it either.
Reachable(p) == p # NoPage /\ p < DdrEnd

Loads == {"load", "fetch"}
Kinds == Loads \cup {"store"}

\* Mutant: a store fault maps the page for reading, like any other fault.
FaultProt_ReadOnly(kind) == Loads

\* PAGE_WRITE_EXEC after a store, PAGE_READ_EXEC after a load or a fetch.
FaultProt(kind) == IF kind = "store" THEN Kinds ELSE Loads

\* Mutant: *pmdp is not tested before a table is allocated for it.
NoPteTable_Always(r) == TRUE

\* pgd_none(*pgdp), pmd_none(*pmdp) in the stage-2 tree.
NoPmdTable(g) == s2_pgd[g] = NoPage
NoPteTable(r) == s2_pmd[r] = NoPage

\* The word at gpa_addr after the pages of F are set to 0.
Zeroed(F) == IF gpa \in F THEN "zero" ELSE cell

\* mem_map after get_free_page has returned f.
Marked(map, f) == IF f = NoPage THEN map ELSE map \cup {f - End}

\* stage2_page_fault for page p: p -> p, with the tables that are missing.  A table
\* that memset cannot reach is a page fault of the hypervisor, and panic().
stage2_page_fault(p, kind) ==
    LET newPmd == NoPmdTable(Gig(p))
        newPte == NoPteTable(Region(p))
        pmd    == get_free_page(mem_map)
        map    == IF newPmd THEN Marked(mem_map, pmd) ELSE mem_map
        pte    == get_free_page(map)
        okPmd  == newPmd => Reachable(pmd)
        okPte  == newPte => Reachable(pte)
        tables == (IF newPmd THEN {pmd} ELSE {}) \cup (IF newPte THEN {pte} ELSE {})
    IN  /\ mem_map' = IF newPte /\ okPmd THEN Marked(map, pte) ELSE map
        /\ s2_pgd' = IF newPmd /\ okPmd THEN [s2_pgd EXCEPT ![Gig(p)] = pmd] ELSE s2_pgd
        /\ s2_pmd' = IF newPte /\ okPmd /\ okPte THEN [s2_pmd EXCEPT ![Region(p)] = pte]
                                                ELSE s2_pmd
        /\ s2_pte' = IF okPmd /\ okPte THEN [s2_pte EXCEPT ![p] = FaultProt(kind)]
                                       ELSE s2_pte
        /\ cell' = Zeroed(tables)
        /\ panicked' = ~(okPmd /\ okPte)

-----------------------------------------------------------------------------
(* What the guest does. *)

\* Mutant: vs_paging_init maps the image, not all of the DDR.
VsPages_ImageOnly == [k \in 1 .. End - TextBoot |-> TextBoot + k - 1] \o <<Uart, Clint, VsMem>>

\* The pages that vs_paging_init and set_vs_mapping_page map, in their order.
VsPages == [k \in 1 .. DdrEnd - TextBoot |-> TextBoot + k - 1] \o <<Uart, Clint, VsMem>>

virt == VsPages[job]

\* Mutant: set_vs_mapping_page maps VS_MEM to itself.
phys_Identity == virt

\* The identity, but for VS_MEM, which is mapped to gpa_addr.
phys == IF virt = VsMem THEN gpa ELSE virt

\* The table that the entry for virt of the level that pc is at lies in.
NoTable == IF vs_pgd[Gig(virt)] = NoPage THEN "pgd" ELSE "pmd"
EntryPage(level) == IF level = "pgd" THEN VsDir ELSE vs_pgd[Gig(virt)]

\* The guest physical page and the kind of the access that comes next.
Access ==
    CASE pc \in {"pgd", "pmd"}            -> <<EntryPage(pc), "load">>
      [] pc = "pte"                       -> <<vs_pmd[Region(virt)], "store">>
      [] pc = "scan"                      -> <<MemMap, "load">>
      [] pc = "take"                      -> <<MemMap, "store">>
      [] pc = "zero"                      -> <<page, "store">>
      [] pc = "hang"                      -> <<EntryPage(NoTable), "store">>
      [] pc = "print"                     -> <<Uart, "store">>
      [] pc \in {"read", "reread", "hlv"} -> <<vs_pte[VsMem], "load">>
      [] pc = "hsv"                       -> <<vs_pte[VsMem], "store">>
      [] OTHER                            -> <<TextBoot, "fetch">>

\* What else it may touch before: its code, variables and stack, and LSR.
Touches ==
    ((TextBoot .. Etext - 1) \X Loads) \cup ((Etext .. End - 1) \X {"load", "store"})
        \cup IF pc = "print" THEN {<<Uart, "load">>} ELSE {}

Permits(a) == a[2] \in s2_pte[a[1]]

\* The page that access has as a virtual one, when stage 1 is on.
GuestVirtual == IF pc \in {"read", "reread", "hlv", "hsv"} THEN VsMem ELSE Access[1]

\* get_free_page gave the guest 0 to write to, or stage 1 does not map what it
\* accesses: a page fault of the hypervisor or the guest, and panic().
Oops ==
    \/ pc = "zero" /\ page = NoPage
    \/ vsatp /\ vs_pte[GuestVirtual] = NoPage

\* A guest page fault, also one that hlvwu or hsvw takes in the hypervisor.
Fault ==
    /\ ~panicked /\ ~Oops /\ pc # "done"
    /\ \E a \in Touches \cup {Access} : ~Permits(a) /\ stage2_page_fault(a[1], a[2])
    /\ UNCHANGED <<vs, vsatp, pc, job, i, page, gpa, seen>>

GuestPanic ==
    /\ ~panicked /\ Oops
    /\ panicked' = TRUE
    /\ UNCHANGED <<mem_map, s2, vs, vsatp, pc, job, i, page, gpa, cell, seen>>

\* The access at place goes through; UNCHANGED of what no guest step changes.
At(place) ==
    /\ ~panicked /\ ~Oops /\ pc = place /\ Permits(Access)
    /\ UNCHANGED <<s2, gpa, panicked>>

-----------------------------------------------------------------------------
(* The guest's page tables (vs_mmu.c) and its calls of get_free_page. *)

PgdTest ==
    /\ At("pgd")
    /\ pc' = IF vs_pgd[Gig(virt)] = NoPage THEN "scan" ELSE "pmd"
    /\ UNCHANGED <<mem_map, vs, vsatp, job, i, page, cell, seen>>

PmdTest ==
    /\ At("pmd")
    /\ pc' = IF vs_pmd[Region(virt)] = NoPage THEN "scan" ELSE "pte"
    /\ UNCHANGED <<mem_map, vs, vsatp, job, i, page, cell, seen>>

\* One round of the loop; past the last index it returns 0.
Scan ==
    /\ At("scan")
    /\ IF i \notin mem_map
       THEN pc' = "take" /\ UNCHANGED <<i, page>>
       ELSE IF i + 1 < NR_PAGES
       THEN i' = i + 1 /\ UNCHANGED <<pc, page>>
       ELSE pc' = "zero" /\ page' = NoPage /\ i' = 0
    /\ UNCHANGED <<mem_map, vs, vsatp, job, cell, seen>>

\* Mutant: mem_map[i] is not set.
Take_Forgotten ==
    /\ At("take")
    /\ page' = End + i
    /\ i' = 0
    /\ pc' = "zero"
    /\ UNCHANGED <<mem_map, vs, vsatp, job, cell, seen>>

\* mem_map[i] = 1 and the return.
Take ==
    /\ At("take")
    /\ mem_map' = mem_map \cup {i}
    /\ page' = End + i
    /\ i' = 0
    /\ pc' = "zero"
    /\ UNCHANGED <<vs, vsatp, job, cell, seen>>

Zero ==
    /\ At("zero")
    /\ cell' = Zeroed({page})
    /\ pc' = "hang"
    /\ UNCHANGED <<mem_map, vs, vsatp, job, i, page, seen>>

\* set_pgd or set_pmd, after which the code goes on one level down.
Hang ==
    /\ At("hang")
    /\ IF NoTable = "pgd"
       THEN /\ vs_pgd' = [vs_pgd EXCEPT ![Gig(virt)] = page]
            /\ pc' = "pmd"
            /\ UNCHANGED vs_pmd
       ELSE /\ vs_pmd' = [vs_pmd EXCEPT ![Region(virt)] = page]
            /\ pc' = "pte"
            /\ UNCHANGED vs_pgd
    /\ page' = NoPage
    /\ UNCHANGED <<mem_map, vs_pte, vsatp, job, i, cell, seen>>

\* set_pte, then the next page, the end of vs_paging_init, or of the mapping.
PteSet ==
    /\ At("pte")
    /\ vs_pte' = [vs_pte EXCEPT ![virt] = phys]
    /\ IF job = Len(VsPages) THEN pc' = "print" /\ UNCHANGED job
       ELSE /\ job' = job + 1
            /\ pc' = IF job + 1 = Len(VsPages) THEN "vsatp" ELSE "pgd"
    /\ UNCHANGED <<mem_map, vs_pgd, vs_pmd, vsatp, i, page, cell, seen>>

WriteVsatp ==
    /\ At("vsatp")
    /\ vsatp' = TRUE
    /\ pc' = "pgd"
    /\ UNCHANGED <<mem_map, vs, job, i, page, cell, seen>>

-----------------------------------------------------------------------------
(* The rest of vs_main, with the two accesses of vs_sbi_ecall_handle. *)

AfterAccess == [print |-> "read", read |-> "hlv", hlv |-> "hsv", hsv |-> "reread",
                reread |-> "done"]

\* What a load at VS_MEM returns.
Word == IF vs_pte[VsMem] = gpa THEN cell ELSE "other"

Test(place) ==
    /\ At(place)
    /\ pc' = AfterAccess[place]
    /\ seen' = IF place \in {"read", "hlv", "reread"} THEN Append(seen, Word) ELSE seen
    /\ cell' = IF place = "hsv" /\ vs_pte[VsMem] = gpa THEN "host" ELSE cell
    /\ UNCHANGED <<mem_map, vs, vsatp, job, i, page>>

-----------------------------------------------------------------------------
\* The hypervisor's part of vs_main is over: gpa_addr is the first page that was
\* free, whatever the kernel and its tasks had taken before.
Init ==
    /\ gpa \in End .. DdrEnd - 1
    /\ mem_map = 0 .. gpa - End
    /\ s2_pgd = [g \in Gigs |-> NoPage]
    /\ s2_pmd = [r \in Regions |-> NoPage]
    /\ s2_pte = [p \in Pages |-> {}]
    /\ vs_pgd = [g \in Gigs |-> NoPage]
    /\ vs_pmd = [r \in Regions |-> NoPage]
    /\ vs_pte = [p \in Pages |-> NoPage]
    /\ vsatp = FALSE
    /\ pc = "pgd"
    /\ job = 1
    /\ i = 0
    /\ page = NoPage
    /\ cell = "mark"
    /\ seen = <<>>
    /\ panicked = FALSE

Guest ==
    \/ PgdTest \/ PmdTest \/ Scan \/ Take \/ Zero \/ Hang \/ PteSet \/ WriteVsatp
    \/ \E place \in DOMAIN AfterAccess : Test(place)

Next ==
    \/ Fault \/ GuestPanic \/ Guest
    \/ (panicked \/ pc = "done") /\ UNCHANGED vars

Spec == Init /\ [][Next]_vars

\* The hart executes the guest, and the hypervisor's handler when it faults.
FairSpec == Spec /\ WF_vars(Next)

-----------------------------------------------------------------------------
(* Properties. *)

TypeOK ==
    /\ mem_map \subseteq 0 .. NR_PAGES - 1
    /\ s2_pgd \in [Gigs -> Frames \cup {NoPage}]
    /\ s2_pmd \in [Regions -> Frames \cup {NoPage}]
    /\ s2_pte \in [Pages -> {{}, Loads, Kinds}]
    /\ vs_pgd \in [Gigs -> Frames \cup {NoPage}]
    /\ vs_pmd \in [Regions -> Frames \cup {NoPage}]
    /\ vs_pte \in [Pages -> Pages \cup {NoPage}]
    /\ vsatp \in BOOLEAN
    /\ pc \in Places
    /\ job \in 1 .. Len(VsPages)
    /\ i \in 0 .. NR_PAGES - 1
    /\ page \in Frames \cup {NoPage}
    /\ gpa \in Frames
    /\ cell \in {"mark", "host", "zero"}
    /\ seen \in Seq({"mark", "host", "zero", "other"})
    /\ panicked \in BOOLEAN

\* Who uses which page since vs_main asked for gpa_addr.
Uses ==
    {u \in {<<"gpa", 0, gpa>>, <<"new", 0, page>>}
             \cup {<<"s2_pgd", g, s2_pgd[g]>> : g \in Gigs}
             \cup {<<"s2_pmd", r, s2_pmd[r]>> : r \in Regions}
             \cup {<<"vs_pgd", g, vs_pgd[g]>> : g \in Gigs}
             \cup {<<"vs_pmd", r, vs_pmd[r]>> : r \in Regions} : u[3] # NoPage}

\* The allocator is shared with the guest, whose get_free_page can be interrupted by
\* a fault that allocates: still no page of page_alloc.c:29-40 serves two purposes.
PagesExclusive == \A u, v \in Uses : u[3] = v[3] => u = v

\* No page is lost or used without being marked: the pages marked since vs_main
\* started are those in use, in the tables, as gpa_addr or on their way to a table.
PagesAccounted ==
    ~panicked => {u[3] : u \in Uses} = {End + k : k \in mem_map} \ (End .. gpa - 1)

\* vs_main.c:68, two-stage translation works: the guest, the hypervisor's hlvwu and
\* the guest again read at VS_MEM what was stored last, at the start and by hsvw.
GuestReadsTheMark ==
    pc = "done" => seen = <<"mark", "mark", "host">>

\* Neither the hypervisor nor the guest panics while the DDR has a free page left.
PanicsOnlyWithoutPages ==
    panicked => \A k \in 0 .. NR_PAGES - 1 : End + k < DdrEnd => k \in mem_map

\* No access faults for ever: the guest gets through vs_main, or memory runs out.
GuestFinishes == <>(pc = "done" \/ panicked)
=============================================================================
