------------------------------ MODULE Kallsyms ------------------------------
(***************************************************************************)
(* The symbol table of BenOS: the build tool scripts/kallsyms/kallsyms.c   *)
(* (run twice by the Makefile, on the nm output of two links), the tables  *)
(* it writes, and the kernel's lookup in them, src/kallsyms.c.             *)
(*                                                                         *)
(* A character is a code of 0..NrCodes-1 with 0 the terminator; a symbol is *)
(* its type letter followed by its name.  The names the tool compares with *)
(* string functions are constants.  Options of the tool the Makefile does  *)
(* not give (--all-symbols, --absolute-percpu, ...) are left out.          *)
(***************************************************************************)
EXTENDS Integers, Sequences, FiniteSets, SequencesExt, FiniteSetsExt

CONSTANTS
  NrCodes,        \* number of character codes (256 in the code)
  MarkerEvery,    \* symbols per entry of kallsyms_markers (256 in the code)
  AddrSpace,      \* addresses are 0 .. AddrSpace-1 and arithmetic wraps
  Maps,           \* pairs of nm outputs, of the first and of the second link
  Underscore,     \* the code of '_'
  WeakTypes, AbsTypes, UndefTypes, DebugTypes,   \* codes of type letters
  StextName, EtextName, TextName,                \* _stext, _etext, _text
  KeptAbsolutes,  \* the four absolute symbols that are kept
  DollarNames,    \* names that begin with '$'
  Excluded,       \* special_symbols[], and names with "_compiled."
  LinkerProvided  \* names that look like __start_x, __x_end, ...

Codes == 0 .. NrCodes - 1
NUL == 0
Pairs == Codes \X Codes

Line(m, name) == CHOOSE l \in ToSet(m) : l.name = name

(* The fields of a line are read as C strings, without a terminator inside;
   nm always lists the three text labels of linker.ld.                     *)
Characters == Codes \ {NUL}
ASSUME MapsAssumption ==
  \A maps \in Maps : \A k \in 1 .. 2 :
    /\ maps[k] \in Seq([addr : 0 .. AddrSpace - 1, type : Characters,
                        name : Seq(Characters)])
    /\ \A n \in {StextName, EtextName, TextName} :
         \E l \in ToSet(maps[k]) : l.name = n

ASSUME SizeAssumption ==
  NrCodes \in Nat \ {0} /\ MarkerEvery \in Nat \ {0} /\ AddrSpace \in Nat

(* The text does not begin at address 0, and its labels are not excluded.  *)
ASSUME LabelsAssumption ==
  \A maps \in Maps : /\ Line(maps[2], StextName).addr # 0
                     /\ StextName \notin Excluded /\ EtextName \notin Excluded

(* Before the second link the tables are added, with labels that the tool
   leaves out.  The other lines stay, in their order, and so do the labels of
   the text; what is not below _etext may move, but never below it.        *)
Own(m) == {j \in 1 .. Len(m) : m[j].name \notin Excluded}
PlaceIn(S, j) == Cardinality({k \in S : k < j})
Relinked(one, two, a, b) ==
  /\ a.name = b.name /\ a.type = b.type
  /\ \/ a.addr = b.addr
     \/ /\ a.addr >= Line(one, EtextName).addr /\ b.addr >= Line(two, EtextName).addr
        /\ a.name \notin {StextName, EtextName}
ASSUME RelinkAssumption ==
  \A maps \in Maps :
    LET one == maps[1]
        two == maps[2]
    IN  /\ \A m \in {one, two} : \A l \in ToSet(m) :
             l.name \in {StextName, EtextName} => l = Line(m, l.name)
        /\ Cardinality(Own(one)) = Cardinality(Own(two))
        /\ \A i \in Own(one), j \in Own(two) :
             PlaceIn(Own(one), i) = PlaceIn(Own(two), j) => Relinked(one, two, one[i], two[j])

VARIABLES
  pc,       \* "read", "optimize", "write"; then the kernel: "ready", "search"
  maps,     \* the two nm outputs
  pass,     \* which run of the tool: 1 or 2
  listed,   \* the valid symbols the first pass found
  table,    \* table[]: the symbols, compressed in place
  best,     \* best_table[]: the expansion of a code by one step
  profit,   \* token_profit[]
  slot,     \* i of optimize_result
  out,      \* the generated tables
  addr, low, high,   \* kallsyms_lookup's argument and binary search
  result    \* what the last lookup returned

vars == <<pc, maps, pass, listed, table, best, profit, slot, out, addr, low,
          high, result>>

-----------------------------------------------------------------------------
(* Reading, filtering and sorting the map.                                 *)

(* read_symbol: the lines that become an entry of table[]. *)
Readable(l) ==
  \/ l.name \in {TextName, StextName, EtextName}
  \/ /\ l.type \in AbsTypes => l.name \in KeptAbsolutes
     /\ l.type \notin UndefTypes \cup DebugTypes
     /\ l.name \notin DollarNames

(* text_ranges[] after the whole map is read: the ranges whose labels
   linker.ld does not define stay [0, 0].                                  *)
TextRanges(m) == { <<Line(m, StextName).addr, Line(m, EtextName).addr>>, <<0, 0>> }

Weak(s) == IF s.sym[1] \in WeakTypes THEN 1 ELSE 0
Provided(s) == IF Tail(s.sym) \in LinkerProvided THEN 1 ELSE 0
Underscores(s) ==
  Cardinality({k \in 2 .. Len(s.sym) : \A j \in 2 .. k : s.sym[j] = Underscore})

(* compare_symbols: lexicographic on address, weakness, linker-provided,
   leading underscores, place in the map.                                  *)
SortsBefore(a, b) ==
  LET ka == <<a.addr, Weak(a), Provided(a), Underscores(a), a.pos>>
      kb == <<b.addr, Weak(b), Provided(b), Underscores(b), b.pos>>
  IN  \E i \in 1 .. 5 : ka[i] < kb[i] /\ \A j \in 1 .. i - 1 : ka[j] = kb[j]

Sorted(S) ==               \* sort_symbols
  [i \in 1 .. Cardinality(S) |->
     CHOOSE s \in S : Cardinality({t \in S : SortsBefore(t, s)}) = i - 1]

X_Valid(m, l) ==           \* Mutant: symbols at _etext are not dropped
  /\ \E r \in TextRanges(m) : r[1] <= l.addr /\ l.addr <= r[2]
  /\ l.addr # 0
  /\ l.name \notin Excluded
(* symbol_valid: in the text, not movable with _etext, not a table of ours. *)
Valid(m, l) ==
  /\ \E r \in TextRanges(m) : r[1] <= l.addr /\ l.addr <= r[2]
  /\ l.addr = Line(m, EtextName).addr => l.name = EtextName
  /\ l.addr # 0              \* the unset _einittext
  /\ l.name \notin Excluded

(* read_map, sort_symbols and the filter of build_initial_tok_table. *)
SymbolList(m) ==
  Sorted({ [addr |-> m[k].addr, pos |-> k, sym |-> <<m[k].type>> \o m[k].name] :
           k \in {j \in 1 .. Len(m) : Readable(m[j]) /\ Valid(m, m[j])} })

-----------------------------------------------------------------------------
(* Compression.                                                            *)

(* How often the token occurs in a symbol: learn_symbol, forget_symbol. *)
Occurrences(sym, token) ==
  Cardinality({k \in 1 .. Len(sym) - 1 : <<sym[k], sym[k + 1]>> = token})

(* A sum over the first n entries of the table, one after the other. *)
Total(g, n) ==
  LET upto[i \in 0 .. n] == IF i = 0 THEN 0 ELSE upto[i - 1] + g[i]
  IN  upto[n]

CountIn(t) ==
  [p \in Pairs |-> Total([i \in DOMAIN t |-> Occurrences(t[i].sym, p)], Len(t))]

(* insert_real_symbols_in_table *)
RealCodes(t) == [c \in Codes |-> IF \E i \in DOMAIN t : c \in ToSet(t[i].sym)
                                 THEN <<c>> ELSE <<>>]

(* find_best_token: the first index of token_profit[] with the greatest
   value; the token <<a, b>> has index a + (b << 8).                       *)
FindBestToken(p) ==
  LET greatest == Max(Range(p))
      most == {t \in Pairs : p[t] = greatest}
      index == Min({t[1] + t[2] * NrCodes : t \in most})
  IN  <<index % NrCodes, index \div NrCodes>>

(* find_token from position p of the buffer on. *)
FindToken(buf, p, end, token) == {j \in p .. end - 1 : <<buf[j], buf[j + 1]>> = token}

X_Replaced(s, end, token, code) ==   \* Mutant: counts a replacement twice
  LET j == Min(FindToken(s.buf, s.p, end, token))
  IN  [buf |-> [k \in 1 .. end + 1 |-> IF k < j \/ k > end THEN s.buf[k]
                                      ELSE IF k = j THEN code ELSE s.buf[k + 1]],
       p |-> j + 1, len |-> s.len - 2]
(* A found pair becomes the new code and the rest of the buffer, whose end
   the loop never lowers, moves down by one byte.                          *)
Replaced(s, end, token, code) ==
  LET j == Min(FindToken(s.buf, s.p, end, token))
  IN  [buf |-> [k \in 1 .. end + 1 |-> IF k < j \/ k > end THEN s.buf[k]
                                      ELSE IF k = j THEN code ELSE s.buf[k + 1]],
       p |-> j + 1, len |-> s.len - 1]

(* compress_symbols on one symbol: its buffer holds the terminator too, and
   a round of the loop moves p on, so that Len(sym) rounds are enough.     *)
CompressSym(sym, token, code) ==
  LET end == Len(sym)
      rounds[k \in 0 .. end] ==
        IF k = 0 THEN [buf |-> Append(sym, NUL), p |-> 1, len |-> end]
        ELSE LET s == rounds[k - 1]
             IN  IF FindToken(s.buf, s.p, end, token) = {} THEN s
                 ELSE Replaced(s, end, token, code)
  IN  SubSeq(rounds[end].buf, 1, rounds[end].len)

(* expand_symbol: tokens of tokens, down to the real characters. *)
Expand(tab, sym) ==
  LET Full[s \in Seq(Codes)] ==
        IF s = <<>> THEN <<>>
        ELSE (IF tab[Head(s)] = <<Head(s)>> THEN tab[Head(s)] ELSE Full[tab[Head(s)]])
             \o Full[Tail(s)]
  IN  Full[sym]

-----------------------------------------------------------------------------
(* The generated assembler file and the kernel's reading of it.            *)

EntryOffset(t, i) ==       \* where entry i (from 0) of kallsyms_names begins
  Total([j \in 1 .. i |-> Len(t[j].sym) + 1], i)

(* write_src *)
Generated(t, tab) ==
  LET strings == [c \in 1 .. NrCodes |-> Append(Expand(tab, tab[c - 1]), NUL)]
  IN  [ addresses |-> [i \in DOMAIN t |-> t[i].addr],
        names |-> FlattenSeq([i \in DOMAIN t |-> <<Len(t[i].sym)>> \o t[i].sym]),
        markers |-> [k \in 1 .. (Len(t) + MarkerEvery - 1) \div MarkerEvery |->
                       EntryOffset(t, (k - 1) * MarkerEvery)],
        tokens |-> FlattenSeq(strings),
        index |-> [c \in Codes |-> Total([d \in 1 .. c |-> Len(strings[d])], c)] ]

(* kallsyms_markers[w]: write_src emits each marker as a PTR, which is .quad
   here, and the kernel declares the array unsigned int.                   *)
MarkerWord(o, w) == IF w % 2 = 0 THEN o.markers[w \div 2 + 1] ELSE 0

(* get_symbol_offset: skip i mod 256 entries from the marker. *)
GetSymbolOffset(o, i) ==
  LET Skip[n \in 0 .. i % MarkerEvery] ==
        IF n = 0 THEN MarkerWord(o, i \div MarkerEvery)
        ELSE Skip[n - 1] + o.names[Skip[n - 1] + 1] + 1
  IN  Skip[i % MarkerEvery]

(* kallsyms_expand_symbol: every code through the token index, each string up
   to its terminator, without the first character (the type).             *)
KernelName(o, off) ==
  LET data == SubSeq(o.names, off + 2, off + 1 + o.names[off + 1])
      String(c) == LET from == o.index[c] + 1
                       nul == Min({k \in from .. Len(o.tokens) : o.tokens[k] = NUL})
                   IN  SubSeq(o.tokens, from, nul - 1)
  IN  Tail(FlattenSeq([k \in DOMAIN data |-> String(data[k])]))

(* is_kernel *)
IsKernel(a) == /\ Line(maps[2], StextName).addr <= a
               /\ a <= Line(maps[2], EtextName).addr

-----------------------------------------------------------------------------
NoResult == [name |-> <<>>, offset |-> 0, size |-> 0]

Init ==
  /\ pc = "read" /\ pass = 1
  /\ maps \in Maps
  /\ listed = <<>> /\ table = <<>>
  /\ best = [c \in Codes |-> <<>>]
  /\ profit = [p \in Pairs |-> 0]
  /\ slot = 0
  /\ out = <<>>
  /\ addr = 0 /\ low = 0 /\ high = 0
  /\ result = NoResult

(* read_map, sort_symbols, build_initial_tok_table and
   insert_real_symbols_in_table.                                           *)
ReadMap ==
  /\ pc = "read"
  /\ pc' = "optimize"
  /\ table' = SymbolList(maps[pass])
  /\ listed' = table'
  /\ best' = RealCodes(table')
  /\ profit' = CountIn(table')
  /\ slot' = NrCodes - 1
  /\ UNCHANGED <<maps, pass, out, addr, low, high, result>>

(* optimize_result: a code that is a character of some symbol is kept. *)
SlotTaken ==
  /\ pc = "optimize" /\ slot >= 0
  /\ best[slot] # <<>>
  /\ slot' = slot - 1
  /\ UNCHANGED <<pc, maps, pass, listed, table, best, profit, out, addr, low,
                 high, result>>

(* An unused code becomes the token with the greatest profit, everywhere. *)
PlaceToken ==
  /\ pc = "optimize" /\ slot >= 0
  /\ best[slot] = <<>>
  /\ \E token \in {FindBestToken(profit)} :
         /\ profit[token] # 0
         /\ best' = [best EXCEPT ![slot] = token]
         /\ table' = [i \in DOMAIN table |->
                        [table[i] EXCEPT !.sym = CompressSym(@, token, slot)]]
         /\ profit' = [p \in Pairs |->
              profit[p] + Total([i \in DOMAIN table |->
                IF Occurrences(table[i].sym, token) = 0 THEN 0
                ELSE Occurrences(table'[i].sym, p) - Occurrences(table[i].sym, p)],
                Len(table))]
  /\ slot' = slot - 1
  /\ UNCHANGED <<pc, maps, pass, listed, out, addr, low, high, result>>

(* No token is left, or no code. *)
OptimizeEnd ==
  /\ pc = "optimize"
  /\ \/ slot < 0
     \/ slot >= 0 /\ best[slot] = <<>> /\ profit[FindBestToken(profit)] = 0
  /\ pc' = "write"
  /\ UNCHANGED <<maps, pass, listed, table, best, profit, slot, out, addr, low,
                 high, result>>

(* write_src; the file of the first pass is linked into the program of which
   the second pass reads the symbols, that of the second into the kernel.  *)
WriteSrc ==
  /\ pc = "write"
  /\ out' = Generated(table, best)
  /\ IF pass = 1 THEN pc' = "read" /\ pass' = 2
                 ELSE pc' = "ready" /\ UNCHANGED pass
  /\ UNCHANGED <<maps, listed, table, best, profit, slot, addr, low, high, result>>

(* kallsyms_lookup: an address outside the text has no symbol. *)
Lookup(a) ==
  /\ pc = "ready"
  /\ addr' = a
  /\ IF IsKernel(a)
     THEN pc' = "search" /\ low' = 0 /\ high' = Len(out.addresses) /\ UNCHANGED result
     ELSE result' = NoResult /\ UNCHANGED <<pc, low, high>>
  /\ UNCHANGED <<maps, pass, listed, table, best, profit, slot, out>>

X_SearchStep ==            \* Mutant: an exact match is not taken
  /\ pc = "search" /\ high - low > 1
  /\ LET mid == (low + high) \div 2
     IN  IF out.addresses[mid + 1] < addr
         THEN low' = mid /\ UNCHANGED high
         ELSE high' = mid /\ UNCHANGED low
  /\ UNCHANGED <<pc, maps, pass, listed, table, best, profit, slot, out, addr, result>>
(* One round of the binary search. *)
SearchStep ==
  /\ pc = "search" /\ high - low > 1
  /\ LET mid == (low + high) \div 2
     IN  IF out.addresses[mid + 1] <= addr
         THEN low' = mid /\ UNCHANGED high
         ELSE high' = mid /\ UNCHANGED low
  /\ UNCHANGED <<pc, maps, pass, listed, table, best, profit, slot, out, addr, result>>

(* The name, the next greater address, and the result. *)
Found ==
  /\ pc = "search" /\ high - low <= 1
  /\ LET here == out.addresses[low + 1]
         later == {out.addresses[i] : i \in low + 2 .. Len(out.addresses)} \ {here}
         symbol_end == IF later = {} THEN 0 ELSE Min(later)
     IN  result' = [name |-> KernelName(out, GetSymbolOffset(out, low)),
                    offset |-> addr - here,
                    size |-> (symbol_end - here) % AddrSpace]
  /\ pc' = "ready"
  /\ UNCHANGED <<maps, pass, listed, table, best, profit, slot, out, addr, low, high>>

Next ==
  \/ ReadMap \/ SlotTaken \/ PlaceToken \/ OptimizeEnd \/ WriteSrc
  \/ \E a \in 0 .. AddrSpace - 1 : Lookup(a)
  \/ SearchStep \/ Found

Spec == Init /\ [][Next]_vars

-----------------------------------------------------------------------------
(* "Passes 1 and 2 must have identical symbol lists" (symbol_valid): the link
   in between adds the tables and moves the data behind _etext, and the tool
   must not see either.                                                    *)
PassesAgree ==
  [][pc = "read" /\ pass = 2 =>
       /\ Len(listed) = Len(listed')
       /\ \A i \in DOMAIN listed : /\ listed[i].addr = listed'[i].addr
                                   /\ listed[i].sym = listed'[i].sym]_vars

(* Compression loses nothing: after every token placed, in whatever state the
   tokens of tokens are, each symbol expands to itself.                    *)
NamesSurvive ==
  pc \in {"optimize", "write", "ready", "search"} =>
    \A i \in DOMAIN table : Expand(best, table[i].sym) = listed[i].sym

(* kallsyms_lookup finds a symbol of the map with the greatest address not
   above addr (a weak alias if there is one: aliases are sorted the strong
   one first and the search takes the last), the offset into it and the
   size up to the next different address.  At _etext itself there is no next
   symbol and the size wraps.                                              *)
LookupRight ==
  pc = "ready" /\ result # NoResult /\ addr < Line(maps[2], EtextName).addr =>
    LET known == {l \in ToSet(maps[2]) : Readable(l) /\ Valid(maps[2], l)}
        start == Max({l.addr : l \in {k \in known : k.addr <= addr}})
        aliases == {l \in known : l.addr = start}
        weak == {l \in aliases : l.type \in WeakTypes}
    IN  /\ \E l \in IF weak = {} THEN aliases ELSE weak : result.name = l.name
        /\ result.offset = addr - start
        /\ result.size = Min({l.addr : l \in {k \in known : k.addr > addr}}) - start

(* get_symbol_offset finds the entry of its index in kallsyms_names. *)
OffsetOfIndex ==
  pc = "ready" =>
    \A i \in 0 .. Len(table) - 1 : GetSymbolOffset(out, i) = EntryOffset(table, i)
=============================================================================
