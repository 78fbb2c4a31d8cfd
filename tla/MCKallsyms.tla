----------------------------- MODULE MCKallsyms -----------------------------
(* Small maps for TLC: the text labels, the tables of kallsyms in the second
   link, and one line of each kind the tool
   drops, and every choice of four of the symbols it keeps.               *)
EXTENDS Kallsyms

(* Codes: 1 T, 2 W, 3 D, 4 A, 5 N (types); 6 '_', 7 'a', 8 'b'. *)
L(addr_, type, name) == [addr |-> addr_, type |-> type, name |-> name]

MCStext == <<6, 7, 8>>
MCEtext == <<6, 8, 7>>
MCText == <<6, 8>>
MCTables == {<<8, 6, 7>>, <<7, 8, 6>>}
MCDollar == {<<7, 7>>}
MCKept == {<<8>>}
MCProvided == {<<6, 6, 8>>}

Choice == {
  L(1, 1, <<7, 8, 7, 8>>),    \* the function at _stext
  L(2, 1, <<8, 8, 8, 8>>),    \* overlapping pairs
  L(2, 1, <<6, 6, 7>>), L(2, 2, <<8, 7>>), L(2, 1, <<6, 6, 8>>),   \* aliases
  L(3, 1, <<7, 8, 7, 8, 7>>), L(3, 2, <<6, 8, 8>>),
  L(4, 1, <<7, 7, 8, 8>>),    \* ends at _etext
  L(4, 4, <<8>>) }            \* an absolute symbol that is kept

Dropped == <<
  L(3, 4, <<7>>), L(2, 5, <<8, 8>>),              \* dropped for their type
  L(3, 1, <<7, 7>>), L(3, 1, <<7, 8, 6>>),        \* for their name
  L(0, 1, <<8, 7, 7>>),                           \* outside the text
  L(5, 3, <<7, 7, 7>>), L(6, 3, <<8, 8, 7>>) >>   \* data, moved by the tables

Labels == <<L(1, 1, MCStext), L(1, 1, MCText), L(5, 3, MCEtext)>>
Moved(l) == IF l.addr >= 5 THEN [l EXCEPT !.addr = @ + 1] ELSE l

MCMaps == { LET lines == SetToSeq(c) \o Dropped
            IN  << lines \o Labels,
                   [k \in DOMAIN lines |-> Moved(lines[k])] \o Labels
                     \o <<L(5, 3, <<8, 6, 7>>)>> >> : c \in kSubset(4, Choice) }
=============================================================================
