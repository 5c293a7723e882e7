--------------------------------- MODULE Bytes ---------------------------------
(***************************************************************************)
(* Memory as memcpy sees it: a sequence of cells, numbered from 0 as in    *)
(* the code. An ull_t takes Word cells of base Base, least significant     *)
(* first.                                                                  *)
(***************************************************************************)
EXTENDS Integers, Sequences, FiniteSets, SequencesExt

CONSTANTS Base, Word    \* sizeof(ull_t) is Word

ASSUME BytesAssumption == Word \in Nat \ {0} /\ Base \in Nat \ {0, 1}

\* The powers of Base, which say how much a word or a number of digits holds.
power[n \in Nat] == IF n = 0 THEN 1 ELSE Base * power[n - 1]

ToWord(n) == [k \in 1 .. Word |-> (n \div power[k - 1]) % Base]

Cut(bin, at, n) == SubSeq(bin, at + 1, at + n)

FromWord(word) == FoldRight(LAMBDA d, n : n * Base + d, word, 0)

WordAt(bin, at) == FromWord(Cut(bin, at, Word))

\* malloc(size) with these cells copied to its start; what was not written is anything.
Filled(cells, size) == [k \in 1 .. size |-> IF k <= Len(cells) THEN cells[k] ELSE 0]

================================================================================
