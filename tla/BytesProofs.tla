------------------------------ MODULE BytesProofs ------------------------------
(***************************************************************************)
(* What holds of everything that is written as bytes or as text. For every *)
(* base and width of words, what is read of a word, of a message that send *)
(* and read cut up in any way, and of a chain that was written is what was *)
(* written; every text has room where it is printed; the text that is      *)
(* hashed of a block tells the block; and a reader of what is printed of a *)
(* chain finds the items that were printed.                                *)
(***************************************************************************)
EXTENDS Transport, Encodings, ListLemmas

-------------------------------------------------------------------------------
(* Powers, and numbers cut into digits and words.                            *)

\* The powers of the base are what they should be.
LEMMA PowerDef ==
  /\ power \in [Nat -> Nat \ {0}]
  /\ power[0] = 1
  /\ \A n \in Nat : power[n + 1] = Base * power[n]
<1> DEFINE V == Nat \ {0}
           step == [p \in Nat \X V |-> Base * p[2]]
           Is(g) == g = [n \in Nat |-> IF n = 0 THEN 1 ELSE Base * g[n - 1]]
<1>1. 1 \in V /\ step \in [Nat \X V -> V] /\ \A n \in Nat, v \in V : step[<<n, v>>] = Base * v
  BY BytesAssumption
<1> HIDE DEF V, step
<1>2. PICK h \in [Nat -> V] : IsRecursion(h, 1, step)
  BY <1>1, RecursionExists, Zenon
<1>3. ASSUME NEW n \in Nat
      PROVE  h[n] = IF n = 0 THEN 1 ELSE Base * h[n - 1]
  <2>1. h[n] = IF n = 0 THEN 1 ELSE step[<<n, h[n - 1]>>]
    BY <1>2, Zenon DEF IsRecursion
  <2>2. n # 0 => h[n - 1] \in V
    OBVIOUS
  <2> QED BY <1>1, <2>1, <2>2
<1>4. Is(h)
  <2> DEFINE k == [n \in Nat |-> IF n = 0 THEN 1 ELSE Base * h[n - 1]]
  <2>1. \A n \in Nat : k[n] = h[n]
    BY <1>3
  <2>2. k = [n \in Nat |-> k[n]] /\ h = [n \in Nat |-> h[n]]
    OBVIOUS
  <2> HIDE DEF k
  <2>3. h = k
    BY <2>1, <2>2
  <2> QED BY <2>3 DEF k
<1>5. power = CHOOSE g : Is(g)
  BY Zenon DEF power
<1>6. Is(power)
  <2> HIDE DEF Is
  <2> QED BY <1>4, <1>5
<1>7. \A n \in Nat : power[n] = IF n = 0 THEN 1 ELSE Base * power[n - 1]
  BY <1>6
<1>8. power = [n \in Nat |-> power[n]]
  BY <1>6, Zenon
<1> HIDE DEF Is
<1> DEFINE G == {n \in Nat : power[n] \in V}
<1>9. 0 \in G
  BY <1>1, <1>7
<1>10. ASSUME NEW n \in G PROVE n + 1 \in G
  <2>1. power[n + 1] = Base * power[n]
    <3>1. n + 1 \in Nat /\ n + 1 # 0 /\ n + 1 - 1 = n
      OBVIOUS
    <3> QED BY <1>7, <3>1
  <2>2. power[n + 1] \in V
    BY <2>1, BytesAssumption DEF V
  <2> QED BY <2>2
<1>11. G \in SUBSET Nat
  OBVIOUS
<1> HIDE DEF G
<1>12. G = Nat
  BY <1>9, <1>10, <1>11, NatGrows
<1>13. \A n \in Nat : power[n] \in V
  BY <1>12 DEF G
<1>14. power \in [Nat -> V]
  BY <1>8, <1>13
<1>15. ASSUME NEW n \in Nat PROVE power[n + 1] = Base * power[n]
  <2>1. n + 1 \in Nat /\ n + 1 # 0 /\ n + 1 - 1 = n
    OBVIOUS
  <2> QED BY <1>7, <2>1
<1> QED BY <1>7, <1>14, <1>15 DEF V

\* Cutting off one digit more is dividing once more by the base.
LEMMA DivideTwice ==
  ASSUME NEW P \in Nat \ {0}, NEW B \in Nat \ {0}, NEW n \in Nat
  PROVE  /\ n \div P \in Nat /\ n \div (B * P) \in Nat /\ (n \div P) % B \in 0 .. B - 1
         /\ n \div P = (n \div (B * P)) * B + ((n \div P) % B)
<1> DEFINE q == n \div P
           s == n % P
           r == q \div B
           t == q % B
           BP == B * P
<1>1. s \in 0 .. P - 1 /\ q \in Int /\ n = P * q + s
  BY ModIs
<1> HIDE DEF q, s
<1>2. t \in 0 .. B - 1 /\ r \in Int /\ q = B * r + t
  BY <1>1, ModIs
<1> HIDE DEF r, t
<1>3. q \in Nat
  <2>1. SUFFICES ASSUME q <= -1 PROVE FALSE
    BY <1>1
  <2>2. P * q <= P * (-1)
    BY <1>1, <2>1
  <2>3. P * (-1) = -P
    OBVIOUS
  <2> DEFINE Pq == P * q
  <2>4. Pq \in Int /\ n = Pq + s /\ Pq <= -P
    BY <1>1, <2>2, <2>3
  <2> HIDE DEF Pq
  <2> QED BY <1>1, <2>4
<1>4. r \in Nat
  <2>1. SUFFICES ASSUME r <= -1 PROVE FALSE
    BY <1>2
  <2>2. B * r <= B * (-1)
    BY <1>2, <2>1
  <2>3. B * (-1) = -B
    OBVIOUS
  <2> DEFINE Br == B * r
  <2>4. Br \in Int /\ q = Br + t /\ Br <= -B
    BY <1>2, <2>2, <2>3
  <2> HIDE DEF Br
  <2> QED BY <1>2, <1>3, <2>4
<1>5. n = BP * r + (P * t + s)
  <2>1. P * q = P * (B * r) + P * t
    BY <1>2
  <2>2. P * (B * r) = BP * r
    BY <1>2
  <2> DEFINE x == P * q
             y == P * (B * r)
             z == P * t
  <2>3. x \in Int /\ y \in Int /\ z \in Int /\ x = y + z /\ n = x + s
    BY <1>1, <1>2, <2>1
  <2> HIDE DEF x, y, z
  <2>4. n = y + (z + s)
    BY <1>1, <2>3
  <2> QED BY <2>2, <2>4, Zenon DEF y, z
<1>6. P * t + s \in 0 .. BP - 1 /\ BP \in Nat \ {0}
  <2>1. P * t <= P * (B - 1) /\ P * (B - 1) = BP - P /\ P * t >= 0 /\ P * t \in Int
    BY <1>2
  <2>2. BP \in Nat \ {0}
    OBVIOUS
  <2> DEFINE z == P * t
  <2> HIDE DEF BP, z
  <2>3. z + s \in 0 .. BP - 1
    BY <1>1, <2>1, <2>2 DEF z
  <2> QED BY <2>2, <2>3, Zenon DEF z
<1>7. n \div BP = r
  <2> DEFINE u == P * t + s
  <2>1. u \in 0 .. BP - 1 /\ BP \in Nat \ {0} /\ n = BP * r + u
    BY <1>5, <1>6
  <2> HIDE DEF u, BP
  <2> QED BY <1>4, <2>1
<1>8. q = r * B + t
  BY <1>2
<1> QED BY <1>2, <1>3, <1>4, <1>7, <1>8, Zenon DEF q, t

\* Cutting a digit off a number, and where a number has none left.
LEMMA DigitOff ==
  ASSUME NEW n \in Nat, NEW j \in Nat
  PROVE  /\ n \div power[j] \in Nat /\ (n \div power[j]) % Base \in 0 .. Base - 1
         /\ n \div power[j] = (n \div power[j + 1]) * Base + ((n \div power[j]) % Base)
         /\ n < power[j] => n \div power[j] = 0
         /\ n \div power[0] = n
<1>1. power[j] \in Nat \ {0} /\ power[j + 1] = Base * power[j] /\ power[0] = 1
  BY PowerDef
<1> DEFINE P == power[j]
           q == n \div P
<1> HIDE DEF P
<1>2. /\ q \in Nat /\ q % Base \in 0 .. Base - 1
      /\ q = (n \div (Base * P)) * Base + (q % Base)
  BY <1>1, BytesAssumption, DivideTwice DEF P
<1>3. n < P => q = 0
  <2>1. P \in Nat \ {0}
    BY <1>1 DEF P
  <2>2. n < P => n \in 0 .. P - 1 /\ n = P * 0 + n
    BY <2>1
  <2> QED BY <2>1, <2>2
<1>4. n \div power[0] = n
  BY <1>1
<1> QED BY <1>1, <1>2, <1>3, <1>4, Zenon DEF P

\* A word has Word cells, each of them a digit.
LEMMA WordType ==
  ASSUME NEW n \in Nat
  PROVE  ToWord(n) \in Seq(0 .. Base - 1) /\ Len(ToWord(n)) = Word
<1>1. \A k \in 1 .. Word : (n \div power[k - 1]) % Base \in 0 .. Base - 1
  <2> TAKE k \in 1 .. Word
  <2>1. k - 1 \in Nat
    BY BytesAssumption
  <2> QED BY <2>1, DigitOff
<1>2. ToWord(n) \in [1 .. Word -> 0 .. Base - 1]
  BY <1>1, Zenon DEF ToWord
<1> QED BY <1>2, BytesAssumption

\* What the fold of FromWord chooses.
IsWordFold(g, word, S) ==
  /\ FromWord(word) = g[S]
  /\ \A T \in SUBSET S :
       g[T] = IF T = {} THEN 0 ELSE g[T \ {Min(T)}] * Base + word[Min(T)]

\* Such a function exists, although no set is enumerated to find it.
LEMMA WordFold ==
  ASSUME NEW n \in Nat, NEW word \in Seq(Int), Len(word) = n
  PROVE  \E g : IsWordFold(g, word, 1 .. n)
<1> DEFINE S == 1 .. n
           ch == [T \in SUBSET S |-> Min(T)]
           step == [p \in S \X Int |-> p[2] * Base + word[p[1]]]
           Is(g) == g = [T \in SUBSET S |->
                           IF T = {} THEN 0 ELSE g[T \ {Min(T)}] * Base + word[Min(T)]]
<1>1. DOMAIN word = S /\ IsFiniteSet(S) /\ \A i \in S : word[i] \in Int
  BY FS_Interval
<1>2. \A T \in SUBSET S : T # {} => ch[T] \in T
  BY MinIsLeast
<1>3. step \in [S \X Int -> Int]
  BY <1>1, BytesAssumption
<1>4. FromWord(word) = (CHOOSE g : Is(g))[S]
  BY <1>1 DEF FromWord, FoldRight, MapThenFoldSet
<1>5. \A i \in S, v \in Int : step[<<i, v>>] = v * Base + word[i]
  OBVIOUS
<1>6. \A T \in SUBSET S : ch[T] = Min(T)
  OBVIOUS
<1> HIDE DEF ch, step, S
<1>7. PICK h \in [SUBSET S -> Int] : IsFold(h, S, 0, step, ch)
  <2>1. 0 \in Int
    OBVIOUS
  <2> QED BY <1>1, <1>2, <1>3, <2>1, FoldExists, Zenon DEF Chooses
<1>8. ASSUME NEW T \in SUBSET S
      PROVE  h[T] = IF T = {} THEN 0 ELSE h[T \ {Min(T)}] * Base + word[Min(T)]
  <2>1. h[T] = IF T = {} THEN 0 ELSE step[<<ch[T], h[T \ {ch[T]}]>>]
    BY <1>7, Zenon DEF IsFold
  <2>2. T # {} => ch[T] \in S /\ h[T \ {ch[T]}] \in Int
    BY <1>2
  <2> QED BY <1>5, <1>6, <2>1, <2>2
<1>9. Is(h)
  <2> DEFINE k == [T \in SUBSET S |->
                     IF T = {} THEN 0 ELSE h[T \ {Min(T)}] * Base + word[Min(T)]]
  <2>1. \A T \in SUBSET S : k[T] = h[T]
    BY <1>8
  <2>2. k = [T \in SUBSET S |-> k[T]] /\ h = [T \in SUBSET S |-> h[T]]
    OBVIOUS
  <2> HIDE DEF k
  <2>3. h = k
    BY <2>1, <2>2
  <2> QED BY <2>3 DEF k
<1> DEFINE g == CHOOSE g : Is(g)
<1>10. Is(g)
  <2> HIDE DEF Is
  <2> QED BY <1>9
<1>11. \A T \in SUBSET S :
         g[T] = IF T = {} THEN 0 ELSE g[T \ {Min(T)}] * Base + word[Min(T)]
  <2> HIDE DEF g
  <2> QED BY <1>10
<1>12. FromWord(word) = g[S]
  BY <1>4
<1>13. IsWordFold(g, word, S)
  <2> HIDE DEF g
  <2> QED BY <1>11, <1>12, Zenon DEF IsWordFold
<1> QED BY <1>13 DEF S

\* What is read from a word is what was written to it, if it has room.
LEMMA WordReadsBack ==
  ASSUME NEW n \in Nat, n < power[Word]
  PROVE  FromWord(ToWord(n)) = n
<1> DEFINE w == ToWord(n)
           S == 1 .. Word
           Top(j) == j .. Word
<1>1. Word \in Nat \ {0} /\ w \in Seq(Int) /\ Len(w) = Word
  <2>1. w \in Seq(0 .. Base - 1) /\ Len(w) = Word
    BY WordType
  <2> HIDE DEF w
  <2> QED BY <2>1, BytesAssumption
<1>2. \A k \in S : w[k] = (n \div power[k - 1]) % Base
  BY DEF ToWord
<1> HIDE DEF w
<1>3. PICK g : IsWordFold(g, w, S)
  BY <1>1, WordFold
<1>4. /\ FromWord(w) = g[S]
      /\ \A T \in SUBSET S : g[T] = IF T = {} THEN 0 ELSE g[T \ {Min(T)}] * Base + w[Min(T)]
  BY <1>3, Zenon DEF IsWordFold
<1> DEFINE G == {k \in Nat : k <= Word => g[Top(Word - k + 1)] = n \div power[Word - k]}
<1>5. 0 \in G
  <2>1. Top(Word - 0 + 1) = {} /\ {} \in SUBSET S
    BY <1>1
  <2>2. g[{}] = 0
    BY <1>4, <2>1
  <2>3. n \div power[Word] = 0
    BY <1>1, DigitOff
  <2>4. Word - 0 = Word
    BY <1>1
  <2> QED BY <2>1, <2>2, <2>3, <2>4
<1>6. ASSUME NEW k \in G PROVE k + 1 \in G
  <2> SUFFICES ASSUME k + 1 <= Word
               PROVE  g[Top(Word - (k + 1) + 1)] = n \div power[Word - (k + 1)]
    OBVIOUS
  <2> DEFINE j == Word - (k + 1)
  <2>1. j \in Nat /\ Word - (k + 1) + 1 = j + 1 /\ j + 1 = Word - k /\ j + 1 \in S
        /\ Word - k + 1 = j + 2 /\ k <= Word
    BY <1>1
  <2> HIDE DEF j
  <2>2. Top(j + 1) \in SUBSET S /\ Top(j + 1) # {} /\ Top(j + 1) \ {j + 1} = Top(j + 2)
    <3>1. Top(j + 1) \in SUBSET S
      BY <1>1, <2>1
    <3>2. j + 1 \in Top(j + 1)
      BY <1>1, <2>1
    <3>3. \A i : i \in Top(j + 1) /\ i # j + 1 <=> i \in Top(j + 2)
      BY <1>1, <2>1
    <3> HIDE DEF Top
    <3>4. Top(j + 1) \ {j + 1} = Top(j + 2)
      BY <3>3
    <3> QED BY <3>1, <3>2, <3>4
  <2>3. Min(Top(j + 1)) = j + 1
    <3>1. Top(j + 1) \in SUBSET Nat
      BY <2>1
    <3>2. Min(Top(j + 1)) \in Top(j + 1) /\ \A i \in Top(j + 1) : Min(Top(j + 1)) <= i
      BY <2>2, <3>1, MinIsLeast
    <3>3. j + 1 \in Top(j + 1)
      BY <1>1, <2>1
    <3> DEFINE least == Min(Top(j + 1))
    <3>4. least \in Top(j + 1) /\ least <= j + 1
      BY <3>2, <3>3
    <3> HIDE DEF least
    <3>5. least = j + 1
      BY <1>1, <2>1, <3>4
    <3> QED BY <3>5 DEF least
  <2> HIDE DEF Top
  <2>4. g[Top(j + 2)] = n \div power[j + 1]
    BY <2>1
  <2>5. g[Top(j + 1)] = g[Top(j + 2)] * Base + w[j + 1]
    BY <1>4, <2>2, <2>3
  <2>6. w[j + 1] = (n \div power[j]) % Base
    <3>1. j + 1 - 1 = j
      BY <2>1
    <3> QED BY <1>2, <2>1, <3>1
  <2>7. g[Top(j + 1)] = n \div power[j]
    BY <2>1, <2>4, <2>5, <2>6, DigitOff
  <2> QED BY <2>1, <2>7 DEF j
<1>7. G \in SUBSET Nat
  OBVIOUS
<1> HIDE DEF G
<1>8. G = Nat
  BY <1>5, <1>6, <1>7, NatGrows
<1>9. Word \in G
  BY <1>1, <1>8
<1>10. g[Top(1)] = n \div power[0]
  <2>1. Word - Word + 1 = 1 /\ Word - Word = 0 /\ Word <= Word
    BY <1>1
  <2> HIDE DEF Top
  <2> QED BY <1>9, <2>1 DEF G
<1>11. g[S] = n
  BY <1>10, DigitOff
<1> QED BY <1>4, <1>11 DEF w

-------------------------------------------------------------------------------
(* What memory holds, and where.                                             *)

\* bin holds these cells from position at on.
Holds(bin, at, cells) ==
  at + Len(cells) <= Len(bin) /\ \A k \in 1 .. Len(cells) : bin[at + k] = cells[k]

\* Memory holds itself.
LEMMA HoldsItself ==
  ASSUME NEW bin \in Seq(Int)
  PROVE  Holds(bin, 0, bin)
BY DEF Holds

\* Of two lists in a row, it holds one where the list begins, the other behind it.
LEMMA HoldsParts ==
  ASSUME NEW bin \in Seq(Int), NEW at \in Nat, NEW a \in Seq(Int), NEW b \in Seq(Int),
         Holds(bin, at, a \o b)
  PROVE  Holds(bin, at, a) /\ Holds(bin, at + Len(a), b)
<1>1. /\ a \o b \in Seq(Int) /\ Len(a \o b) = Len(a) + Len(b)
      /\ \A i \in 1 .. Len(a) + Len(b) :
           (a \o b)[i] = IF i <= Len(a) THEN a[i] ELSE b[i - Len(a)]
  BY ConcatProperties
<1>2. Len(a) \in Nat /\ Len(b) \in Nat /\ Len(bin) \in Nat
  OBVIOUS
<1>3. /\ at + (Len(a) + Len(b)) <= Len(bin)
      /\ \A i \in 1 .. Len(a) + Len(b) : bin[at + i] = (a \o b)[i]
  BY <1>1 DEF Holds
<1>4. ASSUME NEW i \in 1 .. Len(a) PROVE bin[at + i] = a[i]
  <2>1. i \in 1 .. Len(a) + Len(b) /\ i <= Len(a)
    BY <1>2
  <2>2. (a \o b)[i] = a[i]
    BY <1>1, <2>1
  <2> QED BY <1>3, <2>1, <2>2
<1>5. ASSUME NEW i \in 1 .. Len(b) PROVE bin[at + Len(a) + i] = b[i]
  <2>1. Len(a) + i \in 1 .. Len(a) + Len(b) /\ ~ (Len(a) + i <= Len(a))
        /\ Len(a) + i - Len(a) = i /\ at + (Len(a) + i) = at + Len(a) + i
    BY <1>2
  <2> DEFINE j == Len(a) + i
  <2> HIDE DEF j
  <2>2. (a \o b)[j] = b[i]
    BY <1>1, <2>1 DEF j
  <2>3. bin[at + j] = (a \o b)[j]
    BY <1>3, <2>1 DEF j
  <2> QED BY <2>1, <2>2, <2>3 DEF j
<1>6. Holds(bin, at, a)
  <2>1. at + Len(a) <= Len(bin)
    BY <1>2, <1>3
  <2> QED BY <1>4, <2>1 DEF Holds
<1>7. Holds(bin, at + Len(a), b)
  <2> DEFINE from == at + Len(a)
  <2>1. from + Len(b) <= Len(bin) /\ \A i \in 1 .. Len(b) : bin[from + i] = b[i]
    BY <1>2, <1>3, <1>5
  <2> HIDE DEF from
  <2>2. Holds(bin, from, b)
    BY <2>1 DEF Holds
  <2> QED BY <2>2 DEF from
<1> QED BY <1>6, <1>7

\* What holds cells holds what they hold.
LEMMA HoldsThrough ==
  ASSUME NEW bin \in Seq(Int), NEW at \in Nat, NEW c \in Seq(Int), NEW off \in Nat,
         NEW d \in Seq(Int), Holds(bin, at, c), Holds(c, off, d)
  PROVE  Holds(bin, at + off, d)
<1>1. Len(bin) \in Nat /\ Len(c) \in Nat /\ Len(d) \in Nat
  OBVIOUS
<1>2. at + Len(c) <= Len(bin) /\ \A k \in 1 .. Len(c) : bin[at + k] = c[k]
  BY DEF Holds
<1>3. off + Len(d) <= Len(c) /\ \A k \in 1 .. Len(d) : c[off + k] = d[k]
  BY DEF Holds
<1>4. ASSUME NEW k \in 1 .. Len(d) PROVE bin[at + off + k] = d[k]
  <2> DEFINE j == off + k
  <2>1. j \in 1 .. Len(c) /\ at + off + k = at + j /\ c[j] = d[k]
    BY <1>1, <1>3
  <2> HIDE DEF j
  <2> QED BY <1>2, <2>1
<1> QED BY <1>1, <1>2, <1>3, <1>4 DEF Holds

\* Cutting out what memory holds yields it.
LEMMA CutHeld ==
  ASSUME NEW bin \in Seq(Int), NEW at \in Nat, NEW cells \in Seq(Int), Holds(bin, at, cells)
  PROVE  Cut(bin, at, Len(cells)) = cells
<1> DEFINE from == at + 1
           to   == at + Len(cells)
           cut  == SubSeq(bin, from, to)
<1>1. /\ Len(cells) \in Nat /\ Len(bin) \in Nat /\ to <= Len(bin)
      /\ \A k \in 1 .. Len(cells) : bin[at + k] = cells[k]
  <2>1. Len(cells) \in Nat /\ Len(bin) \in Nat
    OBVIOUS
  <2> QED BY <2>1, Zenon DEF Holds, to
<1>2. /\ from \in Int /\ to \in Int /\ to - from + 1 = Len(cells)
      /\ (from <= to <=> Len(cells) # 0)
      /\ \A i \in 1 .. Len(cells) : from + i - 1 = at + i
      /\ \A i \in from .. to : i \in 1 .. Len(bin)
  BY <1>1
<1>3. \A i \in from .. to : bin[i] \in Int
  BY <1>2, ElementOfSeq
<1> HIDE DEF from, to
<1>4. /\ cut \in Seq(Int) /\ Len(cut) = IF from <= to THEN to - from + 1 ELSE 0
      /\ \A i \in 1 .. to - from + 1 : cut[i] = bin[from + i - 1]
  BY <1>2, <1>3, SubSeqProperties
<1> HIDE DEF cut
<1>5. Len(cut) = Len(cells)
  BY <1>1, <1>2, <1>4
<1>6. \A i \in 1 .. Len(cells) : cut[i] = cells[i]
  BY <1>1, <1>2, <1>4
<1>7. cut = cells
  BY <1>4, <1>5, <1>6, SeqEqual
<1> QED BY <1>7 DEF Cut, cut, from, to

\* A word as a list of cells of any kind.
LEMMA WordCells ==
  ASSUME NEW n \in Nat
  PROVE  ToWord(n) \in Seq(Int) /\ Len(ToWord(n)) = Word /\ Word \in Nat \ {0}
<1> DEFINE w == ToWord(n)
<1>1. w \in Seq(0 .. Base - 1) /\ Len(w) = Word
  BY WordType
<1> HIDE DEF w
<1>2. w \in Seq(Int)
  <2>1. 0 .. Base - 1 \subseteq Int
    BY BytesAssumption
  <2> QED BY <1>1, <2>1, SeqMonotonic, Zenon
<1> QED BY <1>1, <1>2, BytesAssumption DEF w

\* A number that has room in a word is read where memory holds its word.
LEMMA WordHeld ==
  ASSUME NEW bin \in Seq(Int), NEW at \in Nat, NEW n \in Nat, n < power[Word],
         Holds(bin, at, ToWord(n))
  PROVE  WordAt(bin, at) = n
<1> DEFINE w == ToWord(n)
<1>1. w \in Seq(Int) /\ Len(w) = Word
  BY WordCells
<1>2. FromWord(w) = n
  BY WordReadsBack
<1> HIDE DEF w
<1>3. Cut(bin, at, Len(w)) = w
  BY <1>1, CutHeld DEF w
<1> QED BY <1>1, <1>2, <1>3 DEF WordAt

\* Memory that is as large as what is copied there holds just that.
LEMMA FilledWhole ==
  ASSUME NEW cells \in Seq(Int), NEW size, size = Len(cells)
  PROVE  Filled(cells, size) = cells
<1> DEFINE f == Filled(cells, size)
<1>1. Len(cells) \in Nat /\ \A k \in 1 .. Len(cells) : k <= Len(cells) /\ cells[k] \in Int
  OBVIOUS
<1>2. f = [k \in 1 .. size |-> IF k <= Len(cells) THEN cells[k] ELSE 0]
  BY DEF Filled
<1> HIDE DEF f
<1>3. \A k \in 1 .. Len(cells) : f[k] = cells[k] /\ f[k] \in Int
  BY <1>1, <1>2
<1>4. f \in [1 .. Len(cells) -> Int]
  BY <1>2, <1>3
<1>5. f \in Seq(Int) /\ Len(f) = Len(cells)
  BY <1>1, <1>4
<1> QED BY <1>3, <1>5, SeqEqual DEF f

\* What two parts make, and where memory that holds both holds each.
LEMMA Joined ==
  ASSUME NEW a \in Seq(Int), NEW b \in Seq(Int)
  PROVE  /\ a \o b \in Seq(Int) /\ Len(a \o b) = Len(a) + Len(b)
         /\ \A bin \in Seq(Int), at \in Nat :
              Holds(bin, at, a \o b) => Holds(bin, at, a) /\ Holds(bin, at + Len(a), b)
<1>1. a \o b \in Seq(Int) /\ Len(a \o b) = Len(a) + Len(b)
  BY ConcatProperties
<1> QED BY <1>1, HoldsParts

\* Five parts in a row, and where memory that holds the whole holds each.
InFive(c, a1, a2, a3, a4, a5) ==
  /\ c \in Seq(Int)
  /\ Len(c) = Len(a1) + Len(a2) + Len(a3) + Len(a4) + Len(a5)
  /\ \A bin \in Seq(Int), at \in Nat :
       Holds(bin, at, c) =>
         /\ Holds(bin, at, a1)
         /\ Holds(bin, at + Len(a1), a2)
         /\ Holds(bin, at + (Len(a1) + Len(a2)), a3)
         /\ Holds(bin, at + (Len(a1) + Len(a2) + Len(a3)), a4)
         /\ Holds(bin, at + (Len(a1) + Len(a2) + Len(a3) + Len(a4)), a5)

\* Such are five lists written one after the other.
LEMMA FiveParts ==
  ASSUME NEW a1 \in Seq(Int), NEW a2 \in Seq(Int), NEW a3 \in Seq(Int), NEW a4 \in Seq(Int),
         NEW a5 \in Seq(Int)
  PROVE  InFive(a1 \o a2 \o a3 \o a4 \o a5, a1, a2, a3, a4, a5)
<1> DEFINE c2 == a1 \o a2
           c3 == c2 \o a3
           c4 == c3 \o a4
           c5 == c4 \o a5
           In(c, a, b) == /\ c \in Seq(Int) /\ Len(c) = Len(a) + Len(b)
                          /\ \A bin \in Seq(Int), at \in Nat :
                               Holds(bin, at, c) =>
                                 Holds(bin, at, a) /\ Holds(bin, at + Len(a), b)
<1>1. c5 = a1 \o a2 \o a3 \o a4 \o a5
  OBVIOUS
<1>2. In(c2, a1, a2)
  BY Joined
<1> HIDE DEF c2
<1>3. In(c3, c2, a3)
  BY <1>2, Joined
<1> HIDE DEF c3
<1>4. In(c4, c3, a4)
  BY <1>3, Joined
<1> HIDE DEF c4
<1>5. In(c5, c4, a5)
  BY <1>4, Joined
<1> HIDE DEF c5
<1>6. /\ Len(c2) = Len(a1) + Len(a2)
      /\ Len(c3) = Len(a1) + Len(a2) + Len(a3)
      /\ Len(c4) = Len(a1) + Len(a2) + Len(a3) + Len(a4)
      /\ Len(c5) = Len(a1) + Len(a2) + Len(a3) + Len(a4) + Len(a5)
  BY <1>2, <1>3, <1>4, <1>5
<1>7. ASSUME NEW bin \in Seq(Int), NEW at \in Nat, Holds(bin, at, c5)
      PROVE  /\ Holds(bin, at, a1) /\ Holds(bin, at + Len(a1), a2)
             /\ Holds(bin, at + Len(c2), a3) /\ Holds(bin, at + Len(c3), a4)
             /\ Holds(bin, at + Len(c4), a5)
  BY <1>2, <1>3, <1>4, <1>5, <1>7, Zenon
<1>8. c5 \in Seq(Int)
  BY <1>5
<1>9. InFive(c5, a1, a2, a3, a4, a5)
  BY <1>6, <1>7, <1>8 DEF InFive
<1> QED BY <1>1, <1>9

\* Seven parts in a row.
InSeven(c, a1, a2, a3, a4, a5, a6, a7) ==
  /\ c \in Seq(Int)
  /\ Len(c) = Len(a1) + Len(a2) + Len(a3) + Len(a4) + Len(a5) + Len(a6) + Len(a7)
  /\ \A bin \in Seq(Int), at \in Nat :
       Holds(bin, at, c) =>
         /\ Holds(bin, at, a1)
         /\ Holds(bin, at + Len(a1), a2)
         /\ Holds(bin, at + (Len(a1) + Len(a2)), a3)
         /\ Holds(bin, at + (Len(a1) + Len(a2) + Len(a3)), a4)
         /\ Holds(bin, at + (Len(a1) + Len(a2) + Len(a3) + Len(a4)), a5)
         /\ Holds(bin, at + (Len(a1) + Len(a2) + Len(a3) + Len(a4) + Len(a5)), a6)
         /\ Holds(bin, at + (Len(a1) + Len(a2) + Len(a3) + Len(a4) + Len(a5) + Len(a6)), a7)

\* Such are seven.
LEMMA SevenParts ==
  ASSUME NEW a1 \in Seq(Int), NEW a2 \in Seq(Int), NEW a3 \in Seq(Int), NEW a4 \in Seq(Int),
         NEW a5 \in Seq(Int), NEW a6 \in Seq(Int), NEW a7 \in Seq(Int)
  PROVE  InSeven(a1 \o a2 \o a3 \o a4 \o a5 \o a6 \o a7, a1, a2, a3, a4, a5, a6, a7)
<1> DEFINE c5 == a1 \o a2 \o a3 \o a4 \o a5
           c6 == c5 \o a6
           c7 == c6 \o a7
           In(c, a, b) == /\ c \in Seq(Int) /\ Len(c) = Len(a) + Len(b)
                          /\ \A bin \in Seq(Int), at \in Nat :
                               Holds(bin, at, c) =>
                                 Holds(bin, at, a) /\ Holds(bin, at + Len(a), b)
<1>1. c7 = a1 \o a2 \o a3 \o a4 \o a5 \o a6 \o a7
  OBVIOUS
<1>2. InFive(c5, a1, a2, a3, a4, a5)
  BY FiveParts
<1> HIDE DEF c5
<1>3. /\ c5 \in Seq(Int)
      /\ Len(c5) = Len(a1) + Len(a2) + Len(a3) + Len(a4) + Len(a5)
      /\ \A bin \in Seq(Int), at \in Nat :
           Holds(bin, at, c5) =>
             /\ Holds(bin, at, a1)
             /\ Holds(bin, at + Len(a1), a2)
             /\ Holds(bin, at + (Len(a1) + Len(a2)), a3)
             /\ Holds(bin, at + (Len(a1) + Len(a2) + Len(a3)), a4)
             /\ Holds(bin, at + (Len(a1) + Len(a2) + Len(a3) + Len(a4)), a5)
  BY <1>2, Zenon DEF InFive
<1>4. In(c6, c5, a6)
  BY <1>3, Joined
<1> HIDE DEF c6
<1>5. In(c7, c6, a7)
  BY <1>4, Joined
<1> HIDE DEF c7
<1>6. /\ Len(c6) = Len(a1) + Len(a2) + Len(a3) + Len(a4) + Len(a5) + Len(a6)
      /\ Len(c7) = Len(a1) + Len(a2) + Len(a3) + Len(a4) + Len(a5) + Len(a6) + Len(a7)
  BY <1>3, <1>4, <1>5
<1>7. ASSUME NEW bin \in Seq(Int), NEW at \in Nat, Holds(bin, at, c7)
      PROVE  /\ Holds(bin, at, a1) /\ Holds(bin, at + Len(a1), a2)
             /\ Holds(bin, at + (Len(a1) + Len(a2)), a3)
             /\ Holds(bin, at + (Len(a1) + Len(a2) + Len(a3)), a4)
             /\ Holds(bin, at + (Len(a1) + Len(a2) + Len(a3) + Len(a4)), a5)
             /\ Holds(bin, at + Len(c5), a6)
             /\ Holds(bin, at + Len(c6), a7)
  BY <1>3, <1>4, <1>5, <1>7, Zenon
<1>8. c7 \in Seq(Int)
  BY <1>5
<1>9. InSeven(c7, a1, a2, a3, a4, a5, a6, a7)
  BY <1>3, <1>6, <1>7, <1>8 DEF InSeven
<1> QED BY <1>1, <1>9

\* Two lists in a row, the second of a known length, tell both.
PartsTell(a, b, c, d) == Len(b) = Len(d) /\ a \o b = c \o d => a = c /\ b = d

\* So do any two lists.
LEMMA ConcatSplit ==
  ASSUME NEW S, NEW a \in Seq(S), NEW b \in Seq(S), NEW c \in Seq(S), NEW d \in Seq(S)
  PROVE  PartsTell(a, b, c, d)
<1> SUFFICES ASSUME Len(b) = Len(d), a \o b = c \o d PROVE a = c /\ b = d
  BY DEF PartsTell
<1> DEFINE ab == a \o b
<1>1. /\ Len(ab) = Len(a) + Len(b)
      /\ \A i \in 1 .. Len(a) + Len(b) : ab[i] = IF i <= Len(a) THEN a[i] ELSE b[i - Len(a)]
  BY ConcatProperties
<1>2. /\ Len(ab) = Len(c) + Len(d)
      /\ \A i \in 1 .. Len(c) + Len(d) : ab[i] = IF i <= Len(c) THEN c[i] ELSE d[i - Len(c)]
  BY ConcatProperties
<1> HIDE DEF ab
<1>3. Len(a) \in Nat /\ Len(b) \in Nat /\ Len(c) \in Nat /\ Len(a) = Len(c)
  BY <1>1, <1>2, LenProperties
<1>4. ASSUME NEW i \in 1 .. Len(a) PROVE a[i] = c[i]
  <2>1. i \in 1 .. Len(a) + Len(b) /\ i <= Len(a)
    BY <1>3
  <2> QED BY <1>1, <1>2, <1>3, <2>1
<1>5. ASSUME NEW i \in 1 .. Len(b) PROVE b[i] = d[i]
  <2> DEFINE j == Len(a) + i
  <2>1. j \in 1 .. Len(a) + Len(b) /\ ~ (j <= Len(a)) /\ j - Len(a) = i
    BY <1>3
  <2> HIDE DEF j
  <2> QED BY <1>1, <1>2, <1>3, <2>1
<1> QED BY <1>3, <1>4, <1>5, SeqEqual

-------------------------------------------------------------------------------
(* Lists written one after the other.                                        *)

\* The sum of the first i values of f.
Upto(f, i) == SumFunctionOnSet(f, 1 .. i)

\* It grows by the next of them.
LEMMA UptoGrows ==
  ASSUME NEW n \in Nat, NEW f \in [1 .. n -> Nat]
  PROVE  /\ Upto(f, 0) = 0
         /\ \A i \in 0 .. n : Upto(f, i) \in Nat
         /\ \A i \in 1 .. n : Upto(f, i) = Upto(f, i - 1) + f[i]
<1>1. Upto(f, 0) = 0
  <2>1. 1 .. 0 = {}
    OBVIOUS
  <2> QED BY <2>1, SumEmpty DEF Upto
<1>2. ASSUME NEW i \in 0 .. n
      PROVE  IsFiniteSet(1 .. i) /\ (\A k \in 1 .. i : f[k] \in Int) /\ Upto(f, i) \in Int
  <2> DEFINE S == 1 .. i
  <2>1. IsFiniteSet(S) /\ \A k \in S : f[k] \in Int
    BY FS_Interval
  <2> HIDE DEF S
  <2>2. SumFunctionOnSet(f, S) \in Int
    BY <2>1, SumType
  <2> QED BY <2>1, <2>2 DEF S, Upto
<1>3. ASSUME NEW i \in 1 .. n
      PROVE  Upto(f, i) = Upto(f, i - 1) + f[i]
  <2> DEFINE S == 1 .. i - 1
  <2>1. i - 1 \in 0 .. n /\ S \cup {i} = 1 .. i /\ i \notin S /\ f[i] \in Int
    OBVIOUS
  <2>2. IsFiniteSet(S) /\ \A k \in S \cup {i} : f[k] \in Int
    BY <1>2, <2>1
  <2> HIDE DEF S
  <2>3. SumFunctionOnSet(f, S \cup {i}) = f[i] + SumFunctionOnSet(f, S)
    BY <2>1, <2>2, SumAdd
  <2>4. Upto(f, i) = f[i] + Upto(f, i - 1)
    BY <2>1, <2>3 DEF S, Upto
  <2> QED BY <1>2, <2>1, <2>4
<1> DEFINE G == {i \in Nat : i <= n => Upto(f, i) \in Nat}
<1>4. 0 \in G
  BY <1>1
<1>5. ASSUME NEW i \in G PROVE i + 1 \in G
  <2> SUFFICES ASSUME i + 1 <= n PROVE Upto(f, i + 1) \in Nat
    OBVIOUS
  <2>1. i + 1 \in 1 .. n /\ i + 1 - 1 = i /\ f[i + 1] \in Nat /\ Upto(f, i) \in Nat
    OBVIOUS
  <2> QED BY <1>3, <2>1
<1>6. G \in SUBSET Nat
  OBVIOUS
<1> HIDE DEF G
<1>7. G = Nat
  BY <1>4, <1>5, <1>6, NatGrows
<1>8. \A i \in 0 .. n : Upto(f, i) \in Nat
  BY <1>7 DEF G
<1> QED BY <1>1, <1>3, <1>8

\* What FlattenSeq chooses.
IsFlat(g, s) ==
  /\ FlattenSeq(s) = g[Len(s)]
  /\ g[0] = << >>
  /\ \A i \in 1 .. Len(s) : g[i] = g[i - 1] \o s[i]

\* There is one, and it does what its definition says.
LEMMA FlattenDef ==
  ASSUME NEW s \in Seq(Seq(Int))
  PROVE  \E g \in [0 .. Len(s) -> Seq(Int)] : IsFlat(g, s)
<1> DEFINE n == Len(s)
           V == Seq(Int)
           none == << >>
           step == [p \in Nat \X V |-> IF p[1] \in 1 .. n THEN p[2] \o s[p[1]] ELSE p[2]]
           Is(g) == g = [i \in 1 .. n |-> IF i = 1 THEN s[i] ELSE g[i - 1] \o s[i]]
<1>1. n \in Nat /\ (\A i \in 1 .. n : s[i] \in V) /\ none \in V
  OBVIOUS
<1> HIDE DEF n, none
<1>2. step \in [Nat \X V -> V]
  <2>1. ASSUME NEW p \in Nat \X V
        PROVE  (IF p[1] \in 1 .. n THEN p[2] \o s[p[1]] ELSE p[2]) \in V
    <3>1. p[2] \in V
      OBVIOUS
    <3>2. p[1] \in 1 .. n => s[p[1]] \in V
      BY <1>1
    <3> QED BY <3>1, <3>2, ConcatProperties
  <2> QED BY <2>1
<1>3. ASSUME NEW i \in 1 .. n, NEW v \in V
      PROVE  i \in Nat /\ step[<<i, v>>] = v \o s[i]
  <2>1. i \in Nat /\ <<i, v>> \in Nat \X V /\ <<i, v>>[1] = i /\ <<i, v>>[2] = v
    BY <1>1
  <2> HIDE DEF V
  <2> QED BY <2>1
<1> HIDE DEF step, V
<1>4. PICK r \in [Nat -> V] : IsRecursion(r, none, step)
  BY <1>1, <1>2, RecursionExists, Zenon
<1>5. \A i \in Nat : r[i] = IF i = 0 THEN none ELSE step[<<i, r[i - 1]>>]
  BY <1>4, Zenon DEF IsRecursion
<1>6. r[0] = none /\ \A i \in 1 .. n : r[i] = r[i - 1] \o s[i] /\ i - 1 \in Nat /\ i \in Nat
  <2>1. r[0] = none
    BY <1>5
  <2>2. ASSUME NEW i \in 1 .. n
        PROVE  r[i] = r[i - 1] \o s[i] /\ i - 1 \in Nat /\ i \in Nat
    <3>1. i \in Nat /\ i # 0 /\ i - 1 \in Nat
      BY <1>1
    <3>2. r[i] = step[<<i, r[i - 1]>>]
      BY <1>5, <3>1
    <3>3. r[i - 1] \in V
      BY <3>1
    <3> QED BY <1>3, <3>1, <3>2, <3>3
  <2> QED BY <2>1, <2>2
<1>7. n # 0 => r[1] = s[1]
  <2> SUFFICES ASSUME n # 0 PROVE r[1] = s[1]
    OBVIOUS
  <2>1. 1 \in 1 .. n /\ s[1] \in V /\ 1 - 1 = 0
    BY <1>1
  <2>2. r[1] = none \o s[1]
    BY <1>6, <2>1
  <2>3. none \o s[1] = s[1]
    BY <2>1, ConcatEmptySeq DEF none, V
  <2> QED BY <2>2, <2>3
<1> DEFINE h == [i \in 1 .. n |-> r[i]]
<1>8. Is(h)
  <2> DEFINE k == [i \in 1 .. n |-> IF i = 1 THEN s[i] ELSE h[i - 1] \o s[i]]
  <2>1. ASSUME NEW i \in 1 .. n PROVE k[i] = h[i]
    <3>1. CASE i = 1
      <4>1. n # 0
        BY <1>1, <3>1
      <4> QED BY <1>7, <3>1, <4>1
    <3>2. CASE i # 1
      <4>1. i - 1 \in 1 .. n
        BY <1>1, <3>2
      <4>2. h[i - 1] = r[i - 1] /\ h[i] = r[i]
        BY <4>1
      <4>3. k[i] = h[i - 1] \o s[i]
        BY <3>2
      <4> HIDE DEF k, h
      <4> QED BY <1>6, <4>2, <4>3
    <3> QED BY <3>1, <3>2
  <2>2. k = [i \in 1 .. n |-> k[i]] /\ h = [i \in 1 .. n |-> h[i]]
    OBVIOUS
  <2> HIDE DEF k, h
  <2>3. h = k
    BY <2>1, <2>2
  <2> QED BY <2>3 DEF k
<1> HIDE DEF h
<1> DEFINE g == CHOOSE g : Is(g)
<1>9. Is(g)
  <2> HIDE DEF Is
  <2> QED BY <1>8
<1>10. n # 0 => FlattenSeq(s) = g[n]
  BY Zenon DEF FlattenSeq, n
<1>11. n = 0 => FlattenSeq(s) = none
  BY <1>1 DEF FlattenSeq, n, none
<1> HIDE DEF g
<1>12. \A i \in 1 .. n : g[i] = IF i = 1 THEN s[i] ELSE g[i - 1] \o s[i]
  BY <1>9
<1> HIDE DEF Is
<1> DEFINE G == {i \in Nat : i \in 1 .. n => g[i] = r[i]}
<1>13. 0 \in G
  OBVIOUS
<1>14. ASSUME NEW i \in G PROVE i + 1 \in G
  <2> SUFFICES ASSUME i + 1 \in 1 .. n PROVE g[i + 1] = r[i + 1]
    OBVIOUS
  <2>1. CASE i = 0
    <3>1. n # 0 /\ i + 1 = 1
      BY <1>1, <2>1
    <3> QED BY <1>7, <1>12, <3>1
  <2>2. CASE i # 0
    <3>1. i \in 1 .. n /\ i + 1 # 1 /\ i + 1 - 1 = i
      BY <1>1, <2>2
    <3>2. g[i] = r[i]
      BY <3>1
    <3> DEFINE j == i + 1
    <3>3. j \in 1 .. n /\ j # 1 /\ j - 1 = i
      BY <3>1
    <3> HIDE DEF j
    <3>4. g[j] = g[i] \o s[j]
      BY <1>12, <3>3
    <3>5. r[j] = r[i] \o s[j]
      BY <1>6, <3>3
    <3>6. g[j] = r[j]
      BY <3>2, <3>4, <3>5
    <3> QED BY <3>6 DEF j
  <2> QED BY <2>1, <2>2
<1>15. G \in SUBSET Nat
  OBVIOUS
<1> HIDE DEF G
<1>16. G = Nat
  BY <1>13, <1>14, <1>15, NatGrows
<1>17. FlattenSeq(s) = r[n]
  <2>1. CASE n = 0
    BY <1>6, <1>11, <2>1
  <2>2. CASE n # 0
    <3>1. n \in Nat /\ n \in 1 .. n
      BY <1>1, <2>2
    <3>2. g[n] = r[n]
      BY <1>16, <3>1 DEF G
    <3> QED BY <1>10, <2>2, <3>2
  <2> QED BY <2>1, <2>2
<1> DEFINE f == [i \in 0 .. n |-> r[i]]
<1>18. f \in [0 .. n -> V]
  BY <1>1
<1>19. FlattenSeq(s) = f[n] /\ f[0] = none /\ \A i \in 1 .. n : f[i] = f[i - 1] \o s[i]
  <2>1. n \in 0 .. n /\ 0 \in 0 .. n /\ \A i \in 1 .. n : i \in 0 .. n /\ i - 1 \in 0 .. n
    BY <1>1
  <2>2. \A i \in 0 .. n : f[i] = r[i]
    OBVIOUS
  <2> HIDE DEF f
  <2> QED BY <1>6, <1>17, <2>1, <2>2
<1> HIDE DEF f
<1>20. IsFlat(f, s)
  BY <1>19, Zenon DEF IsFlat, n, none
<1> QED BY <1>18, <1>20 DEF V, n

\* Memory that is prolonged still holds what it held, and behind it what was added.
LEMMA HoldsLonger ==
  ASSUME NEW a \in Seq(Int), NEW b \in Seq(Int)
  PROVE  /\ \A at \in Nat, c \in Seq(Int) : Holds(a, at, c) => Holds(a \o b, at, c)
         /\ Holds(a \o b, Len(a), b)
         /\ a \o b \in Seq(Int) /\ Len(a \o b) = Len(a) + Len(b)
<1>1. /\ a \o b \in Seq(Int) /\ Len(a \o b) = Len(a) + Len(b)
      /\ \A i \in 1 .. Len(a) + Len(b) :
           (a \o b)[i] = IF i <= Len(a) THEN a[i] ELSE b[i - Len(a)]
  BY ConcatProperties
<1>2. Len(a) \in Nat /\ Len(b) \in Nat
  OBVIOUS
<1> DEFINE ab == a \o b
<1>3. Len(ab) = Len(a) + Len(b)
  BY <1>1
<1>4. \A i \in 1 .. Len(a) : ab[i] = a[i]
  BY <1>1, <1>2
<1>5. ASSUME NEW i \in 1 .. Len(b) PROVE ab[Len(a) + i] = b[i]
  <2> DEFINE j == Len(a) + i
  <2>1. j \in 1 .. Len(a) + Len(b) /\ ~ (j <= Len(a)) /\ j - Len(a) = i
    BY <1>2
  <2> HIDE DEF j
  <2>2. (a \o b)[j] = b[i]
    BY <1>1, <2>1
  <2> QED BY <2>2 DEF j
<1> HIDE DEF ab
<1>6. ASSUME NEW at \in Nat, NEW c \in Seq(Int), Holds(a, at, c)
      PROVE  Holds(ab, at, c)
  <2>1. Len(c) \in Nat /\ at + Len(c) <= Len(a) /\ \A k \in 1 .. Len(c) : a[at + k] = c[k]
    BY <1>6 DEF Holds
  <2>2. \A k \in 1 .. Len(c) : at + k \in 1 .. Len(a)
    BY <1>2, <2>1
  <2>3. \A k \in 1 .. Len(c) : ab[at + k] = c[k]
    BY <1>4, <2>1, <2>2
  <2> QED BY <1>2, <1>3, <2>1, <2>3 DEF Holds
<1>7. Holds(ab, Len(a), b)
  BY <1>2, <1>3, <1>5 DEF Holds
<1> QED BY <1>1, <1>6, <1>7 DEF ab

\* How long the lists of a list are.
Lens(s) == [i \in DOMAIN s |-> Len(s[i])]

\* Lengths are numbers.
LEMMA LensType ==
  ASSUME NEW s \in Seq(Seq(Int))
  PROVE  Lens(s) \in [1 .. Len(s) -> Nat] /\ \A i \in 1 .. Len(s) : Lens(s)[i] = Len(s[i])
<1>1. DOMAIN s = 1 .. Len(s) /\ \A i \in 1 .. Len(s) : Len(s[i]) \in Nat
  OBVIOUS
<1> QED BY <1>1 DEF Lens

\* Lists written one after the other are as long as all of them, and each lies where
\* those before it end.
LEMMA FlattenHolds ==
  ASSUME NEW s \in Seq(Seq(Int))
  PROVE  /\ FlattenSeq(s) \in Seq(Int)
         /\ Len(FlattenSeq(s)) = Upto(Lens(s), Len(s))
         /\ \A i \in 1 .. Len(s) :
              Upto(Lens(s), i - 1) \in Nat /\ Holds(FlattenSeq(s), Upto(Lens(s), i - 1), s[i])
<1> DEFINE n == Len(s)
           V == Seq(Int)
           up(i) == Upto(Lens(s), i)
           none == << >>
<1>1. n \in Nat /\ \A i \in 1 .. n : s[i] \in V
  OBVIOUS
<1>2. PICK g \in [0 .. n -> V] : IsFlat(g, s)
  BY FlattenDef
<1>3. FlattenSeq(s) = g[n] /\ g[0] = none /\ \A i \in 1 .. n : g[i] = g[i - 1] \o s[i]
  BY <1>2, Zenon DEF IsFlat
<1>4. Lens(s) \in [1 .. n -> Nat] /\ \A i \in 1 .. n : Lens(s)[i] = Len(s[i])
  BY LensType
<1>5. /\ up(0) = 0
      /\ \A i \in 0 .. n : up(i) \in Nat
      /\ \A i \in 1 .. n : up(i) = up(i - 1) + Len(s[i])
  <2>1. /\ Upto(Lens(s), 0) = 0
        /\ \A i \in 0 .. n : Upto(Lens(s), i) \in Nat
        /\ \A i \in 1 .. n : Upto(Lens(s), i) = Upto(Lens(s), i - 1) + Lens(s)[i]
    <3> DEFINE L == Lens(s)
    <3>1. L \in [1 .. n -> Nat]
      BY <1>4
    <3> HIDE DEF L, n
    <3> QED BY <1>1, <3>1, UptoGrows DEF L
  <2> QED BY <1>4, <2>1
<1>6. none \in V /\ Len(none) = 0
  OBVIOUS
<1> HIDE DEF n, none, up
<1> DEFINE Laid(j) == /\ g[j] \in V /\ Len(g[j]) = up(j)
                      /\ \A i \in 1 .. j : Holds(g[j], up(i - 1), s[i])
           G == {j \in Nat : j <= n => Laid(j)}
<1>7. 0 \in G
  BY <1>1, <1>3, <1>5, <1>6
<1>8. ASSUME NEW k \in G PROVE k + 1 \in G
  <2> SUFFICES ASSUME k + 1 <= n PROVE Laid(k + 1)
    OBVIOUS
  <2> DEFINE j == k + 1
  <2>1. k \in Nat /\ k \in 0 .. n /\ j \in 1 .. n /\ j - 1 = k /\ j \in Nat /\ Laid(k)
    BY <1>1
  <2>2. \A i \in 1 .. j : i = j \/ i \in 1 .. k
    BY <2>1
  <2> HIDE DEF j
  <2>3. g[k] \in V /\ Len(g[k]) = up(k) /\ \A i \in 1 .. k : Holds(g[k], up(i - 1), s[i])
    BY <2>1
  <2> HIDE DEF Laid, V
  <2>4. g[j] = g[k] \o s[j] /\ up(j) = up(k) + Len(s[j]) /\ s[j] \in V
    BY <1>1, <1>3, <1>5, <2>1
  <2>5. /\ g[j] \in V /\ Len(g[j]) = Len(g[k]) + Len(s[j])
        /\ Holds(g[j], Len(g[k]), s[j])
        /\ \A at \in Nat, c \in V : Holds(g[k], at, c) => Holds(g[j], at, c)
    <3> DEFINE a == g[k]
               b == s[j]
    <3>1. a \in V /\ b \in V /\ g[j] = a \o b
      BY <2>3, <2>4
    <3> HIDE DEF a, b
    <3>2. /\ \A at \in Nat, c \in V : Holds(a, at, c) => Holds(a \o b, at, c)
          /\ Holds(a \o b, Len(a), b)
          /\ a \o b \in V /\ Len(a \o b) = Len(a) + Len(b)
      BY <3>1, HoldsLonger DEF V
    <3> QED BY <3>1, <3>2, Zenon DEF a, b
  <2>6. ASSUME NEW i \in 1 .. j PROVE Holds(g[j], up(i - 1), s[i])
    <3>1. CASE i = j
      BY <2>1, <2>3, <2>5, <3>1
    <3>2. CASE i \in 1 .. k
      <4>1. i - 1 \in 0 .. n /\ i \in 1 .. n
        BY <1>1, <2>1, <3>2
      <4>2. up(i - 1) \in Nat /\ s[i] \in V
        BY <1>1, <1>5, <4>1
      <4> QED BY <2>3, <2>5, <3>2, <4>2
    <3> QED BY <2>2, <3>1, <3>2
  <2>7. Len(g[j]) = up(j)
    BY <2>3, <2>4, <2>5
  <2>8. Laid(j)
    BY <2>5, <2>6, <2>7 DEF Laid
  <2> QED BY <2>8 DEF j
<1>9. G \in SUBSET Nat
  OBVIOUS
<1> HIDE DEF G
<1>10. G = Nat
  BY <1>7, <1>8, <1>9, NatGrows
<1>11. Laid(n)
  <2>1. n \in G /\ n <= n
    BY <1>1, <1>10
  <2> QED BY <2>1 DEF G
<1>12. \A i \in 1 .. n : up(i - 1) \in Nat
  BY <1>1, <1>5
<1> QED BY <1>3, <1>11, <1>12 DEF n, up

-------------------------------------------------------------------------------
(* A message as it is sent.                                                  *)

\* What a cell of a message holds.
Cell == Nat

\* A word is as many cells as a size takes.
LEMMA WordIsSeq == \A n \in Nat : ToWord(n) \in Seq(Cell) /\ Len(ToWord(n)) = Word
<1> SUFFICES ASSUME NEW n \in Nat PROVE ToWord(n) \in Seq(Cell) /\ Len(ToWord(n)) = Word
  OBVIOUS
<1>1. ToWord(n) \in Seq(0 .. Base - 1) /\ Len(ToWord(n)) = Word
  BY WordType
<1>2. 0 .. Base - 1 \subseteq Cell
  BY BytesAssumption DEF Cell
<1> QED
  BY <1>1, <1>2, SeqMonotonic, Zenon

\* A header is the type and the size.
LEMMA HeaderIsPositive == HEADER_SIZE \in Nat \ {0, 1} /\ HEADER_SIZE = Word + 1
  BY BytesAssumption DEF HEADER_SIZE

\* The bytes of a message: its type, its size in Word cells, its data.
LEMMA BinOfMessage ==
  ASSUME NEW m \in Message
  PROVE  /\ m.data \in Seq(Cell) /\ Len(m.data) \in Nat
         /\ MessageToBin(m) \in Seq(Cell)
         /\ Len(MessageToBin(m)) = HEADER_SIZE + Len(m.data)
         /\ MessageToBin(m)[1] = m.type
         /\ \A k \in 1 .. Len(m.data) : MessageToBin(m)[HEADER_SIZE + k] = m.data[k]
<1>1. m.type \in 0 .. Base - 1 /\ m.data \in Seq(Nat) /\ Base \in Nat \ {0, 1} /\ Word \in Nat \ {0}
  BY TransportAssumption, BytesAssumption
<1>2. m.data \in Seq(Cell) /\ Len(m.data) \in Nat
  BY <1>1 DEF Cell
<1>3. m.type % Base = m.type /\ m.type \in Cell
  <2>1. m.type % Base = m.type
    BY <1>1, SMTT(30)
  <2>2. m.type \in Nat
    BY <1>1, SMT
  <2>3. Nat \subseteq Cell
    BY DEF Cell
  <2> QED
    BY <2>1, <2>2, <2>3
<1>4. <<m.type % Base>> \in Seq(Cell) /\ Len(<<m.type % Base>>) = 1
  BY <1>3
<1> DEFINE size == ToWord(Len(m.data))
<1>5. size \in Seq(Cell) /\ Len(size) = Word
  BY <1>2, WordIsSeq
<1> HIDE DEF size
<1> DEFINE head == <<m.type % Base>> \o size
<1>6. head \in Seq(Cell) /\ Len(head) = 1 + Word /\ head[1] = m.type
  BY <1>1, <1>3, <1>4, <1>5
<1> HIDE DEF head
<1>7. MessageToBin(m) = head \o m.data
  BY DEF MessageToBin, head, size
<1>8. /\ head \o m.data \in Seq(Cell)
      /\ Len(head \o m.data) = HEADER_SIZE + Len(m.data)
      /\ (head \o m.data)[1] = m.type
      /\ \A k \in 1 .. Len(m.data) : (head \o m.data)[HEADER_SIZE + k] = m.data[k]
  <2>1. /\ head \o m.data \in Seq(Cell)
        /\ Len(head \o m.data) = Len(head) + Len(m.data)
        /\ \A i \in 1 .. Len(head) + Len(m.data) :
             (head \o m.data)[i] = IF i <= Len(head) THEN head[i] ELSE m.data[i - Len(head)]
    BY <1>2, <1>6, ConcatProperties
  <2>2. Len(head) = HEADER_SIZE /\ HEADER_SIZE \in Nat \ {0, 1}
    BY <1>1, <1>6, HeaderIsPositive
  <2>3. \A k \in 1 .. Len(m.data) : (head \o m.data)[HEADER_SIZE + k] = m.data[k]
    BY <1>2, <2>1, <2>2
  <2>4. (head \o m.data)[1] = m.type
    BY <1>2, <1>6, <2>1, <2>2
  <2> QED
    BY <2>1, <2>2, <2>3, <2>4
<1> QED
  BY <1>2, <1>7, <1>8

\* Only the header says how many bytes of data follow.
LEMMA SizeIsInHeader ==
  ASSUME NEW s \in Seq(Cell), NEW t \in Seq(Cell),
         Len(s) >= HEADER_SIZE, Len(t) >= HEADER_SIZE,
         \A k \in 1 .. HEADER_SIZE : s[k] = t[k]
  PROVE  SizeData(s) = SizeData(t)
<1>1. Len(s) \in Nat /\ Len(t) \in Nat /\ Word \in Nat \ {0}
  BY BytesAssumption
<1> DEFINE u == SubSeq(s, 2, 1 + Word)
           v == SubSeq(t, 2, 1 + Word)
<1>2. /\ u \in Seq(Cell) /\ Len(u) = Word
      /\ \A k \in 1 .. Word : u[k] = s[k + 1]
  BY <1>1, HeaderIsPositive
<1>3. /\ v \in Seq(Cell) /\ Len(v) = Word
      /\ \A k \in 1 .. Word : v[k] = t[k + 1]
  BY <1>1, HeaderIsPositive
<1>4. \A k \in 1 .. Word : s[k + 1] = t[k + 1]
  BY <1>1, HeaderIsPositive
<1> HIDE DEF u, v
<1>5. u = v
  BY <1>2, <1>3, <1>4, SeqEqual, ZenonT(30)
<1>6. SizeData(s) = FromWord(u) /\ SizeData(t) = FromWord(v)
  BY <1>1 DEF SizeData, WordAt, Cut, u, v
<1> QED
  BY <1>5, <1>6

\* The size in the header of a message is that of its data.
LEMMA SizeIsRead == \A m \in Message : SizeData(MessageToBin(m)) = Len(m.data)
<1> SUFFICES ASSUME NEW m \in Message PROVE SizeData(MessageToBin(m)) = Len(m.data)
  OBVIOUS
<1> DEFINE n    == Len(m.data)
           type == <<m.type % Base>>
           size == ToWord(n)
           head == type \o size
           bin  == MessageToBin(m)
<1>1. m.type % Base \in Int /\ m.data \in Seq(Int) /\ n \in Nat /\ n < power[Word]
  BY TransportAssumption, BytesAssumption
<1>2. bin = head \o m.data
  BY DEF MessageToBin
<1>3. type \in Seq(Int) /\ Len(type) = 1
  BY <1>1
<1> HIDE DEF n, type, bin
<1>4. size \in Seq(Int)
  BY <1>1, WordCells
<1> HIDE DEF size
<1>5. head \in Seq(Int)
  BY <1>3, <1>4, ConcatProperties
<1>6. bin \in Seq(Int) /\ Holds(bin, 0, head)
  <2>1. bin \in Seq(Int)
    BY <1>1, <1>2, <1>5, ConcatProperties
  <2>2. Holds(bin, 0, head \o m.data)
    BY <1>2, <2>1, HoldsItself
  <2> HIDE DEF head
  <2> QED
    BY <1>1, <1>5, <2>1, <2>2, HoldsParts
<1>7. Holds(bin, 0 + Len(type), size)
  BY <1>3, <1>4, <1>6, HoldsParts
<1>8. Holds(bin, 1, ToWord(n))
  BY <1>3, <1>7 DEF size
<1>9. WordAt(bin, 1) = n
  BY <1>1, <1>6, <1>8, WordHeld
<1> QED
  BY <1>9 DEF SizeData, bin, n

\* The reader's message is the sender's.
LEMMA RoundTrip == \A m \in Message : BinToMessage(MessageToBin(m)) = m
<1> SUFFICES ASSUME NEW m \in Message PROVE BinToMessage(MessageToBin(m)) = m
  OBVIOUS
<1> DEFINE bin  == MessageToBin(m)
           data == Cut(bin, HEADER_SIZE, Len(m.data))
<1>1. /\ m.data \in Seq(Cell) /\ Len(m.data) \in Nat
      /\ bin \in Seq(Cell) /\ Len(bin) = HEADER_SIZE + Len(m.data)
      /\ bin[1] = m.type
      /\ \A k \in 1 .. Len(m.data) : bin[HEADER_SIZE + k] = m.data[k]
  BY BinOfMessage
<1>2. SizeData(bin) = Len(m.data)
  BY SizeIsRead
<1> HIDE DEF bin
<1>3. /\ data \in Seq(Cell) /\ Len(data) = Len(m.data)
      /\ \A k \in 1 .. Len(m.data) : data[k] = bin[HEADER_SIZE + k]
  <2> DEFINE from == HEADER_SIZE + 1
             to   == HEADER_SIZE + Len(m.data)
  <2>1. from \in Int /\ to \in Int /\ (\A i \in from .. to : bin[i] \in Cell)
    <3>1. HEADER_SIZE \in Nat /\ \A i \in from .. to : i \in 1 .. Len(bin)
      BY <1>1, HeaderIsPositive
    <3> QED
      BY <1>1, <3>1, ElementOfSeq
  <2> HIDE DEF from, to
  <2>2. /\ SubSeq(bin, from, to) \in Seq(Cell)
        /\ Len(SubSeq(bin, from, to)) = IF from <= to THEN to - from + 1 ELSE 0
        /\ \A i \in 1 .. to - from + 1 : SubSeq(bin, from, to)[i] = bin[from + i - 1]
    BY <2>1, SubSeqProperties
  <2>3. data = SubSeq(bin, from, to)
    BY DEF Cut, from, to
  <2> HIDE DEF data
  <2>4. /\ to - from + 1 = Len(m.data) /\ (from <= to <=> Len(m.data) # 0)
        /\ \A i \in 1 .. Len(m.data) : from + i - 1 = HEADER_SIZE + i
    BY <1>1, HeaderIsPositive, SMTT(30) DEF from, to
  <2>5. \A i \in 1 .. Len(m.data) : data[i] = bin[HEADER_SIZE + i]
    BY <2>2, <2>3, <2>4
  <2>6. Len(data) = Len(m.data)
    BY <1>1, <2>2, <2>3, <2>4
  <2> QED
    BY <2>2, <2>3, <2>5, <2>6
<1> HIDE DEF data
<1>4. data = m.data
  BY <1>1, <1>3, SeqEqual
<1>5. Head(bin) = m.type
  BY <1>1, HeaderIsPositive
<1>6. BinToMessage(bin) = [type |-> m.type, data |-> m.data]
  BY <1>2, <1>4, <1>5 DEF BinToMessage, data
<1>7. m = [type |-> m.type, data |-> m.data]
  BY TransportAssumption
<1> QED
  BY <1>6, <1>7 DEF bin

-------------------------------------------------------------------------------
(* What Send may send.                                                     *)

\* The memory that send may reach into begins with the message.
LEMMA MemoryIs ==
  ASSUME msg \in [Conn -> Message], NEW c \in Conn
  PROVE  /\ msg[c] \in Message
         /\ Memory(c) \in Seq(Cell) /\ Len(Memory(c)) = 2 * Count(c)
         /\ Count(c) \in Nat /\ Count(c) = HEADER_SIZE + Len(msg[c].data) /\ Len(msg[c].data) \in Nat
         /\ \A k \in 1 .. Count(c) : Memory(c)[k] = MessageToBin(msg[c])[k]
<1> DEFINE bin  == MessageToBin(msg[c])
           rest == [k \in 1 .. Count(c) |-> 0]
<1>1. /\ msg[c] \in Message /\ bin \in Seq(Cell) /\ Len(bin) = Count(c)
      /\ Count(c) = HEADER_SIZE + Len(msg[c].data) /\ Len(msg[c].data) \in Nat
  BY BinOfMessage DEF Count
<1>2. Count(c) \in Nat
  BY <1>1, HeaderIsPositive
<1>3. rest \in [1 .. Count(c) -> Cell]
  BY DEF Cell
<1>4. rest \in Seq(Cell) /\ Len(rest) = Count(c)
  BY <1>2, <1>3
<1>5. Memory(c) = bin \o rest
  BY DEF Memory
<1> HIDE DEF bin, rest
<1>6. /\ bin \o rest \in Seq(Cell) /\ Len(bin \o rest) = Len(bin) + Len(rest)
      /\ \A i \in 1 .. Len(bin) + Len(rest) :
           (bin \o rest)[i] = IF i <= Len(bin) THEN bin[i] ELSE rest[i - Len(bin)]
  <2>1. bin \in Seq(Cell) /\ rest \in Seq(Cell)
    BY <1>1, <1>4
  <2> QED
    BY <2>1, ConcatProperties
<1>7. \A k \in 1 .. Count(c) : Memory(c)[k] = bin[k]
  BY <1>1, <1>2, <1>4, <1>5, <1>6
<1>8. Len(Memory(c)) = 2 * Count(c)
  BY <1>1, <1>2, <1>4, <1>5, <1>6
<1> QED
  BY <1>1, <1>2, <1>5, <1>6, <1>7, <1>8 DEF bin

\* A cut of memory, cell by cell.
LEMMA CutOf ==
  ASSUME NEW s \in Seq(Cell), NEW at \in Nat, NEW n \in Nat, at + n <= Len(s)
  PROVE  /\ Cut(s, at, n) \in Seq(Cell) /\ Len(Cut(s, at, n)) = n
         /\ \A k \in 1 .. n : Cut(s, at, n)[k] = s[at + k]
<1> DEFINE from == at + 1
           to   == at + n
<1>1. from \in Int /\ to \in Int /\ (\A i \in from .. to : s[i] \in Cell)
  <2>1. \A i \in from .. to : i \in 1 .. Len(s)
    OBVIOUS
  <2> QED
    BY <2>1, ElementOfSeq
<1>2. /\ to - from + 1 = n /\ (from <= to <=> n # 0)
      /\ \A i \in 1 .. n : from + i - 1 = at + i
  OBVIOUS
<1>3. Cut(s, at, n) = SubSeq(s, from, to)
  BY DEF Cut
<1> HIDE DEF from, to
<1>4. /\ SubSeq(s, from, to) \in Seq(Cell)
      /\ Len(SubSeq(s, from, to)) = IF from <= to THEN to - from + 1 ELSE 0
      /\ \A i \in 1 .. to - from + 1 : SubSeq(s, from, to)[i] = s[from + i - 1]
  BY <1>1, SubSeqProperties
<1> QED
  BY <1>2, <1>3, <1>4

-------------------------------------------------------------------------------
(* The invariant.                                                          *)

\* What was read, and what is on its way, are the memory of the sender from its start.
Stream(c) ==
  /\ \A k \in 1 .. Len(buff[c]) : buff[c][k] = Memory(c)[k]
  /\ \A k \in 1 .. Len(wire[c]) : wire[c][k] = Memory(c)[Len(buff[c]) + k]

\* As long as both ends stand, as much of it as Send has behind it.
SenderInv(c) ==
  /\ spc[c] = "connect" =>
       reste[c] = Count(c) /\ buff[c] = << >> /\ wire[c] = << >> /\ rpc[c] = "none"
  /\ spc[c] = "send" /\ link[c] = "up" /\ rpc[c] \notin {"unread", "done"} =>
       Len(buff[c]) + Len(wire[c]) = Count(c) - reste[c]

\* The counter of read_thread is what its header, then its data, lacks.
ReaderInv(c) ==
  /\ rpc[c] \in {"none", "backlog"} => buff[c] = << >> /\ nbCharToRead[c] = HEADER_SIZE
  /\ rpc[c] = "header" => nbCharToRead[c] > 0 /\ Len(buff[c]) + nbCharToRead[c] = HEADER_SIZE
  /\ rpc[c] = "data" => nbCharToRead[c] > 0 /\ Len(buff[c]) + nbCharToRead[c] = Count(c)
  /\ rpc[c] = "deliver" => Len(buff[c]) = Count(c)

ConnInv(c) == Stream(c) /\ SenderInv(c) /\ ReaderInv(c)

Delivery == [by : Conn, msg : Message, to : {"KnownServers", "IncomingMessages"}]

\* A connection hands over one message, its own.
DeliveredInv ==
  /\ delivered \in Seq(Delivery)
  /\ \A i \in 1 .. Len(delivered) :
       /\ rpc[delivered[i].by] = "done"
       /\ delivered[i].msg = msg[delivered[i].by]

Shape == /\ msg \in [Conn -> Message]
         /\ buff \in [Conn -> Seq(Cell)] /\ wire \in [Conn -> Seq(Cell)]
         /\ DOMAIN reste = Conn

TransInv == TypeOK /\ Shape /\ (\A c \in Conn : ConnInv(c)) /\ DeliveredInv

\* At the start nothing was sent or read.
LEMMA TransInit == Init => TransInv
<1> SUFFICES ASSUME Init PROVE TransInv
  OBVIOUS
<1>1. msg \in [Conn -> Message]
  BY DEF Init
<1>2. \A c \in Conn : Count(c) \in Nat \ {0} /\ reste[c] = Count(c)
  BY <1>1, MemoryIs, HeaderIsPositive DEF Init, Count
<1>3. TypeOK
  BY <1>2, HeaderIsPositive DEF Init, TypeOK
<1>4. Shape
  BY <1>1 DEF Init, Shape
<1>5. \A c \in Conn : ConnInv(c)
  BY <1>2 DEF Init, ConnInv, Stream, SenderInv, ReaderInv
<1>6. DeliveredInv
  BY DEF Init, DeliveredInv
<1> QED
  BY <1>3, <1>4, <1>5, <1>6 DEF TransInv

-------------------------------------------------------------------------------
(* Every step keeps it.                                                    *)

\* What a connection was sent, where it stands, and how much of its message is counted,
\* all stay what they were.
Untouched(c) ==
  /\ msg'[c] = msg[c]
  /\ spc'[c] = spc[c] /\ reste'[c] = reste[c] /\ link'[c] = link[c] /\ wire'[c] = wire[c]
  /\ rpc'[c] = rpc[c] /\ buff'[c] = buff[c] /\ nbCharToRead'[c] = nbCharToRead[c]

\* What holds of a connection stands when none of its state changes.
LEMMA UntouchedKeeps ==
  ASSUME NEW c \in Conn, ConnInv(c), Untouched(c)
  PROVE  ConnInv(c)'
BY DEF ConnInv, Untouched, Stream, SenderInv, ReaderInv, Memory, Count

\* read moves bytes from what is on its way to what was read.
LEMMA ReadMoves ==
  ASSUME TransInv, NEW c \in Conn, ReadSome(c)
  PROVE  \E r \in 1 .. nbCharToRead[c] :
           /\ buff' \in [Conn -> Seq(Cell)] /\ wire' \in [Conn -> Seq(Cell)]
           /\ Len(buff'[c]) = Len(buff[c]) + r /\ Len(wire'[c]) = Len(wire[c]) - r
           /\ \A k \in 1 .. Len(buff'[c]) : buff'[c][k] = Memory(c)[k]
           /\ \A k \in 1 .. Len(wire'[c]) : wire'[c][k] = Memory(c)[Len(buff'[c]) + k]
           /\ \A d \in Conn \ {c} : buff'[d] = buff[d] /\ wire'[d] = wire[d]
           /\ rpc' = [rpc EXCEPT ![c] =
                       IF nbCharToRead[c] > r THEN @
                       ELSE IF @ = "header" /\ SizeData(buff'[c]) > 0 THEN "data" ELSE "deliver"]
           /\ nbCharToRead' = [nbCharToRead EXCEPT ![c] =
                                IF @ > r \/ rpc[c] = "data" THEN @ - r ELSE SizeData(buff'[c])]
<1>1. /\ buff \in [Conn -> Seq(Cell)] /\ wire \in [Conn -> Seq(Cell)]
      /\ nbCharToRead[c] \in Nat /\ Stream(c)
  BY DEF TransInv, Shape, ConnInv, TypeOK
<1>2. PICK r \in 1 .. nbCharToRead[c] :
        /\ r <= Len(wire[c])
        /\ buff' = [buff EXCEPT ![c] = @ \o Cut(wire[c], 0, r)]
        /\ wire' = [wire EXCEPT ![c] = SubSeq(@, r + 1, Len(@))]
        /\ rpc' = [rpc EXCEPT ![c] =
                     IF nbCharToRead[c] > r THEN @
                     ELSE IF @ = "header" /\ SizeData(buff'[c]) > 0 THEN "data" ELSE "deliver"]
        /\ nbCharToRead' = [nbCharToRead EXCEPT ![c] =
                              IF @ > r \/ rpc[c] = "data" THEN @ - r ELSE SizeData(buff'[c])]
  BY DEF ReadSome, ReadUpTo
<1> DEFINE n     == Len(wire[c])
           b     == buff[c]
           w     == wire[c]
           moved == Cut(w, 0, r)
           left  == Cut(w, r, n - r)
<1>3. w \in Seq(Cell) /\ b \in Seq(Cell) /\ n = Len(w) /\ n \in Nat /\ r \in Nat \ {0} /\ r <= n
  BY <1>1, <1>2
<1>4. /\ \A k \in 1 .. Len(b) : b[k] = Memory(c)[k]
      /\ \A k \in 1 .. n : w[k] = Memory(c)[Len(b) + k]
  BY <1>1 DEF Stream
<1>5. buff'[c] = b \o moved /\ wire'[c] = left
  <2>1. r + (n - r) = n /\ 0 + r = r /\ 0 + 1 = 1
    BY <1>3
  <2>2. left = SubSeq(w, r + 1, n)
    BY <2>1 DEF Cut
  <2> HIDE DEF left, moved
  <2> QED
    BY <1>1, <1>2, <2>2 DEF b, w, n, moved
<1>6. \A d \in Conn \ {c} : buff'[d] = buff[d] /\ wire'[d] = wire[d]
  BY <1>1, <1>2
<1> HIDE DEF b, w, n
<1>7. /\ moved \in Seq(Cell) /\ Len(moved) = r
      /\ \A k \in 1 .. r : moved[k] = w[k]
  <2>1. 0 \in Nat /\ r \in Nat /\ 0 + r <= Len(w) /\ \A k \in 1 .. r : 0 + k = k
    BY <1>3
  <2>2. \A k \in 1 .. r : moved[k] = w[0 + k]
    BY <1>3, <2>1, CutOf
  <2> QED
    BY <1>3, <2>1, <2>2, CutOf
<1>8. /\ left \in Seq(Cell) /\ Len(left) = n - r
      /\ \A k \in 1 .. n - r : left[k] = w[r + k]
  <2>1. n - r \in Nat /\ r \in Nat /\ r + (n - r) <= Len(w)
    BY <1>3
  <2> QED
    BY <1>3, <2>1, CutOf, ZenonT(30)
<1> HIDE DEF moved, left
<1>9. /\ b \o moved \in Seq(Cell) /\ Len(b \o moved) = Len(b) + r
      /\ \A k \in 1 .. Len(b) + r : (b \o moved)[k] = IF k <= Len(b) THEN b[k] ELSE moved[k - Len(b)]
  BY <1>3, <1>7, ConcatProperties, ZenonT(30)
<1>10. Len(b) \in Nat
  BY <1>3
<1>11. \A k \in 1 .. Len(b) + r : (b \o moved)[k] = Memory(c)[k]
  <2> SUFFICES ASSUME NEW k \in 1 .. Len(b) + r PROVE (b \o moved)[k] = Memory(c)[k]
    OBVIOUS
  <2>1. CASE k <= Len(b)
    BY <1>4, <1>9, <1>10, <2>1
  <2>2. CASE k > Len(b)
    <3>1. k - Len(b) \in 1 .. r /\ k - Len(b) \in 1 .. n /\ Len(b) + (k - Len(b)) = k
      BY <1>3, <1>10, <2>2
    <3>2. (b \o moved)[k] = w[k - Len(b)]
      BY <1>7, <1>9, <1>10, <2>2, <3>1
    <3> QED
      BY <1>4, <3>1, <3>2
  <2>3. k <= Len(b) \/ k > Len(b)
    BY <1>3, <1>10
  <2> QED
    BY <2>1, <2>2, <2>3
<1>12. \A k \in 1 .. n - r : left[k] = Memory(c)[Len(b) + r + k]
  <2> SUFFICES ASSUME NEW k \in 1 .. n - r PROVE left[k] = Memory(c)[Len(b) + r + k]
    OBVIOUS
  <2>1. r + k \in 1 .. n /\ Len(b) + (r + k) = Len(b) + r + k
    BY <1>3, <1>10
  <2> QED
    BY <1>4, <1>8, <2>1
<1>13. buff' \in [Conn -> Seq(Cell)] /\ wire' \in [Conn -> Seq(Cell)]
  <2>1. buff'[c] \in Seq(Cell) /\ wire'[c] \in Seq(Cell)
    BY <1>5, <1>8, <1>9
  <2>2. buff' = [buff EXCEPT ![c] = buff'[c]] /\ wire' = [wire EXCEPT ![c] = wire'[c]]
    BY <1>1, <1>2
  <2> QED
    BY <1>1, <2>1, <2>2
<1>14. Len(buff'[c]) = Len(buff[c]) + r /\ Len(wire'[c]) = Len(wire[c]) - r
  BY <1>5, <1>8, <1>9 DEF b, n
<1>15. /\ \A k \in 1 .. Len(buff'[c]) : buff'[c][k] = Memory(c)[k]
       /\ \A k \in 1 .. Len(wire'[c]) : wire'[c][k] = Memory(c)[Len(buff'[c]) + k]
  BY <1>5, <1>8, <1>9, <1>11, <1>12
<1> QED
  BY <1>2, <1>6, <1>13, <1>14, <1>15

\* When the header is complete it says what it said at the sender.
LEMMA HeaderRead ==
  ASSUME msg \in [Conn -> Message], NEW c \in Conn, NEW s \in Seq(Cell), Len(s) = HEADER_SIZE,
         \A k \in 1 .. Len(s) : s[k] = Memory(c)[k]
  PROVE  SizeData(s) = Len(msg[c].data)
<1>1. /\ msg[c] \in Message /\ Count(c) \in Nat /\ Count(c) = HEADER_SIZE + Len(msg[c].data)
      /\ Len(msg[c].data) \in Nat
      /\ \A k \in 1 .. Count(c) : Memory(c)[k] = MessageToBin(msg[c])[k]
  BY MemoryIs
<1>2. MessageToBin(msg[c]) \in Seq(Cell) /\ Len(MessageToBin(msg[c])) = Count(c)
  BY <1>1, BinOfMessage
<1>3. \A k \in 1 .. HEADER_SIZE : s[k] = MessageToBin(msg[c])[k]
  BY <1>1, HeaderIsPositive
<1>4. SizeData(s) = SizeData(MessageToBin(msg[c]))
  BY <1>1, <1>2, <1>3, HeaderIsPositive, SizeIsInHeader
<1> QED
  BY <1>1, <1>4, SizeIsRead

\* Every step keeps the types and the messages.
LEMMA TypesStay ==
  ASSUME TransInv, Next
  PROVE  TypeOK' /\ msg' = msg /\ \A c \in Conn : Count(c)' = Count(c) /\ Memory(c)' = Memory(c)
<1>1. TypeOK /\ Shape
  BY DEF TransInv
<1>2. msg' = msg
  BY DEF Next, SendMessageForOneClient, ReadThread, Connect, Refused, SendSome, SendFrom, SendFails,
         Close, StopSender, Break, Accept, NoThread, ReadSome, ReadUpTo, ReadEnds, Deliver, StopReader
<1>3. \A c \in Conn : Count(c)' = Count(c) /\ Memory(c)' = Memory(c)
  BY <1>2 DEF Count, Memory
<1>4. \A c \in Conn : Count(c) \in Nat
  BY <1>1, MemoryIs DEF Shape
<1>5. TypeOK'
  <2>1. CASE StopReader
    BY <1>1, <1>3, <2>1 DEF TypeOK, StopReader, sender
  <2>2. ASSUME NEW c \in Conn, Connect(c) \/ Refused(c) \/ SendFails(c)
        PROVE  TypeOK'
    BY <1>1, <1>3, <2>2 DEF TypeOK, Moves, Connect, Refused, SendFails, reader
  <2>6. ASSUME NEW c \in Conn, Close(c) \/ StopSender(c)
        PROVE  TypeOK'
    BY <1>1, <1>3, <2>6 DEF TypeOK, Moves, Close, StopSender, reader
  <2>7. ASSUME NEW c \in Conn, Break(c)
        PROVE  TypeOK'
    BY <1>1, <1>3, <2>7 DEF TypeOK, Break, sender, reader
  <2>3. ASSUME NEW c \in Conn, Accept(c) \/ NoThread(c)
        PROVE  TypeOK'
    BY <1>1, <1>3, <2>3 DEF TypeOK, Accept, NoThread, sender
  <2>8. ASSUME NEW c \in Conn, ReadEnds(c) \/ Deliver(c)
        PROVE  TypeOK'
    BY <1>1, <1>3, <2>8 DEF TypeOK, ReadEnds, Deliver, sender
  <2>4. ASSUME NEW c \in Conn, SendSome(c) PROVE TypeOK'
    <3>1. PICK r \in 1 .. Count(c) :
            IF r < reste[c]
              THEN reste' = [reste EXCEPT ![c] = @ - r] /\ UNCHANGED <<spc, sent>>
              ELSE /\ spc' = [spc EXCEPT ![c] = "close"]
                   /\ sent' = [sent EXCEPT ![c] = "success"]
                   /\ UNCHANGED reste
      BY <2>4 DEF SendSome, SendFrom
    <3>2. UNCHANGED <<msg, res, link, reader, listening>>
      BY <2>4 DEF SendSome, SendFrom
    <3>3. \A d \in Conn : reste[d] \in 1 .. Count(d)
      BY <1>1 DEF TypeOK
    <3>4. \A d \in Conn : reste'[d] \in 1 .. Count(d)
      <4>1. CASE ~(r < reste[c])
        BY <3>1, <3>3, <4>1
      <4>2. CASE r < reste[c]
        <5>1. reste' = [reste EXCEPT ![c] = @ - r] /\ DOMAIN reste = Conn
          BY <1>1, <3>1, <4>2 DEF Shape
        <5>2. reste[c] - r \in 1 .. Count(c)
          BY <1>4, <3>3, <4>2
        <5> QED
          BY <3>3, <5>1, <5>2
      <4> QED
        BY <4>1, <4>2
    <3>5. /\ spc' \in [Conn -> {"connect", "send", "close", "done", "stopped"}]
          /\ sent' \in [Conn -> {"none", "success", "failure"}]
      BY <1>1, <3>1 DEF TypeOK
    <3> QED
      BY <1>1, <1>3, <3>2, <3>4, <3>5 DEF TypeOK, reader
  <2>5. ASSUME NEW c \in Conn, ReadSome(c) PROVE TypeOK'
    <3>1. PICK r \in 1 .. nbCharToRead[c] :
            /\ buff' \in [Conn -> Seq(Cell)] /\ Len(buff'[c]) = Len(buff[c]) + r
            /\ \A k \in 1 .. Len(buff'[c]) : buff'[c][k] = Memory(c)[k]
            /\ rpc' = [rpc EXCEPT ![c] =
                    IF nbCharToRead[c] > r THEN @
                    ELSE IF @ = "header" /\ SizeData(buff'[c]) > 0 THEN "data" ELSE "deliver"]
            /\ nbCharToRead' = [nbCharToRead EXCEPT ![c] =
                             IF @ > r \/ rpc[c] = "data" THEN @ - r ELSE SizeData(buff'[c])]
      BY <2>5, ReadMoves
    <3>2. UNCHANGED <<msg, sender, link, listening, delivered>>
      BY <2>5 DEF ReadSome, ReadUpTo
    <3>3. nbCharToRead[c] > r \/ rpc[c] = "data" \/ SizeData(buff'[c]) \in Nat
      <4> SUFFICES ASSUME nbCharToRead[c] <= r, rpc[c] # "data"
                   PROVE  SizeData(buff'[c]) \in Nat
        BY <1>1 DEF TypeOK
      <4>1. rpc[c] = "header"
        BY <2>5 DEF ReadSome, ReadUpTo
      <4>2. ReaderInv(c)
        BY DEF TransInv, ConnInv
      <4>3. Len(buff'[c]) = HEADER_SIZE
        <5>1. nbCharToRead[c] \in Nat /\ buff[c] \in Seq(Cell) /\ Len(buff[c]) \in Nat
          BY <1>1 DEF TypeOK, Shape
        <5>2. Len(buff[c]) + nbCharToRead[c] = HEADER_SIZE
          BY <4>1, <4>2 DEF ReaderInv
        <5>3. r = nbCharToRead[c]
          BY <5>1
        <5> QED
          BY <3>1, <5>2, <5>3
      <4>4. SizeData(buff'[c]) = Len(msg[c].data)
        BY <1>1, <3>1, <4>3, HeaderRead DEF Shape
      <4> QED
        BY <1>1, <4>4, MemoryIs DEF Shape
    <3>4. nbCharToRead' \in [Conn -> Nat]
      BY <1>1, <3>1, <3>3 DEF TypeOK
    <3>5. rpc' \in [Conn -> {"none", "backlog", "header", "data", "deliver", "unread", "done"}]
      BY <1>1, <3>1 DEF TypeOK
    <3> QED
      BY <1>1, <1>3, <3>2, <3>4, <3>5 DEF TypeOK, sender
  <2> QED
    BY <2>1, <2>2, <2>3, <2>4, <2>5, <2>6, <2>7, <2>8 DEF Next, SendMessageForOneClient, ReadThread
<1> QED
  BY <1>2, <1>3, <1>5

\* A step on one connection touches no other.
LEMMA OthersUntouched ==
  ASSUME TransInv, NEW c \in Conn, NEW d \in Conn \ {c},
         SendMessageForOneClient(c) \/ StopSender(c) \/ Break(c) \/ ReadThread(c)
  PROVE  Untouched(d)
<1>1. TypeOK /\ Shape
  BY DEF TransInv
<1>2. CASE Connect(c) \/ Refused(c) \/ SendFails(c) \/ Close(c)
  BY <1>1, <1>2
     DEF TypeOK, Shape, Untouched, Moves, Connect, Refused, SendFails, Close, sender, reader
<1>3. CASE SendSome(c)
  BY <1>1, <1>3 DEF TypeOK, Shape, Untouched, SendSome, SendFrom, Arrives, reader
<1>4. CASE StopSender(c) \/ Break(c)
  BY <1>1, <1>4 DEF TypeOK, Shape, Untouched, StopSender, Break, sender, reader
<1>5. CASE Accept(c) \/ NoThread(c) \/ ReadEnds(c) \/ Deliver(c)
  BY <1>1, <1>5 DEF TypeOK, Shape, Untouched, Accept, NoThread, ReadEnds, Deliver, sender
<1>6. CASE ReadSome(c)
  BY <1>1, <1>6 DEF TypeOK, Shape, Untouched, ReadSome, ReadUpTo, sender
<1> QED
  BY <1>2, <1>3, <1>4, <1>5, <1>6 DEF SendMessageForOneClient, ReadThread

\* send adds to the stream where it stopped.
LEMMA SendKeeps ==
  ASSUME TransInv, Next, NEW c \in Conn, SendSome(c)
  PROVE  ConnInv(c)' /\ wire' \in [Conn -> Seq(Cell)]
<1>1. TypeOK /\ Shape /\ Stream(c) /\ SenderInv(c) /\ ReaderInv(c)
  BY DEF TransInv, ConnInv
<1>2. Count(c)' = Count(c) /\ Memory(c)' = Memory(c)
  BY TypesStay
<1>3. /\ Count(c) \in Nat /\ Memory(c) \in Seq(Cell) /\ Len(Memory(c)) = 2 * Count(c)
      /\ reste[c] \in 1 .. Count(c)
  <2>1. reste[c] \in 1 .. Count(c)
    BY <1>1 DEF TypeOK
  <2> QED
    BY <1>1, <2>1, MemoryIs DEF Shape
<1> DEFINE at == Count(c) - reste[c]
<1>4. PICK r \in 1 .. Count(c) :
        /\ Arrives(c, Cut(Memory(c), at, r))
        /\ IF r < reste[c]
             THEN reste' = [reste EXCEPT ![c] = @ - r] /\ UNCHANGED <<spc, sent>>
             ELSE /\ spc' = [spc EXCEPT ![c] = "close"]
                  /\ sent' = [sent EXCEPT ![c] = "success"]
                  /\ UNCHANGED reste
  BY DEF SendSome, SendFrom
<1>5. spc[c] = "send" /\ UNCHANGED <<link, rpc, buff, nbCharToRead>>
  BY DEF SendSome, SendFrom, reader
<1> DEFINE part == Cut(Memory(c), at, r)
           b    == buff[c]
           w    == wire[c]
<1>6. /\ at \in Nat /\ r \in Nat /\ at + r <= Len(Memory(c))
  BY <1>3
<1>7. /\ part \in Seq(Cell) /\ Len(part) = r
      /\ \A k \in 1 .. r : part[k] = Memory(c)[at + k]
  BY <1>3, <1>6, CutOf
<1>15. at = Count(c) - reste[c]
  OBVIOUS
<1> HIDE DEF part, at
<1>8. b \in Seq(Cell) /\ w \in Seq(Cell) /\ Len(b) \in Nat /\ Len(w) \in Nat
  BY <1>1 DEF Shape
<1>9. /\ w \o part \in Seq(Cell) /\ Len(w \o part) = Len(w) + r
      /\ \A k \in 1 .. Len(w) + r : (w \o part)[k] = IF k <= Len(w) THEN w[k] ELSE part[k - Len(w)]
  BY <1>7, <1>8, ConcatProperties
<1> HIDE DEF b, w
<1>10. spc'[c] = "send" => reste'[c] = reste[c] - r /\ r < reste[c]
  BY <1>1, <1>4, <1>5 DEF TypeOK, Shape
<1>11. spc'[c] \in {"send", "close"}
  BY <1>1, <1>4, <1>5 DEF TypeOK
<1>12. ReaderInv(c)'
  BY <1>1, <1>2, <1>5 DEF ReaderInv
<1>13. CASE link[c] = "up" /\ rpc[c] \notin {"unread", "done"}
  <2>1. wire' = [wire EXCEPT ![c] = w \o part] /\ wire'[c] = w \o part
    BY <1>1, <1>4, <1>13 DEF Arrives, part, w, Shape
  <2>2. Len(b) + Len(w) = at
    BY <1>1, <1>5, <1>13, <1>15 DEF SenderInv, b, w
  <2>3. \A k \in 1 .. Len(w) : w[k] = Memory(c)[Len(b) + k]
    BY <1>1 DEF Stream, b, w
  <2>4. \A k \in 1 .. Len(w) + r : (w \o part)[k] = Memory(c)[Len(b) + k]
    <3> SUFFICES ASSUME NEW k \in 1 .. Len(w) + r PROVE (w \o part)[k] = Memory(c)[Len(b) + k]
      OBVIOUS
    <3>1. CASE k <= Len(w)
      <4>1. k \in 1 .. Len(w)
        BY <1>8, <3>1
      <4> QED
        BY <1>9, <2>3, <3>1, <4>1
    <3>2. CASE k > Len(w)
      <4>1. k - Len(w) \in 1 .. r /\ at + (k - Len(w)) = Len(b) + k
        <5>1. k \in Nat /\ k <= Len(w) + r
          BY <1>6, <1>8
        <5> QED
          BY <1>6, <1>8, <2>2, <3>2, <5>1, SMTT(30)
      <4>2. (w \o part)[k] = part[k - Len(w)]
        BY <1>8, <1>9, <3>2
      <4> QED
        BY <1>7, <4>1, <4>2
    <3>3. k <= Len(w) \/ k > Len(w)
      BY <1>6, <1>8
    <3> QED
      BY <3>1, <3>2, <3>3
  <2>5. Stream(c)'
    <3>1. buff'[c] = b /\ \A k \in 1 .. Len(b) : b[k] = Memory(c)[k]
      BY <1>1, <1>5 DEF Stream, b
    <3>2. \A k \in 1 .. Len(wire'[c]) : wire'[c][k] = Memory(c)[Len(buff'[c]) + k]
      BY <1>9, <2>1, <2>4, <3>1
    <3>3. Len(buff'[c]) = Len(b)
      BY <3>1
    <3>4. \A k \in 1 .. Len(buff'[c]) : buff'[c][k] = Memory(c)'[k]
      BY <1>2, <3>1, <3>3
    <3>5. \A k \in 1 .. Len(wire'[c]) : wire'[c][k] = Memory(c)'[Len(buff'[c]) + k]
      BY <1>2, <3>2
    <3> QED
      BY <3>4, <3>5 DEF Stream
  <2>6. spc'[c] = "send" => Len(buff'[c]) + Len(wire'[c]) = Count(c)' - reste'[c]
    <3>1. Len(buff'[c]) = Len(b)
      BY <1>5 DEF b
    <3>2. Len(wire'[c]) = Len(w) + r
      BY <1>9, <2>1
    <3>3. Len(b) + (Len(w) + r) = Count(c) - (reste[c] - r)
      BY <1>3, <1>6, <1>8, <1>15, <2>2, SMTT(30)
    <3> QED
      BY <1>2, <1>10, <3>1, <3>2, <3>3
  <2>7. SenderInv(c)'
    BY <1>11, <2>6 DEF SenderInv
  <2>8. wire' \in [Conn -> Seq(Cell)]
    BY <1>1, <1>9, <2>1 DEF Shape
  <2> QED
    BY <1>12, <2>5, <2>7, <2>8 DEF ConnInv
<1>14. CASE ~ (link[c] = "up" /\ rpc[c] \notin {"unread", "done"})
  <2>1. wire' = wire
    BY <1>1, <1>4, <1>14 DEF Arrives, Shape
  <2>2. Stream(c)'
    BY <1>1, <1>2, <1>5, <2>1 DEF Stream
  <2>3. SenderInv(c)'
    BY <1>5, <1>11, <1>14 DEF SenderInv
  <2> QED
    BY <1>1, <1>12, <2>1, <2>2, <2>3 DEF ConnInv, Shape
<1> QED
  BY <1>13, <1>14

\* read_thread counts on.
LEMMA ReadKeeps ==
  ASSUME TransInv, Next, NEW c \in Conn, ReadSome(c)
  PROVE  ConnInv(c)' /\ buff' \in [Conn -> Seq(Cell)] /\ wire' \in [Conn -> Seq(Cell)]
<1>1. TypeOK /\ Shape /\ SenderInv(c) /\ ReaderInv(c)
  BY DEF TransInv, ConnInv
<1>2. Count(c)' = Count(c) /\ Memory(c)' = Memory(c) /\ msg' = msg
  BY TypesStay
<1>3. PICK r \in 1 .. nbCharToRead[c] :
        /\ buff' \in [Conn -> Seq(Cell)] /\ wire' \in [Conn -> Seq(Cell)]
        /\ Len(buff'[c]) = Len(buff[c]) + r /\ Len(wire'[c]) = Len(wire[c]) - r
        /\ \A k \in 1 .. Len(buff'[c]) : buff'[c][k] = Memory(c)[k]
        /\ \A k \in 1 .. Len(wire'[c]) : wire'[c][k] = Memory(c)[Len(buff'[c]) + k]
        /\ rpc' = [rpc EXCEPT ![c] =
                    IF nbCharToRead[c] > r THEN @
                    ELSE IF @ = "header" /\ SizeData(buff'[c]) > 0 THEN "data" ELSE "deliver"]
        /\ nbCharToRead' = [nbCharToRead EXCEPT ![c] =
                             IF @ > r \/ rpc[c] = "data" THEN @ - r ELSE SizeData(buff'[c])]
  BY ReadMoves
<1>4. UNCHANGED <<spc, reste, link>> /\ rpc[c] \in {"header", "data"}
  BY DEF ReadSome, ReadUpTo, sender
<1>5. /\ nbCharToRead[c] \in Nat /\ r \in Nat /\ r <= nbCharToRead[c]
      /\ Len(buff[c]) \in Nat /\ Len(wire[c]) \in Nat
      /\ Count(c) \in Nat /\ Count(c) = HEADER_SIZE + Len(msg[c].data) /\ Len(msg[c].data) \in Nat
  BY <1>1, <1>3, MemoryIs, SMTT(30) DEF TypeOK, Shape
<1>6. /\ rpc'[c] = IF nbCharToRead[c] > r THEN rpc[c]
                   ELSE IF rpc[c] = "header" /\ SizeData(buff'[c]) > 0 THEN "data" ELSE "deliver"
      /\ nbCharToRead'[c] = IF nbCharToRead[c] > r \/ rpc[c] = "data"
                              THEN nbCharToRead[c] - r ELSE SizeData(buff'[c])
  BY <1>1, <1>3 DEF TypeOK
<1>7. Stream(c)'
  <2>1. /\ \A k \in 1 .. Len(buff'[c]) : buff'[c][k] = Memory(c)'[k]
        /\ \A k \in 1 .. Len(wire'[c]) : wire'[c][k] = Memory(c)'[Len(buff'[c]) + k]
    BY <1>2, <1>3
  <2> QED
    BY <2>1 DEF Stream
<1>8. rpc'[c] \in {"header", "data", "deliver"}
  BY <1>4, <1>6
<1>9. /\ Len(buff'[c]) + Len(wire'[c]) = Len(buff[c]) + Len(wire[c])
      /\ Len(buff'[c]) + (nbCharToRead[c] - r) = Len(buff[c]) + nbCharToRead[c]
      /\ nbCharToRead[c] > r => nbCharToRead[c] - r > 0
  <2>1. Len(buff'[c]) = Len(buff[c]) + r /\ Len(wire'[c]) = Len(wire[c]) - r
    BY <1>3
  <2>2. /\ (Len(buff[c]) + r) + (Len(wire[c]) - r) = Len(buff[c]) + Len(wire[c])
        /\ (Len(buff[c]) + r) + (nbCharToRead[c] - r) = Len(buff[c]) + nbCharToRead[c]
        /\ nbCharToRead[c] > r => nbCharToRead[c] - r > 0
    <3> DEFINE a == Len(buff[c])
               b == Len(wire[c])
               n == nbCharToRead[c]
    <3>1. a \in Nat /\ b \in Nat /\ n \in Nat /\ r \in Nat /\ r <= n
      BY <1>5
    <3> HIDE DEF a, b, n
    <3>2. (a + r) + (b - r) = a + b /\ (a + r) + (n - r) = a + n /\ (n > r => n - r > 0)
      BY <3>1
    <3> QED
      BY <3>2 DEF a, b, n
  <2> QED
    BY <2>1, <2>2
<1>10. SenderInv(c)'
  <2>1. spc[c] # "connect"
    BY <1>1, <1>4 DEF SenderInv
  <2>2. spc[c] = "send" /\ link[c] = "up" => Len(buff[c]) + Len(wire[c]) = Count(c) - reste[c]
    BY <1>1, <1>4 DEF SenderInv
  <2> QED
    BY <1>2, <1>4, <1>9, <2>1, <2>2 DEF SenderInv
<1>11. ReaderInv(c)'
  <2>1. CASE nbCharToRead[c] > r /\ rpc[c] = "header"
    <3>1. Len(buff[c]) + nbCharToRead[c] = HEADER_SIZE
      BY <1>1, <2>1 DEF ReaderInv
    <3>2. nbCharToRead'[c] = nbCharToRead[c] - r
      BY <1>6, <2>1
    <3>3. nbCharToRead'[c] > 0 /\ Len(buff'[c]) + nbCharToRead'[c] = HEADER_SIZE
      BY <1>9, <2>1, <3>1, <3>2
    <3> QED
      BY <1>6, <2>1, <3>3 DEF ReaderInv
  <2>2. CASE nbCharToRead[c] > r /\ rpc[c] = "data"
    <3>1. Len(buff[c]) + nbCharToRead[c] = Count(c)
      BY <1>1, <2>2 DEF ReaderInv
    <3>2. nbCharToRead'[c] = nbCharToRead[c] - r
      BY <1>6, <2>2
    <3>3. nbCharToRead'[c] > 0 /\ Len(buff'[c]) + nbCharToRead'[c] = Count(c)
      BY <1>9, <2>2, <3>1, <3>2
    <3> QED
      BY <1>2, <1>6, <2>2, <3>3 DEF ReaderInv
  <2>3. CASE ~ (nbCharToRead[c] > r) /\ rpc[c] = "header"
    <3>1. r = nbCharToRead[c] /\ Len(buff[c]) + nbCharToRead[c] = HEADER_SIZE
      BY <1>1, <1>5, <2>3 DEF ReaderInv
    <3>2. Len(buff'[c]) = HEADER_SIZE
      BY <1>3, <3>1
    <3>3. SizeData(buff'[c]) = Len(msg[c].data)
      BY <1>1, <1>3, <3>2, HeaderRead DEF Shape
    <3>4. nbCharToRead'[c] = Len(msg[c].data)
      BY <1>6, <2>3, <3>3
    <3>5. CASE Len(msg[c].data) > 0
      <4>1. rpc'[c] = "data" /\ nbCharToRead'[c] > 0 /\ Len(buff'[c]) + nbCharToRead'[c] = Count(c)
        BY <1>5, <1>6, <2>3, <3>2, <3>3, <3>4, <3>5
      <4> QED
        BY <1>2, <4>1 DEF ReaderInv
    <3>6. CASE ~ (Len(msg[c].data) > 0)
      <4>1. rpc'[c] = "deliver" /\ Len(buff'[c]) = Count(c)
        <5>1. HEADER_SIZE + Len(msg[c].data) = HEADER_SIZE
          BY <1>5, <3>6, HeaderIsPositive
        <5> QED
          BY <1>5, <1>6, <2>3, <3>2, <3>3, <3>6, <5>1
      <4> QED
        BY <1>2, <4>1 DEF ReaderInv
    <3> QED
      BY <3>5, <3>6
  <2>4. CASE ~ (nbCharToRead[c] > r) /\ rpc[c] = "data"
    <3>1. r = nbCharToRead[c] /\ Len(buff[c]) + nbCharToRead[c] = Count(c)
      BY <1>1, <1>5, <2>4 DEF ReaderInv
    <3>2. Len(buff'[c]) = Count(c) /\ rpc'[c] = "deliver"
      BY <1>3, <1>6, <2>4, <3>1
    <3> QED
      BY <1>2, <3>2 DEF ReaderInv
  <2> QED
    BY <1>4, <2>1, <2>2, <2>3, <2>4
<1> QED
  BY <1>3, <1>7, <1>10, <1>11 DEF ConnInv

\* The other steps of a connection move no byte, but for a break, which loses those on
\* their way.
LEMMA OthersKeep ==
  ASSUME TransInv, Next, NEW c \in Conn,
         \/ Connect(c) \/ Refused(c) \/ SendFails(c) \/ Close(c) \/ StopSender(c) \/ Break(c)
         \/ Accept(c) \/ NoThread(c) \/ ReadEnds(c) \/ Deliver(c) \/ StopReader
  PROVE  ConnInv(c)' /\ buff' \in [Conn -> Seq(Cell)] /\ wire' \in [Conn -> Seq(Cell)]
<1>1. TypeOK /\ Shape /\ Stream(c) /\ SenderInv(c) /\ ReaderInv(c)
  BY DEF TransInv, ConnInv
<1>2. Count(c)' = Count(c) /\ Memory(c)' = Memory(c)
  BY TypesStay
<1>3. HEADER_SIZE \in Nat /\ HEADER_SIZE > 0 /\ Count(c) \in Nat
  BY <1>1, HeaderIsPositive, MemoryIs DEF Shape
<1>4. buff' = buff /\ nbCharToRead' = nbCharToRead /\ reste' = reste
  BY DEF Connect, Refused, SendFails, Close, StopSender, Break, Accept, NoThread, ReadEnds, Deliver,
         StopReader, reader, sender
<1>5. wire' \in [Conn -> Seq(Cell)] /\ (wire'[c] = wire[c] \/ wire'[c] = << >>)
  <2>1. CASE Break(c)
    BY <1>1, <2>1 DEF Break, Shape
  <2>2. CASE ~ Break(c)
    <3>1. wire' = wire
      BY <2>2 DEF Connect, Refused, SendFails, Close, StopSender, Accept, NoThread, ReadEnds, Deliver,
                  StopReader
    <3> QED
      BY <1>1, <3>1 DEF Shape
  <2> QED
    BY <2>1, <2>2
<1>6. Stream(c)'
  <2>1. \A k \in 1 .. Len(wire'[c]) : wire'[c][k] = Memory(c)[Len(buff[c]) + k]
    BY <1>1, <1>5 DEF Stream
  <2>2. /\ \A k \in 1 .. Len(buff'[c]) : buff'[c][k] = Memory(c)'[k]
        /\ \A k \in 1 .. Len(wire'[c]) : wire'[c][k] = Memory(c)'[Len(buff'[c]) + k]
    BY <1>1, <1>2, <1>4, <2>1 DEF Stream
  <2> QED
    BY <2>2 DEF Stream
<1>7. SenderInv(c)' /\ ReaderInv(c)'
  <2>1. CASE Connect(c)
    <3>1. /\ spc'[c] = "send" /\ rpc'[c] = "backlog" /\ wire'[c] = wire[c]
          /\ reste[c] = Count(c) /\ buff[c] = << >> /\ wire[c] = << >> /\ rpc[c] = "none"
      BY <1>1, <2>1 DEF Connect, Moves, TypeOK, SenderInv
    <3>2. nbCharToRead[c] = HEADER_SIZE /\ Len(buff[c]) + Len(wire[c]) = Count(c) - reste[c]
      BY <1>1, <1>3, <3>1 DEF ReaderInv
    <3> QED
      BY <1>2, <1>4, <3>1, <3>2 DEF SenderInv, ReaderInv
  <2>2. CASE Refused(c) \/ SendFails(c) \/ Close(c) \/ StopSender(c)
    <3>1. spc'[c] \notin {"connect", "send"} /\ rpc' = rpc
      BY <1>1, <2>2 DEF Refused, SendFails, Close, StopSender, Moves, TypeOK, reader
    <3> QED
      BY <1>1, <1>2, <1>4, <3>1 DEF SenderInv, ReaderInv
  <2>3. CASE Break(c)
    <3>1. spc' = spc /\ rpc' = rpc /\ link'[c] # "up" /\ wire'[c] = << >>
      BY <1>1, <2>3 DEF Break, sender, reader, TypeOK, Shape
    <3> QED
      BY <1>1, <1>2, <1>4, <3>1 DEF SenderInv, ReaderInv
  <2>4. CASE Accept(c)
    <3>1. /\ spc' = spc /\ link' = link /\ wire' = wire
          /\ rpc[c] = "backlog" /\ rpc'[c] = "header"
      BY <1>1, <2>4 DEF Accept, sender, TypeOK
    <3>2. spc[c] # "connect" /\ buff[c] = << >> /\ nbCharToRead[c] = HEADER_SIZE
      BY <1>1, <3>1 DEF SenderInv, ReaderInv
    <3>3. Len(buff[c]) + nbCharToRead[c] = HEADER_SIZE
      BY <1>3, <3>2
    <3> QED
      BY <1>1, <1>2, <1>3, <1>4, <3>1, <3>2, <3>3 DEF SenderInv, ReaderInv
  <2>5. CASE NoThread(c) \/ ReadEnds(c) \/ Deliver(c)
    <3>1. spc' = spc /\ rpc[c] # "none" /\ rpc'[c] \in {"unread", "done"}
      BY <1>1, <2>5 DEF NoThread, ReadEnds, Deliver, sender, TypeOK
    <3>2. spc[c] # "connect"
      BY <1>1, <3>1 DEF SenderInv
    <3> QED
      BY <3>1, <3>2 DEF SenderInv, ReaderInv
  <2>6. CASE StopReader
    <3>1. /\ spc' = spc /\ link' = link /\ wire' = wire
          /\ (rpc[c] = "none" /\ rpc'[c] = "none") \/ (rpc[c] # "none" /\ rpc'[c] = "done")
      BY <2>6 DEF StopReader, sender
    <3> QED
      BY <1>1, <1>2, <1>4, <3>1 DEF SenderInv, ReaderInv
  <2> QED
    BY <2>1, <2>2, <2>3, <2>4, <2>5, <2>6
<1> QED
  BY <1>1, <1>4, <1>5, <1>6, <1>7 DEF ConnInv, Shape

\* A read_thread that is done stays done: no connection hands a message over twice.
LEMMA DoneStays == TransInv /\ Next => \A d \in Conn : rpc[d] = "done" => rpc'[d] = "done"
<1> SUFFICES ASSUME TransInv, Next, NEW d \in Conn, rpc[d] = "done" PROVE rpc'[d] = "done"
  OBVIOUS
<1>1. DOMAIN rpc = Conn /\ spc[d] # "connect"
  BY DEF TransInv, TypeOK, ConnInv, SenderInv
<1>2. ASSUME NEW c \in Conn, SendMessageForOneClient(c) \/ StopSender(c) \/ Break(c)
      PROVE  rpc'[d] = "done"
  BY <1>1, <1>2 DEF SendMessageForOneClient, Connect, Refused, SendSome, SendFrom, SendFails, Close,
                    StopSender, Break, Moves, reader
<1>3. ASSUME NEW c \in Conn, ReadThread(c)
      PROVE  rpc'[d] = "done"
  BY <1>1, <1>3 DEF ReadThread, Accept, NoThread, ReadSome, ReadUpTo, ReadEnds, Deliver
<1>4. CASE StopReader
  BY <1>4 DEF StopReader
<1> QED
  BY <1>2, <1>3, <1>4 DEF Next

\* What is handed over is what was sent.
LEMMA DeliverIs ==
  ASSUME TransInv, NEW c \in Conn, rpc[c] = "deliver"
  PROVE  buff[c] = MessageToBin(msg[c]) /\ BinToMessage(buff[c]) = msg[c] /\ msg[c] \in Message
<1>1. /\ msg \in [Conn -> Message] /\ buff[c] \in Seq(Cell) /\ Len(buff[c]) = Count(c)
      /\ \A k \in 1 .. Len(buff[c]) : buff[c][k] = Memory(c)[k]
  BY DEF TransInv, Shape, ConnInv, Stream, ReaderInv
<1>2. /\ msg[c] \in Message /\ MessageToBin(msg[c]) \in Seq(Cell)
      /\ Len(MessageToBin(msg[c])) = Count(c)
  BY <1>1, BinOfMessage DEF Count
<1>3. \A k \in 1 .. Count(c) : Memory(c)[k] = MessageToBin(msg[c])[k]
  BY <1>1, MemoryIs
<1>4. buff[c] = MessageToBin(msg[c])
  BY <1>1, <1>2, <1>3, SeqEqual
<1> QED
  BY <1>2, <1>4, RoundTrip

\* What is handed over is the message, once.
LEMMA DeliveredKeeps == TransInv /\ Next => DeliveredInv'
<1> SUFFICES ASSUME TransInv, Next PROVE DeliveredInv'
  OBVIOUS
<1>1. /\ delivered \in Seq(Delivery) /\ Len(delivered) \in Nat
      /\ \A i \in 1 .. Len(delivered) :
           /\ delivered[i].by \in Conn
           /\ rpc[delivered[i].by] = "done"
           /\ delivered[i].msg = msg[delivered[i].by]
  <2>1. DeliveredInv
    BY DEF TransInv
  <2>2. \A i \in 1 .. Len(delivered) : delivered[i] \in Delivery
    BY <2>1, ElementOfSeq DEF DeliveredInv
  <2> QED
    BY <2>1, <2>2 DEF DeliveredInv, Delivery
<1>2. msg' = msg
  BY TypesStay
<1>3. \A d \in Conn : rpc[d] = "done" => rpc'[d] = "done"
  BY DoneStays
<1>4. ASSUME NEW c \in Conn, Deliver(c) PROVE DeliveredInv'
  <2> DEFINE m == BinToMessage(buff[c])
             e == [by |-> c, msg |-> m,
                   to |-> IF m.type = TYPE_NETWORK THEN "KnownServers" ELSE "IncomingMessages"]
  <2>1. rpc[c] = "deliver" /\ delivered' = Append(delivered, e)
    BY <1>4 DEF Deliver
  <2>2. m = msg[c] /\ msg[c] \in Message
    BY <2>1, DeliverIs
  <2> HIDE DEF m
  <2>3. e \in Delivery /\ e.by = c /\ e.msg = msg[c]
    BY <2>2 DEF Delivery
  <2>4. rpc'[c] = "done"
    BY <1>4 DEF Deliver, TransInv, TypeOK
  <2> HIDE DEF e
  <2>5. /\ delivered' \in Seq(Delivery) /\ Len(delivered') = Len(delivered) + 1
        /\ \A i \in 1 .. Len(delivered) : delivered'[i] = delivered[i]
        /\ delivered'[Len(delivered) + 1] = e
    BY <1>1, <2>1, <2>3, AppendProperties
  <2>6. ASSUME NEW i \in 1 .. Len(delivered')
        PROVE  rpc'[delivered'[i].by] = "done" /\ delivered'[i].msg = msg'[delivered'[i].by]
    <3>1. CASE i \in 1 .. Len(delivered)
      BY <1>1, <1>2, <1>3, <2>5, <3>1
    <3>2. CASE i = Len(delivered) + 1
      BY <1>2, <2>3, <2>4, <2>5, <3>2
    <3> QED
      BY <1>1, <2>5, <3>1, <3>2
  <2> QED
    BY <2>5, <2>6 DEF DeliveredInv
<1>5. CASE delivered' = delivered
  BY <1>1, <1>2, <1>3, <1>5 DEF DeliveredInv
<1>6. delivered' = delivered \/ \E c \in Conn : Deliver(c)
  BY DEF Next, SendMessageForOneClient, ReadThread, Connect, Refused, SendSome, SendFrom, SendFails,
         Close, StopSender, Break, Accept, NoThread, ReadSome, ReadUpTo, ReadEnds, StopReader, reader
<1> QED
  BY <1>4, <1>5, <1>6

\* The invariant is inductive.
LEMMA TransNext == TransInv /\ [Next]_vars => TransInv'
<1> SUFFICES ASSUME TransInv, [Next]_vars PROVE TransInv'
  OBVIOUS
<1>1. CASE Next
  <2>1. TypeOK' /\ msg' = msg /\ DeliveredInv'
    BY <1>1, TypesStay, DeliveredKeeps
  <2>2. /\ \A c \in Conn : ConnInv(c)'
        /\ buff' \in [Conn -> Seq(Cell)] /\ wire' \in [Conn -> Seq(Cell)]
    <3>1. CASE StopReader
      <4>1. \A c \in Conn : ConnInv(c)'
        BY <1>1, <3>1, OthersKeep
      <4> QED
        BY <3>1, <4>1 DEF StopReader, TransInv, Shape
    <3>2. ASSUME NEW c \in Conn, SendMessageForOneClient(c) \/ StopSender(c) \/ Break(c) \/ ReadThread(c)
          PROVE  /\ \A d \in Conn : ConnInv(d)'
                 /\ buff' \in [Conn -> Seq(Cell)] /\ wire' \in [Conn -> Seq(Cell)]
      <4>1. ConnInv(c)' /\ buff' \in [Conn -> Seq(Cell)] /\ wire' \in [Conn -> Seq(Cell)]
        <5>1. CASE SendSome(c)
          <6>1. buff' = buff
            BY <5>1 DEF SendSome, SendFrom, reader
          <6> QED
            BY <1>1, <5>1, <6>1, SendKeeps DEF TransInv, Shape
        <5>2. CASE ReadSome(c)
          BY <1>1, <5>2, ReadKeeps
        <5>3. CASE ~ SendSome(c) /\ ~ ReadSome(c)
          <6>1. \/ Connect(c) \/ Refused(c) \/ SendFails(c) \/ Close(c) \/ StopSender(c) \/ Break(c)
                \/ Accept(c) \/ NoThread(c) \/ ReadEnds(c) \/ Deliver(c) \/ StopReader
            BY <3>2, <5>3 DEF SendMessageForOneClient, ReadThread
          <6> QED
            BY <1>1, <6>1, OthersKeep
        <5> QED
          BY <5>1, <5>2, <5>3
      <4>2. \A d \in Conn \ {c} : ConnInv(d)'
        BY <1>1, <3>2, OthersUntouched, UntouchedKeeps, SMTT(30) DEF TransInv
      <4> QED
        BY <4>1, <4>2
    <3> QED
      BY <1>1, <3>1, <3>2 DEF Next
  <2>3. DOMAIN reste' = Conn
    BY <1>1 DEF Next, SendMessageForOneClient, ReadThread, Connect, Refused, SendSome, SendFrom,
       SendFails, Close, StopSender, Break, Accept, NoThread, ReadSome, ReadUpTo, ReadEnds, Deliver,
       StopReader, sender, TransInv, Shape
  <2>4. Shape'
    BY <2>1, <2>2, <2>3 DEF Shape, TransInv
  <2> QED
    BY <2>1, <2>2, <2>4 DEF TransInv
<1>2. CASE UNCHANGED vars
  <2>1. UNCHANGED <<msg, spc, reste, sent, res, link, wire, rpc, buff, nbCharToRead, listening, delivered>>
    BY <1>2 DEF vars, sender, reader
  <2>2. TypeOK'
    BY <2>1 DEF TransInv, TypeOK, Count
  <2>3. \A c \in Conn : ConnInv(c)'
    BY <2>1, UntouchedKeeps DEF TransInv, Untouched
  <2>4. DeliveredInv' /\ Shape'
    BY <2>1 DEF TransInv, DeliveredInv, Shape
  <2> QED
    BY <2>2, <2>3, <2>4 DEF TransInv
<1> QED
  BY <1>1, <1>2

\* It holds at every step.
LEMMA TransInvariant == Spec => []TransInv
BY TransInit, TransNext, PTL DEF Spec

-------------------------------------------------------------------------------
(* The theorems.                                                           *)

\* For every set of messages and of connections, the variables keep to their types: what
\* Send has left and what read_thread still asks for never fall below zero, although both
\* subtract what a call took before they test it.
THEOREM TransportTypeOK == Spec => []TypeOK
<1>1. TransInv => TypeOK
  BY DEF TransInv
<1> QED
  BY <1>1, TransInvariant, PTL

\* However send and read cut the bytes up, and although Send may go beyond the message, a
\* read_thread that is about to hand a message over has read exactly what was sent.
THEOREM ReadsWhatWasSent == Spec => []ReadsTheMessage
<1>1. TransInv => ReadsTheMessage
  BY DeliverIs DEF ReadsTheMessage
<1> QED
  BY <1>1, TransInvariant, PTL

Entries == [i \in DOMAIN delivered |-> [by |-> delivered[i].by, msg |-> delivered[i].msg]]

\* Handing over is the delivery of a datagram, all other steps leave it alone.
LEMMA StepIsDatagram == TransInv /\ [Next]_vars => [D!Next]_(D!vars)
<1> SUFFICES ASSUME TransInv, [Next]_vars PROVE [D!Next]_(D!vars)
  OBVIOUS
<1>2. CASE delivered' = delivered /\ msg' = msg
  BY <1>2 DEF D!vars
<1>3. ASSUME NEW c \in Conn, Deliver(c) PROVE D!Deliver(c)
  <2> DEFINE n == Len(delivered)
             f == [by |-> c, msg |-> msg[c]]
  <2>1. rpc[c] = "deliver" /\ msg' = msg /\ BinToMessage(buff[c]) = msg[c] /\ msg[c] \in Message
    BY <1>3, DeliverIs DEF Deliver
  <2>2. DeliveredInv /\ delivered \in Seq(Delivery) /\ n \in Nat /\ DOMAIN delivered = 1 .. n
    BY DEF TransInv, DeliveredInv
  <2>8. n \in Nat
    BY <2>2
  <2>3. \A i \in 1 .. n : delivered[i] \in Delivery /\ rpc[delivered[i].by] = "done"
    BY <2>2, ElementOfSeq DEF DeliveredInv
  <2>4. \A i \in DOMAIN Entries : Entries[i].by # c
    BY <2>1, <2>2, <2>3 DEF Entries
  <2>5. PICK e \in Delivery : delivered' = Append(delivered, e) /\ e.by = c /\ e.msg = msg[c]
    BY <1>3, <2>1 DEF Deliver, Delivery
  <2>6. /\ delivered' \in Seq(Delivery) /\ Len(delivered') = n + 1
        /\ \A i \in 1 .. n : delivered'[i] = delivered[i]
        /\ delivered'[n + 1] = e
    BY <2>2, <2>5, AppendProperties
  <2> HIDE DEF n
  <2>7. Entries' = Append(Entries, f)
    <3> DEFINE S == [by : Conn, msg : Message]
    <3>1. f \in S
      BY <2>1
    <3>2. \A d \in Delivery : [by |-> d.by, msg |-> d.msg] \in S
      BY DEF Delivery
    <3> HIDE DEF S, f
    <3>3. Entries \in Seq(S) /\ Len(Entries) = n
      <4>1. Entries \in [1 .. n -> S]
        BY <2>2, <2>3, <3>2 DEF Entries
      <4> QED
        BY <2>8, <4>1
    <3>4. /\ Append(Entries, f) \in Seq(S) /\ Len(Append(Entries, f)) = n + 1
          /\ \A i \in 1 .. n : Append(Entries, f)[i] = Entries[i]
          /\ Append(Entries, f)[n + 1] = f
      BY <3>3, <3>1, AppendProperties
    <3>5. DOMAIN delivered' = 1 .. n + 1
      BY <2>6
    <3>6. Entries' \in Seq(S) /\ Len(Entries') = n + 1
      <4>1. \A i \in 1 .. n + 1 : delivered'[i] \in Delivery
        BY <2>6, ElementOfSeq
      <4>2. Entries' \in [1 .. n + 1 -> S]
        BY <3>5, <3>2, <4>1 DEF Entries
      <4> QED
        BY <2>8, <4>2
    <3>7. \A i \in 1 .. n + 1 : Entries'[i] = Append(Entries, f)[i]
      <4> SUFFICES ASSUME NEW i \in 1 .. n + 1 PROVE Entries'[i] = Append(Entries, f)[i]
        OBVIOUS
      <4>1. Entries'[i] = [by |-> delivered'[i].by, msg |-> delivered'[i].msg]
        BY <3>5 DEF Entries
      <4>2. CASE i \in 1 .. n
        <5>1. Entries[i] = [by |-> delivered[i].by, msg |-> delivered[i].msg]
          BY <2>2, <4>2 DEF Entries
        <5> QED
          BY <2>6, <3>4, <4>1, <4>2, <5>1
      <4>3. CASE i = n + 1
        BY <2>5, <2>6, <3>4, <4>1, <4>3 DEF f
      <4>4. i \in 1 .. n \/ i = n + 1
        BY <2>8
      <4> QED
        BY <4>2, <4>3, <4>4
    <3> QED
      BY <3>4, <3>6, <3>7, SeqEqual
  <2> QED
    BY <2>1, <2>4, <2>7 DEF D!Deliver, Entries
<1>4. (delivered' = delivered /\ msg' = msg) \/ \E c \in Conn : Deliver(c)
  BY DEF Next, SendMessageForOneClient, ReadThread, Connect, Refused, SendSome, SendFrom, SendFails,
         Close, StopSender, Break, Accept, NoThread, ReadSome, ReadUpTo, ReadEnds, StopReader, reader, vars
<1> QED
  BY <1>2, <1>3, <1>4 DEF D!Next

\* The transport of messages is a datagram service: each message arrives once and as it
\* was, or never, whatever breaks or stops.
THEOREM RefinesDatagram == Spec => IsDatagram
<1>1. Init => D!Init
  <2> SUFFICES ASSUME Init PROVE D!Init
    OBVIOUS
  <2>1. msg \in [Conn -> Message] /\ delivered = << >>
    BY DEF Init
  <2>2. Entries = << >>
    BY <2>1 DEF Entries
  <2> QED
    BY <2>1, <2>2 DEF D!Init, Entries
<1> QED
  BY <1>1, TransInvariant, StepIsDatagram, PTL DEF Spec, IsDatagram, D!Spec

-------------------------------------------------------------------------------
(* The binary form of transactions, blocks and chains.                       *)

\* A number that is written, and its word.
LEMMA NumberType ==
  ASSUME NEW n \in Number
  PROVE  n \in Nat /\ n < power[Word]
<1>1. power[Word] \in Nat
  BY BytesAssumption, PowerDef
<1> DEFINE P == power[Word]
<1> HIDE DEF P
<1>2. n \in 0 .. P - 1 /\ P \in Nat
  BY <1>1 DEF Number, P
<1>3. n \in Nat /\ n < P
  BY <1>2
<1> QED BY <1>3 DEF P

\* The word of a number, and what is read where memory holds it.
LEMMA NumberHeld ==
  ASSUME NEW n \in Number
  PROVE  /\ ToWord(n) \in Seq(Int) /\ Len(ToWord(n)) = Word
         /\ \A bin \in Seq(Int), at \in Nat : Holds(bin, at, ToWord(n)) => WordAt(bin, at) = n
<1>1. n \in Nat /\ n < power[Word]
  BY NumberType
<1>2. ToWord(n) \in Seq(Int) /\ Len(ToWord(n)) = Word
  BY <1>1, WordCells
<1>3. ASSUME NEW bin \in Seq(Int), NEW at \in Nat, Holds(bin, at, ToWord(n))
      PROVE  WordAt(bin, at) = n
  BY <1>1, <1>3, WordHeld
<1> QED BY <1>2, <1>3

\* The parts of what txsToBin writes, of the size it reckons with.
TxsParts(t) ==
  ToWord(GetSizeOfTxsbin(t) - Word)
    \o ToWord(Len(t.sender)) \o t.sender
    \o ToWord(Len(t.receiver)) \o t.receiver
    \o ToWord(t.amount) \o ToWord(t.time)

\* Such are the cells of a transaction, as many as GetSizeOfTxsbin says.
LEMMA TxsToBinType ==
  ASSUME NEW t \in WrittenTxs
  PROVE  /\ GetSizeOfTxsbin(t) \in Nat /\ TxsToBin(t) \in Seq(Int)
         /\ Len(TxsToBin(t)) = GetSizeOfTxsbin(t)
         /\ TxsToBin(t) = TxsParts(t)
         /\ \A bin \in Seq(Int), at \in Nat : 
              Holds(bin, at, TxsToBin(t)) =>
                /\ Holds(bin, at + Word, ToWord(Len(t.sender)))
                /\ Holds(bin, at + 2 * Word, t.sender)
                /\ Holds(bin, at + 2 * Word + Len(t.sender), ToWord(Len(t.receiver)))
                /\ Holds(bin, at + 3 * Word + Len(t.sender), t.receiver)
                /\ Holds(bin, at + 3 * Word + Len(t.sender) + Len(t.receiver), ToWord(t.amount))
                /\ Holds(bin, at + 4 * Word + Len(t.sender) + Len(t.receiver), ToWord(t.time))
<1> DEFINE size == GetSizeOfTxsbin(t)
           s  == t.sender
           r  == t.receiver
           w0 == ToWord(size - Word)
           w1 == ToWord(Len(s))
           w2 == ToWord(Len(r))
           w3 == ToWord(t.amount)
           w4 == ToWord(t.time)
           cells == w0 \o w1 \o s \o w2 \o r \o w3 \o w4
<1>1. /\ s \in Seq(Int) /\ Len(s) \in Number /\ r \in Seq(Int) /\ Len(r) \in Number
      /\ t.amount \in Number /\ t.time \in Number
  BY DEF WrittenTxs, WrittenText
<1>2. size = Len(s) + Len(r) + 5 * Word
  BY DEF GetSizeOfTxsbin
<1>3. Len(s) \in Nat /\ Len(r) \in Nat
  BY <1>1
<1>4. cells = TxsParts(t)
  BY DEF TxsParts
<1>5. TxsToBin(t) = Filled(TxsParts(t), size)
  BY DEF TxsToBin, TxsParts
<1> HIDE DEF size, s, r
<1>6. size \in Nat /\ size - Word \in Nat
  BY <1>2, <1>3, BytesAssumption
<1>7. /\ w0 \in Seq(Int) /\ Len(w0) = Word
      /\ w1 \in Seq(Int) /\ Len(w1) = Word
      /\ w2 \in Seq(Int) /\ Len(w2) = Word
      /\ w3 \in Seq(Int) /\ Len(w3) = Word
      /\ w4 \in Seq(Int) /\ Len(w4) = Word
  BY <1>1, <1>6, NumberHeld, WordCells
<1> HIDE DEF w0, w1, w2, w3, w4
<1>8. InSeven(cells, w0, w1, s, w2, r, w3, w4)
  BY <1>1, <1>7, SevenParts, Zenon
<1> HIDE DEF cells
<1>9. /\ cells \in Seq(Int)
      /\ Len(cells) = Len(w0) + Len(w1) + Len(s) + Len(w2) + Len(r) + Len(w3) + Len(w4)
      /\ \A bin \in Seq(Int), at \in Nat :
           Holds(bin, at, cells) =>
             /\ Holds(bin, at, w0)
             /\ Holds(bin, at + Len(w0), w1)
             /\ Holds(bin, at + (Len(w0) + Len(w1)), s)
             /\ Holds(bin, at + (Len(w0) + Len(w1) + Len(s)), w2)
             /\ Holds(bin, at + (Len(w0) + Len(w1) + Len(s) + Len(w2)), r)
             /\ Holds(bin, at + (Len(w0) + Len(w1) + Len(s) + Len(w2) + Len(r)), w3)
             /\ Holds(bin, at + (Len(w0) + Len(w1) + Len(s) + Len(w2) + Len(r) + Len(w3)), w4)
  BY <1>8, Zenon DEF InSeven
<1>10. Len(cells) = size
  BY <1>2, <1>3, <1>7, <1>9, BytesAssumption
<1>11. Filled(cells, size) = cells
  BY <1>9, <1>10, FilledWhole
<1>12. TxsToBin(t) = cells
  BY <1>11, <1>4, <1>5
<1>13. ASSUME NEW bin \in Seq(Int), NEW at \in Nat, Holds(bin, at, cells)
       PROVE  /\ Holds(bin, at + Word, w1)
              /\ Holds(bin, at + 2 * Word, s)
              /\ Holds(bin, at + 2 * Word + Len(s), w2)
              /\ Holds(bin, at + 3 * Word + Len(s), r)
              /\ Holds(bin, at + 3 * Word + Len(s) + Len(r), w3)
              /\ Holds(bin, at + 4 * Word + Len(s) + Len(r), w4)
  <2>1. /\ Holds(bin, at + Len(w0), w1)
        /\ Holds(bin, at + (Len(w0) + Len(w1)), s)
        /\ Holds(bin, at + (Len(w0) + Len(w1) + Len(s)), w2)
        /\ Holds(bin, at + (Len(w0) + Len(w1) + Len(s) + Len(w2)), r)
        /\ Holds(bin, at + (Len(w0) + Len(w1) + Len(s) + Len(w2) + Len(r)), w3)
        /\ Holds(bin, at + (Len(w0) + Len(w1) + Len(s) + Len(w2) + Len(r) + Len(w3)), w4)
    BY <1>9, <1>13
  <2>2. /\ at + Len(w0) = at + Word
        /\ at + (Len(w0) + Len(w1)) = at + 2 * Word
        /\ at + (Len(w0) + Len(w1) + Len(s)) = at + 2 * Word + Len(s)
        /\ at + (Len(w0) + Len(w1) + Len(s) + Len(w2)) = at + 3 * Word + Len(s)
        /\ at + (Len(w0) + Len(w1) + Len(s) + Len(w2) + Len(r))
             = at + 3 * Word + Len(s) + Len(r)
        /\ at + (Len(w0) + Len(w1) + Len(s) + Len(w2) + Len(r) + Len(w3))
             = at + 4 * Word + Len(s) + Len(r)
    BY <1>3, <1>7, BytesAssumption
  <2> QED BY <2>1, <2>2
<1> QED BY <1>6, <1>9, <1>10, <1>12, <1>13, <1>4 DEF size, s, r, w1, w2, w3, w4

\* What binToTxs reads where a transaction was written is that transaction.
LEMMA TxsHeld ==
  ASSUME NEW t \in WrittenTxs, NEW bin \in Seq(Int), NEW at \in Nat, Holds(bin, at, TxsToBin(t))
  PROVE  BinToTxs(bin, at) = t
<1> DEFINE s == t.sender
           r == t.receiver
           n1 == at + 2 * Word
           n2 == n1 + WordAt(bin, at + Word) + Word
           n3 == n2 + WordAt(bin, n2 - Word)
<1>1. /\ s \in Seq(Int) /\ Len(s) \in Number /\ r \in Seq(Int) /\ Len(r) \in Number
      /\ t.amount \in Number /\ t.time \in Number
  BY DEF WrittenTxs, WrittenText
<1>2. /\ Holds(bin, at + Word, ToWord(Len(s)))
      /\ Holds(bin, at + 2 * Word, s)
      /\ Holds(bin, at + 2 * Word + Len(s), ToWord(Len(r)))
      /\ Holds(bin, at + 3 * Word + Len(s), r)
      /\ Holds(bin, at + 3 * Word + Len(s) + Len(r), ToWord(t.amount))
      /\ Holds(bin, at + 4 * Word + Len(s) + Len(r), ToWord(t.time))
  BY TxsToBinType
<1>3. t = [sender |-> s, receiver |-> r, amount |-> t.amount, time |-> t.time]
  BY DEF WrittenTxs
<1>4. BinToTxs(bin, at) = [sender   |-> Cut(bin, n1, WordAt(bin, at + Word)),
                           receiver |-> Cut(bin, n2, WordAt(bin, n2 - Word)),
                           amount   |-> WordAt(bin, n3),
                           time     |-> WordAt(bin, n3 + Word)]
  BY DEF BinToTxs
<1> HIDE DEF s, r
<1>5. WordAt(bin, at + Word) = Len(s)
  <2>1. at + Word \in Nat
    BY BytesAssumption
  <2> QED BY <1>1, <1>2, <2>1, NumberHeld
<1>6. Len(s) \in Nat /\ Len(r) \in Nat /\ Word \in Nat
  BY <1>1, BytesAssumption
<1>7. n2 = at + 3 * Word + Len(s) /\ n2 - Word = at + 2 * Word + Len(s)
      /\ n1 \in Nat /\ n2 \in Nat /\ n2 - Word \in Nat
  <2>1. n2 = n1 + Len(s) + Word
    BY <1>5
  <2>2. n1 = at + 2 * Word
    OBVIOUS
  <2> HIDE DEF n1, n2
  <2> QED BY <1>6, <2>1, <2>2, SMTT(30)
<1> HIDE DEF n2
<1> DEFINE n == n2 - Word
           v == WordAt(bin, n)
<1> HIDE DEF n, v
<1>8. v = Len(r)
  <2>1. n \in Nat /\ Holds(bin, n, ToWord(Len(r)))
    BY <1>2, <1>7 DEF n
  <2> QED BY <1>1, <2>1, NumberHeld DEF v
<1>9. n3 = at + 3 * Word + Len(s) + Len(r) /\ n3 + Word = at + 4 * Word + Len(s) + Len(r)
      /\ n3 \in Nat /\ n3 + Word \in Nat
  <2>1. n3 = n2 + v
    BY Zenon DEF n, v
  <2> HIDE DEF n3
  <2> QED BY <1>6, <1>7, <1>8, <2>1
<1> HIDE DEF n3
<1>10. WordAt(bin, n3) = t.amount /\ WordAt(bin, n3 + Word) = t.time
  <2> DEFINE n4 == n3 + Word
  <2>1. n3 \in Nat /\ n4 \in Nat
    BY <1>9
  <2>2. Holds(bin, n3, ToWord(t.amount)) /\ Holds(bin, n4, ToWord(t.time))
    BY <1>2, <1>9
  <2> HIDE DEF n4
  <2>3. WordAt(bin, n3) = t.amount /\ WordAt(bin, n4) = t.time
    BY <1>1, <2>1, <2>2, NumberHeld
  <2> QED BY <2>3 DEF n4
<1>11. Cut(bin, n1, Len(s)) = s /\ Cut(bin, n2, Len(r)) = r
  BY <1>1, <1>2, <1>7, CutHeld
<1> HIDE DEF n1
<1>12. WordAt(bin, n2 - Word) = Len(r)
  BY <1>8, Zenon DEF n, v
<1>13. BinToTxs(bin, at) = [sender |-> s, receiver |-> r, amount |-> t.amount, time |-> t.time]
  BY <1>4, <1>5, <1>10, <1>11, <1>12
<1> QED BY <1>3, <1>13, Zenon

\* The sizes of the transactions of a list, and what tl becomes in memory.
SizesOf(tl) == [i \in DOMAIN tl |-> GetSizeOfTxsbin(tl[i])]
TlToBin(tl) == FlattenSeq([i \in DOMAIN tl |-> TxsToBin(tl[i])])

\* They take the sum of their sizes, and each begins behind those before it.
LEMMA TlToBinType ==
  ASSUME NEW tl \in Seq(WrittenTxs)
  PROVE  /\ SumFunction(SizesOf(tl)) = Upto(SizesOf(tl), Len(tl))
         /\ SizesOf(tl) \in [1 .. Len(tl) -> Nat]
         /\ Upto(SizesOf(tl), Len(tl)) \in Nat
         /\ TlToBin(tl) \in Seq(Int) /\ Len(TlToBin(tl)) = Upto(SizesOf(tl), Len(tl))
         /\ \A i \in 1 .. Len(tl) :
              /\ Upto(SizesOf(tl), i - 1) \in Nat
              /\ Holds(TlToBin(tl), Upto(SizesOf(tl), i - 1), TxsToBin(tl[i]))
<1> DEFINE n == Len(tl)
           s == [i \in DOMAIN tl |-> TxsToBin(tl[i])]
           z == SizesOf(tl)
<1>1. n \in Nat /\ DOMAIN tl = 1 .. n /\ \A i \in 1 .. n : tl[i] \in WrittenTxs
  OBVIOUS
<1>2. \A i \in 1 .. n : s[i] = TxsToBin(tl[i]) /\ s[i] \in Seq(Int) /\ z[i] = Len(s[i])
                        /\ z[i] \in Nat
  <2> TAKE i \in 1 .. n
  <2>1. tl[i] \in WrittenTxs
    BY <1>1
  <2>2. /\ GetSizeOfTxsbin(tl[i]) \in Nat /\ TxsToBin(tl[i]) \in Seq(Int)
        /\ Len(TxsToBin(tl[i])) = GetSizeOfTxsbin(tl[i])
    <3> DEFINE t == tl[i]
    <3> HIDE DEF t
    <3>1. /\ GetSizeOfTxsbin(t) \in Nat /\ TxsToBin(t) \in Seq(Int)
          /\ Len(TxsToBin(t)) = GetSizeOfTxsbin(t)
      BY <2>1, TxsToBinType DEF t
    <3> QED BY <3>1 DEF t
  <2>3. s[i] = TxsToBin(tl[i]) /\ z[i] = GetSizeOfTxsbin(tl[i])
    BY <1>1 DEF SizesOf
  <2> QED BY <2>2, <2>3
<1>3. DOMAIN s = 1 .. n /\ DOMAIN z = 1 .. n /\ z = [i \in 1 .. n |-> z[i]]
  BY <1>1 DEF SizesOf
<1>4. s = [i \in 1 .. n |-> s[i]]
  BY <1>1
<1>5. TlToBin(tl) = FlattenSeq(s)
  BY DEF TlToBin
<1>6. SumFunction(z) = Upto(z, n)
  BY <1>3 DEF SumFunction, Upto
<1> HIDE DEF n, s, z
<1>7. s \in Seq(Seq(Int)) /\ Len(s) = n
  <2>1. \A i \in 1 .. n : s[i] \in Seq(Int)
    BY <1>2
  <2> QED BY <1>1, <1>4, <2>1, ListOfItems
<1>8. z \in [1 .. n -> Nat]
  BY <1>2, <1>3
<1>9. Lens(s) = z
  <2>1. Lens(s) = [i \in 1 .. n |-> Len(s[i])]
    BY <1>3 DEF Lens
  <2> QED BY <1>2, <1>3, <2>1
<1>10. Upto(z, n) \in Nat
  BY <1>1, <1>8, UptoGrows
<1>11. /\ FlattenSeq(s) \in Seq(Int) /\ Len(FlattenSeq(s)) = Upto(z, n)
       /\ \A i \in 1 .. n : Upto(z, i - 1) \in Nat /\ Holds(FlattenSeq(s), Upto(z, i - 1), s[i])
  <2>1. /\ FlattenSeq(s) \in Seq(Int)
       /\ Len(FlattenSeq(s)) = Upto(Lens(s), Len(s))
       /\ \A i \in 1 .. Len(s) :
            Upto(Lens(s), i - 1) \in Nat /\ Holds(FlattenSeq(s), Upto(Lens(s), i - 1), s[i])
    BY <1>7, FlattenHolds, Zenon
  <2> QED BY <1>7, <1>9, <2>1
<1> QED BY <1>2, <1>5, <1>6, <1>8, <1>10, <1>11 DEF n, z

\* Where a block begins, memory holds the block's parts.
LEMMA BlockToBinType ==
  ASSUME NEW b \in WrittenBlock
  PROVE  /\ GetSizeOfBlockbin(b) \in Nat
         /\ GetSizeOfBlockbin(b) = 3 * Word + 2 + Upto(SizesOf(b.tl), Len(b.tl))
         /\ BlockToBin(b) \in Seq(Int) /\ Len(BlockToBin(b)) = GetSizeOfBlockbin(b)
         /\ \A bin \in Seq(Int), at \in Nat :
              Holds(bin, at, BlockToBin(b)) =>
                /\ Holds(bin, at, ToWord(Len(b.tl)))
                /\ Holds(bin, at + Word, <<b.previusHash, b.blockHash>>)
                /\ Holds(bin, at + Word + 2, ToWord(b.proof))
                /\ Holds(bin, at + 2 * Word + 2, ToWord(b.time))
                /\ Holds(bin, at + 3 * Word + 2, TlToBin(b.tl))
<1> DEFINE size == GetSizeOfBlockbin(b)
           tl == b.tl
           sum == Upto(SizesOf(tl), Len(tl))
           w0 == ToWord(Len(tl))
           hs == <<b.previusHash, b.blockHash>>
           w1 == ToWord(b.proof)
           w2 == ToWord(b.time)
           ts == TlToBin(tl)
           cells == w0 \o hs \o w1 \o w2 \o ts
<1>1. /\ tl \in Seq(WrittenTxs) /\ Len(tl) \in Number
      /\ b.previusHash \in Int /\ b.blockHash \in Int
      /\ b.proof \in Number /\ b.time \in Number
  BY DEF WrittenBlock
<1>2. hs \in Seq(Int) /\ Len(hs) = 2
  BY <1>1
<1>3. BlockToBin(b) = Filled(cells, size)
  BY DEF BlockToBin, TlToBin
<1>4. size = 2 + 3 * Word + SumFunction(SizesOf(tl))
  BY DEF GetSizeOfBlockbin, SizesOf
<1> HIDE DEF tl, hs, size
<1>5. /\ w0 \in Seq(Int) /\ Len(w0) = Word
      /\ w1 \in Seq(Int) /\ Len(w1) = Word
      /\ w2 \in Seq(Int) /\ Len(w2) = Word
  BY <1>1, NumberHeld
<1>6. /\ ts \in Seq(Int) /\ Len(ts) = sum /\ sum \in Nat
      /\ SumFunction(SizesOf(tl)) = sum
  BY <1>1, TlToBinType
<1> HIDE DEF w0, w1, w2, ts, sum
<1>7. InFive(cells, w0, hs, w1, w2, ts)
  BY <1>2, <1>5, <1>6, FiveParts, Zenon
<1> HIDE DEF cells
<1>8. /\ cells \in Seq(Int)
      /\ Len(cells) = Len(w0) + Len(hs) + Len(w1) + Len(w2) + Len(ts)
      /\ \A bin \in Seq(Int), at \in Nat :
           Holds(bin, at, cells) =>
             /\ Holds(bin, at, w0)
             /\ Holds(bin, at + Len(w0), hs)
             /\ Holds(bin, at + (Len(w0) + Len(hs)), w1)
             /\ Holds(bin, at + (Len(w0) + Len(hs) + Len(w1)), w2)
             /\ Holds(bin, at + (Len(w0) + Len(hs) + Len(w1) + Len(w2)), ts)
  BY <1>7, Zenon DEF InFive
<1>9. size = 3 * Word + 2 + sum /\ size \in Nat /\ Len(cells) = size
  BY <1>2, <1>4, <1>5, <1>6, <1>8, BytesAssumption
<1>10. Filled(cells, size) = cells
  BY <1>8, <1>9, FilledWhole
<1>11. ASSUME NEW bin \in Seq(Int), NEW at \in Nat, Holds(bin, at, cells)
       PROVE  /\ Holds(bin, at, w0)
              /\ Holds(bin, at + Word, hs)
              /\ Holds(bin, at + Word + 2, w1)
              /\ Holds(bin, at + 2 * Word + 2, w2)
              /\ Holds(bin, at + 3 * Word + 2, ts)
  <2>1. /\ Holds(bin, at, w0)
        /\ Holds(bin, at + Len(w0), hs)
        /\ Holds(bin, at + (Len(w0) + Len(hs)), w1)
        /\ Holds(bin, at + (Len(w0) + Len(hs) + Len(w1)), w2)
        /\ Holds(bin, at + (Len(w0) + Len(hs) + Len(w1) + Len(w2)), ts)
    BY <1>8, <1>11
  <2>2. /\ at + Len(w0) = at + Word
        /\ at + (Len(w0) + Len(hs)) = at + Word + 2
        /\ at + (Len(w0) + Len(hs) + Len(w1)) = at + 2 * Word + 2
        /\ at + (Len(w0) + Len(hs) + Len(w1) + Len(w2)) = at + 3 * Word + 2
    BY <1>2, <1>5, BytesAssumption
  <2> QED BY <2>1, <2>2
<1>12. BlockToBin(b) = cells
  BY <1>3, <1>10
<1> QED BY <1>8, <1>9, <1>11, <1>12 DEF size, sum, tl, hs, w0, w1, w2, ts

\* What binToBlock reads where a block was written is that block.
LEMMA BlockHeld ==
  ASSUME NEW b \in WrittenBlock, NEW bin \in Seq(Int), NEW at \in Nat,
         Holds(bin, at, BlockToBin(b))
  PROVE  BinToBlock(bin, at) = b
<1> DEFINE tl == b.tl
           n == Len(tl)
           z == SizesOf(tl)
           first == at + 3 * Word + 2
           m == WordAt(bin, at)
           Is(f) == f = [i \in 1 .. m + 1 |->
                           IF i = 1 THEN first
                           ELSE f[i - 1] + GetSizeOfTxsbin(BinToTxs(bin, f[i - 1]))]
           begin == CHOOSE f : Is(f)
<1>1. /\ tl \in Seq(WrittenTxs) /\ n \in Number
      /\ b.previusHash \in Int /\ b.blockHash \in Int
      /\ b.proof \in Number /\ b.time \in Number
      /\ b = [previusHash |-> b.previusHash, blockHash |-> b.blockHash,
              proof |-> b.proof, time |-> b.time, tl |-> tl]
  BY DEF WrittenBlock
<1>2. BinToBlock(bin, at) = [previusHash |-> bin[at + Word + 1],
                             blockHash   |-> bin[at + Word + 2],
                             proof       |-> WordAt(bin, at + Word + 2),
                             time        |-> WordAt(bin, at + 2 * Word + 2),
                             tl          |-> [i \in 1 .. m |-> BinToTxs(bin, begin[i])]]
  BY DEF BinToBlock
<1>3. /\ Holds(bin, at, ToWord(n))
      /\ Holds(bin, at + Word, <<b.previusHash, b.blockHash>>)
      /\ Holds(bin, at + Word + 2, ToWord(b.proof))
      /\ Holds(bin, at + 2 * Word + 2, ToWord(b.time))
      /\ Holds(bin, first, TlToBin(tl))
  BY BlockToBinType
<1>4. n \in Nat /\ DOMAIN tl = 1 .. n /\ \A i \in 1 .. n : tl[i] \in WrittenTxs
  BY <1>1
<1>5. z \in [1 .. n -> Nat] /\ \A i \in 1 .. n : z[i] = GetSizeOfTxsbin(tl[i])
  <2>1. z \in [1 .. n -> Nat]
    BY <1>1, TlToBinType
  <2> QED BY <1>4, <2>1 DEF SizesOf
<1>6. /\ TlToBin(tl) \in Seq(Int)
      /\ \A i \in 1 .. n : Upto(z, i - 1) \in Nat /\ Holds(TlToBin(tl), Upto(z, i - 1), TxsToBin(tl[i]))
  BY <1>1, TlToBinType
<1> HIDE DEF tl, n, z
<1>7. m = n
  BY <1>1, <1>3, NumberHeld
<1>8. WordAt(bin, at + Word + 2) = b.proof /\ WordAt(bin, at + 2 * Word + 2) = b.time
  <2>1. at + Word + 2 \in Nat /\ at + 2 * Word + 2 \in Nat
    BY BytesAssumption
  <2> DEFINE p == at + Word + 2
             q == at + 2 * Word + 2
  <2> HIDE DEF p, q
  <2>2. p \in Nat /\ q \in Nat /\ Holds(bin, p, ToWord(b.proof)) /\ Holds(bin, q, ToWord(b.time))
    BY <1>3, <2>1 DEF p, q
  <2>3. WordAt(bin, p) = b.proof /\ WordAt(bin, q) = b.time
    BY <1>1, <2>2, NumberHeld
  <2> QED BY <2>3 DEF p, q
<1>9. bin[at + Word + 1] = b.previusHash /\ bin[at + Word + 2] = b.blockHash
  <2> DEFINE hs == <<b.previusHash, b.blockHash>>
             p == at + Word
  <2>1. Len(hs) = 2 /\ hs[1] = b.previusHash /\ hs[2] = b.blockHash
    OBVIOUS
  <2> HIDE DEF hs, p
  <2>2. \A k \in 1 .. 2 : bin[p + k] = hs[k]
    BY <1>3, <2>1, Zenon DEF Holds, hs, p
  <2>3. bin[p + 1] = hs[1] /\ bin[p + 2] = hs[2]
    BY <2>2
  <2> QED BY <2>1, <2>3 DEF p
<1>10. first \in Nat
  BY BytesAssumption
<1> DEFINE up(i) == Upto(z, i)
           h == [i \in 1 .. n + 1 |-> first + up(i - 1)]
<1>11. up(0) = 0 /\ (\A i \in 0 .. n : up(i) \in Nat) /\ \A i \in 1 .. n : up(i) = up(i - 1) + z[i]
  BY <1>4, <1>5, UptoGrows
<1> HIDE DEF m, first, up
<1>12. ASSUME NEW i \in 1 .. n
       PROVE  BinToTxs(bin, first + up(i - 1)) = tl[i]
  <2> DEFINE off == up(i - 1)
             t == tl[i]
  <2>1. off \in Nat /\ t \in WrittenTxs /\ Holds(TlToBin(tl), off, TxsToBin(t))
    BY <1>4, <1>6 DEF up
  <2> HIDE DEF off, t
  <2>2. TxsToBin(t) \in Seq(Int)
    BY <2>1, TxsToBinType
  <2>3. Holds(bin, first + off, TxsToBin(t)) /\ first + off \in Nat
    BY <1>3, <1>6, <1>10, <2>1, <2>2, HoldsThrough
  <2>4. BinToTxs(bin, first + off) = t
    BY <2>1, <2>3, TxsHeld
  <2> QED BY <2>4 DEF off, t
<1>13. /\ h = [i \in 1 .. n + 1 |-> h[i]]
       /\ h[1] = first
       /\ \A i \in 1 .. n : BinToTxs(bin, h[i]) = tl[i] /\ h[i + 1] = h[i] + z[i]
  <2>1. h[1] = first
    <3>1. 1 \in 1 .. n + 1 /\ 1 - 1 = 0
      BY <1>4
    <3> QED BY <1>10, <1>11, <3>1
  <2>2. ASSUME NEW i \in 1 .. n
        PROVE  BinToTxs(bin, h[i]) = tl[i] /\ h[i + 1] = h[i] + z[i]
    <3> DEFINE j == i + 1
    <3>1. i \in 1 .. n + 1 /\ j \in 1 .. n + 1 /\ j - 1 = i /\ i \in 0 .. n /\ i - 1 \in 0 .. n
      BY <1>4
    <3> HIDE DEF j
    <3>2. h[i] = first + up(i - 1) /\ h[j] = first + up(i)
      BY <3>1
    <3>3. h[j] = h[i] + z[i]
      <4> DEFINE x == up(i - 1)
                 y == up(i)
                 d == z[i]
      <4>1. x \in Nat /\ y = x + d /\ h[i] = first + x /\ h[j] = first + y
        BY <1>11, <3>1, <3>2
      <4>2. d \in Nat
        BY <1>5
      <4> HIDE DEF x, y, d
      <4>3. h[j] = h[i] + d
        BY <1>10, <4>1, <4>2
      <4> QED BY <4>3 DEF d
    <3> QED BY <1>12, <3>2, <3>3 DEF j
  <2>3. h = [i \in 1 .. n + 1 |-> h[i]]
    OBVIOUS
  <2> QED BY <2>1, <2>2, <2>3
<1> HIDE DEF h
<1>14. ASSUME NEW i \in 1 .. n + 1
       PROVE  h[i] = IF i = 1 THEN first
                     ELSE h[i - 1] + GetSizeOfTxsbin(BinToTxs(bin, h[i - 1]))
  <2>1. CASE i = 1
    BY <1>13, <2>1
  <2>2. CASE i # 1
    <3> DEFINE j == i - 1
    <3>1. j \in 1 .. n /\ j + 1 = i
      BY <1>4, <2>2
    <3> HIDE DEF j
    <3>2. h[i] = h[j] + GetSizeOfTxsbin(BinToTxs(bin, h[j]))
      BY <1>5, <1>13, <3>1
    <3> QED BY <2>2, <3>2 DEF j
  <2> QED BY <2>1, <2>2
<1>15. Is(h)
  <2> DEFINE k == [i \in 1 .. n + 1 |->
                     IF i = 1 THEN first
                     ELSE h[i - 1] + GetSizeOfTxsbin(BinToTxs(bin, h[i - 1]))]
  <2>1. \A i \in 1 .. n + 1 : k[i] = h[i]
    BY <1>14
  <2>2. k = [i \in 1 .. n + 1 |-> k[i]]
    OBVIOUS
  <2> HIDE DEF k
  <2>3. h = k
    BY <1>13, <2>1, <2>2, Zenon
  <2> QED BY <1>7, <2>3 DEF k
<1>16. Is(begin)
  <2> HIDE DEF Is
  <2> QED BY <1>15
<1> HIDE DEF begin
<1>17. \A i \in 1 .. n + 1 :
         begin[i] = IF i = 1 THEN first
                    ELSE begin[i - 1] + GetSizeOfTxsbin(BinToTxs(bin, begin[i - 1]))
  BY <1>7, <1>16
<1> HIDE DEF Is
<1> DEFINE G == {i \in Nat : i + 1 \in 1 .. n + 1 => begin[i + 1] = h[i + 1]}
<1>18. 0 \in G
  <2>1. 1 \in 1 .. n + 1 /\ 0 + 1 = 1
    BY <1>4
  <2> QED BY <1>13, <1>17, <2>1
<1>19. ASSUME NEW i \in G PROVE i + 1 \in G
  <2> SUFFICES ASSUME i + 1 + 1 \in 1 .. n + 1 PROVE begin[i + 1 + 1] = h[i + 1 + 1]
    OBVIOUS
  <2> DEFINE j == i + 1
             k == j + 1
  <2>1. j \in 1 .. n /\ j \in 1 .. n + 1 /\ k \in 1 .. n + 1 /\ k # 1 /\ k - 1 = j
    BY <1>4
  <2>2. begin[j] = h[j]
    BY <2>1
  <2> HIDE DEF j, k
  <2>3. begin[k] = begin[j] + GetSizeOfTxsbin(BinToTxs(bin, begin[j]))
    BY <1>17, <2>1
  <2>4. h[k] = h[j] + GetSizeOfTxsbin(BinToTxs(bin, h[j]))
    BY <1>14, <2>1
  <2>5. begin[k] = h[k]
    BY <2>2, <2>3, <2>4
  <2> QED BY <2>5 DEF j, k
<1>20. G \in SUBSET Nat
  OBVIOUS
<1> HIDE DEF G
<1>21. G = Nat
  BY <1>18, <1>19, <1>20, NatGrows
<1>22. ASSUME NEW i \in 1 .. n PROVE BinToTxs(bin, begin[i]) = tl[i]
  <2> DEFINE j == i - 1
  <2>1. j \in Nat /\ j + 1 = i /\ i \in 1 .. n + 1
    BY <1>4
  <2> HIDE DEF j
  <2>2. begin[i] = h[i]
    BY <1>21, <2>1 DEF G
  <2> QED BY <1>13, <2>2
<1>23. [i \in 1 .. m |-> BinToTxs(bin, begin[i])] = tl
  <2>1. tl = [i \in 1 .. n |-> tl[i]]
    BY <1>1, <1>4
  <2> QED BY <1>7, <1>22, <2>1
<1> QED BY <1>1, <1>2, <1>8, <1>9, <1>23

\* The sizes of the blocks of a chain, and what they become in memory.
BlockSizesOf(bc) == [i \in DOMAIN bc |-> GetSizeOfBlockbin(bc[i])]
BlocksToBin(bc) == FlattenSeq([i \in DOMAIN bc |-> BlockToBin(bc[i])])

\* Each block begins behind those before it.
LEMMA BlocksToBinType ==
  ASSUME NEW bc \in Seq(WrittenBlock)
  PROVE  /\ BlockSizesOf(bc) \in [1 .. Len(bc) -> Nat]
         /\ BlocksToBin(bc) \in Seq(Int)
         /\ \A i \in 1 .. Len(bc) :
              /\ Upto(BlockSizesOf(bc), i - 1) \in Nat
              /\ Holds(BlocksToBin(bc), Upto(BlockSizesOf(bc), i - 1), BlockToBin(bc[i]))
<1> DEFINE n == Len(bc)
           s == [i \in DOMAIN bc |-> BlockToBin(bc[i])]
           z == BlockSizesOf(bc)
<1>1. n \in Nat /\ DOMAIN bc = 1 .. n /\ \A i \in 1 .. n : bc[i] \in WrittenBlock
  OBVIOUS
<1>2. \A i \in 1 .. n : s[i] = BlockToBin(bc[i]) /\ s[i] \in Seq(Int) /\ z[i] = Len(s[i])
                        /\ z[i] \in Nat
  <2> TAKE i \in 1 .. n
  <2>1. bc[i] \in WrittenBlock
    BY <1>1
  <2>2. /\ GetSizeOfBlockbin(bc[i]) \in Nat /\ BlockToBin(bc[i]) \in Seq(Int)
        /\ Len(BlockToBin(bc[i])) = GetSizeOfBlockbin(bc[i])
    <3> DEFINE b == bc[i]
    <3> HIDE DEF b
    <3>1. /\ GetSizeOfBlockbin(b) \in Nat /\ BlockToBin(b) \in Seq(Int)
          /\ Len(BlockToBin(b)) = GetSizeOfBlockbin(b)
      BY <2>1, BlockToBinType DEF b
    <3> QED BY <3>1 DEF b
  <2>3. s[i] = BlockToBin(bc[i]) /\ z[i] = GetSizeOfBlockbin(bc[i])
    BY <1>1 DEF BlockSizesOf
  <2> QED BY <2>2, <2>3
<1>3. DOMAIN s = 1 .. n /\ z = [i \in 1 .. n |-> z[i]]
  BY <1>1 DEF BlockSizesOf
<1>4. s = [i \in 1 .. n |-> s[i]]
  BY <1>1
<1>5. BlocksToBin(bc) = FlattenSeq(s)
  BY DEF BlocksToBin
<1> HIDE DEF n, s, z
<1>6. s \in Seq(Seq(Int)) /\ Len(s) = n
  <2>1. \A i \in 1 .. n : s[i] \in Seq(Int)
    BY <1>2
  <2> QED BY <1>1, <1>4, <2>1, ListOfItems
<1>7. z \in [1 .. n -> Nat]
  BY <1>2, <1>3
<1>8. Lens(s) = z
  <2>1. Lens(s) = [i \in 1 .. n |-> Len(s[i])]
    BY <1>3 DEF Lens
  <2> QED BY <1>2, <1>3, <2>1
<1>9. /\ FlattenSeq(s) \in Seq(Int)
      /\ \A i \in 1 .. n : Upto(z, i - 1) \in Nat /\ Holds(FlattenSeq(s), Upto(z, i - 1), s[i])
  <2>1. /\ FlattenSeq(s) \in Seq(Int)
        /\ Len(FlattenSeq(s)) = Upto(Lens(s), Len(s))
        /\ \A i \in 1 .. Len(s) :
             Upto(Lens(s), i - 1) \in Nat /\ Holds(FlattenSeq(s), Upto(Lens(s), i - 1), s[i])
    BY <1>6, FlattenHolds, Zenon
  <2> QED BY <1>6, <1>8, <2>1
<1> QED BY <1>2, <1>5, <1>7, <1>9 DEF n, z

\* What is read of a chain that was written is that chain, whatever its blocks hold: the
\* reader finds each block and each transaction where the sizes of those that it has decoded
\* say.
THEOREM ChainReadsBack ==
  ASSUME NEW bc \in WrittenChain
  PROVE  BinToBlockchain(BlockchainToBin(bc)) = bc
<1> DEFINE n == Len(bc)
           z == BlockSizesOf(bc)
           w == ToWord(n)
           bs == BlocksToBin(bc)
           bin == w \o bs
           m == WordAt(bin, 0)
           Is(f) == f = [i \in 1 .. m + 1 |->
                           IF i = 1 THEN Word
                           ELSE f[i - 1] + GetSizeOfBlockbin(BinToBlock(bin, f[i - 1]))]
           begin == CHOOSE f : Is(f)
<1>1. bc \in Seq(WrittenBlock) /\ n \in Number
  BY DEF WrittenChain
<1>2. BlockchainToBin(bc) = bin
  BY DEF BlockchainToBin, BlocksToBin
<1>3. BinToBlockchain(bin) = [i \in 1 .. m |-> BinToBlock(bin, begin[i])]
  BY DEF BinToBlockchain
<1>4. n \in Nat /\ DOMAIN bc = 1 .. n /\ (\A i \in 1 .. n : bc[i] \in WrittenBlock)
      /\ bc = [i \in 1 .. n |-> bc[i]]
  BY <1>1
<1>5. z \in [1 .. n -> Nat] /\ \A i \in 1 .. n : z[i] = GetSizeOfBlockbin(bc[i])
  <2>1. z \in [1 .. n -> Nat]
    BY <1>1, BlocksToBinType
  <2> QED BY <1>4, <2>1 DEF BlockSizesOf
<1>6. /\ bs \in Seq(Int)
      /\ \A i \in 1 .. n : Upto(z, i - 1) \in Nat /\ Holds(bs, Upto(z, i - 1), BlockToBin(bc[i]))
  BY <1>1, BlocksToBinType
<1> HIDE DEF n, z, bs
<1>7. w \in Seq(Int) /\ Len(w) = Word /\ Word \in Nat
  BY <1>1, NumberHeld, BytesAssumption
<1> HIDE DEF w
<1>8. bin \in Seq(Int) /\ Holds(bin, 0, w) /\ Holds(bin, Word, bs)
  <2>1. bin \in Seq(Int) /\ Holds(bin, Len(w), bs)
    BY <1>6, <1>7, HoldsLonger
  <2>2. Holds(bin, 0, bin)
    BY <2>1, HoldsItself
  <2>3. Holds(bin, 0, w)
    BY <1>6, <1>7, <2>1, <2>2, Joined
  <2> QED BY <1>7, <2>1, <2>3
<1> HIDE DEF bin
<1>9. m = n
  BY <1>1, <1>8, NumberHeld DEF w
<1> DEFINE up(i) == Upto(z, i)
           h == [i \in 1 .. n + 1 |-> Word + up(i - 1)]
<1>10. up(0) = 0 /\ (\A i \in 0 .. n : up(i) \in Nat) /\ \A i \in 1 .. n : up(i) = up(i - 1) + z[i]
  BY <1>4, <1>5, UptoGrows
<1> HIDE DEF m, up
<1>11. ASSUME NEW i \in 1 .. n
       PROVE  BinToBlock(bin, Word + up(i - 1)) = bc[i]
  <2> DEFINE off == up(i - 1)
             b == bc[i]
  <2>1. off \in Nat /\ b \in WrittenBlock /\ Holds(bs, off, BlockToBin(b))
    BY <1>4, <1>6 DEF up
  <2> HIDE DEF off, b
  <2>2. BlockToBin(b) \in Seq(Int)
    BY <2>1, BlockToBinType
  <2>3. Holds(bin, Word + off, BlockToBin(b)) /\ Word + off \in Nat
    BY <1>6, <1>7, <1>8, <2>1, <2>2, HoldsThrough
  <2>4. BinToBlock(bin, Word + off) = b
    BY <1>8, <2>1, <2>3, BlockHeld
  <2> QED BY <2>4 DEF off, b
<1>12. /\ h = [i \in 1 .. n + 1 |-> h[i]]
       /\ h[1] = Word
       /\ \A i \in 1 .. n : BinToBlock(bin, h[i]) = bc[i] /\ h[i + 1] = h[i] + z[i]
  <2>1. h[1] = Word
    <3>1. 1 \in 1 .. n + 1 /\ 1 - 1 = 0
      BY <1>4
    <3> QED BY <1>7, <1>10, <3>1
  <2>2. ASSUME NEW i \in 1 .. n
        PROVE  BinToBlock(bin, h[i]) = bc[i] /\ h[i + 1] = h[i] + z[i]
    <3> DEFINE j == i + 1
    <3>1. i \in 1 .. n + 1 /\ j \in 1 .. n + 1 /\ j - 1 = i /\ i \in 0 .. n /\ i - 1 \in 0 .. n
      BY <1>4
    <3> HIDE DEF j
    <3>2. h[i] = Word + up(i - 1) /\ h[j] = Word + up(i)
      BY <3>1
    <3>3. h[j] = h[i] + z[i]
      <4> DEFINE x == up(i - 1)
                 y == up(i)
                 d == z[i]
      <4>1. x \in Nat /\ y = x + d /\ h[i] = Word + x /\ h[j] = Word + y
        BY <1>10, <3>1, <3>2
      <4>2. d \in Nat
        BY <1>5
      <4> HIDE DEF x, y, d
      <4>3. h[j] = h[i] + d
        BY <1>7, <4>1, <4>2
      <4> QED BY <4>3 DEF d
    <3> QED BY <1>11, <3>2, <3>3 DEF j
  <2>3. h = [i \in 1 .. n + 1 |-> h[i]]
    OBVIOUS
  <2> QED BY <2>1, <2>2, <2>3
<1> HIDE DEF h
<1>13. ASSUME NEW i \in 1 .. n + 1
       PROVE  h[i] = IF i = 1 THEN Word
                     ELSE h[i - 1] + GetSizeOfBlockbin(BinToBlock(bin, h[i - 1]))
  <2>1. CASE i = 1
    BY <1>12, <2>1
  <2>2. CASE i # 1
    <3> DEFINE j == i - 1
    <3>1. j \in 1 .. n /\ j + 1 = i
      BY <1>4, <2>2
    <3> HIDE DEF j
    <3>2. h[i] = h[j] + GetSizeOfBlockbin(BinToBlock(bin, h[j]))
      BY <1>5, <1>12, <3>1
    <3> QED BY <2>2, <3>2 DEF j
  <2> QED BY <2>1, <2>2
<1>14. Is(h)
  <2> DEFINE k == [i \in 1 .. n + 1 |->
                     IF i = 1 THEN Word
                     ELSE h[i - 1] + GetSizeOfBlockbin(BinToBlock(bin, h[i - 1]))]
  <2>1. \A i \in 1 .. n + 1 : k[i] = h[i]
    BY <1>13
  <2>2. k = [i \in 1 .. n + 1 |-> k[i]]
    OBVIOUS
  <2> HIDE DEF k
  <2>3. h = k
    BY <1>12, <2>1, <2>2, Zenon
  <2> QED BY <1>9, <2>3 DEF k
<1>15. Is(begin)
  <2> HIDE DEF Is
  <2> QED BY <1>14
<1> HIDE DEF begin
<1>16. \A i \in 1 .. n + 1 :
         begin[i] = IF i = 1 THEN Word
                    ELSE begin[i - 1] + GetSizeOfBlockbin(BinToBlock(bin, begin[i - 1]))
  BY <1>9, <1>15
<1> HIDE DEF Is
<1> DEFINE G == {i \in Nat : i + 1 \in 1 .. n + 1 => begin[i + 1] = h[i + 1]}
<1>17. 0 \in G
  <2>1. 1 \in 1 .. n + 1 /\ 0 + 1 = 1
    BY <1>4
  <2> QED BY <1>12, <1>16, <2>1
<1>18. ASSUME NEW i \in G PROVE i + 1 \in G
  <2> SUFFICES ASSUME i + 1 + 1 \in 1 .. n + 1 PROVE begin[i + 1 + 1] = h[i + 1 + 1]
    OBVIOUS
  <2> DEFINE j == i + 1
             k == j + 1
  <2>1. j \in 1 .. n /\ j \in 1 .. n + 1 /\ k \in 1 .. n + 1 /\ k # 1 /\ k - 1 = j
    BY <1>4
  <2>2. begin[j] = h[j]
    BY <2>1
  <2> HIDE DEF j, k
  <2>3. begin[k] = begin[j] + GetSizeOfBlockbin(BinToBlock(bin, begin[j]))
    BY <1>16, <2>1
  <2>4. h[k] = h[j] + GetSizeOfBlockbin(BinToBlock(bin, h[j]))
    BY <1>13, <2>1
  <2>5. begin[k] = h[k]
    BY <2>2, <2>3, <2>4
  <2> QED BY <2>5 DEF j, k
<1>19. G \in SUBSET Nat
  OBVIOUS
<1> HIDE DEF G
<1>20. G = Nat
  BY <1>17, <1>18, <1>19, NatGrows
<1>21. ASSUME NEW i \in 1 .. n PROVE BinToBlock(bin, begin[i]) = bc[i]
  <2> DEFINE j == i - 1
  <2>1. j \in Nat /\ j + 1 = i /\ i \in 1 .. n + 1
    BY <1>4
  <2> HIDE DEF j
  <2>2. begin[i] = h[i]
    BY <1>20, <2>1 DEF G
  <2> QED BY <1>12, <2>2
<1>22. [i \in 1 .. m |-> BinToBlock(bin, begin[i])] = bc
  BY <1>4, <1>9, <1>21
<1> QED BY <1>2, <1>3, <1>22

-------------------------------------------------------------------------------
(* Digits.                                                                   *)

\* Every power is larger than those before it and than its exponent.
LEMMA PowerGrows ==
  /\ \A n \in Nat : n < power[n]
  /\ \A i, j \in Nat : i <= j => power[i] <= power[j]
<1>1. \A n \in Nat : power[n] \in Nat \ {0} /\ power[n] < power[n + 1] /\ power[0] = 1
  <2> TAKE n \in Nat
  <2> DEFINE P == power[n]
  <2>1. P \in Nat \ {0} /\ power[n + 1] = Base * P /\ power[0] = 1
    BY PowerDef
  <2> HIDE DEF P
  <2>2. P < Base * P
    <3>1. Base \in Nat /\ Base >= 2
      BY BytesAssumption
    <3>2. 2 * P <= Base * P
      BY <2>1, <3>1
    <3> DEFINE x == Base * P
    <3>3. x \in Int /\ 2 * P <= x
      BY <2>1, <3>1, <3>2
    <3> HIDE DEF x
    <3>4. P < x
      BY <2>1, <3>3
    <3> QED BY <3>4 DEF x
  <2> QED BY <2>1, <2>2 DEF P
<1> DEFINE G == {n \in Nat : n < power[n]}
<1>2. 0 \in G
  BY <1>1
<1>3. ASSUME NEW n \in G PROVE n + 1 \in G
  <2>1. n \in Nat /\ n + 1 \in Nat /\ n < power[n]
    OBVIOUS
  <2> HIDE DEF G
  <2>2. power[n] \in Nat /\ power[n + 1] \in Nat /\ power[n] < power[n + 1]
    BY <1>1, <2>1
  <2>3. n + 1 < power[n + 1]
    BY <2>1, <2>2
  <2> QED BY <2>1, <2>3 DEF G
<1>4. G \in SUBSET Nat
  OBVIOUS
<1> HIDE DEF G
<1>5. G = Nat
  BY <1>2, <1>3, <1>4, NatGrows
<1>6. \A n \in Nat : n < power[n]
  BY <1>5 DEF G
<1>7. ASSUME NEW i \in Nat, NEW j \in Nat, i <= j
      PROVE  power[i] <= power[j]
  <2> DEFINE H == {d \in Nat : power[i] <= power[i + d]}
  <2>1. 0 \in H
    <3>1. i + 0 = i
      OBVIOUS
    <3>2. power[i] \in Nat
      BY <1>1
    <3> QED BY <3>1, <3>2
  <2>2. ASSUME NEW d \in H PROVE d + 1 \in H
    <3> DEFINE k == i + d
    <3>1. k \in Nat /\ i + (d + 1) = k + 1 /\ d \in Nat /\ d + 1 \in Nat /\ power[i] <= power[k]
      OBVIOUS
    <3> HIDE DEF k, H
    <3>2. power[i] \in Nat /\ power[k] \in Nat /\ power[k + 1] \in Nat /\ power[k] < power[k + 1]
      BY <1>1, <3>1
    <3>3. power[i] <= power[k + 1]
      BY <3>1, <3>2
    <3> QED BY <3>1, <3>3 DEF H
  <2>3. H \in SUBSET Nat
    OBVIOUS
  <2> HIDE DEF H
  <2>4. H = Nat
    BY <2>1, <2>2, <2>3, NatGrows
  <2>5. j - i \in H /\ i + (j - i) = j
    BY <1>7, <2>4
  <2> QED BY <2>5 DEF H
<1> QED BY <1>6, <1>7

\* A number has at least one digit, as few as there can be, and each is its place's.
LEMMA DigitsType ==
  ASSUME NEW n \in Nat
  PROVE  /\ Digits(n) \in Seq(0 .. Base - 1) /\ Digits(n) \in Seq(Int)
         /\ Len(Digits(n)) \in Nat \ {0}
         /\ n < power[Len(Digits(n))]
         /\ Len(Digits(n)) = 1 \/ n >= power[Len(Digits(n)) - 1]
         /\ \A k \in 1 .. Len(Digits(n)) :
              Digits(n)[k] = (n \div power[Len(Digits(n)) - k]) % Base
<1> DEFINE Fits(k) == n < power[k] /\ (k = 1 \/ n >= power[k - 1])
           size == CHOOSE k \in 1 .. n + 1 : Fits(k)
           S == {k \in 1 .. n + 1 : n < power[k]}
           d == [k \in 1 .. size |-> (n \div power[size - k]) % Base]
<1>1. \A k \in Nat : power[k] \in Nat
  BY PowerDef
<1>2. n + 1 \in S
  <2>1. n + 1 \in Nat /\ n + 1 \in 1 .. n + 1 /\ n + 1 < power[n + 1]
    BY PowerGrows
  <2>2. power[n + 1] \in Nat
    BY <1>1, <2>1
  <2>3. n < power[n + 1]
    BY <2>1, <2>2
  <2> QED BY <2>1, <2>3
<1>3. PICK k \in S : \A i \in S : k <= i
  <2>1. S \in SUBSET Nat /\ S # {}
    BY <1>2
  <2> HIDE DEF S
  <2>2. Min(S) \in S /\ \A i \in S : Min(S) <= i
    BY <2>1, MinIsLeast
  <2> QED BY <2>2
<1>4. Fits(k)
  <2> SUFFICES ASSUME k # 1, ~ (n >= power[k - 1]) PROVE FALSE
    BY <1>3
  <2>1. k - 1 \in 1 .. n + 1 /\ k - 1 \in Nat
    BY <1>3
  <2>2. n < power[k - 1]
    BY <1>1, <2>1
  <2>3. k - 1 \in S
    BY <2>1, <2>2
  <2> QED BY <1>3, <2>3
<1>5. size \in 1 .. n + 1 /\ Fits(size)
  <2> HIDE DEF Fits
  <2> QED BY <1>3, <1>4
<1>6. Digits(n) = d
  BY Zenon DEF Digits
<1> HIDE DEF size
<1>7. size \in Nat \ {0}
  BY <1>5
<1>8. \A i \in 1 .. size : (n \div power[size - i]) % Base \in 0 .. Base - 1
  <2> TAKE i \in 1 .. size
  <2>1. size - i \in Nat
    BY <1>7
  <2> QED BY <2>1, DigitOff
<1>9. d \in [1 .. size -> 0 .. Base - 1]
  BY <1>8
<1>10. \A i \in 1 .. size : d[i] = (n \div power[size - i]) % Base
  OBVIOUS
<1> HIDE DEF d
<1>11. d \in Seq(0 .. Base - 1) /\ Len(d) = size
  <2> DEFINE digit == 0 .. Base - 1
  <2> HIDE DEF digit
  <2>1. d \in [1 .. size -> digit]
    BY <1>9 DEF digit
  <2>2. d \in Seq(digit) /\ Len(d) = size
    BY <1>7, <2>1
  <2> QED BY <2>2 DEF digit
<1>12. d \in Seq(Int)
  <2>1. 0 .. Base - 1 \subseteq Int
    BY BytesAssumption
  <2> QED BY <1>11, <2>1, SeqMonotonic, Zenon
<1>13. n < power[size] /\ (size = 1 \/ n >= power[size - 1])
  BY <1>5
<1> HIDE DEF Fits
<1> QED BY <1>6, <1>7, <1>10, <1>11, <1>12, <1>13

\* As many digits as are reckoned with are enough for what they hold.
LEMMA DigitsFit ==
  ASSUME NEW w \in Nat \ {0}, NEW n \in Nat, n < power[w]
  PROVE  Len(Digits(n)) <= w
<1> DEFINE size == Len(Digits(n))
<1>1. size \in Nat \ {0} /\ (size = 1 \/ n >= power[size - 1])
  BY DigitsType
<1> HIDE DEF size
<1>2. SUFFICES ASSUME ~ (size <= w) PROVE FALSE
  BY DEF size
<1>3. size # 1 /\ size - 1 \in Nat /\ w <= size - 1
  BY <1>1, <1>2
<1>4. power[w] <= power[size - 1] /\ power[w] \in Nat /\ power[size - 1] \in Nat
  BY <1>3, PowerGrows, PowerDef
<1> QED BY <1>1, <1>3, <1>4

\* Numbers below the same power with the same digits are the same.
LEMMA DigitsTell ==
  ASSUME NEW w \in Nat, NEW n \in Nat, NEW m \in Nat, n < power[w], m < power[w],
         \A k \in 1 .. w : (n \div power[w - k]) % Base = (m \div power[w - k]) % Base
  PROVE  n = m
<1> DEFINE G == {i \in Nat : i <= w => n \div power[w - i] = m \div power[w - i]}
<1>1. 0 \in G
  <2>1. w - 0 = w
    OBVIOUS
  <2>2. n \div power[w] = 0 /\ m \div power[w] = 0
    BY DigitOff
  <2> QED BY <2>1, <2>2
<1>2. ASSUME NEW i \in G PROVE i + 1 \in G
  <2> SUFFICES ASSUME i + 1 <= w
               PROVE  n \div power[w - (i + 1)] = m \div power[w - (i + 1)]
    OBVIOUS
  <2> DEFINE j == w - (i + 1)
             k == i + 1
  <2>1. j \in Nat /\ j + 1 = w - i /\ i <= w /\ k \in 1 .. w /\ w - k = j
    OBVIOUS
  <2>2. n \div power[j + 1] = m \div power[j + 1]
    BY <2>1
  <2> HIDE DEF j, k, G
  <2>3. (n \div power[j]) % Base = (m \div power[j]) % Base
    BY <2>1
  <2>4. n \div power[j] = (n \div power[j + 1]) * Base + ((n \div power[j]) % Base)
    BY <2>1, DigitOff
  <2>5. m \div power[j] = (m \div power[j + 1]) * Base + ((m \div power[j]) % Base)
    BY <2>1, DigitOff
  <2>6. n \div power[j] = m \div power[j]
    BY <2>2, <2>3, <2>4, <2>5, Zenon
  <2> QED BY <2>6 DEF j
<1>3. G \in SUBSET Nat
  OBVIOUS
<1> HIDE DEF G
<1>4. G = Nat
  BY <1>1, <1>2, <1>3, NatGrows
<1>5. n \div power[0] = m \div power[0]
  <2>1. w \in G /\ w - w = 0 /\ w <= w
    BY <1>4
  <2> QED BY <2>1 DEF G
<1>6. n \div power[0] = n /\ m \div power[0] = m
  BY DigitOff
<1> QED BY <1>5, <1>6

\* Numbers with the same digits are the same.
LEMMA DigitsAreOne ==
  ASSUME NEW n \in Nat, NEW m \in Nat, Digits(n) = Digits(m)
  PROVE  n = m
<1> DEFINE d == Digits(n)
           w == Len(d)
<1>1. w \in Nat /\ n < power[w] /\ \A k \in 1 .. w : d[k] = (n \div power[w - k]) % Base
  BY DigitsType
<1>2. m < power[w] /\ \A k \in 1 .. w : d[k] = (m \div power[w - k]) % Base
  BY DigitsType
<1> HIDE DEF d, w
<1>3. \A k \in 1 .. w : (n \div power[w - k]) % Base = (m \div power[w - k]) % Base
  BY <1>1, <1>2
<1> QED BY <1>1, <1>2, <1>3, DigitsTell

\* What a width holds takes just that width, and tells its number.
LEMMA PaddedType ==
  ASSUME NEW w \in Nat \ {0}, NEW n \in Nat, n < power[w]
  PROVE  /\ Padded(n, w) \in Seq(Int) /\ Len(Padded(n, w)) = w
         /\ \A k \in 1 .. w : Padded(n, w)[k] = (n \div power[w - k]) % Base
<1> DEFINE d == Digits(n)
           size == Len(d)
           zeros == IF Len(d) < w THEN w - Len(d) ELSE 0
           z == [k \in 1 .. zeros |-> 0]
           p == z \o d
<1>1. /\ d \in Seq(Int) /\ size \in Nat \ {0} /\ n < power[size]
      /\ \A k \in 1 .. size : d[k] = (n \div power[size - k]) % Base
  BY DigitsType
<1>2. size <= w
  BY DigitsFit
<1>3. Padded(n, w) = p
  BY DEF Padded
<1>4. zeros \in Nat /\ zeros + size = w
  BY <1>1, <1>2
<1> HIDE DEF d, zeros
<1>5. z \in Seq(Int) /\ Len(z) = zeros /\ \A k \in 1 .. zeros : z[k] = 0
  BY <1>4
<1> HIDE DEF z
<1>6. /\ p \in Seq(Int) /\ Len(p) = zeros + size
      /\ \A k \in 1 .. zeros + size : p[k] = IF k <= zeros THEN z[k] ELSE d[k - zeros]
  BY <1>1, <1>5, ConcatProperties, ZenonT(30)
<1> HIDE DEF p
<1>7. ASSUME NEW k \in 1 .. w PROVE p[k] = (n \div power[w - k]) % Base
  <2>1. CASE k <= zeros
    <3> DEFINE j == w - k
    <3>1. j \in Nat /\ size <= j /\ k \in 1 .. zeros
      BY <1>1, <1>4, <2>1
    <3> HIDE DEF j
    <3>2. power[size] <= power[j] /\ power[size] \in Nat /\ power[j] \in Nat
      BY <1>1, <3>1, PowerGrows, PowerDef
    <3>3. n < power[j]
      BY <1>1, <3>2
    <3>4. n \div power[j] = 0
      BY <3>1, <3>3, DigitOff
    <3>5. 0 % Base = 0
      BY BytesAssumption
    <3>6. p[k] = 0
      BY <1>4, <1>5, <1>6, <2>1, <3>1
    <3> QED BY <3>4, <3>5, <3>6 DEF j
  <2>2. CASE ~ (k <= zeros)
    <3> DEFINE j == k - zeros
    <3>1. j \in 1 .. size /\ size - j = w - k /\ k \in 1 .. zeros + size
      BY <1>1, <1>4, <2>2
    <3>2. p[k] = d[j]
      BY <1>6, <2>2, <3>1
    <3> HIDE DEF j
    <3>3. d[j] = (n \div power[size - j]) % Base
      BY <1>1, <3>1
    <3> QED BY <3>1, <3>2, <3>3
  <2> QED BY <2>1, <2>2
<1> QED BY <1>3, <1>4, <1>6, <1>7

\* Numbers that a width holds and that are padded to the same text are the same.
LEMMA PaddedAreOne ==
  ASSUME NEW w \in Nat \ {0}, NEW n \in Nat, NEW m \in Nat, n < power[w], m < power[w],
         Padded(n, w) = Padded(m, w)
  PROVE  n = m
<1> DEFINE p == Padded(n, w)
<1>1. \A k \in 1 .. w : p[k] = (n \div power[w - k]) % Base
  BY PaddedType
<1>2. \A k \in 1 .. w : p[k] = (m \div power[w - k]) % Base
  BY PaddedType
<1> HIDE DEF p
<1>3. \A k \in 1 .. w : (n \div power[w - k]) % Base = (m \div power[w - k]) % Base
  BY <1>1, <1>2
<1> QED BY <1>3, DigitsTell

-------------------------------------------------------------------------------
(* The chains that are written.                                              *)

\* The list of the genesis block.
GenesisTl == CreateGenesis(Owner, Minted, Birth).tl

\* The blocks that chains grow by.
BuiltBlock == {b \in Block : b.tl \in TxLists \cup {GenesisTl} /\ b.time \in Times \cup {Birth}}

\* A chain is of such blocks, and so long that a word says how long.
EncodedInv == chain \in Seq(BuiltBlock) /\ Len(chain) \in Number /\ Len(chain) > 0

\* A sealed block is of the list and the time it was built of.
LEMMA SealedIsBuilt ==
  ASSUME NEW prev \in Hash, NEW tl \in Seq(Transaction), NEW time \in Nat
  PROVE  /\ SealBlock(prev, tl, time) \in Block
         /\ SealBlock(prev, tl, time).tl = tl /\ SealBlock(prev, tl, time).time = time
<1> DEFINE content == [tl |-> tl, time |-> time]
           sealed == Append(prev, content)
<1>1. content \in Content
  BY DEF Content
<1> HIDE DEF content
<1>2. sealed \in Hash
  BY <1>1, AppendProperties DEF Hash
<1>3. SealBlock(prev, tl, time)
        = [previusHash |-> prev, tl |-> tl, time |-> time, blockHash |-> sealed]
  BY DEF SealBlock, content
<1> HIDE DEF sealed
<1> QED BY <1>2, <1>3 DEF Block

\* The list of the genesis block.
LEMMA GenesisIs ==
  /\ CreateGenesis(Owner, Minted, Birth) \in BuiltBlock
  /\ \E none \in Address :
       /\ none = ""
       /\ GenesisTl = <<[sender |-> none, receiver |-> Owner, amount |-> Minted, time |-> Birth]>>
<1> DEFINE none == ""
           t    == [sender |-> none, receiver |-> Owner, amount |-> Minted, time |-> Birth]
           list == <<t>>
           nil  == << >>
           g    == CreateGenesis(Owner, Minted, Birth)
<1>1. none \in Address /\ Owner \in Address /\ Minted \in Nat /\ Birth \in Nat
  BY ChainsAssumption, Zenon
<1>2. g = SealBlock(nil, list, Birth)
  BY DEF CreateGenesis
<1> HIDE DEF none
<1>3. t \in Transaction
  BY <1>1 DEF Transaction
<1>4. nil \in Hash
  BY DEF Hash
<1> HIDE DEF t, nil
<1>5. list \in Seq(Transaction)
  BY <1>3
<1> HIDE DEF list
<1>6. g \in Block /\ g.tl = list /\ g.time = Birth
  <2> HIDE DEF g
  <2> QED BY <1>1, <1>2, <1>4, <1>5, SealedIsBuilt
<1>7. GenesisTl = list
  BY <1>6 DEF GenesisTl
<1>8. g \in BuiltBlock
  BY <1>6, <1>7 DEF BuiltBlock
<1>9. none = ""
  BY DEF none
<1> QED BY <1>1, <1>7, <1>8, <1>9, Zenon DEF list, t

\* What may follow a chain is such a block.
LEMMA NextIsBuilt ==
  ASSUME NEW c \in Seq(BuiltBlock), Len(c) > 0, NEW b \in Blocks(c)
  PROVE  b \in BuiltBlock /\ b.tl \in TxLists /\ b.time \in Times
<1>1. GetLastBlock(c).blockHash \in Hash
  <2>1. c[Len(c)] \in Block
    BY ElementOfSeq, LenProperties DEF BuiltBlock
  <2> QED BY <2>1 DEF GetLastBlock, Block
<1>2. PICK prev \in {GetLastBlock(c).blockHash} \cup OtherHashes, list \in TxLists,
           time \in Times :
        \/ b = SealBlock(prev, list, time)
        \/ \E hash \in OtherHashes : b = [SealBlock(prev, list, time) EXCEPT !.blockHash = hash]
  BY DEF Blocks
<1>3. prev \in Hash /\ list \in Seq(Transaction) /\ time \in Nat /\ OtherHashes \subseteq Hash
  BY <1>1, ChainsAssumption
<1>4. b \in Block /\ b.tl = list /\ b.time = time
  <2> DEFINE sealed == SealBlock(prev, list, time)
  <2>1. sealed \in Block /\ sealed.tl = list /\ sealed.time = time
    BY <1>3, SealedIsBuilt
  <2>2. b = sealed \/ \E hash \in OtherHashes : b = [sealed EXCEPT !.blockHash = hash]
    BY <1>2
  <2> HIDE DEF sealed
  <2> QED BY <1>3, <2>1, <2>2 DEF Block
<1> QED BY <1>2, <1>4 DEF BuiltBlock

\* A word tells 0 from 1.
LEMMA NumberHasOne == power[Word] \in Nat /\ 0 \in Number /\ 1 \in Number
<1> DEFINE k == Word - 1
           P == power[Word]
           Q == power[k]
<1>1. k \in Nat /\ k + 1 = Word
  BY BytesAssumption
<1>2. P = Base * Q /\ Q \in Nat \ {0}
  BY <1>1, PowerDef
<1> HIDE DEF P, Q
<1>3. P \in Nat /\ P >= 2
  BY <1>2, BytesAssumption
<1>4. 0 \in 0 .. P - 1 /\ 1 \in 0 .. P - 1
  BY <1>3
<1> QED BY <1>3, <1>4 DEF P, Number

\* It holds of all chains that grow.
LEMMA EncodedInvHolds == Growth => []EncodedInv
<1>1. Start => EncodedInv
  <2> SUFFICES ASSUME Start PROVE EncodedInv
    OBVIOUS
  <2> DEFINE g == CreateGenesis(Owner, Minted, Birth)
  <2>1. g \in BuiltBlock /\ chain = <<g>>
    BY GenesisIs DEF Start, InitBlockchain
  <2> HIDE DEF g
  <2>2. chain \in Seq(BuiltBlock) /\ Len(chain) = 1
    BY <2>1
  <2> QED BY <2>2, NumberHasOne DEF EncodedInv
<1>2. EncodedInv /\ [Grow]_chain => EncodedInv'
  <2>1. ASSUME EncodedInv, Grow PROVE EncodedInv'
    <3>1. PICK b \in Blocks(chain) : chain' = Append(chain, b)
      BY <2>1 DEF Grow
    <3>2. b \in BuiltBlock
      BY <2>1, NextIsBuilt DEF EncodedInv
    <3>3. chain' \in Seq(BuiltBlock) /\ Len(chain') = Len(chain) + 1 /\ Len(chain) \in Nat
      BY <2>1, <3>1, <3>2, AppendProperties DEF EncodedInv
    <3>4. Len(chain) < MaxLen /\ MaxLen \in Number
      BY <2>1, WordsAssumption DEF Grow
    <3>5. Len(chain) + 1 \in Number
      BY <3>3, <3>4, NumberHasOne DEF Number
    <3> QED BY <3>3, <3>5 DEF EncodedInv
  <2>2. ASSUME EncodedInv, UNCHANGED chain PROVE EncodedInv'
    BY <2>2 DEF EncodedInv
  <2> QED BY <2>1, <2>2
<1> QED BY <1>1, <1>2, PTL DEF Growth

\* Everything in such a block is a number that a word holds, or of such a length.
LEMMA RawTxsIsWritten ==
  ASSUME NEW t \in Transaction, RawAmount(t.amount) \in Number, t.time \in Number
  PROVE  RawTxs(t) \in WrittenTxs
<1>1. Characters[t.sender] \in WrittenText /\ Characters[t.receiver] \in WrittenText
  BY WordsAssumption DEF Transaction
<1> QED BY <1>1 DEF RawTxs, WrittenTxs

\* A hash takes a cell.
LEMMA RawHashType ==
  ASSUME NEW h \in Hash
  PROVE  RawHash(h) \in Int
BY DEF RawHash, Hash

\* So is everything in a list of transactions,
LEMMA RawTlIsWritten ==
  ASSUME NEW tl \in TxLists \cup {GenesisTl}
  PROVE  /\ tl \in Seq(Transaction) /\ Len(tl) \in Number
         /\ \A i \in DOMAIN tl : RawTxs(tl[i]) \in WrittenTxs
<1>1. CASE tl \in TxLists
  <2>1. tl \in Seq(Transaction)
    BY <1>1, ChainsAssumption
  <2>2. Len(tl) \in Number
    BY <1>1, WordsAssumption
  <2>3. ASSUME NEW i \in DOMAIN tl PROVE RawTxs(tl[i]) \in WrittenTxs
    <3> DEFINE t == tl[i]
    <3>1. t \in Transaction
      BY <2>1
    <3>2. RawAmount(t.amount) \in Number /\ t.time \in Number
      BY <1>1, WordsAssumption
    <3> HIDE DEF t
    <3>3. RawTxs(t) \in WrittenTxs
      BY <3>1, <3>2, RawTxsIsWritten
    <3> QED BY <3>3 DEF t
  <2> QED BY <2>1, <2>2, <2>3
<1>2. CASE tl = GenesisTl
  <2>1. PICK none \in Address :
          GenesisTl = <<[sender |-> none, receiver |-> Owner, amount |-> Minted, time |-> Birth]>>
    BY GenesisIs, Zenon
  <2> DEFINE t == [sender |-> none, receiver |-> Owner, amount |-> Minted, time |-> Birth]
  <2>2. t.amount = Minted /\ t.time = Birth /\ t \in Transaction
    BY ChainsAssumption DEF Transaction
  <2>3. RawAmount(Minted) \in Number /\ Birth \in Number
    BY WordsAssumption
  <2>4. tl = <<t>>
    BY <1>2, <2>1
  <2> HIDE DEF t
  <2>5. RawTxs(t) \in WrittenTxs
    BY <2>2, <2>3, RawTxsIsWritten
  <2>6. tl \in Seq(Transaction) /\ Len(tl) = 1 /\ DOMAIN tl = {1} /\ tl[1] = t
    BY <2>2, <2>4
  <2> QED BY <2>5, <2>6, NumberHasOne
<1> QED BY <1>1, <1>2

\* in a block,
LEMMA RawBlockIsWritten ==
  ASSUME NEW b \in BuiltBlock
  PROVE  RawBlock(b) \in WrittenBlock
<1> DEFINE tl == b.tl
           raw == [i \in DOMAIN tl |-> RawTxs(tl[i])]
<1>1. /\ b.previusHash \in Hash /\ b.blockHash \in Hash
      /\ tl \in TxLists \cup {GenesisTl} /\ b.time \in Times \cup {Birth}
  BY DEF BuiltBlock, Block
<1>2. RawHash(b.previusHash) \in Int /\ RawHash(b.blockHash) \in Int
  BY <1>1, RawHashType
<1>3. b.time \in Number /\ RawProof(b.time) \in Number
  BY <1>1, WordsAssumption
<1>4. RawBlock(b) = [previusHash |-> RawHash(b.previusHash), blockHash |-> RawHash(b.blockHash),
                     proof |-> RawProof(b.time), time |-> b.time, tl |-> raw]
  BY DEF RawBlock
<1> HIDE DEF tl
<1>5. /\ tl \in Seq(Transaction) /\ Len(tl) \in Number
      /\ \A i \in DOMAIN tl : RawTxs(tl[i]) \in WrittenTxs
  BY <1>1, RawTlIsWritten
<1>6. raw \in Seq(WrittenTxs) /\ Len(raw) = Len(tl)
  <2>1. DOMAIN tl = 1 .. Len(tl) /\ Len(tl) \in Nat
    BY <1>5
  <2>2. raw \in [1 .. Len(tl) -> WrittenTxs]
    BY <1>5, <2>1
  <2> HIDE DEF raw
  <2> QED BY <2>1, <2>2
<1> HIDE DEF raw
<1> QED BY <1>2, <1>3, <1>4, <1>5, <1>6 DEF WrittenBlock

\* and in a chain.
LEMMA RawIsWritten == EncodedInv => Raw \in WrittenChain /\ Len(Raw) = Len(chain)
<1> SUFFICES ASSUME EncodedInv PROVE Raw \in WrittenChain /\ Len(Raw) = Len(chain)
  OBVIOUS
<1>1. chain \in Seq(BuiltBlock) /\ Len(chain) \in Number
  BY DEF EncodedInv
<1>2. DOMAIN chain = 1 .. Len(chain) /\ Len(chain) \in Nat
  BY <1>1
<1>3. ASSUME NEW k \in 1 .. Len(chain) PROVE RawBlock(chain[k]) \in WrittenBlock
  <2> DEFINE b == chain[k]
  <2>1. b \in BuiltBlock
    BY <1>1
  <2> HIDE DEF b
  <2>2. RawBlock(b) \in WrittenBlock
    BY <2>1, RawBlockIsWritten
  <2> QED BY <2>2 DEF b
<1> DEFINE raw == [k \in 1 .. Len(chain) |-> RawBlock(chain[k])]
<1>4. raw \in [1 .. Len(chain) -> WrittenBlock]
  BY <1>3
<1>5. Raw = raw
  BY <1>2 DEF Raw
<1> HIDE DEF raw
<1>6. raw \in Seq(WrittenBlock) /\ Len(raw) = Len(chain)
  BY <1>2, <1>4
<1> QED BY <1>1, <1>5, <1>6 DEF WrittenChain

\* Every chain that grows is read back as it was written.
THEOREM ChainIsReadBack == Growth => []DecodeInvertsEncode
<1>1. EncodedInv => DecodeInvertsEncode
  BY RawIsWritten, ChainReadsBack DEF DecodeInvertsEncode
<1> QED BY <1>1, EncodedInvHolds, PTL

\* The newest block.
LEMMA NewestIs ==
  ASSUME EncodedInv
  PROVE  /\ Raw \in WrittenChain /\ Len(Raw) = Len(chain)
         /\ \E b \in BuiltBlock : b = chain[Len(chain)] /\ Newest = RawBlock(b)
         /\ Newest \in WrittenBlock
<1>1. chain \in Seq(BuiltBlock) /\ Len(chain) \in Nat /\ Len(chain) > 0
  BY DEF EncodedInv
<1>2. chain[Len(chain)] \in BuiltBlock /\ Len(chain) \in DOMAIN chain
  BY <1>1
<1>3. Raw \in WrittenChain /\ Len(Raw) = Len(chain)
  BY RawIsWritten
<1>4. Newest = RawBlock(chain[Len(chain)])
  BY <1>2, <1>3 DEF Newest, Raw
<1>5. RawBlock(chain[Len(chain)]) \in WrittenBlock
  <2> DEFINE b == chain[Len(chain)]
  <2> HIDE DEF b
  <2>1. b \in BuiltBlock
    BY <1>2 DEF b
  <2>2. RawBlock(b) \in WrittenBlock
    BY <2>1, RawBlockIsWritten
  <2> QED BY <2>2 DEF b
<1> QED BY <1>2, <1>3, <1>4, <1>5

\* The text mining hashes is the text of the block, but for a proof of 0.
THEOREM ProofsAreForTheirBlocks == Growth => []ProofIsForTheBlock
<1>1. ASSUME EncodedInv PROVE ProofIsForTheBlock
  <2> DEFINE b == Newest
             d == Digits(b.proof)
  <2> SUFFICES ASSUME b.proof > 0 PROVE MinedText(b) = HashText(b)
    BY DEF ProofIsForTheBlock
  <2>1. b.proof \in Number
    BY <1>1, NewestIs DEF WrittenBlock
  <2>2. b.proof \in Nat /\ b.proof # 0
    BY <2>1, NumberType
  <2>3. d \in Seq(Int) /\ LenOfProof(b.proof) = Len(d)
    BY <2>2, DigitsType DEF LenOfProof
  <2>4. SubSeq(d, 1, Len(d)) = d
    <3> HIDE DEF d
    <3> QED BY <2>3
  <2>5. SubSeq(d, 1, LenOfProof(b.proof)) = d
    BY <2>3, <2>4
  <2> QED BY <2>5 DEF MinedText, HashText
<1> QED BY <1>1, EncodedInvHolds, PTL

-------------------------------------------------------------------------------
(* What is printed, and the room for it.                                     *)

\* The number that stands for each of the literals.
LEMMA LitsDiffer ==
  /\ Lit(",") = -1 /\ Lit("}") = -2 /\ Lit("]}") = -3 /\ Lit("{sender:") = -4
  /\ Lit(",receiver:") = -5 /\ Lit(",amount:") = -6 /\ Lit(",time:") = -7
  /\ Lit("{previousHash:") = -8 /\ Lit(",currentHash:") = -9 /\ Lit(",proof:") = -10
  /\ Lit(",transactions:[") = -11 /\ Lit("{transactions:[") = -12 /\ Lit("{blocks:[") = -13
<1>1. DOMAIN Literals = 1 .. 13
  BY DEF Literals
<1>2. /\ Literals[1] = "," /\ Literals[2] = "}" /\ Literals[3] = "]}"
      /\ Literals[4] = "{sender:" /\ Literals[5] = ",receiver:"
      /\ Literals[6] = ",amount:" /\ Literals[7] = ",time:"
      /\ Literals[8] = "{previousHash:" /\ Literals[9] = ",currentHash:"
      /\ Literals[10] = ",proof:" /\ Literals[11] = ",transactions:["
      /\ Literals[12] = "{transactions:[" /\ Literals[13] = "{blocks:["
  BY DEF Literals
<1>3. \A i, k \in 1 .. 13 : Literals[i] = Literals[k] => i = k
  <2>1. \A i \in 1 .. 13 : \/ i = 1 \/ i = 2 \/ i = 3 \/ i = 4 \/ i = 5 \/ i = 6 \/ i = 7
                           \/ i = 8 \/ i = 9 \/ i = 10 \/ i = 11 \/ i = 12 \/ i = 13
    OBVIOUS
  <2> QED BY <1>2, <2>1, ZenonT(60)
<1>4. \A k \in 1 .. 13 : Lit(Literals[k]) = -k
  <2> DEFINE V == Literals
  <2>1. ASSUME NEW k \in 1 .. 13 PROVE (CHOOSE i \in 1 .. 13 : V[i] = V[k]) = k
    <3> HIDE DEF V
    <3> QED BY <1>3 DEF V
  <2> QED BY <1>1, <2>1, Zenon DEF Lit
<1>5. /\ 1 \in 1 .. 13 /\ 2 \in 1 .. 13 /\ 3 \in 1 .. 13 /\ 4 \in 1 .. 13
      /\ 5 \in 1 .. 13 /\ 6 \in 1 .. 13 /\ 7 \in 1 .. 13 /\ 8 \in 1 .. 13
      /\ 9 \in 1 .. 13 /\ 10 \in 1 .. 13 /\ 11 \in 1 .. 13 /\ 12 \in 1 .. 13
      /\ 13 \in 1 .. 13
  OBVIOUS
<1>6. /\ Lit(Literals[1]) = -1 /\ Lit(Literals[2]) = -2 /\ Lit(Literals[3]) = -3
      /\ Lit(Literals[4]) = -4 /\ Lit(Literals[5]) = -5 /\ Lit(Literals[6]) = -6
      /\ Lit(Literals[7]) = -7 /\ Lit(Literals[8]) = -8 /\ Lit(Literals[9]) = -9
      /\ Lit(Literals[10]) = -10 /\ Lit(Literals[11]) = -11 /\ Lit(Literals[12]) = -12
      /\ Lit(Literals[13]) = -13
  BY <1>4, <1>5, Zenon
<1> QED BY <1>2, <1>6, Zenon

\* They are cells.
LEMMA LitsAre ==
  /\ Lit(",") \in Int /\ Lit("}") \in Int /\ Lit("]}") \in Int
  /\ Lit("{sender:") \in Int /\ Lit(",receiver:") \in Int
  /\ Lit(",amount:") \in Int /\ Lit(",time:") \in Int
  /\ Lit("{previousHash:") \in Int /\ Lit(",currentHash:") \in Int
  /\ Lit(",proof:") \in Int /\ Lit(",transactions:[") \in Int
<1>1. /\ -1 \in Int /\ -2 \in Int /\ -3 \in Int /\ -4 \in Int /\ -5 \in Int /\ -6 \in Int
      /\ -7 \in Int /\ -8 \in Int /\ -9 \in Int /\ -10 \in Int /\ -11 \in Int
  OBVIOUS
<1> QED BY <1>1, LitsDiffer, Zenon

\* A list's items as they are printed, and what is printed of those before one.
LEMMA CommasType ==
  ASSUME NEW items \in Seq(Seq(Int))
  PROVE  /\ WithCommas(items) \in Seq(Int)
         /\ \A i \in 1 .. Len(items) :
              /\ Before(items, i) \in Nat
              /\ Len(items[i]) \in Nat
              /\ Len(Item(items, i)) = IF i = Len(items) THEN Len(items[i]) ELSE Len(items[i]) + 1
<1> DEFINE n == Len(items)
           comma == Lit(",")
           it == [i \in DOMAIN items |-> Item(items, i)]
<1>1. comma \in Int
  BY LitsAre, Zenon
<1>2. n \in Nat /\ DOMAIN items = 1 .. n /\ \A i \in 1 .. n : items[i] \in Seq(Int)
  OBVIOUS
<1>3. \A i : Item(items, i) = IF i = n THEN items[i] ELSE Append(items[i], comma)
  BY Zenon DEF Item
<1> HIDE DEF comma, n
<1>4. ASSUME NEW i \in 1 .. n
      PROVE  /\ Len(items[i]) \in Nat /\ Item(items, i) \in Seq(Int)
             /\ Len(Item(items, i)) = IF i = n THEN Len(items[i]) ELSE Len(items[i]) + 1
  <2> DEFINE item == items[i]
  <2>1. item \in Seq(Int) /\ Len(item) \in Nat
    BY <1>2
  <2>2. Item(items, i) = IF i = n THEN item ELSE Append(item, comma)
    BY <1>3
  <2> HIDE DEF item
  <2>3. Append(item, comma) \in Seq(Int) /\ Len(Append(item, comma)) = Len(item) + 1
    BY <1>1, <2>1, AppendProperties
  <2>4. /\ Item(items, i) \in Seq(Int)
        /\ Len(Item(items, i)) = IF i = n THEN Len(item) ELSE Len(item) + 1
    BY <2>1, <2>2, <2>3
  <2> QED BY <2>1, <2>4 DEF item
<1>5. WithCommas(items) \in Seq(Int)
  <2>1. WithCommas(items) = FlattenSeq(it)
    BY DEF WithCommas
  <2>2. it \in [1 .. n -> Seq(Int)]
    BY <1>2, <1>4
  <2> HIDE DEF it
  <2>3. it \in Seq(Seq(Int))
    BY <1>2, <2>2
  <2>4. FlattenSeq(it) \in Seq(Int)
    BY <2>3, FlattenHolds
  <2> QED BY <2>1, <2>4
<1>6. ASSUME NEW i \in 1 .. n PROVE Before(items, i) \in Nat
  <2> DEFINE pre == [j \in 1 .. i - 1 |-> Item(items, j)]
  <2>1. pre \in [1 .. i - 1 -> Seq(Int)] /\ i - 1 \in Nat
    BY <1>2, <1>4
  <2>2. Before(items, i) = Len(FlattenSeq(pre))
    BY DEF Before
  <2> HIDE DEF pre
  <2>3. pre \in Seq(Seq(Int))
    BY <2>1
  <2>4. FlattenSeq(pre) \in Seq(Int)
    BY <2>3, FlattenHolds
  <2>5. Len(FlattenSeq(pre)) \in Nat
    BY <2>4
  <2> QED BY <2>2, <2>5
<1> QED BY <1>4, <1>5, <1>6 DEF n

\* What is printed of a transaction.
LEMMA TxsToJsonType ==
  ASSUME NEW t \in WrittenTxs
  PROVE  /\ TxsToJson(t) \in Seq(Int)
         /\ Len(TxsToJson(t)) = 5 + Len(t.sender) + Len(t.receiver) + Len(Digits(t.amount))
                                  + Len(Digits(t.time))
         /\ Len(t.sender) \in Nat /\ Len(t.receiver) \in Nat
         /\ Len(Digits(t.amount)) \in Nat /\ Len(Digits(t.time)) \in Nat
<1> DEFINE l1 == <<Lit("{sender:")>>
           l2 == <<Lit(",receiver:")>>
           l3 == <<Lit(",amount:")>>
           l4 == <<Lit(",time:")>>
           l5 == <<Lit("}")>>
           s == t.sender
           r == t.receiver
           a == Digits(t.amount)
           d == Digits(t.time)
           c7 == l1 \o s \o l2 \o r \o l3 \o a \o l4
           c8 == c7 \o d
           c9 == c8 \o l5
<1>1. /\ l1 \in Seq(Int) /\ Len(l1) = 1 /\ l2 \in Seq(Int) /\ Len(l2) = 1
      /\ l3 \in Seq(Int) /\ Len(l3) = 1 /\ l4 \in Seq(Int) /\ Len(l4) = 1
      /\ l5 \in Seq(Int) /\ Len(l5) = 1
  <2>1. \A x \in Int : <<x>> \in Seq(Int) /\ Len(<<x>>) = 1
    OBVIOUS
  <2> QED BY <2>1, LitsAre, Zenon
<1>2. TxsToJson(t) = c9
  BY DEF TxsToJson
<1>3. s \in Seq(Int) /\ r \in Seq(Int) /\ t.amount \in Nat /\ t.time \in Nat
  BY NumberType DEF WrittenTxs, WrittenText
<1>4. a \in Seq(Int) /\ d \in Seq(Int)
  BY <1>3, DigitsType
<1>5. Len(s) \in Nat /\ Len(r) \in Nat /\ Len(a) \in Nat /\ Len(d) \in Nat
  BY <1>3, <1>4, LenProperties
<1> HIDE DEF l1, l2, l3, l4, l5, s, r, a, d
<1>6. InSeven(c7, l1, s, l2, r, l3, a, l4)
  BY <1>1, <1>3, <1>4, SevenParts, Zenon
<1>7. c7 \in Seq(Int) /\ Len(c7) = Len(l1) + Len(s) + Len(l2) + Len(r) + Len(l3) + Len(a) + Len(l4)
  BY <1>6, Zenon DEF InSeven
<1> HIDE DEF c7
<1>8. c8 \in Seq(Int) /\ Len(c8) = Len(c7) + Len(d)
  BY <1>4, <1>7, Joined
<1> HIDE DEF c8
<1>9. c9 \in Seq(Int) /\ Len(c9) = Len(c8) + Len(l5)
  BY <1>1, <1>8, Joined
<1> HIDE DEF c9
<1>10. Len(c9) = 5 + Len(s) + Len(r) + Len(a) + Len(d)
  BY <1>1, <1>5, <1>7, <1>8, <1>9
<1> QED BY <1>2, <1>5, <1>9, <1>10 DEF s, r, a, d

\* What is printed of the transactions of a block.
LEMMA TxsItemsType ==
  ASSUME NEW tl \in Seq(WrittenTxs)
  PROVE  TxsItems(tl) \in Seq(Seq(Int)) /\ Len(TxsItems(tl)) = Len(tl)
<1> DEFINE n == Len(tl)
           items == TxsItems(tl)
<1>1. n \in Nat /\ DOMAIN tl = 1 .. n /\ \A i \in 1 .. n : tl[i] \in WrittenTxs
  OBVIOUS
<1>2. items = [i \in 1 .. n |-> TxsToJson(tl[i])]
  BY <1>1 DEF TxsItems
<1> HIDE DEF n, items
<1>3. ASSUME NEW i \in 1 .. n PROVE TxsToJson(tl[i]) \in Seq(Int)
  <2> DEFINE t == tl[i]
  <2>1. t \in WrittenTxs
    BY <1>1
  <2> HIDE DEF t
  <2>2. TxsToJson(t) \in Seq(Int)
    BY <2>1, TxsToJsonType
  <2> QED BY <2>2 DEF t
<1>4. items \in [1 .. n -> Seq(Int)]
  BY <1>2, <1>3
<1>5. items \in Seq(Seq(Int)) /\ Len(items) = n
  BY <1>1, <1>4
<1> QED BY <1>5 DEF n, items

\* What is printed of a block.
LEMMA BlockToJsonType ==
  ASSUME NEW b \in WrittenBlock
  PROVE  /\ BlockToJson(b) \in Seq(Int)
         /\ Len(BlockToJson(b)) = 8 + Len(Digits(b.proof)) + Len(Digits(b.time))
                                    + Len(WithCommas(TxsItems(b.tl)))
         /\ Len(Digits(b.proof)) \in Nat /\ Len(Digits(b.time)) \in Nat
         /\ Len(WithCommas(TxsItems(b.tl))) \in Nat
<1> DEFINE x1 == Lit("{previousHash:")
           x2 == Lit(",currentHash:")
           x3 == Lit(",proof:")
           l1 == <<x1, b.previusHash, x2, b.blockHash, x3>>
           l2 == <<Lit(",time:")>>
           l3 == <<Lit(",transactions:[")>>
           l4 == <<Lit("]}")>>
           p == Digits(b.proof)
           d == Digits(b.time)
           w == WithCommas(TxsItems(b.tl))
           c == l1 \o p \o l2 \o d \o l3 \o w \o l4
<1>1. BlockToJson(b) = c
  BY DEF BlockToJson
<1>2. /\ b.previusHash \in Int /\ b.blockHash \in Int /\ b.proof \in Nat /\ b.time \in Nat
      /\ b.tl \in Seq(WrittenTxs)
  BY NumberType DEF WrittenBlock
<1>3. l2 \in Seq(Int) /\ Len(l2) = 1 /\ l3 \in Seq(Int) /\ Len(l3) = 1
      /\ l4 \in Seq(Int) /\ Len(l4) = 1
  <2>1. \A x \in Int : <<x>> \in Seq(Int) /\ Len(<<x>>) = 1
    OBVIOUS
  <2> QED BY <2>1, LitsAre, Zenon
<1>4. l1 \in Seq(Int) /\ Len(l1) = 5
  <2>1. x1 \in Int /\ x2 \in Int /\ x3 \in Int
    BY LitsAre, Zenon
  <2> HIDE DEF x1, x2, x3
  <2> QED BY <1>2, <2>1
<1>5. p \in Seq(Int) /\ d \in Seq(Int)
  BY <1>2, DigitsType
<1>6. w \in Seq(Int)
  <2> DEFINE items == TxsItems(b.tl)
  <2>1. items \in Seq(Seq(Int))
    BY <1>2, TxsItemsType
  <2> HIDE DEF items
  <2>2. WithCommas(items) \in Seq(Int)
    BY <2>1, CommasType
  <2> QED BY <2>2 DEF items
<1>7. Len(p) \in Nat /\ Len(d) \in Nat /\ Len(w) \in Nat
  BY <1>5, <1>6, LenProperties
<1> HIDE DEF l1, l2, l3, l4, p, d, w
<1>8. InSeven(c, l1, p, l2, d, l3, w, l4)
  BY <1>3, <1>4, <1>5, <1>6, SevenParts, Zenon
<1> HIDE DEF c
<1>9. c \in Seq(Int) /\ Len(c) = Len(l1) + Len(p) + Len(l2) + Len(d) + Len(l3) + Len(w) + Len(l4)
  BY <1>8, Zenon DEF InSeven
<1>10. Len(c) = 8 + Len(p) + Len(d) + Len(w)
  BY <1>3, <1>4, <1>7, <1>9
<1> QED BY <1>1, <1>7, <1>9, <1>10 DEF p, d, w

\* The transactions whose numbers the widths of the texts hold.
TextTxs == {t \in [sender : Seq(Int), receiver : Seq(Int), amount : Nat, time : Nat] :
              t.amount < power[AmountDigits] /\ t.time < power[TimeDigits]}

\* Such are all that are written, if the widths hold their numbers.
LEMMA WrittenIsText ==
  ASSUME NEW t \in WrittenTxs, TxsInDigits(t)
  PROVE  t \in TextTxs
<1>1. t \in [sender : Seq(Int), receiver : Seq(Int), amount : Nat, time : Nat]
  BY NumberType DEF WrittenTxs, WrittenText
<1>2. t.amount < power[AmountDigits] /\ t.time < power[TimeDigits]
  BY DEF TxsInDigits
<1> QED BY <1>1, <1>2 DEF TextTxs

\* The text of a transaction is its keys and as many characters as the widths say.
LEMMA TextType ==
  ASSUME NEW t \in TextTxs
  PROVE  /\ t.sender \in Seq(Int) /\ t.receiver \in Seq(Int)
         /\ t.amount \in Nat /\ t.amount < power[AmountDigits]
         /\ t.time \in Nat /\ t.time < power[TimeDigits]
         /\ Padded(t.amount, AmountDigits) \in Seq(Int)
         /\ Len(Padded(t.amount, AmountDigits)) = AmountDigits
         /\ Padded(t.time, TimeDigits) \in Seq(Int)
         /\ Len(Padded(t.time, TimeDigits)) = TimeDigits
         /\ TxsToString(t) \in Seq(Int)
         /\ Len(TxsToString(t)) = Len(t.sender) + Len(t.receiver) + AmountDigits + TimeDigits
<1> DEFINE s == t.sender
           r == t.receiver
           a == Padded(t.amount, AmountDigits)
           d == Padded(t.time, TimeDigits)
           c2 == s \o r
           c3 == c2 \o a
           c4 == c3 \o d
<1>1. /\ s \in Seq(Int) /\ r \in Seq(Int) /\ t.amount \in Nat /\ t.time \in Nat
      /\ t.amount < power[AmountDigits] /\ t.time < power[TimeDigits]
  BY DEF TextTxs
<1>2. AmountDigits \in Nat \ {0} /\ TimeDigits \in Nat \ {0}
  BY CodecAssumption
<1>3. a \in Seq(Int) /\ Len(a) = AmountDigits /\ d \in Seq(Int) /\ Len(d) = TimeDigits
  BY <1>1, <1>2, PaddedType
<1>4. TxsToString(t) = c4
  BY DEF TxsToString
<1> HIDE DEF s, r, a, d
<1>5. c2 \in Seq(Int) /\ Len(c2) = Len(s) + Len(r)
  BY <1>1, Joined
<1> HIDE DEF c2
<1>6. c3 \in Seq(Int) /\ Len(c3) = Len(c2) + Len(a)
  BY <1>3, <1>5, Joined
<1> HIDE DEF c3
<1>7. c4 \in Seq(Int) /\ Len(c4) = Len(c3) + Len(d)
  BY <1>3, <1>6, Joined
<1> HIDE DEF c4
<1>8. Len(c4) = Len(s) + Len(r) + AmountDigits + TimeDigits
  BY <1>3, <1>5, <1>6, <1>7
<1> QED BY <1>1, <1>3, <1>4, <1>7, <1>8 DEF s, r, a, d

\* 0 has one digit.
LEMMA DigitsOfZero == Len(Digits(0)) = 1
<1> DEFINE l == Len(Digits(0))
<1>1. l \in Nat \ {0} /\ (l = 1 \/ 0 >= power[l - 1])
  BY DigitsType
<1> HIDE DEF l
<1>2. l # 1 => l - 1 \in Nat /\ power[l - 1] \in Nat \ {0}
  BY <1>1, PowerDef
<1>3. l = 1
  BY <1>1, <1>2
<1> QED BY <1>3 DEF l

\* The text that testproof prints, in cells.
LEMMA MinedTextLen ==
  ASSUME NEW b \in WrittenBlock, b.time < power[TimeDigits]
  PROVE  Len(MinedText(b)) = Len(Digits(b.proof)) + TimeDigits + 2
<1> DEFINE p == Digits(b.proof)
           d == Padded(b.time, TimeDigits)
           h == <<b.previusHash, MerkleHash(b)>>
           pd == p \o d
<1>1. b.proof \in Nat /\ b.time \in Nat
  BY NumberType DEF WrittenBlock
<1>2. p \in Seq(Int) /\ Len(p) \in Nat
  BY <1>1, DigitsType
<1>3. d \in Seq(Int) /\ Len(d) = TimeDigits /\ TimeDigits \in Nat
  BY <1>1, CodecAssumption, PaddedType
<1>4. MinedText(b) = pd \o h
  BY DEF MinedText
<1> DEFINE Cells == Int \cup {MerkleHash(b)}
<1>5. h \in Seq(Cells) /\ Len(h) = 2
  <2> DEFINE v == MerkleHash(b)
  <2>1. b.previusHash \in Cells /\ v \in Cells
    BY DEF WrittenBlock
  <2> HIDE DEF v, Cells
  <2>2. <<b.previusHash, v>> \in Seq(Cells) /\ Len(<<b.previusHash, v>>) = 2
    BY <2>1
  <2> QED BY <2>2 DEF v
<1>6. Seq(Int) \subseteq Seq(Cells)
  <2>1. Int \subseteq Cells
    OBVIOUS
  <2> HIDE DEF Cells
  <2> QED BY <2>1, SeqMonotonic, Zenon
<1> HIDE DEF p, d, h, Cells
<1>7. pd \in Seq(Int) /\ Len(pd) = Len(p) + Len(d)
  BY <1>2, <1>3, Joined
<1> HIDE DEF pd
<1>8. Len(pd \o h) = Len(pd) + Len(h)
  BY <1>5, <1>6, <1>7, ConcatProperties
<1> QED BY <1>2, <1>3, <1>4, <1>5, <1>7, <1>8 DEF p

\* What there is room for, and the two texts for which there is too little.
LEMMA TextsOfNewestFit ==
  ASSUME EncodedInv
  PROVE  TextsFitButTwo
<1> DEFINE b == Newest
           tl == b.tl
           items == TxsItems(tl)
           bitems == BlockItems(Raw)
<1>1. b \in WrittenBlock /\ Raw \in Seq(WrittenBlock)
  BY NewestIs DEF WrittenChain
<1>4. tl \in Seq(WrittenTxs)
  BY <1>1 DEF WrittenBlock
<1>5. items \in Seq(Seq(Int)) /\ Len(items) = Len(tl)
  BY <1>4, TxsItemsType
<1>6. DOMAIN tl = 1 .. Len(tl) /\ \A i \in DOMAIN tl : items[i] = TxsToJson(tl[i])
  BY <1>4 DEF TxsItems
<1>7. AmountDigits \in Nat \ {0} /\ TimeDigits \in Nat \ {0}
  BY CodecAssumption
<1>9. b.time \in Nat /\ b.proof \in Nat
  BY <1>1, NumberType DEF WrittenBlock
<1> HIDE DEF tl, items, b
<1>10. ASSUME NEW i \in DOMAIN tl, TxsInDigits(tl[i])
       PROVE  /\ Len(TxsToString(tl[i])) < TxsToStringRoom(tl[i])
              /\ Len(TxsToJson(tl[i])) < TxsToJsonRoom(tl[i])
  <2> DEFINE t == tl[i]
             s == Len(t.sender)
             r == Len(t.receiver)
             a == Len(Digits(t.amount))
             d == Len(Digits(t.time))
  <2>0. t \in WrittenTxs
    BY <1>4
  <2>1. t \in TextTxs
    BY <1>10, <2>0, WrittenIsText
  <2> HIDE DEF t
  <2>2. /\ t.amount \in Nat /\ t.amount < power[AmountDigits]
        /\ t.time \in Nat /\ t.time < power[TimeDigits]
        /\ Len(TxsToString(t)) = s + r + AmountDigits + TimeDigits
    BY <2>1, TextType
  <2>3. a <= AmountDigits /\ d <= TimeDigits
    BY <1>7, <2>2, DigitsFit
  <2>4. /\ Len(TxsToJson(t)) = 5 + s + r + a + d
        /\ s \in Nat /\ r \in Nat /\ a \in Nat /\ d \in Nat
    BY <2>0, TxsToJsonType
  <2>5. /\ TxsToStringRoom(t) = s + r + AmountDigits + TimeDigits + 1
        /\ TxsToJsonRoom(t) = 5 + s + r + AmountDigits + TimeDigits + 1
    BY DEF TxsToStringRoom, TxsToJsonRoom
  <2> HIDE DEF s, r, a, d
  <2>6. Len(TxsToString(t)) < TxsToStringRoom(t) /\ Len(TxsToJson(t)) < TxsToJsonRoom(t)
    BY <1>7, <2>2, <2>3, <2>4, <2>5
  <2> QED BY <2>6 DEF t
<1>13. ASSUME NEW i \in DOMAIN tl
       PROVE  /\ Before(items, i) + Len(Item(items, i)) < TlToJsonRoom(items, i)
              /\ Before(items, i) + Len(Item(items, i)) + 1
                   = RestxsRoom(items, i) + IF i = Len(items) THEN 0 ELSE 1
  <2> DEFINE x == Before(items, i)
             y == Len(items[i])
             z == Len(Item(items, i))
             n == Len(items)
  <2>1. x \in Nat /\ y \in Nat /\ z = IF i = n THEN y ELSE y + 1
    BY <1>5, <1>6, CommasType
  <2>2. TlToJsonRoom(items, i) = x + y + 2 /\ RestxsRoom(items, i) = x + y + 1
    BY DEF TlToJsonRoom, RestxsRoom
  <2> HIDE DEF x, y, z, n
  <2>3. x + z < x + y + 2 /\ x + z + 1 = x + y + 1 + IF i = n THEN 0 ELSE 1
    BY <2>1
  <2> QED BY <2>2, <2>3 DEF x, z, n
<1>11. ASSUME b.time < power[TimeDigits]
       PROVE  /\ b.proof > 0 \/ Len(Digits(b.time)) < TimeDigits
                   => Len(BlockToJson(b)) < BlockToJsonRoom(b)
              /\ Len(MinedText(b)) + 1
                   = TestproofRoom(b.proof) + TimeDigits + IF b.proof = 0 THEN 1 ELSE 0
  <2> DEFINE p == Len(Digits(b.proof))
             d == Len(Digits(b.time))
             w == Len(WithCommas(TxsItems(b.tl)))
  <2>1. /\ Len(BlockToJson(b)) = 8 + p + d + w
        /\ p \in Nat /\ d \in Nat /\ w \in Nat
    BY <1>1, BlockToJsonType
  <2>2. d <= TimeDigits
    BY <1>7, <1>9, <1>11, DigitsFit
  <2>3. /\ BlockToJsonRoom(b) = 6 + 2 + (IF b.proof = 0 THEN 0 ELSE p) + TimeDigits + w + 1
        /\ TestproofRoom(b.proof) = 2 + (IF b.proof = 0 THEN 0 ELSE p) + 1
    BY DEF BlockToJsonRoom, TestproofRoom, LenOfProof
  <2>4. b.proof = 0 => p = 1
    BY DigitsOfZero
  <2>5. Len(MinedText(b)) = p + TimeDigits + 2
    BY <1>1, <1>11, MinedTextLen
  <2> HIDE DEF p, d, w
  <2>6. b.proof > 0 \/ d < TimeDigits => Len(BlockToJson(b)) < BlockToJsonRoom(b)
    BY <1>7, <1>9, <2>1, <2>2, <2>3, <2>4
  <2>7. Len(MinedText(b)) + 1
          = TestproofRoom(b.proof) + TimeDigits + IF b.proof = 0 THEN 1 ELSE 0
    BY <1>7, <2>1, <2>3, <2>4, <2>5
  <2> QED BY <2>6, <2>7 DEF d
<1>12. ASSUME NEW i \in DOMAIN Raw
       PROVE  Before(bitems, i) + Len(Item(bitems, i)) < BlockchainToJsonRoom(bitems, i)
  <2> DEFINE n == Len(Raw)
  <2>1. n \in Nat /\ DOMAIN Raw = 1 .. n /\ \A k \in 1 .. n : Raw[k] \in WrittenBlock
    BY <1>1
  <2>2. bitems = [k \in 1 .. n |-> BlockToJson(Raw[k])]
    BY <2>1 DEF BlockItems
  <2>3. ASSUME NEW k \in 1 .. n PROVE BlockToJson(Raw[k]) \in Seq(Int)
    <3> DEFINE rb == Raw[k]
    <3>1. rb \in WrittenBlock
      BY <2>1
    <3> HIDE DEF rb
    <3>2. BlockToJson(rb) \in Seq(Int)
      BY <3>1, BlockToJsonType
    <3> QED BY <3>2 DEF rb
  <2> HIDE DEF n, bitems
  <2>4. bitems \in [1 .. n -> Seq(Int)]
    BY <2>2, <2>3
  <2>5. bitems \in Seq(Seq(Int)) /\ Len(bitems) = n
    BY <2>1, <2>4
  <2> DEFINE x == Before(bitems, i)
             y == Len(bitems[i])
             z == Len(Item(bitems, i))
  <2>6. x \in Nat /\ y \in Nat /\ z = IF i = n THEN y ELSE y + 1
    BY <2>1, <2>5, CommasType
  <2>7. BlockchainToJsonRoom(bitems, i) = x + y + IF i = n THEN 1 ELSE 2
    BY <2>5 DEF BlockchainToJsonRoom
  <2> HIDE DEF x, y, z
  <2>8. x + z < x + y + IF i = n THEN 1 ELSE 2
    BY <2>6
  <2> QED BY <2>7, <2>8 DEF x, z
<1> QED BY <1>10, <1>11, <1>12, <1>13 DEF TextsFitButTwo, tl, items, b

\* In every chain that grows, the texts that are printed have room, but for two that exceed
\* it by just so many cells.
THEOREM TextsHaveRoomButTwo == Growth => []TextsFitButTwo
BY TextsOfNewestFit, EncodedInvHolds, PTL

-------------------------------------------------------------------------------
(* What a hash commits to.                                                   *)

\* What the text of a list tells, of keys of such lengths.
Keyed(s, r) == {t \in TextTxs : Len(t.sender) = s /\ Len(t.receiver) = r}
TextSize(s, r) == s + r + AmountDigits + TimeDigits

\* The text of a list is that of each of its transactions, at the multiples of their size.
LEMMA TlStringType ==
  ASSUME NEW s \in Nat, NEW r \in Nat, NEW tl \in Seq(Keyed(s, r))
  PROVE  /\ TlToString(tl) \in Seq(Int)
         /\ Len(TlToString(tl)) = Len(tl) * TextSize(s, r)
         /\ \A i \in 1 .. Len(tl) :
              /\ (i - 1) * TextSize(s, r) \in Nat
              /\ Holds(TlToString(tl), (i - 1) * TextSize(s, r), TxsToString(tl[i]))
<1> DEFINE n == Len(tl)
           L == TextSize(s, r)
           items == [i \in DOMAIN tl |-> TxsToString(tl[i])]
           z == Lens(items)
           up(i) == Upto(z, i)
<1>1. n \in Nat /\ DOMAIN tl = 1 .. n /\ \A i \in 1 .. n : tl[i] \in Keyed(s, r)
  OBVIOUS
<1>2. L \in Nat \ {0}
  BY CodecAssumption DEF TextSize
<1>3. TlToString(tl) = FlattenSeq(items)
  BY DEF TlToString
<1>4. items = [i \in 1 .. n |-> TxsToString(tl[i])]
  BY <1>1
<1> HIDE DEF n, items, L
<1>5. ASSUME NEW i \in 1 .. n
      PROVE  TxsToString(tl[i]) \in Seq(Int) /\ Len(TxsToString(tl[i])) = L
  <2> DEFINE t == tl[i]
  <2>1. t \in Keyed(s, r)
    BY <1>1
  <2> HIDE DEF t
  <2>2. t \in TextTxs /\ Len(t.sender) = s /\ Len(t.receiver) = r
    BY <2>1 DEF Keyed
  <2>3. TxsToString(t) \in Seq(Int) /\ Len(TxsToString(t)) = L
    BY <2>2, TextType DEF L, TextSize
  <2> QED BY <2>3 DEF t
<1>6. items \in [1 .. n -> Seq(Int)]
  BY <1>4, <1>5
<1>7. items \in Seq(Seq(Int)) /\ Len(items) = n
  BY <1>1, <1>6
<1>8. z \in [1 .. n -> Nat] /\ \A i \in 1 .. n : z[i] = L
  <2>1. z \in [1 .. n -> Nat] /\ \A i \in 1 .. n : z[i] = Len(items[i])
    BY <1>7, LensType
  <2> QED BY <1>4, <1>5, <2>1
<1> HIDE DEF z
<1>9. up(0) = 0 /\ \A i \in 1 .. n : up(i) = up(i - 1) + z[i]
  BY <1>1, <1>8, UptoGrows
<1> HIDE DEF up
<1> DEFINE G == {i \in Nat : i <= n => up(i) = i * L}
<1>10. 0 \in G
  BY <1>2, <1>9
<1>11. ASSUME NEW i \in G PROVE i + 1 \in G
  <2> SUFFICES ASSUME i + 1 <= n PROVE up(i + 1) = (i + 1) * L
    OBVIOUS
  <2> DEFINE j == i + 1
  <2>1. i \in Nat /\ j \in 1 .. n /\ j - 1 = i /\ up(i) = i * L
    BY <1>1
  <2>2. (i + 1) * L = i * L + L
    BY <1>2, <2>1
  <2> HIDE DEF j
  <2>3. up(j) = up(i) + L
    BY <1>8, <1>9, <2>1
  <2> QED BY <2>1, <2>2, <2>3, Zenon DEF j
<1>12. G \in SUBSET Nat
  OBVIOUS
<1> HIDE DEF G
<1>13. G = Nat
  BY <1>10, <1>11, <1>12, NatGrows
<1>14. \A i \in 0 .. n : up(i) = i * L
  BY <1>1, <1>13 DEF G
<1>15. /\ FlattenSeq(items) \in Seq(Int) /\ Len(FlattenSeq(items)) = up(n)
       /\ \A i \in 1 .. n : up(i - 1) \in Nat /\ Holds(FlattenSeq(items), up(i - 1), items[i])
  <2>1. /\ FlattenSeq(items) \in Seq(Int)
        /\ Len(FlattenSeq(items)) = Upto(Lens(items), Len(items))
        /\ \A i \in 1 .. Len(items) :
             /\ Upto(Lens(items), i - 1) \in Nat
             /\ Holds(FlattenSeq(items), Upto(Lens(items), i - 1), items[i])
    BY <1>7, FlattenHolds, Zenon
  <2> QED BY <1>7, <2>1 DEF up, z
<1>16. ASSUME NEW i \in 1 .. n
       PROVE  (i - 1) * L \in Nat /\ Holds(FlattenSeq(items), (i - 1) * L, TxsToString(tl[i]))
  <2> DEFINE j == i - 1
  <2>1. j \in 0 .. n
    BY <1>1
  <2>2. up(j) \in Nat /\ Holds(FlattenSeq(items), up(j), items[i])
    BY <1>15
  <2> HIDE DEF j
  <2>3. up(j) = j * L
    BY <1>14, <2>1
  <2>4. items[i] = TxsToString(tl[i])
    BY <1>4
  <2> QED BY <2>2, <2>3, <2>4, Zenon DEF j
<1>17. Len(FlattenSeq(items)) = n * L
  BY <1>1, <1>14, <1>15
<1> QED BY <1>3, <1>15, <1>16, <1>17 DEF n, L

\* The text of a transaction tells it, once the length of its keys is known.
LEMMA TxsTextTells ==
  ASSUME NEW s \in Nat, NEW r \in Nat, NEW t \in Keyed(s, r), NEW u \in Keyed(s, r),
         TxsToString(t) = TxsToString(u)
  PROVE  t = u
<1> DEFINE a(x) == Padded(x.amount, AmountDigits)
           d(x) == Padded(x.time, TimeDigits)
           c2(x) == x.sender \o x.receiver
           c3(x) == c2(x) \o a(x)
<1>1. ASSUME NEW x \in Keyed(s, r)
      PROVE  /\ x.sender \in Seq(Int) /\ x.receiver \in Seq(Int)
             /\ Len(x.sender) = s /\ Len(x.receiver) = r
             /\ x.amount \in Nat /\ x.amount < power[AmountDigits]
             /\ x.time \in Nat /\ x.time < power[TimeDigits]
             /\ a(x) \in Seq(Int) /\ Len(a(x)) = AmountDigits
             /\ d(x) \in Seq(Int) /\ Len(d(x)) = TimeDigits
             /\ TxsToString(x) = c3(x) \o d(x)
             /\ x = [sender |-> x.sender, receiver |-> x.receiver,
                     amount |-> x.amount, time |-> x.time]
  <2>1. x \in TextTxs /\ Len(x.sender) = s /\ Len(x.receiver) = r
    BY DEF Keyed
  <2>2. x = [sender |-> x.sender, receiver |-> x.receiver,
             amount |-> x.amount, time |-> x.time]
    BY <2>1 DEF TextTxs
  <2>3. TxsToString(x) = c3(x) \o d(x)
    BY DEF TxsToString
  <2> QED BY <2>1, <2>2, <2>3, TextType
<1>2. ASSUME NEW x \in Keyed(s, r)
      PROVE  c2(x) \in Seq(Int) /\ c3(x) \in Seq(Int)
  <2>1. c2(x) \in Seq(Int)
    BY <1>1, Joined
  <2>2. c3(x) \in Seq(Int)
    BY <1>1, <2>1, Joined
  <2> QED BY <2>1, <2>2
<1> HIDE DEF a, d
<1>3. c3(t) = c3(u) /\ d(t) = d(u)
  <2>1. c3(t) \o d(t) = c3(u) \o d(u) /\ Len(d(t)) = Len(d(u))
    BY <1>1
  <2>2. d(t) \in Seq(Int) /\ d(u) \in Seq(Int) /\ c3(t) \in Seq(Int) /\ c3(u) \in Seq(Int)
    BY <1>1, <1>2
  <2> HIDE DEF c3
  <2>3. PartsTell(c3(t), d(t), c3(u), d(u))
    BY <2>2, ConcatSplit, Zenon
  <2> QED BY <2>1, <2>3, Zenon DEF PartsTell
<1>4. c2(t) = c2(u) /\ a(t) = a(u)
  <2>1. c2(t) \o a(t) = c2(u) \o a(u) /\ Len(a(t)) = Len(a(u))
    BY <1>1, <1>3
  <2>2. a(t) \in Seq(Int) /\ a(u) \in Seq(Int) /\ c2(t) \in Seq(Int) /\ c2(u) \in Seq(Int)
    BY <1>1, <1>2
  <2> HIDE DEF c2
  <2>3. PartsTell(c2(t), a(t), c2(u), a(u))
    BY <2>2, ConcatSplit, Zenon
  <2> QED BY <2>1, <2>3, Zenon DEF PartsTell
<1>5. t.sender = u.sender /\ t.receiver = u.receiver
  <2>1. t.sender \o t.receiver = u.sender \o u.receiver
    BY <1>4
  <2>2. /\ t.sender \in Seq(Int) /\ t.receiver \in Seq(Int)
        /\ u.sender \in Seq(Int) /\ u.receiver \in Seq(Int)
        /\ Len(t.receiver) = Len(u.receiver)
    BY <1>1
  <2>3. PartsTell(t.sender, t.receiver, u.sender, u.receiver)
    BY <2>2, ConcatSplit, Zenon
  <2> QED BY <2>1, <2>2, <2>3, Zenon DEF PartsTell
<1>6. t.amount = u.amount
  BY <1>1, <1>4, CodecAssumption, PaddedAreOne DEF a
<1>7. t.time = u.time
  BY <1>1, <1>3, CodecAssumption, PaddedAreOne DEF d
<1> QED BY <1>1, <1>5, <1>6, <1>7

\* The text of a list tells the list.
LEMMA TlTextTells ==
  ASSUME NEW s \in Nat, NEW r \in Nat, NEW tl \in Seq(Keyed(s, r)), NEW ul \in Seq(Keyed(s, r)),
         TlToString(tl) = TlToString(ul)
  PROVE  tl = ul
<1> DEFINE L == TextSize(s, r)
           n == Len(tl)
           m == Len(ul)
           text == TlToString(tl)
<1>1. L \in Nat \ {0}
  BY CodecAssumption DEF TextSize
<1>2. n \in Nat /\ m \in Nat
  OBVIOUS
<1>3. /\ text \in Seq(Int) /\ Len(text) = n * L
      /\ \A i \in 1 .. n : (i - 1) * L \in Nat /\ Holds(text, (i - 1) * L, TxsToString(tl[i]))
  BY TlStringType
<1>4. /\ Len(text) = m * L
      /\ \A i \in 1 .. m : Holds(text, (i - 1) * L, TxsToString(ul[i]))
  BY TlStringType
<1> HIDE DEF L, n, m, text
<1>5. n = m
  <2>1. n * L = m * L
    BY <1>3, <1>4
  <2>2. ASSUME NEW x \in Nat, NEW y \in Nat, x < y PROVE x * L # y * L
    <3>1. (x + 1) * L <= y * L /\ (x + 1) * L = x * L + L /\ x * L \in Int /\ y * L \in Int
      BY <1>1, <2>2
    <3> DEFINE p == x * L
               q == y * L
    <3>2. p \in Int /\ q \in Int /\ p + L <= q
      BY <3>1
    <3> HIDE DEF p, q
    <3>3. p # q
      BY <1>1, <3>2
    <3> QED BY <3>3 DEF p, q
  <2>3. ~ (n < m) /\ ~ (m < n)
    BY <1>2, <2>1, <2>2
  <2> QED BY <1>2, <2>3
<1>6. ASSUME NEW i \in 1 .. n PROVE tl[i] = ul[i]
  <2> DEFINE t == tl[i]
             u == ul[i]
             at == (i - 1) * L
  <2>1. t \in Keyed(s, r) /\ u \in Keyed(s, r)
    BY <1>5 DEF n, m
  <2>2. at \in Nat /\ Holds(text, at, TxsToString(t)) /\ Holds(text, at, TxsToString(u))
    BY <1>3, <1>4, <1>5
  <2> HIDE DEF t, u, at
  <2>3. /\ TxsToString(t) \in Seq(Int) /\ TxsToString(u) \in Seq(Int)
        /\ Len(TxsToString(t)) = Len(TxsToString(u))
    BY <2>1, TextType DEF Keyed
  <2>4. Cut(text, at, Len(TxsToString(t))) = TxsToString(t)
    BY <1>3, <2>2, <2>3, CutHeld
  <2>5. Cut(text, at, Len(TxsToString(u))) = TxsToString(u)
    BY <1>3, <2>2, <2>3, CutHeld
  <2>6. TxsToString(t) = TxsToString(u)
    BY <2>3, <2>4, <2>5
  <2>7. t = u
    BY <2>1, <2>6, TxsTextTells
  <2> QED BY <2>7 DEF t, u
<1> QED BY <1>5, <1>6, SeqEqual DEF n, m

\* A block of such transactions.
TextBlock(s, r) ==
  [previusHash : Int, blockHash : Int, proof : Nat, time : {n \in Nat : n < power[TimeDigits]},
   tl : Seq(Keyed(s, r))]

\* What is hashed of a proof: nothing of 0, and of another its digits.
LEMMA ProofText ==
  ASSUME NEW p \in Nat
  PROVE  /\ SubSeq(Digits(p), 1, LenOfProof(p)) = IF p = 0 THEN << >> ELSE Digits(p)
         /\ Digits(p) \in Seq(Int) /\ Digits(p) # << >>
<1> DEFINE d == Digits(p)
<1>1. d \in Seq(Int) /\ Len(d) \in Nat \ {0}
  BY DigitsType
<1>2. LenOfProof(p) = IF p = 0 THEN 0 ELSE Len(d)
  BY DEF LenOfProof
<1> HIDE DEF d
<1>3. SubSeq(d, 1, 0) = << >> /\ SubSeq(d, 1, Len(d)) = d /\ d # << >>
  BY <1>1
<1>4. SubSeq(d, 1, LenOfProof(p)) = IF p = 0 THEN << >> ELSE d
  BY <1>2, <1>3
<1> QED BY <1>1, <1>3, <1>4 DEF d

\* The text of a block tells everything in it but its list, of which it tells the text.
LEMMA HashTextTells ==
  ASSUME NEW s \in Nat, NEW r \in Nat, NEW q \in Nat,
         NEW b \in TextBlock(s, r), NEW c \in TextBlock(q, r), HashText(b) = HashText(c)
  PROVE  /\ b.previusHash = c.previusHash /\ b.proof = c.proof /\ b.time = c.time
         /\ TlToString(b.tl) = TlToString(c.tl)
<1> DEFINE Cells == Int \cup Seq(Int)
           p(x) == SubSeq(Digits(x.proof), 1, LenOfProof(x.proof))
           d(x) == Padded(x.time, TimeDigits)
           h(x) == <<x.previusHash, TlToString(x.tl)>>
           pd(x) == p(x) \o d(x)
<1>1. ASSUME NEW y \in Nat, NEW x \in TextBlock(y, r)
      PROVE  /\ x.previusHash \in Int /\ x.proof \in Nat
             /\ x.time \in Nat /\ x.time < power[TimeDigits]
             /\ p(x) = (IF x.proof = 0 THEN << >> ELSE Digits(x.proof))
             /\ Digits(x.proof) # << >>
             /\ p(x) \in Seq(Cells) /\ d(x) \in Seq(Cells) /\ h(x) \in Seq(Cells)
             /\ pd(x) \in Seq(Cells)
             /\ Len(d(x)) = TimeDigits /\ Len(h(x)) = 2
             /\ HashText(x) = pd(x) \o h(x)
  <2>1. /\ x.previusHash \in Int /\ x.proof \in Nat /\ x.tl \in Seq(Keyed(y, r))
        /\ x.time \in Nat /\ x.time < power[TimeDigits]
    BY DEF TextBlock
  <2>2. /\ p(x) = (IF x.proof = 0 THEN << >> ELSE Digits(x.proof))
        /\ Digits(x.proof) \in Seq(Int) /\ Digits(x.proof) # << >>
    BY <2>1, ProofText
  <2>3. d(x) \in Seq(Int) /\ Len(d(x)) = TimeDigits
    BY <2>1, CodecAssumption, PaddedType
  <2>4. TlToString(x.tl) \in Seq(Int)
    BY <2>1, TlStringType
  <2>5. HashText(x) = pd(x) \o h(x)
    BY DEF HashText, MerkleHash
  <2> HIDE DEF p, d
  <2>6. p(x) \in Seq(Int)
    <3>1. << >> \in Seq(Int)
      OBVIOUS
    <3> QED BY <2>2, <3>1
  <2>7. Seq(Int) \subseteq Seq(Cells)
    <3>1. Int \subseteq Cells
      OBVIOUS
    <3> HIDE DEF Cells
    <3> QED BY <3>1, SeqMonotonic, Zenon
  <2>8. h(x) \in Seq(Cells) /\ Len(h(x)) = 2
    <3> DEFINE v == TlToString(x.tl)
    <3>1. v \in Cells /\ x.previusHash \in Cells
      BY <2>1, <2>4
    <3> HIDE DEF v, Cells
    <3>2. <<x.previusHash, v>> \in Seq(Cells) /\ Len(<<x.previusHash, v>>) = 2
      BY <3>1
    <3> QED BY <3>2 DEF v
  <2> HIDE DEF Cells
  <2>9. pd(x) \in Seq(Cells)
    BY <2>3, <2>6, <2>7, ConcatProperties
  <2> HIDE DEF pd, h
  <2> QED BY <2>1, <2>2, <2>3, <2>5, <2>6, <2>7, <2>8, <2>9
<1> HIDE DEF Cells
<1>2. pd(b) = pd(c) /\ h(b) = h(c)
  <2>1. /\ pd(b) \in Seq(Cells) /\ h(b) \in Seq(Cells) /\ Len(h(b)) = 2
        /\ HashText(b) = pd(b) \o h(b)
    BY <1>1
  <2>2. /\ pd(c) \in Seq(Cells) /\ h(c) \in Seq(Cells) /\ Len(h(c)) = 2
        /\ HashText(c) = pd(c) \o h(c)
    BY <1>1
  <2> HIDE DEF pd, h
  <2>3. PartsTell(pd(b), h(b), pd(c), h(c))
    BY <2>1, <2>2, ConcatSplit, Zenon
  <2> QED BY <2>1, <2>2, <2>3 DEF PartsTell
<1>3. p(b) = p(c) /\ d(b) = d(c)
  <2>1. p(b) \in Seq(Cells) /\ d(b) \in Seq(Cells) /\ Len(d(b)) = TimeDigits
    BY <1>1
  <2>2. p(c) \in Seq(Cells) /\ d(c) \in Seq(Cells) /\ Len(d(c)) = TimeDigits
    BY <1>1
  <2>3. p(b) \o d(b) = p(c) \o d(c)
    BY <1>2
  <2> HIDE DEF p, d
  <2>4. PartsTell(p(b), d(b), p(c), d(c))
    BY <2>1, <2>2, ConcatSplit, Zenon
  <2> QED BY <2>1, <2>2, <2>3, <2>4 DEF PartsTell
<1>4. b.previusHash = c.previusHash /\ TlToString(b.tl) = TlToString(c.tl)
  BY <1>2
<1>5. b.proof = c.proof
  <2> HIDE DEF p
  <2>1. /\ b.proof \in Nat /\ Digits(b.proof) # << >>
        /\ p(b) = IF b.proof = 0 THEN << >> ELSE Digits(b.proof)
    BY <1>1
  <2>2. /\ c.proof \in Nat /\ Digits(c.proof) # << >>
        /\ p(c) = IF c.proof = 0 THEN << >> ELSE Digits(c.proof)
    BY <1>1
  <2>3. b.proof = c.proof \/ Digits(b.proof) = Digits(c.proof)
    BY <1>3, <2>1, <2>2
  <2> QED BY <2>1, <2>2, <2>3, DigitsAreOne
<1>6. b.time = c.time
  <2>1. b.time \in Nat /\ b.time < power[TimeDigits]
    BY <1>1
  <2>2. c.time \in Nat /\ c.time < power[TimeDigits]
    BY <1>1
  <2> QED BY <1>3, <2>1, <2>2, CodecAssumption, PaddedAreOne
<1> QED BY <1>4, <1>5, <1>6

\* A block whose lists are of transactions, and whose numbers are ones.
NatTxs   == [sender : Seq(Int), receiver : Seq(Int), amount : Nat, time : Nat]
NatBlock == [previusHash : Int, blockHash : Int, proof : Nat, time : Nat, tl : Seq(NatTxs)]

\* Whatever is written of a block is such a block.
LEMMA WrittenIsNat ==
  ASSUME NEW b \in WrittenBlock
  PROVE  b \in NatBlock
<1>1. WrittenTxs \subseteq NatTxs
  BY NumberType DEF WrittenTxs, WrittenText, NatTxs
<1>2. b.tl \in Seq(WrittenTxs)
  BY DEF WrittenBlock
<1>3. b.tl \in Seq(NatTxs)
  BY <1>1, <1>2, SeqMonotonic
<1>4. b.proof \in Nat /\ b.time \in Nat
  BY NumberType DEF WrittenBlock
<1> QED BY <1>3, <1>4 DEF WrittenBlock, NatBlock

\* A block with another amount and time in its first transaction is one too.
LEMMA RetouchedIsNat ==
  ASSUME Newest \in NatBlock, Newest.tl # << >>, NEW b \in Retouched
  PROVE  b \in NatBlock
<1> DEFINE n == Newest
           tl == n.tl
           A == power[AmountDigits]
           T == power[TimeDigits]
<1>1. PICK a \in 0 .. A - 1, t \in {0, Base} \cap (0 .. T - 1) :
        b = [n EXCEPT !.tl[1] = [@ EXCEPT !.amount = a, !.time = t]]
  <2>1. \E a \in 0 .. power[AmountDigits] - 1, t \in {0, Base} \cap (0 .. power[TimeDigits] - 1) :
          b = FirstTxsWith(Newest, a, t)
    BY DEF Retouched
  <2> QED BY <2>1, Zenon DEF FirstTxsWith
<1>2. a \in Nat /\ t \in Nat
  <2>1. A \in Nat /\ T \in Nat
    BY CodecAssumption, PowerDef
  <2> HIDE DEF A, T
  <2> QED BY <1>1, <2>1
<1>3. n \in NatBlock /\ tl \in Seq(NatTxs)
  BY DEF NatBlock
<1> HIDE DEF n, tl
<1>4. 1 \in 1 .. Len(tl) /\ DOMAIN tl = 1 .. Len(tl) /\ tl[1] \in NatTxs
  BY <1>3 DEF tl, n
<1> DEFINE x == [tl[1] EXCEPT !.amount = a, !.time = t]
           new == [tl EXCEPT ![1] = x]
<1>5. x \in NatTxs
  <2> DEFINE y == tl[1]
  <2>1. y \in NatTxs
    BY <1>4
  <2> HIDE DEF y
  <2>2. [y EXCEPT !.amount = a, !.time = t] \in NatTxs
    BY <1>2, <2>1 DEF NatTxs
  <2> QED BY <2>2 DEF y
<1>6. b = [n EXCEPT !.tl = new]
  BY <1>1 DEF tl
<1> HIDE DEF x
<1>7. new \in Seq(NatTxs)
  <2> DEFINE K == NatTxs
  <2>1. tl \in Seq(K) /\ x \in K
    BY <1>3, <1>5
  <2> HIDE DEF K
  <2>2. [tl EXCEPT ![1] = x] \in Seq(K)
    BY <1>4, <2>1
  <2> QED BY <2>2 DEF K
<1> HIDE DEF new
<1> QED BY <1>3, <1>6, <1>7 DEF NatBlock

\* With keys of such lengths, and numbers that the widths hold, its text can be told.
LEMMA NatIsText ==
  ASSUME NEW s \in Nat, NEW r \in Nat, NEW b \in NatBlock, InDigits(b),
         \A x \in Senders(b) : Len(x) = s, \A x \in Receivers(b) : Len(x) = r
  PROVE  b \in TextBlock(s, r)
<1> DEFINE tl == b.tl
<1>1. tl \in Seq(NatTxs)
  BY DEF NatBlock
<1>2. DOMAIN tl = 1 .. Len(tl) /\ Len(tl) \in Nat /\ \A i \in 1 .. Len(tl) : tl[i] \in NatTxs
  BY <1>1
<1>3. /\ b.time < power[TimeDigits]
      /\ \A i \in DOMAIN tl : tl[i].amount < power[AmountDigits] /\ tl[i].time < power[TimeDigits]
  BY DEF InDigits, TxsInDigits
<1>4. \A i \in DOMAIN tl : Len(tl[i].sender) = s /\ Len(tl[i].receiver) = r
  BY DEF Senders, Receivers
<1> HIDE DEF tl
<1>5. ASSUME NEW i \in 1 .. Len(tl) PROVE tl[i] \in Keyed(s, r)
  <2> DEFINE t == tl[i]
  <2>1. /\ t \in NatTxs /\ t.amount < power[AmountDigits] /\ t.time < power[TimeDigits]
        /\ Len(t.sender) = s /\ Len(t.receiver) = r
    BY <1>2, <1>3, <1>4
  <2> HIDE DEF t
  <2>2. t \in Keyed(s, r)
    BY <2>1 DEF Keyed, TextTxs, NatTxs
  <2> QED BY <2>2 DEF t
<1>6. tl = [i \in 1 .. Len(tl) |-> tl[i]]
  BY <1>1
<1>7. tl \in Seq(Keyed(s, r))
  <2> DEFINE K == Keyed(s, r)
  <2>1. \A i \in 1 .. Len(tl) : tl[i] \in K
    BY <1>5
  <2> HIDE DEF K
  <2>2. [i \in 1 .. Len(tl) |-> tl[i]] \in Seq(K)
    BY <1>2, <2>1
  <2> QED BY <1>6, <2>2 DEF K
<1> QED BY <1>3, <1>7 DEF NatBlock, TextBlock, tl

\* A block that differs from another in its hash at most has its hash for one.
LEMMA SameButHash ==
  ASSUME NEW s \in Nat, NEW r \in Nat, NEW b \in TextBlock(s, r), NEW c \in TextBlock(s, r),
         HashText(b) = HashText(c)
  PROVE  [b EXCEPT !.blockHash = c.blockHash] = c
<1>1. /\ b.previusHash = c.previusHash /\ b.proof = c.proof /\ b.time = c.time
      /\ TlToString(b.tl) = TlToString(c.tl)
  BY HashTextTells
<1>2. b.tl \in Seq(Keyed(s, r)) /\ c.tl \in Seq(Keyed(s, r))
  BY DEF TextBlock
<1>3. b.tl = c.tl
  BY <1>1, <1>2, TlTextTells
<1> QED BY <1>1, <1>3 DEF TextBlock

\* Texts of one length have one.
LEMMA OneLengthIs ==
  ASSUME NEW texts \in SUBSET Seq(Int), OneLength(texts)
  PROVE  \E n \in Nat : \A x \in texts : Len(x) = n
<1>1. CASE texts = {}
  BY <1>1
<1>2. CASE texts # {}
  <2>1. PICK y \in texts : TRUE
    BY <1>2
  <2>2. Len(y) \in Nat /\ \A x \in texts : Len(x) = Len(y)
    BY LenProperties DEF OneLength
  <2> QED BY <2>2
<1> QED BY <1>1, <1>2

\* Among blocks whose keys align and whose numbers the widths hold, the text that is hashed
\* tells all of a block.
LEMMA AlignedTextTells ==
  ASSUME NEW b \in NatBlock, NEW c \in NatBlock, InDigits(b), InDigits(c), KeysAlign(b, c),
         HashText(b) = HashText(c)
  PROVE  [b EXCEPT !.blockHash = c.blockHash] = c
<1>1. ASSUME NEW x \in NatBlock
      PROVE  Senders(x) \in SUBSET Seq(Int) /\ Receivers(x) \in SUBSET Seq(Int)
  <2> DEFINE tl == x.tl
  <2>1. tl \in Seq(NatTxs)
    BY DEF NatBlock
  <2>2. \A i \in DOMAIN tl : tl[i] \in NatTxs
    BY <2>1
  <2>3. \A i \in DOMAIN tl : tl[i].sender \in Seq(Int) /\ tl[i].receiver \in Seq(Int)
    BY <2>2 DEF NatTxs
  <2> QED BY <2>3 DEF Senders, Receivers
<1>2. PICK s \in Nat : \A x \in Senders(b) \cup Senders(c) : Len(x) = s
  <2>1. Senders(b) \cup Senders(c) \in SUBSET Seq(Int)
    BY <1>1
  <2> QED BY <2>1, OneLengthIs DEF KeysAlign
<1>3. PICK r \in Nat : \A x \in Receivers(b) \cup Receivers(c) : Len(x) = r
  <2>1. Receivers(b) \cup Receivers(c) \in SUBSET Seq(Int)
    BY <1>1
  <2> QED BY <2>1, OneLengthIs DEF KeysAlign
<1>4. b \in TextBlock(s, r) /\ c \in TextBlock(s, r)
  BY <1>2, <1>3, NatIsText
<1> QED BY <1>4, SameButHash

\* So the hash of the newest block commits to all of it.
LEMMA HashOfNewestCommits ==
  ASSUME EncodedInv
  PROVE  HashTextCommits
<1>1. Newest \in NatBlock
  BY NewestIs, WrittenIsNat
<1> SUFFICES ASSUME NEW b \in {RawBlock(d) : d \in Blocks(chain)}
                               \cup (IF Newest.tl = << >> THEN {} ELSE Retouched),
                    InDigits(b), InDigits(Newest), KeysAlign(b, Newest),
                    HashText(b) = HashText(Newest)
             PROVE  [b EXCEPT !.blockHash = Newest.blockHash] = Newest
  BY Zenon DEF HashTextCommits
<1>2. b \in NatBlock
  <2>1. CASE b \in {RawBlock(d) : d \in Blocks(chain)}
    <3>1. PICK d \in Blocks(chain) : b = RawBlock(d)
      BY <2>1
    <3>2. d \in BuiltBlock
      BY NextIsBuilt DEF EncodedInv
    <3> QED BY <3>1, <3>2, RawBlockIsWritten, WrittenIsNat
  <2>2. CASE Newest.tl # << >> /\ b \in Retouched
    BY <1>1, <2>2, RetouchedIsNat
  <2> QED BY <2>1, <2>2, Zenon
<1> QED BY <1>1, <1>2, AlignedTextTells

\* The hash of the newest block of a chain that grows commits to all of it: to no other
\* block that could be built here, nor to one with another amount or time in its first
\* transaction, does the same text belong, where keys align and the widths hold the numbers.
THEOREM HashesCommit == Growth => []HashTextCommits
BY HashOfNewestCommits, EncodedInvHolds, PTL

-------------------------------------------------------------------------------
(* Positions that ascend.                                                    *)

\* Positions that ascend.
Ascends(e, n) == \A i \in 1 .. n : e[i - 1] < e[i]

\* They do so over any distance.
LEMMA AscendsFar ==
  ASSUME NEW n \in Nat, NEW e \in [0 .. n -> Nat], Ascends(e, n)
  PROVE  \A i, j \in 0 .. n : i < j => e[i] < e[j]
<1> DEFINE G == {j \in Nat : j <= n => \A i \in 0 .. n : i < j => e[i] < e[j]}
<1>1. 0 \in G
  OBVIOUS
<1>2. ASSUME NEW k \in G PROVE k + 1 \in G
  <2> SUFFICES ASSUME k + 1 <= n, NEW i \in 0 .. n, i < k + 1 PROVE e[i] < e[k + 1]
    OBVIOUS
  <2> DEFINE j == k + 1
  <2>1. j \in 1 .. n /\ j - 1 = k /\ k \in 0 .. n /\ j \in 0 .. n /\ (i = k \/ (i < k /\ e[i] < e[k]))
    OBVIOUS
  <2> HIDE DEF j
  <2>2. e[k] < e[j]
    BY <2>1 DEF Ascends
  <2>3. e[i] \in Nat /\ e[k] \in Nat /\ e[j] \in Nat
    BY <2>1
  <2>4. e[i] < e[j]
    BY <2>1, <2>2, <2>3
  <2> QED BY <2>4 DEF j
<1>3. G \in SUBSET Nat /\ \A j \in G : j <= n => \A i \in 0 .. n : i < j => e[i] < e[j]
  OBVIOUS
<1> HIDE DEF G
<1>4. G = Nat
  BY <1>1, <1>2, <1>3, NatGrows
<1> QED BY <1>3, <1>4

\* The set of them.
Positions(e, n) == {e[i] : i \in 0 .. n}

\* What lies in the range of such positions lies between two in a row.
LEMMA AscendsCovers ==
  ASSUME NEW n \in Nat, NEW e \in [0 .. n -> Nat], NEW k \in e[0] .. e[n]
  PROVE  k = e[0] \/ \E i \in 1 .. n : e[i - 1] < k /\ k <= e[i]
<1> DEFINE G == {j \in Nat : j <= n => (k <= e[j] => k = e[0] \/ \E i \in 1 .. n : e[i - 1] < k /\ k <= e[i])}
<1>1. 0 \in G
  <2>1. e[0] \in Nat /\ e[n] \in Nat
    OBVIOUS
  <2>2. k <= e[0] => k = e[0]
    BY <2>1
  <2> QED BY <2>2
<1>2. ASSUME NEW l \in G PROVE l + 1 \in G
  <2> SUFFICES ASSUME l + 1 <= n, k <= e[l + 1]
               PROVE  k = e[0] \/ \E i \in 1 .. n : e[i - 1] < k /\ k <= e[i]
    OBVIOUS
  <2> DEFINE j == l + 1
  <2>1. j \in 1 .. n /\ j - 1 = l /\ l \in 0 .. n /\ 0 \in 0 .. n /\ n \in 0 .. n
    OBVIOUS
  <2>2. k <= e[l] => k = e[0] \/ \E i \in 1 .. n : e[i - 1] < k /\ k <= e[i]
    OBVIOUS
  <2>3. k <= e[j]
    OBVIOUS
  <2>4. e[l] \in Nat /\ e[0] \in Nat /\ e[n] \in Nat
    BY <2>1
  <2> HIDE DEF j
  <2>5. CASE ~ (k <= e[l])
    <3>1. e[j - 1] < k /\ k <= e[j]
      BY <2>1, <2>3, <2>4, <2>5
    <3> QED BY <2>1, <3>1
  <2> QED BY <2>2, <2>5
<1>3. G \in SUBSET Nat
  OBVIOUS
<1>4. n \in G => k = e[0] \/ \E i \in 1 .. n : e[i - 1] < k /\ k <= e[i]
  <2>1. 0 \in 0 .. n /\ n \in 0 .. n /\ n <= n
    OBVIOUS
  <2>2. k <= e[n]
    BY <2>1
  <2> QED BY <2>1, <2>2
<1> HIDE DEF G
<1>5. G = Nat
  BY <1>1, <1>2, <1>3, NatGrows
<1> QED BY <1>4, <1>5

\* They are the smallest, the second, and so on of the set of them.
LEMMA AscendsNth ==
  ASSUME NEW n \in Nat, NEW m \in Nat, NEW e \in [0 .. n -> 1 .. m], Ascends(e, n)
  PROVE  /\ Cardinality({e[i] : i \in 0 .. n}) = n + 1
         /\ \A i \in 0 .. n : Nth({e[j] : j \in 0 .. n}, i + 1) = e[i]
<1> DEFINE K == {e[i] : i \in 0 .. n}
           B(i) == {x \in K : x <= e[i]}
<1>1. \A i, j \in 0 .. n : i < j => e[i] < e[j]
  <2>1. e \in [0 .. n -> Nat]
    OBVIOUS
  <2> QED BY <2>1, AscendsFar
<1>2. \A i, j \in 0 .. n : (e[i] = e[j] => i = j) /\ (e[j] <= e[i] => j <= i) /\ (j <= i => e[j] <= e[i])
  <2>1. \A i \in 0 .. n : e[i] \in Nat
    OBVIOUS
  <2> QED BY <1>1, <2>1
<1>3. ASSUME NEW i \in 0 .. n
      PROVE  Cardinality(B(i)) = i + 1
  <2> DEFINE f == [j \in 0 .. i |-> e[j]]
             S == 0 .. i
  <2>1. IsFiniteSet(S) /\ Cardinality(S) = i + 1
    <3>1. 0 \in Int /\ i \in Int /\ ~ (0 > i) /\ i - 0 + 1 = i + 1
      OBVIOUS
    <3> QED BY <3>1, FS_Interval
  <2>2. \A j \in S : j \in 0 .. n /\ j <= i
    OBVIOUS
  <2>3. \A j \in S : f[j] \in B(i)
    BY <1>2, <2>2
  <2>4. \A j, l \in S : f[j] = f[l] => j = l
    BY <1>2, <2>2
  <2>5. \A x \in B(i) : \E j \in S : f[j] = x
    <3> SUFFICES ASSUME NEW x \in B(i) PROVE \E j \in S : f[j] = x
      OBVIOUS
    <3>1. PICK j \in 0 .. n : e[j] = x
      OBVIOUS
    <3>2. j <= i
      BY <1>2, <3>1
    <3>3. j \in S
      BY <3>2
    <3> QED BY <3>1, <3>3
  <2>6. f \in [S -> B(i)]
    BY <2>3
  <2> HIDE DEF f, S, B, K
  <2>7. f \in Bijection(S, B(i))
    BY <2>4, <2>5, <2>6 DEF Bijection, Injection, Surjection, IsInjective
  <2>8. ExistsBijection(S, B(i))
    BY <2>7 DEF ExistsBijection
  <2> QED BY <2>1, <2>8, FS_Bijection
<1>4. Cardinality(K) = n + 1
  <2>1. n \in 0 .. n
    OBVIOUS
  <2>2. B(n) = K
    BY <1>2, <2>1
  <2> HIDE DEF B, K
  <2> QED BY <1>3, <2>1, <2>2
<1>5. K \in SUBSET (1 .. m)
  OBVIOUS
<1>6. \A x \in K : \E j \in 0 .. n : x = e[j]
  OBVIOUS
<1>7. ASSUME NEW i \in 0 .. n PROVE Nth(K, i + 1) = e[i]
  <2> DEFINE x == Nth(K, i + 1)
  <2>1. i + 1 \in 1 .. Cardinality(K)
    BY <1>4
  <2> HIDE DEF K
  <2>2. x \in K /\ Cardinality({y \in K : y <= x}) = i + 1
    BY <1>5, <2>1, NthType
  <2> HIDE DEF x
  <2>3. PICK j \in 0 .. n : x = e[j]
    BY <1>6, <2>2
  <2>4. Cardinality(B(j)) = i + 1
    BY <2>2, <2>3
  <2>5. Cardinality(B(j)) = j + 1
    BY <1>3
  <2>6. j = i
    BY <2>4, <2>5
  <2> QED BY <2>3, <2>6 DEF x
<1> QED BY <1>4, <1>7

-------------------------------------------------------------------------------
(* How deep a reader of JSON is.                                             *)

\* What each cell does to the depth.
LEMMA Turns ==
  /\ Opening = {-4, -12, -8, -13} /\ Closing = {-2, -3}
  /\ \A c \in Int : /\ Turn(c) \in {-1, 0, 1}
                    /\ c \in Opening => Turn(c) = 1
                    /\ c \in Closing => Turn(c) = -1
                    /\ c \in Nat \cup {-1, -5, -6, -7, -9, -10, -11} => Turn(c) = 0
<1>1. Opening = {-4, -12, -8, -13}
  BY LitsDiffer, Zenon DEF Opening
<1>2. Closing = {-2, -3}
  BY LitsDiffer, Zenon DEF Closing
<1> QED BY <1>1, <1>2 DEF Turn

\* It is a function, and moves along a text by what each cell does.
LEMMA DepthIs ==
  ASSUME NEW s \in Seq(Int)
  PROVE  /\ Depth(s) \in [0 .. Len(s) -> Int]
         /\ Depth(s)[0] = 0
         /\ \A k \in 1 .. Len(s) : Depth(s)[k] = Depth(s)[k - 1] + Turn(s[k])
<1> DEFINE n == Len(s)
           step == [p \in Nat \X Int |-> IF p[1] \in 1 .. n THEN p[2] + Turn(s[p[1]]) ELSE p[2]]
           Is(g) == g = [k \in 0 .. n |-> IF k = 0 THEN 0 ELSE g[k - 1] + Turn(s[k])]
           d == CHOOSE g : Is(g)
<1>1. n \in Nat /\ \A k \in 1 .. n : s[k] \in Int /\ Turn(s[k]) \in Int
  <2>1. n \in Nat /\ \A k \in 1 .. n : s[k] \in Int
    OBVIOUS
  <2> HIDE DEF n
  <2>2. ASSUME NEW k \in 1 .. n PROVE Turn(s[k]) \in Int
    BY <2>1, Turns
  <2> QED BY <2>1, <2>2
<1>2. Depth(s) = d
  BY DEF Depth
<1> HIDE DEF n
<1>3. step \in [Nat \X Int -> Int]
  BY <1>1
<1>4. ASSUME NEW k \in 1 .. n, NEW v \in Int
      PROVE  k \in Nat /\ step[<<k, v>>] = v + Turn(s[k])
  BY <1>1
<1> HIDE DEF step
<1>5. PICK r \in [Nat -> Int] : IsRecursion(r, 0, step)
  <2>1. 0 \in Int
    OBVIOUS
  <2> QED BY <1>3, <2>1, RecursionExists, Zenon
<1>6. \A k \in Nat : r[k] = IF k = 0 THEN 0 ELSE step[<<k, r[k - 1]>>]
  BY <1>5, Zenon DEF IsRecursion
<1> DEFINE h == [k \in 0 .. n |-> r[k]]
<1>7. ASSUME NEW k \in 0 .. n
      PROVE  h[k] = IF k = 0 THEN 0 ELSE h[k - 1] + Turn(s[k])
  <2>1. CASE k = 0
    BY <1>1, <1>6, <2>1
  <2>2. CASE k # 0
    <3>1. k \in Nat /\ k \in 1 .. n /\ k - 1 \in 0 .. n /\ k - 1 \in Nat
      BY <1>1, <2>2
    <3>2. r[k] = step[<<k, r[k - 1]>>] /\ r[k - 1] \in Int
      BY <1>6, <2>2, <3>1
    <3>3. r[k] = r[k - 1] + Turn(s[k])
      BY <1>4, <3>1, <3>2
    <3> QED BY <2>2, <3>1, <3>3
  <2> QED BY <2>1, <2>2
<1>8. h \in [0 .. n -> Int]
  BY <1>1
<1> HIDE DEF h
<1>9. Is(h)
  <2> DEFINE g == [k \in 0 .. n |-> IF k = 0 THEN 0 ELSE h[k - 1] + Turn(s[k])]
  <2>1. \A k \in 0 .. n : g[k] = h[k]
    BY <1>7
  <2>2. g = [k \in 0 .. n |-> g[k]] /\ h = [k \in 0 .. n |-> h[k]]
    BY <1>8
  <2> HIDE DEF g
  <2>3. h = g
    BY <2>1, <2>2, Zenon
  <2> QED BY <2>3 DEF g
<1>10. Is(d)
  <2> HIDE DEF Is
  <2> QED BY <1>9
<1> HIDE DEF d
<1>11. \A k \in 0 .. n : d[k] = IF k = 0 THEN 0 ELSE d[k - 1] + Turn(s[k])
  BY <1>10
<1>12. d = [k \in 0 .. n |-> d[k]]
  BY <1>10
<1> HIDE DEF Is
<1>13. d[0] = 0 /\ \A k \in 1 .. n : d[k] = d[k - 1] + Turn(s[k])
  <2>1. 0 \in 0 .. n
    BY <1>1
  <2>2. ASSUME NEW k \in 1 .. n PROVE k \in 0 .. n /\ k # 0
    BY <1>1
  <2> QED BY <1>11, <2>1, <2>2
<1> DEFINE G == {k \in Nat : k <= n => d[k] \in Int}
<1>14. 0 \in G
  BY <1>13
<1>15. ASSUME NEW k \in G PROVE k + 1 \in G
  <2> SUFFICES ASSUME k + 1 <= n PROVE d[k + 1] \in Int
    OBVIOUS
  <2> DEFINE j == k + 1
  <2>1. j \in 1 .. n /\ j - 1 = k /\ d[k] \in Int
    BY <1>1
  <2> HIDE DEF j
  <2>2. d[j] \in Int
    BY <1>1, <1>13, <2>1
  <2> QED BY <2>2 DEF j
<1>16. G \in SUBSET Nat
  OBVIOUS
<1> HIDE DEF G
<1>17. G = Nat
  BY <1>14, <1>15, <1>16, NatGrows
<1>18. ASSUME NEW k \in 0 .. n PROVE d[k] \in Int
  <2>1. k \in G /\ k <= n
    BY <1>1, <1>17
  <2> QED BY <2>1 DEF G
<1>19. d \in [0 .. n -> Int]
  BY <1>12, <1>18
<1> QED BY <1>2, <1>13, <1>19 DEF n

\* Within a text that another holds, the depth is the same, counted from where it begins.
LEMMA DepthInside ==
  ASSUME NEW text \in Seq(Int), NEW p \in Nat, NEW s \in Seq(Int), Holds(text, p, s)
  PROVE  /\ \A k \in 0 .. Len(s) : /\ p + k \in 0 .. Len(text)
                                   /\ Depth(text)[p + k] = Depth(text)[p] + Depth(s)[k]
         /\ Depth(text)[p] \in Int
<1> DEFINE n == Len(s)
           m == Len(text)
           dt == Depth(text)
           d == Depth(s)
<1>1. n \in Nat /\ m \in Nat /\ p + n <= m /\ \A k \in 1 .. n : text[p + k] = s[k] /\ s[k] \in Int
  BY DEF Holds
<1>2. dt \in [0 .. m -> Int] /\ \A k \in 1 .. m : dt[k] = dt[k - 1] + Turn(text[k])
  BY DepthIs
<1>3. d \in [0 .. n -> Int] /\ d[0] = 0 /\ \A k \in 1 .. n : d[k] = d[k - 1] + Turn(s[k])
  BY DepthIs
<1> HIDE DEF n, m, dt, d
<1>4. \A k \in 0 .. n : p + k \in 0 .. m
  BY <1>1
<1> DEFINE G == {k \in Nat : k <= n => dt[p + k] = dt[p] + d[k]}
<1>5. 0 \in G
  <2>1. p + 0 = p /\ p \in 0 .. m
    BY <1>1
  <2>2. dt[p] \in Int
    BY <1>2, <2>1
  <2>3. dt[p + 0] = dt[p] + d[0]
    BY <1>3, <2>1, <2>2
  <2> QED BY <2>3
<1>6. ASSUME NEW k \in G PROVE k + 1 \in G
  <2> SUFFICES ASSUME k + 1 <= n PROVE dt[p + (k + 1)] = dt[p] + d[k + 1]
    OBVIOUS
  <2> DEFINE j == k + 1
             q == p + j
  <2>1. /\ k \in 0 .. n /\ j \in 1 .. n /\ j - 1 = k /\ q - 1 = p + k /\ q \in 1 .. m
        /\ p \in 0 .. m /\ p + k \in 0 .. m /\ dt[p + k] = dt[p] + d[k]
    BY <1>1
  <2>2. text[q] = s[j] /\ s[j] \in Int
    BY <1>1, <2>1
  <2> HIDE DEF j, q
  <2>3. Turn(s[j]) \in Int
    BY <2>2, Turns
  <2>4. dt[q] = dt[p + k] + Turn(s[j]) /\ d[j] = d[k] + Turn(s[j])
    BY <1>2, <1>3, <2>1, <2>2
  <2>5. dt[p] \in Int /\ d[k] \in Int /\ d[j] \in Int
    <3>1. j \in 0 .. n
      BY <1>1, <2>1
    <3> QED BY <1>2, <1>3, <2>1, <3>1
  <2>6. dt[q] = dt[p] + d[j]
    BY <2>1, <2>3, <2>4, <2>5, SMTT(30)
  <2> QED BY <2>6 DEF j, q
<1>7. G \in SUBSET Nat
  OBVIOUS
<1> HIDE DEF G
<1>8. G = Nat
  BY <1>5, <1>6, <1>7, NatGrows
<1>9. ASSUME NEW k \in 0 .. n PROVE dt[p + k] = dt[p] + d[k]
  <2>1. k \in G /\ k <= n
    BY <1>1, <1>8
  <2> QED BY <2>1 DEF G
<1>10. dt[p] \in Int
  <2>1. p \in 0 .. m
    BY <1>1
  <2> QED BY <1>2, <2>1
<1> QED BY <1>4, <1>9, <1>10 DEF n, m, dt, d

\* A text at the end of which the depth is last, and nowhere below low.
Level(s, low, last) ==
  s \in Seq(Int) /\ Depth(s)[Len(s)] = last /\ \A k \in 1 .. Len(s) : Depth(s)[k] >= low

\* In a list that is printed, an item: a comma in it is enclosed by it.
Whole(s) ==
  /\ s \in Seq(Int) /\ Len(s) > 0 /\ s[Len(s)] # Lit(",")
  /\ Depth(s)[Len(s)] = 0 /\ \A k \in 1 .. Len(s) - 1 : Depth(s)[k] >= 1

\* A text that closes what it opens may follow any other.
LEMMA LevelJoined ==
  ASSUME NEW low \in {0, 1}, NEW a, Level(a, low, low), NEW b, Level(b, 0, 0)
  PROVE  Level(a \o b, low, low)
<1> DEFINE c == a \o b
           n == Len(a)
           m == Len(b)
<1>1. /\ a \in Seq(Int) /\ Depth(a)[n] = low /\ \A k \in 1 .. n : Depth(a)[k] >= low
      /\ b \in Seq(Int) /\ Depth(b)[m] = 0 /\ \A k \in 1 .. m : Depth(b)[k] >= 0
  BY DEF Level
<1>2. c \in Seq(Int) /\ Len(c) = n + m /\ Holds(c, n, b)
  BY <1>1, HoldsLonger
<1>3. Holds(c, 0, a)
  <2>1. Holds(c, 0, c) /\ 0 \in Nat
    BY <1>2, HoldsItself
  <2>2. a \in Seq(Int) /\ b \in Seq(Int)
    BY <1>1
  <2> QED BY <1>2, <2>1, <2>2, HoldsParts
<1>4. n \in Nat /\ m \in Nat
  BY <1>1, LenProperties
<1>5. Depth(c) \in [0 .. Len(c) -> Int] /\ Depth(c)[0] = 0 /\ Depth(a) \in [0 .. n -> Int]
      /\ Depth(b) \in [0 .. m -> Int]
  BY <1>1, <1>2, DepthIs
<1>6. \A k \in 0 .. n : Depth(c)[0 + k] = Depth(c)[0] + Depth(a)[k]
  <2>1. 0 \in Nat
    OBVIOUS
  <2> HIDE DEF c
  <2> QED BY <1>1, <1>2, <1>3, <2>1, DepthInside
<1>7. \A k \in 0 .. m : Depth(c)[n + k] = Depth(c)[n] + Depth(b)[k]
  <2> HIDE DEF c
  <2> QED BY <1>1, <1>2, <1>4, DepthInside
<1> HIDE DEF c, n, m
<1>8. \A k \in 0 .. n : Depth(c)[k] = Depth(a)[k]
  BY <1>4, <1>5, <1>6
<1>9. Depth(c)[n] = low
  BY <1>1, <1>4, <1>8
<1>10. \A k \in 0 .. m : Depth(c)[n + k] = low + Depth(b)[k]
  BY <1>7, <1>9
<1>11. Depth(c)[Len(c)] = low
  BY <1>1, <1>2, <1>4, <1>10
<1>12. ASSUME NEW k \in 1 .. Len(c) PROVE Depth(c)[k] >= low
  <2>1. CASE k <= n
    BY <1>1, <1>4, <1>8, <2>1
  <2>2. CASE k > n
    <3> DEFINE j == k - n
    <3>1. j \in 1 .. m /\ j \in 0 .. m /\ k = n + j
      BY <1>2, <1>4, <2>2
    <3> HIDE DEF j
    <3>2. Depth(c)[k] = low + Depth(b)[j] /\ Depth(b)[j] >= 0 /\ Depth(b)[j] \in Int
      BY <1>1, <1>5, <1>10, <3>1
    <3> QED BY <3>2
  <2> QED BY <1>2, <1>4, <2>1, <2>2
<1>13. Level(c, low, low)
  BY <1>2, <1>11, <1>12 DEF Level
<1> QED BY <1>13 DEF c

\* A text that opens once and goes on with such texts.
LEMMA OpenGoesOn ==
  ASSUME NEW a, Level(a, 1, 1), NEW b, Level(b, 0, 0)
  PROVE  Level(a \o b, 1, 1)
<1>1. 1 \in {0, 1}
  OBVIOUS
<1> QED BY <1>1, LevelJoined, Zenon

\* What opens a list or an object is a depth in.
LEMMA LevelOpens ==
  ASSUME NEW o \in Opening
  PROVE  Level(<<o>>, 1, 1)
<1> DEFINE s == <<o>>
<1>1. o \in Int /\ Turn(o) = 1
  BY Turns
<1>2. s \in Seq(Int) /\ Len(s) = 1 /\ s[1] = o
  BY <1>1
<1> HIDE DEF s
<1>3. Depth(s)[0] = 0 /\ \A k \in 1 .. 1 : Depth(s)[k] = Depth(s)[k - 1] + Turn(s[k])
  BY <1>2, DepthIs
<1>4. Depth(s)[1] = 1
  BY <1>1, <1>2, <1>3
<1>5. Level(s, 1, 1)
  BY <1>2, <1>4 DEF Level
<1> QED BY <1>5 DEF s

\* A text that neither opens nor closes anything.
LEMMA LevelFlat ==
  ASSUME NEW s \in Seq(Int), \A k \in 1 .. Len(s) : Turn(s[k]) = 0
  PROVE  Level(s, 0, 0)
<1> DEFINE n == Len(s)
           d == Depth(s)
           G == {k \in Nat : k <= n => d[k] = 0}
<1>1. n \in Nat /\ d[0] = 0 /\ \A k \in 1 .. n : d[k] = d[k - 1] + Turn(s[k])
  BY DepthIs
<1>2. 0 \in G
  BY <1>1
<1>3. ASSUME NEW k \in G PROVE k + 1 \in G
  <2> SUFFICES ASSUME k + 1 <= n PROVE d[k + 1] = 0
    OBVIOUS
  <2> DEFINE j == k + 1
  <2>1. j \in 1 .. n /\ j - 1 = k /\ d[k] = 0
    BY <1>1
  <2> HIDE DEF j
  <2>2. Turn(s[j]) = 0
    BY <2>1
  <2>3. d[j] = 0
    BY <1>1, <2>1, <2>2
  <2> QED BY <2>3 DEF j
<1>4. G \in SUBSET Nat
  OBVIOUS
<1>5. \A k \in G : k <= n => d[k] = 0
  OBVIOUS
<1> HIDE DEF G
<1>6. G = Nat
  BY <1>2, <1>3, <1>4, NatGrows
<1>7. \A k \in 0 .. n : d[k] = 0
  BY <1>1, <1>5, <1>6
<1> HIDE DEF n, d
<1>8. d[n] = 0 /\ \A k \in 1 .. n : d[k] >= 0
  BY <1>1, <1>7
<1> QED BY <1>8 DEF Level, n, d

\* Texts without literals.
LEMMA SeqNatIsInt ==
  ASSUME NEW s \in Seq(Nat)
  PROVE  s \in Seq(Int)
OBVIOUS

\* Texts within which the depth stays.
LEMMA LevelOfNumbers ==
  ASSUME NEW s \in Seq(Nat)
  PROVE  Level(s, 0, 0)
<1>1. s \in Seq(Int)
  BY SeqNatIsInt
<1>2. ASSUME NEW k \in 1 .. Len(s) PROVE Turn(s[k]) = 0
  <2>1. s[k] \in Nat
    OBVIOUS
  <2> QED BY <2>1, Turns
<1> QED BY <1>1, <1>2, LevelFlat

\* Digits are no literals.
LEMMA LevelOfDigits ==
  ASSUME NEW n \in Nat
  PROVE  Digits(n) \in Seq(Nat) /\ Level(Digits(n), 0, 0)
<1> DEFINE d == Digits(n)
           S == 0 .. Base - 1
<1>1. d \in Seq(S)
  BY DigitsType
<1>2. \A x \in S : x \in Nat
  BY BytesAssumption
<1> HIDE DEF d, S
<1>3. d \in Seq(Nat)
  <2>1. \A k \in 1 .. Len(d) : d[k] \in S
    BY <1>1
  <2>2. \A k \in 1 .. Len(d) : d[k] \in Nat
    BY <1>2, <2>1
  <2>3. d = [k \in 1 .. Len(d) |-> d[k]] /\ Len(d) \in Nat
    BY <1>1
  <2> QED BY <2>2, <2>3
<1>4. Level(d, 0, 0)
  BY <1>3, LevelOfNumbers
<1> QED BY <1>3, <1>4 DEF d

\* Nor do the literals turn that only name what follows, or part it.
LEMMA LevelOfKey ==
  ASSUME NEW c \in {-1, -5, -6, -7, -9, -10, -11}
  PROVE  <<c>> \in Seq(Int) /\ Level(<<c>>, 0, 0)
<1> DEFINE s == <<c>>
<1>1. c \in Int /\ Turn(c) = 0
  BY Turns
<1>2. s \in Seq(Int) /\ \A k \in 1 .. Len(s) : s[k] = c
  BY <1>1
<1> HIDE DEF s
<1>3. Level(s, 0, 0)
  BY <1>1, <1>2, LevelFlat
<1> QED BY <1>2, <1>3 DEF s

\* What is opened, closed.
LEMMA WholeCloses ==
  ASSUME NEW a, Level(a, 1, 1), NEW c \in Closing
  PROVE  Whole(a \o <<c>>)
<1> DEFINE s == <<c>>
           t == a \o s
           n == Len(a)
<1>1. a \in Seq(Int) /\ Depth(a)[n] = 1 /\ \A k \in 1 .. n : Depth(a)[k] >= 1
  BY DEF Level
<1>2. c \in Int /\ Turn(c) = -1 /\ c # -1
  BY Turns
<1>3. s \in Seq(Int) /\ Len(s) = 1 /\ s[1] = c
  BY <1>2
<1>4. n \in Nat
  BY <1>1, LenProperties
<1> HIDE DEF s, n
<1>5. t \in Seq(Int) /\ Len(t) = n + 1 /\ Holds(t, n, s) /\ t[n + 1] = c
  <2>1. t \in Seq(Int) /\ Len(t) = n + 1 /\ Holds(t, n, s)
    BY <1>1, <1>3, HoldsLonger DEF n
  <2> HIDE DEF t
  <2>2. \A k \in 1 .. 1 : t[n + k] = s[k]
    BY <1>3, <2>1 DEF Holds
  <2> QED BY <1>3, <2>1, <2>2
<1>6. Holds(t, 0, a)
  <2>1. Holds(t, 0, t)
    BY <1>5, HoldsItself
  <2> QED BY <1>1, <1>3, <1>5, <2>1, Joined
<1> HIDE DEF t
<1>7. Depth(t) \in [0 .. Len(t) -> Int] /\ Depth(t)[0] = 0 /\ Depth(a) \in [0 .. n -> Int]
      /\ \A k \in 1 .. Len(t) : Depth(t)[k] = Depth(t)[k - 1] + Turn(t[k])
  BY <1>1, <1>5, DepthIs DEF n
<1>8. \A k \in 0 .. n : Depth(t)[0 + k] = Depth(t)[0] + Depth(a)[k]
  <2>1. 0 \in Nat
    OBVIOUS
  <2> QED BY <1>1, <1>5, <1>6, <2>1, DepthInside DEF n
<1>9. \A k \in 0 .. n : Depth(t)[k] = Depth(a)[k]
  BY <1>4, <1>7, <1>8
<1>10. Depth(t)[n] = 1 /\ \A k \in 1 .. n : Depth(t)[k] >= 1
  BY <1>1, <1>4, <1>9
<1>11. Depth(t)[n + 1] = 0
  <2> DEFINE j == n + 1
  <2>1. j \in 1 .. Len(t) /\ j - 1 = n /\ t[j] = c
    BY <1>4, <1>5
  <2> HIDE DEF j
  <2>2. Depth(t)[j] = 0
    BY <1>2, <1>7, <1>10, <2>1
  <2> QED BY <2>2 DEF j
<1>12. t[Len(t)] # Lit(",")
  BY <1>2, <1>5, LitsDiffer, Zenon
<1>13. Depth(t)[Len(t)] = 0 /\ Len(t) > 0 /\ \A k \in 1 .. Len(t) - 1 : Depth(t)[k] >= 1
  BY <1>4, <1>5, <1>10, <1>11
<1>14. Whole(t)
  BY <1>5, <1>12, <1>13, Zenon DEF Whole
<1> QED BY <1>14 DEF t, s

\* An item may follow any text, too.
LEMMA WholeIsLevel ==
  ASSUME NEW s, Whole(s)
  PROVE  Level(s, 0, 0)
<1> DEFINE n == Len(s)
           d == Depth(s)
<1>1. s \in Seq(Int) /\ d[n] = 0 /\ n > 0 /\ \A k \in 1 .. n - 1 : d[k] >= 1
  BY Zenon DEF Whole
<1>2. n \in Nat /\ d \in [0 .. n -> Int]
  BY <1>1, DepthIs, LenProperties
<1> HIDE DEF n, d
<1>3. \A k \in 1 .. n : d[k] >= 0
  BY <1>1, <1>2
<1> QED BY <1>1, <1>3 DEF Level, n, d

\* Texts that close what they open, in a row.
LEMMA LevelFlattened ==
  ASSUME NEW s \in Seq(Seq(Int)), \A i \in 1 .. Len(s) : Level(s[i], 0, 0)
  PROVE  Level(FlattenSeq(s), 0, 0)
<1> DEFINE n == Len(s)
           V == Seq(Int)
           none == << >>
<1>1. n \in Nat
  OBVIOUS
<1>2. PICK g \in [0 .. n -> V] : IsFlat(g, s)
  BY FlattenDef
<1>3. FlattenSeq(s) = g[n] /\ g[0] = none /\ \A i \in 1 .. n : g[i] = g[i - 1] \o s[i]
  BY <1>2, Zenon DEF IsFlat
<1> DEFINE G == {k \in Nat : k <= n => Level(g[k], 0, 0)}
<1>4. 0 \in G
  <2>1. none \in Seq(Int) /\ \A k \in 1 .. Len(none) : Turn(none[k]) = 0
    OBVIOUS
  <2> HIDE DEF none
  <2>2. Level(none, 0, 0)
    BY <2>1, LevelFlat
  <2> QED BY <1>3, <2>2
<1>5. ASSUME NEW k \in G PROVE k + 1 \in G
  <2> SUFFICES ASSUME k + 1 <= n PROVE Level(g[k + 1], 0, 0)
    OBVIOUS
  <2> DEFINE j == k + 1
  <2>1. j \in 1 .. n /\ j - 1 = k /\ Level(g[k], 0, 0)
    BY <1>1
  <2> HIDE DEF j
  <2>2. g[j] = g[k] \o s[j] /\ Level(s[j], 0, 0)
    BY <1>3, <2>1
  <2>3. 0 \in {0, 1}
    OBVIOUS
  <2>4. Level(g[j], 0, 0)
    BY <2>1, <2>2, <2>3, LevelJoined, Zenon
  <2> QED BY <2>4 DEF j
<1>6. G \in SUBSET Nat
  OBVIOUS
<1>7. \A k \in G : k <= n => Level(g[k], 0, 0)
  OBVIOUS
<1> HIDE DEF G
<1>8. G = Nat
  BY <1>4, <1>5, <1>6, NatGrows
<1>9. Level(g[n], 0, 0)
  BY <1>1, <1>7, <1>8
<1> QED BY <1>3, <1>9

-------------------------------------------------------------------------------
(* The items a reader finds.                                                 *)

\* Items of a list.
AllWhole(items) == \A i \in 1 .. Len(items) : Whole(items[i])

\* The items of a list, printed, close what they open.
LEMMA LevelOfItems ==
  ASSUME NEW items \in Seq(Seq(Int)), AllWhole(items)
  PROVE  Level(WithCommas(items), 0, 0)
<1> DEFINE n == Len(items)
           comma == Lit(",")
           s == [i \in DOMAIN items |-> Item(items, i)]
<1>1. comma \in {-1, -5, -6, -7, -9, -10, -11} /\ comma \in Int
  <2>1. -1 \in {-1, -5, -6, -7, -9, -10, -11} /\ -1 \in Int
    OBVIOUS
  <2> QED BY <2>1, LitsDiffer, Zenon
<1>2. n \in Nat /\ DOMAIN items = 1 .. n /\ \A i \in 1 .. n : items[i] \in Seq(Int)
  OBVIOUS
<1>3. \A i : Item(items, i) = IF i = n THEN items[i] ELSE Append(items[i], comma)
  BY Zenon DEF Item
<1>4. s = [i \in 1 .. n |-> Item(items, i)]
  BY <1>2
<1>5. WithCommas(items) = FlattenSeq(s)
  BY DEF WithCommas
<1>6. \A i \in 1 .. n : Whole(items[i])
  BY DEF AllWhole
<1> HIDE DEF comma, n, s
<1>7. ASSUME NEW i \in 1 .. n
      PROVE  Item(items, i) \in Seq(Int) /\ Level(Item(items, i), 0, 0)
  <2> DEFINE item == items[i]
  <2>1. item \in Seq(Int) /\ Level(item, 0, 0) /\ Item(items, i) = IF i = n THEN item ELSE Append(item, comma)
    BY <1>2, <1>3, <1>6, WholeIsLevel
  <2> HIDE DEF item
  <2>2. Append(item, comma) \in Seq(Int) /\ Append(item, comma) = item \o <<comma>>
    BY <1>1, <2>1, AppendProperties, AppendIsConcat
  <2>3. Level(<<comma>>, 0, 0)
    BY <1>1, LevelOfKey
  <2>4. Level(item \o <<comma>>, 0, 0)
    <3>1. 0 \in {0, 1}
      OBVIOUS
    <3> QED BY <2>1, <2>3, <3>1, LevelJoined, Zenon
  <2> QED BY <2>1, <2>2, <2>4
<1>8. s \in Seq(Seq(Int)) /\ Len(s) = n /\ \A i \in 1 .. n : s[i] = Item(items, i)
  <2>1. s \in [1 .. n -> Seq(Int)]
    BY <1>4, <1>7
  <2> QED BY <1>2, <1>4, <2>1
<1>9. \A i \in 1 .. Len(s) : Level(s[i], 0, 0)
  BY <1>7, <1>8
<1> QED BY <1>5, <1>8, <1>9, LevelFlattened

\* Where the items of a printed list stand in a text, between the positions e of the commas
\* and of what the list begins and ends with.
Laid(text, items, e) ==
  /\ e \in [0 .. Len(items) -> Nat]
  /\ \A i \in 1 .. Len(items) :
       /\ e[i] = e[i - 1] + Len(items[i]) + 1
       /\ Holds(text, e[i - 1], items[i])
       /\ i < Len(items) => text[e[i]] = Lit(",")

\* So they stand wherever the list was printed.
LEMMA ItemsLaid ==
  ASSUME NEW items \in Seq(Seq(Int)), Len(items) > 0, NEW text \in Seq(Int), NEW p \in Nat,
         Holds(text, p, WithCommas(items))
  PROVE  \E e : /\ Laid(text, items, e) /\ e[0] = p
                /\ e[Len(items)] = p + Len(WithCommas(items)) + 1
<1> DEFINE n == Len(items)
           comma == Lit(",")
           s == [i \in DOMAIN items |-> Item(items, i)]
           f == Lens(s)
           flat == FlattenSeq(s)
<1>1. comma \in Int
  BY LitsAre, Zenon
<1>2. n \in Nat /\ n > 0 /\ DOMAIN items = 1 .. n /\ \A i \in 1 .. n : items[i] \in Seq(Int)
  OBVIOUS
<1>3. \A i : Item(items, i) = IF i = n THEN items[i] ELSE Append(items[i], comma)
  BY Zenon DEF Item
<1>4. \A i \in 1 .. n : s[i] = Item(items, i)
  BY <1>2
<1>5. s = [i \in 1 .. n |-> Item(items, i)]
  BY <1>2
<1> HIDE DEF comma, n, s
<1>6. ASSUME NEW i \in 1 .. n
      PROVE  /\ Len(items[i]) \in Nat /\ s[i] \in Seq(Int)
             /\ Len(s[i]) = IF i = n THEN Len(items[i]) ELSE Len(items[i]) + 1
             /\ \A k \in 1 .. Len(items[i]) : s[i][k] = items[i][k]
             /\ i # n => s[i][Len(items[i]) + 1] = comma
  <2> DEFINE item == items[i]
  <2>1. item \in Seq(Int) /\ Len(item) \in Nat
    BY <1>2, LenProperties
  <2>2. s[i] = IF i = n THEN item ELSE Append(item, comma)
    BY <1>3, <1>4
  <2> HIDE DEF item
  <2>3. /\ Append(item, comma) \in Seq(Int) /\ Len(Append(item, comma)) = Len(item) + 1
        /\ \A k \in 1 .. Len(item) : Append(item, comma)[k] = item[k]
        /\ Append(item, comma)[Len(item) + 1] = comma
    BY <1>1, <2>1, AppendProperties
  <2>4. /\ s[i] \in Seq(Int)
        /\ Len(s[i]) = IF i = n THEN Len(item) ELSE Len(item) + 1
        /\ \A k \in 1 .. Len(item) : s[i][k] = item[k]
        /\ i # n => s[i][Len(item) + 1] = comma
    BY <2>1, <2>2, <2>3
  <2> QED BY <2>1, <2>4 DEF item
<1>7. s \in Seq(Seq(Int)) /\ Len(s) = n
  <2>1. s \in [1 .. n -> Seq(Int)]
    BY <1>5, <1>6
  <2> QED BY <1>2, <2>1
<1>8. WithCommas(items) = flat
  BY DEF WithCommas, s
<1> DEFINE up(i) == Upto(f, i)
<1>9. /\ flat \in Seq(Int) /\ Len(flat) = up(n)
      /\ \A i \in 1 .. n : up(i - 1) \in Nat /\ Holds(flat, up(i - 1), s[i])
  BY <1>7, FlattenHolds
<1>10. /\ up(0) = 0 /\ (\A i \in 0 .. n : up(i) \in Nat)
       /\ \A i \in 1 .. n : up(i) = up(i - 1) + Len(s[i])
  <2>1. f \in [1 .. n -> Nat] /\ \A i \in 1 .. n : f[i] = Len(s[i])
    BY <1>7, LensType
  <2> HIDE DEF f
  <2> QED BY <1>2, <2>1, UptoGrows
<1> HIDE DEF f, flat, up
<1> DEFINE e == [i \in 0 .. n |-> p + up(i) + (IF i = n THEN 1 ELSE 0)]
<1>11. e \in [0 .. n -> Nat]
  BY <1>10
<1>12. e[0] = p
  BY <1>2, <1>10
<1>13. e[n] = p + Len(flat) + 1
  <2>1. n \in 0 .. n /\ up(n) \in Nat
    BY <1>2, <1>10
  <2> QED BY <1>9, <2>1
<1>14. ASSUME NEW i \in 1 .. n
       PROVE  /\ e[i] = e[i - 1] + Len(items[i]) + 1
              /\ Holds(text, e[i - 1], items[i])
              /\ i < n => text[e[i]] = comma
  <2> DEFINE item == items[i]
             x == up(i - 1)
             y == p + x
  <2>1. i - 1 \in 0 .. n /\ i \in 0 .. n /\ i - 1 # n /\ x \in Nat /\ up(i) = x + Len(s[i]) /\ up(i) \in Nat
    BY <1>2, <1>10
  <2>2. e[i - 1] = p + x
    BY <2>1
  <2>3. e[i] = p + up(i) + (IF i = n THEN 1 ELSE 0)
    BY <2>1
  <2>4. Holds(flat, x, s[i])
    BY <1>9
  <2>5. /\ s[i] \in Seq(Int) /\ Len(s[i]) \in Nat /\ Len(item) \in Nat /\ item \in Seq(Int)
        /\ Len(s[i]) = IF i = n THEN Len(item) ELSE Len(item) + 1
        /\ \A k \in 1 .. Len(item) : s[i][k] = item[k]
        /\ i # n => s[i][Len(item) + 1] = comma
    BY <1>2, <1>6, LenProperties
  <2> HIDE DEF x, item
  <2>6. e[i] = p + x + Len(item) + 1
    <3> HIDE DEF e
    <3> DEFINE L == Len(s[i])
               l == Len(item)
               z == up(i)
    <3>1. L \in Nat /\ l \in Nat /\ L = (IF i = n THEN l ELSE l + 1) /\ z = x + L
      BY <2>1, <2>5
    <3>2. e[i] = p + z + (IF i = n THEN 1 ELSE 0)
      BY <2>3
    <3> HIDE DEF L, l, z
    <3>3. e[i] = p + x + l + 1
      BY <2>1, <3>1, <3>2
    <3> QED BY <3>3 DEF l
  <2>7. Holds(text, y, s[i])
    BY <1>8, <1>9, <2>1, <2>4, <2>5, HoldsThrough
  <2>8. y \in Nat
    BY <2>1
  <2> HIDE DEF y
  <2>9. y + Len(s[i]) <= Len(text) /\ \A k \in 1 .. Len(s[i]) : text[y + k] = s[i][k]
    BY <2>7 DEF Holds
  <2>10. Holds(text, y, item)
    <3>1. \A k \in 1 .. Len(item) : k \in 1 .. Len(s[i]) /\ s[i][k] = item[k]
      BY <2>5
    <3>2. y + Len(item) <= Len(text)
      <4>1. Len(s[i]) >= Len(item) /\ Len(text) \in Nat
        BY <2>5, LenProperties
      <4> QED BY <2>5, <2>8, <2>9, <4>1
    <3> QED BY <2>9, <3>1, <3>2 DEF Holds
  <2>11. ASSUME i < n PROVE text[e[i]] = comma
    <3> DEFINE k == Len(item) + 1
    <3>1. k \in 1 .. Len(s[i]) /\ s[i][k] = comma /\ i # n
      BY <1>2, <2>5, <2>11
    <3>2. e[i] = y + k
      BY <2>1, <2>5, <2>6 DEF y
    <3> HIDE DEF k
    <3> QED BY <2>9, <3>1, <3>2
  <2> QED BY <2>2, <2>10, <2>11, <2>6 DEF y, item
<1> HIDE DEF e
<1>15. Laid(text, items, e)
  BY <1>11, <1>14, Zenon DEF Laid, n, comma
<1> QED BY <1>8, <1>12, <1>13, <1>15 DEF n

\* What a reader's search for an opening cell chooses.
LEMMA FirstIs ==
  ASSUME NEW text \in Seq(Int), NEW p \in 1 .. Len(text),
         \A k \in 1 .. p - 1 : text[k] # text[p]
  PROVE  SelectInSeq(text, LAMBDA c : c = text[p]) = p
<1> DEFINE I == {i \in 1 .. Len(text) : text[i] = text[p]}
<1>1. I \in SUBSET Nat /\ p \in I /\ \A i \in I : p <= i
  <2>1. \A i \in 1 .. Len(text) : i \in 1 .. p - 1 \/ p <= i
    OBVIOUS
  <2> QED BY <2>1
<1>2. SelectInSeq(text, LAMBDA c : c = text[p]) = IF I # {} THEN Min(I) ELSE 0
  BY DEF SelectInSeq
<1> HIDE DEF I
<1>3. Min(I) \in I /\ \A k \in I : Min(I) <= k
  <2>1. I # {}
    BY <1>1
  <2> QED BY <1>1, <2>1, MinIsLeast
<1>4. Min(I) = p
  <2>1. Min(I) \in Nat /\ p \in Nat /\ p <= Min(I) /\ Min(I) <= p
    BY <1>1, <1>3
  <2> QED BY <2>1
<1> QED BY <1>1, <1>2, <1>4

\* The positions of what a list begins and ends with, and of its commas.
CutsOf(text, before) ==
  {k \in before .. Len(text) :
     k \in {before, Len(text)} \/ (text[k] = Lit(",") /\ Depth(text)[k] = 1)}

\* The commas of the list are those that the reader finds: within an item a comma is
\* deeper.
LEMMA CutsLaid ==
  ASSUME NEW text \in Seq(Int), NEW items \in Seq(Seq(Int)), Len(items) > 0,
         AllWhole(items), NEW e, Laid(text, items, e), Depth(text)[e[0]] = 1, e[Len(items)] = Len(text)
  PROVE  /\ Ascends(e, Len(items))
         /\ CutsOf(text, e[0]) = Positions(e, Len(items))
<1> DEFINE n == Len(items)
           dt == Depth(text)
           m == Len(text)
           comma == Lit(",")
           size(i) == Len(items[i])
<1>1. n \in Nat /\ n > 0 /\ m \in Nat /\ \A i \in 1 .. n : items[i] \in Seq(Int) /\ size(i) \in Nat
  <2>1. n \in Nat /\ m \in Nat /\ \A i \in 1 .. n : items[i] \in Seq(Int)
    OBVIOUS
  <2> HIDE DEF n
  <2> QED BY <2>1, LenProperties DEF n
<1>2. /\ e \in [0 .. n -> Nat]
      /\ \A i \in 1 .. n : /\ e[i] = e[i - 1] + size(i) + 1
                           /\ Holds(text, e[i - 1], items[i])
                           /\ i < n => text[e[i]] = comma
  BY Zenon DEF Laid
<1>3. dt \in [0 .. m -> Int] /\ \A k \in 1 .. m : dt[k] = dt[k - 1] + Turn(text[k])
  BY DepthIs
<1>4. \A i \in 1 .. n : /\ size(i) > 0 /\ items[i][size(i)] # comma /\ Depth(items[i])[size(i)] = 0
                        /\ \A k \in 1 .. size(i) - 1 : Depth(items[i])[k] >= 1
  BY Zenon DEF AllWhole, Whole
<1>5. comma = -1
  BY LitsDiffer, Zenon
<1>6. Ascends(e, n)
  <2> SUFFICES ASSUME NEW i \in 1 .. n PROVE e[i - 1] < e[i]
    BY DEF Ascends
  <2> HIDE DEF n, size
  <2>1. i - 1 \in 0 .. n /\ i \in 0 .. n
    BY <1>1
  <2>2. e[i - 1] \in Nat /\ size(i) \in Nat /\ e[i] = e[i - 1] + size(i) + 1
    BY <1>1, <1>2, <2>1
  <2> QED BY <2>2
<1>7. dt[e[0]] = 1 /\ e[n] = m
  OBVIOUS
<1>8. ASSUME NEW i \in 1 .. n
      PROVE  /\ i - 1 \in 0 .. n /\ i \in 0 .. n /\ e[i - 1] \in Nat /\ e[i] \in Nat
             /\ \A k \in 0 .. size(i) :
                  /\ e[i - 1] + k \in 0 .. m
                  /\ dt[e[i - 1] + k] = dt[e[i - 1]] + Depth(items[i])[k]
             /\ \A k \in 1 .. size(i) : text[e[i - 1] + k] = items[i][k]
             /\ Depth(items[i]) \in [0 .. size(i) -> Int]
  <2> DEFINE x == e[i - 1]
             s == items[i]
  <2>1. i - 1 \in 0 .. n /\ i \in 0 .. n
    BY <1>1
  <2>2. x \in Nat /\ e[i] \in Nat /\ s \in Seq(Int) /\ Holds(text, x, s)
    BY <1>1, <1>2, <2>1
  <2> HIDE DEF x, s, n, m, dt
  <2>3. \A k \in 0 .. Len(s) : x + k \in 0 .. m /\ dt[x + k] = dt[x] + Depth(s)[k]
    BY <2>2, DepthInside DEF m, dt
  <2>4. Depth(s) \in [0 .. Len(s) -> Int]
    BY <2>2, DepthIs
  <2>5. \A k \in 1 .. Len(s) : text[x + k] = s[k]
    BY <2>2 DEF Holds
  <2> QED BY <2>1, <2>2, <2>3, <2>4, <2>5 DEF x, s
<1> HIDE DEF n, m, dt, comma, size
<1>9. \A i, j \in 0 .. n : i < j => e[i] < e[j]
  BY <1>1, <1>2, <1>6, AscendsFar
<1>10. \A i \in 0 .. n : e[i] \in e[0] .. m
  <2> SUFFICES ASSUME NEW i \in 0 .. n PROVE e[i] \in e[0] .. m
    OBVIOUS
  <2>1. 0 \in 0 .. n /\ n \in 0 .. n /\ (i = 0 \/ 0 < i) /\ (i = n \/ i < n)
    BY <1>1
  <2>2. e[0] \in Nat /\ e[i] \in Nat
    BY <1>2, <2>1
  <2>3. (i = 0 \/ e[0] < e[i]) /\ (i = n \/ e[i] < e[n])
    BY <1>9, <2>1
  <2> QED BY <1>1, <1>7, <2>1, <2>2, <2>3, SMTT(30)
<1> DEFINE G == {i \in Nat : i < n => dt[e[i]] = 1}
<1>11. 0 \in G
  BY <1>7
<1>12. ASSUME NEW l \in G PROVE l + 1 \in G
  <2> SUFFICES ASSUME l + 1 < n PROVE dt[e[l + 1]] = 1
    OBVIOUS
  <2> DEFINE i == l + 1
             x == e[l]
             y == e[i]
             z == size(i)
  <2>1. i \in 1 .. n /\ i - 1 = l /\ i < n /\ dt[x] = 1
    BY <1>1
  <2> HIDE DEF i
  <2>2. x \in Nat /\ y \in Nat /\ z \in Nat /\ y = x + z + 1 /\ text[y] = comma
    BY <1>1, <1>2, <1>8, <2>1
  <2>3. dt[x + z] = dt[x] + Depth(items[i])[z]
    <3>1. size(i) \in 0 .. size(i)
      BY <2>2
    <3>2. dt[e[i - 1] + size(i)] = dt[e[i - 1]] + Depth(items[i])[size(i)]
      BY <1>8, <2>1, <3>1
    <3> QED BY <2>1, <3>2
  <2>4. Depth(items[i])[z] = 0
    BY <1>4, <2>1
  <2>5. y \in 1 .. m
    <3>1. y \in e[0] .. m /\ e[0] \in Nat /\ i \in 0 .. n
      <4>1. i \in 0 .. n /\ 0 \in 0 .. n
        BY <1>1, <2>1
      <4> QED BY <1>2, <1>10, <4>1
    <3> QED BY <1>1, <2>2, <3>1, SMTT(30)
  <2> HIDE DEF x, y, z
  <2>6. y - 1 = x + z
    BY <2>2
  <2>7. dt[y] = dt[x + z] + Turn(text[y])
    BY <1>3, <2>5, <2>6
  <2>8. Turn(text[y]) = 0
    BY <1>5, <2>2, Turns
  <2>9. dt[y] = 1
    BY <2>1, <2>3, <2>4, <2>7, <2>8
  <2> QED BY <2>9 DEF y, i
<1>13. G \in SUBSET Nat /\ \A i \in G : i < n => dt[e[i]] = 1
  OBVIOUS
<1> HIDE DEF G
<1>14. G = Nat
  BY <1>11, <1>12, <1>13, NatGrows
<1>15. \A i \in 0 .. n : i < n => dt[e[i]] = 1
  BY <1>1, <1>13, <1>14
<1>16. ASSUME NEW i \in 1 .. n, NEW k \in 1 .. size(i)
       PROVE  ~ (text[e[i - 1] + k] = comma /\ dt[e[i - 1] + k] = 1)
  <2>1. size(i) \in Nat /\ i - 1 \in 0 .. n /\ i - 1 < n
    BY <1>1
  <2>2. dt[e[i - 1]] = 1
    BY <1>15, <2>1
  <2>3. CASE k = size(i)
    <3>1. text[e[i - 1] + k] = items[i][k] /\ items[i][k] # comma
      BY <1>4, <1>8, <2>3
    <3> QED BY <3>1
  <2>4. CASE k # size(i)
    <3>1. k \in 1 .. size(i) - 1 /\ k \in 0 .. size(i)
      BY <2>1, <2>4
    <3>2. Depth(items[i])[k] >= 1 /\ Depth(items[i])[k] \in Int
      BY <1>4, <1>8, <3>1
    <3>3. dt[e[i - 1] + k] = 1 + Depth(items[i])[k]
      BY <1>8, <2>2, <3>1
    <3> QED BY <3>2, <3>3
  <2> QED BY <2>3, <2>4
<1> DEFINE K == {k \in e[0] .. m : k \in {e[0], m} \/ (text[k] = comma /\ dt[k] = 1)}
           E == {e[i] : i \in 0 .. n}
<1>17. ASSUME NEW k \in K PROVE k \in E
  <2>1. 0 \in 0 .. n /\ n \in 0 .. n
    BY <1>1
  <2>2. k \in e[0] .. e[n] /\ (k = e[0] \/ k = e[n] \/ (text[k] = comma /\ dt[k] = 1))
    BY <1>7
  <2>3. CASE k = e[0] \/ k = e[n]
    BY <2>1, <2>3
  <2>4. CASE k # e[0] /\ k # e[n] /\ text[k] = comma /\ dt[k] = 1
    <3>1. PICK i \in 1 .. n : e[i - 1] < k /\ k <= e[i]
      <4> HIDE DEF K, E
      <4>1. k = e[0] \/ \E i \in 1 .. n : e[i - 1] < k /\ k <= e[i]
        BY <1>1, <1>2, <2>2, AscendsCovers
      <4> QED BY <2>4, <4>1
    <3>2. CASE k = e[i]
      <4>1. i \in 0 .. n
        BY <1>1
      <4> QED BY <3>2, <4>1
    <3>3. CASE k # e[i]
      <4> DEFINE x == e[i - 1]
                 z == size(i)
                 j == k - x
      <4> HIDE DEF K, E
      <4>1. k \in Int
        BY <2>2
      <4>2. x \in Nat /\ z \in Nat /\ e[i] = x + z + 1
        BY <1>1, <1>2, <1>8
      <4>3. x < k /\ k <= e[i] /\ k # e[i]
        BY <3>1, <3>3
      <4> HIDE DEF x, z
      <4>4. j \in 1 .. z /\ x + j = k
        BY <4>1, <4>2, <4>3
      <4> HIDE DEF j
      <4>5. ~ (text[x + j] = comma /\ dt[x + j] = 1)
        BY <1>16, <4>4 DEF x, z
      <4> QED BY <2>4, <4>4, <4>5
    <3> QED BY <3>2, <3>3
  <2> HIDE DEF K, E
  <2> QED BY <2>2, <2>3, <2>4
<1>18. ASSUME NEW k \in E PROVE k \in K
  <2>1. PICK i \in 0 .. n : k = e[i]
    OBVIOUS
  <2>2. k \in e[0] .. m
    BY <1>10, <2>1
  <2>3. CASE i = 0
    BY <2>1, <2>2, <2>3
  <2>4. CASE i = n
    BY <1>7, <2>1, <2>2, <2>4
  <2>5. CASE i # 0 /\ i # n
    <3>1. i \in 1 .. n /\ i < n
      BY <1>1, <2>5
    <3>2. text[e[i]] = comma /\ dt[e[i]] = 1
      BY <1>2, <1>15, <3>1
    <3> QED BY <2>1, <2>2, <3>2
  <2> QED BY <2>3, <2>4, <2>5
<1>19. K = E
  <2> HIDE DEF K, E
  <2> QED BY <1>17, <1>18
<1>20. CutsOf(text, e[0]) = K
  BY DEF CutsOf, m, dt, comma
<1> QED BY <1>6, <1>19, <1>20 DEF Positions, n

\* A reader finds the items of a printed list, none of them torn and none left out,
\* whatever was printed before the list.
LEMMA ItemsReadBack ==
  ASSUME NEW head \in Seq(Int), Level(head, 1, 1),
         \A k \in 1 .. Len(head) - 1 : head[k] # head[Len(head)],
         NEW items \in Seq(Seq(Int)), AllWhole(items), NEW c \in Closing
  PROVE  ItemsOf(head \o WithCommas(items) \o <<c>>, head[Len(head)]) = items
<1> DEFINE p == Len(head)
           w == WithCommas(items)
           hw == head \o w
           l == <<c>>
           text == hw \o l
           n == Len(items)
           o == head[p]
           K == CutsOf(text, p)
<1>1. p \in Nat /\ p > 0 /\ Depth(head)[p] = 1
  <2>1. p \in Nat /\ Depth(head)[0] = 0 /\ Depth(head)[p] = 1
    BY DepthIs, LenProperties DEF Level
  <2> QED BY <2>1
<1>2. w \in Seq(Int) /\ Len(w) \in Nat
  <2>1. w \in Seq(Int)
    BY CommasType
  <2> HIDE DEF w
  <2> QED BY <2>1, LenProperties
<1>3. l \in Seq(Int) /\ Len(l) = 1
  BY Turns
<1>4. n \in Nat /\ items = [i \in 1 .. n |-> items[i]] /\ \A i \in 1 .. n : items[i] \in Seq(Int)
  OBVIOUS
<1> HIDE DEF p, w, l, n
<1>5. hw \in Seq(Int) /\ Len(hw) = p + Len(w) /\ Holds(hw, p, w)
  BY <1>2, HoldsLonger DEF p
<1>6. Holds(hw, 0, head)
  <2>1. Holds(hw, 0, hw) /\ 0 \in Nat
    BY <1>5, HoldsItself
  <2> QED BY <1>2, <1>5, <2>1, HoldsParts
<1> HIDE DEF hw
<1>7. /\ text \in Seq(Int) /\ Len(text) = p + Len(w) + 1
      /\ Holds(text, 0, head) /\ Holds(text, p, w)
  <2>1. /\ \A at \in Nat, s \in Seq(Int) : Holds(hw, at, s) => Holds(text, at, s)
        /\ text \in Seq(Int) /\ Len(text) = Len(hw) + Len(l)
    BY <1>3, <1>5, HoldsLonger
  <2>2. 0 \in Nat
    OBVIOUS
  <2> HIDE DEF text
  <2> QED BY <1>1, <1>2, <1>3, <1>5, <1>6, <2>1, <2>2
<1>8. ItemsOf(text, o) =
        LET before == SelectInSeq(text, LAMBDA x : x = o)
            cuts   == CutsOf(text, before)
        IN  IF before = Len(text) - 1 THEN << >>
            ELSE [i \in 1 .. Cardinality(cuts) - 1 |->
                    SubSeq(text, Nth(cuts, i) + 1, Nth(cuts, i + 1) - 1)]
  BY Zenon DEF ItemsOf, CutsOf
<1> HIDE DEF text
<1>9. \A k \in 1 .. p : text[k] = head[k]
  <2>1. \A k \in 1 .. p : text[0 + k] = head[k]
    BY <1>7 DEF Holds, p
  <2>2. \A k \in 1 .. p : 0 + k = k
    BY <1>1
  <2> QED BY <2>1, <2>2
<1>10. SelectInSeq(text, LAMBDA x : x = o) = p
  <2>1. p \in 1 .. Len(text) /\ p \in 1 .. p
    BY <1>1, <1>2, <1>7
  <2>2. text[p] = o
    BY <1>9, <2>1
  <2>3. \A k \in 1 .. p - 1 : text[k] # text[p]
    <3>1. \A k \in 1 .. p - 1 : head[k] # o
      BY DEF p
    <3>2. \A k \in 1 .. p - 1 : k \in 1 .. p
      BY <1>1
    <3> QED BY <1>9, <2>2, <3>1, <3>2
  <2>4. SelectInSeq(text, LAMBDA x : x = text[p]) = p
    BY <1>7, <2>1, <2>3, FirstIs
  <2> QED BY <2>2, <2>4
<1>11. ItemsOf(text, o) =
         IF p = Len(text) - 1 THEN << >>
         ELSE [i \in 1 .. Cardinality(K) - 1 |-> SubSeq(text, Nth(K, i) + 1, Nth(K, i + 1) - 1)]
  <2> HIDE DEF o
  <2> QED BY <1>8, <1>10
<1> HIDE DEF o, K
<1>12. CASE n = 0
  <2> DEFINE s == [i \in DOMAIN items |-> Item(items, i)]
  <2>1. items = << >> /\ s \in Seq(Seq(Int)) /\ Len(s) = 0
    BY <1>4, <1>12 DEF n
  <2>2. w = FlattenSeq(s)
    BY DEF WithCommas, w
  <2> HIDE DEF s
  <2>3. Len(w) = 0
    <3>1. Len(w) = Upto(Lens(s), 0)
      BY <2>1, <2>2, FlattenHolds
    <3> DEFINE f == Lens(s)
    <3>2. f \in [1 .. 0 -> Nat] /\ 0 \in Nat
      BY <2>1, LensType
    <3> HIDE DEF f
    <3>3. Upto(f, 0) = 0
      BY <3>2, UptoGrows
    <3> QED BY <3>1, <3>3 DEF f
  <2>4. p = Len(text) - 1
    BY <1>1, <1>7, <2>3
  <2> QED BY <1>11, <2>1, <2>4 DEF text, hw, w, l, o, p
<1>13. CASE n # 0
  <2>1. PICK e : /\ Laid(text, items, e) /\ e[0] = p
                 /\ e[n] = p + Len(w) + 1
    <3>1. Len(items) > 0
      BY <1>4, <1>13 DEF n
    <3> QED BY <1>1, <1>7, <3>1, ItemsLaid DEF n, w
  <2>2. /\ e \in [0 .. n -> Nat]
        /\ \A i \in 1 .. n : e[i] = e[i - 1] + Len(items[i]) + 1 /\ Holds(text, e[i - 1], items[i])
    BY <2>1, Zenon DEF Laid, n
  <2>3. Depth(text)[p] = 1
    <3>1. Depth(text)[0] = 0
      BY <1>7, DepthIs
    <3>2. Depth(text)[0 + p] = Depth(text)[0] + Depth(head)[p]
      <4>1. 0 \in Nat /\ p \in 0 .. p
        BY <1>1
      <4> QED BY <1>7, <4>1, DepthInside DEF p
    <3> QED BY <1>1, <3>1, <3>2
  <2>4. e[n] = Len(text)
    BY <1>7, <2>1
  <2>5. Ascends(e, n) /\ K = {e[i] : i \in 0 .. n}
    <3>1. Len(items) > 0
      BY <1>4, <1>13 DEF n
    <3>2. Depth(text)[e[0]] = 1 /\ e[Len(items)] = Len(text)
      BY <2>1, <2>3, <2>4 DEF n
    <3>3. Ascends(e, Len(items)) /\ CutsOf(text, e[0]) = Positions(e, Len(items))
      BY <1>7, <2>1, <3>1, <3>2, CutsLaid, Zenon
    <3> QED BY <2>1, <3>3 DEF Positions, n, K
  <2>6. \A i, j \in 0 .. n : i < j => e[i] < e[j]
    BY <1>4, <2>2, <2>5, AscendsFar
  <2>7. \A i \in 0 .. n : e[i] \in 1 .. Len(text)
    <3> SUFFICES ASSUME NEW i \in 0 .. n PROVE e[i] \in 1 .. Len(text)
      OBVIOUS
    <3>1. 0 \in 0 .. n /\ n \in 0 .. n /\ (i = 0 \/ 0 < i) /\ (i = n \/ i < n)
      BY <1>4
    <3>2. (i = 0 \/ p < e[i]) /\ (i = n \/ e[i] < Len(text)) /\ e[i] \in Nat
      BY <2>1, <2>2, <2>4, <2>6, <3>1
    <3> QED BY <1>1, <1>2, <1>7, <2>1, <2>4, <3>2, SMTT(30)
  <2>8. Cardinality(K) = n + 1 /\ \A i \in 0 .. n : Nth(K, i + 1) = e[i]
    <3> DEFINE m == Len(text)
    <3>1. m \in Nat /\ e \in [0 .. n -> 1 .. m]
      BY <1>1, <1>2, <1>7, <2>2, <2>7
    <3> HIDE DEF m
    <3> QED BY <1>4, <2>5, <3>1, AscendsNth
  <2>9. ASSUME NEW i \in 1 .. n
        PROVE  SubSeq(text, Nth(K, i) + 1, Nth(K, i + 1) - 1) = items[i]
    <3> DEFINE x == e[i - 1]
               s == items[i]
    <3>1. i - 1 \in 0 .. n /\ i \in 0 .. n /\ i - 1 + 1 = i
      BY <1>4
    <3>2. Nth(K, i) = x
      <4> DEFINE j == i - 1
      <4>1. Nth(K, j + 1) = e[j]
        BY <2>8, <3>1
      <4> QED BY <3>1, <4>1
    <3>3. Nth(K, i + 1) = x + Len(s) + 1 /\ x \in Nat /\ s \in Seq(Int) /\ Holds(text, x, s)
      BY <1>4, <2>2, <2>8, <3>1
    <3> HIDE DEF x, s
    <3>4. Len(s) \in Nat
      BY <3>3, LenProperties
    <3>5. Nth(K, i + 1) - 1 = x + Len(s)
      BY <3>3, <3>4
    <3>6. SubSeq(text, x + 1, x + Len(s)) = s
      BY <1>7, <3>3, CutHeld DEF Cut
    <3> QED BY <3>2, <3>5, <3>6 DEF s
  <2>10. p # Len(text) - 1
    <3>1. 1 \in 1 .. n /\ 1 \in 0 .. n /\ 1 - 1 = 0
      BY <1>4, <1>13
    <3>2. Whole(items[1])
      BY <3>1 DEF AllWhole, n
    <3>3. Len(items[1]) > 0 /\ Len(items[1]) \in Nat
      BY <3>2, LenProperties, Zenon DEF Whole
    <3>4. e[1] = p + Len(items[1]) + 1
      BY <2>1, <2>2, <3>1
    <3>5. e[1] <= Len(text)
      BY <2>7, <3>1
    <3> QED BY <1>1, <1>2, <1>7, <3>3, <3>4, <3>5
  <2>11. Cardinality(K) - 1 = n
    BY <1>4, <2>8
  <2>12. ItemsOf(text, o) = [i \in 1 .. n |-> items[i]]
    BY <1>11, <2>9, <2>10, <2>11
  <2> QED BY <1>4, <2>12 DEF text, hw, w, l, o, p
<1> QED BY <1>12, <1>13

\* A list on its own, after the cell that opens it.
LEMMA ListReadsBack ==
  ASSUME NEW o \in Opening, NEW items \in Seq(Seq(Int)), AllWhole(items), NEW c \in Closing
  PROVE  ItemsOf(<<o>> \o WithCommas(items) \o <<c>>, o) = items
<1> DEFINE h == <<o>>
<1>1. Level(h, 1, 1)
  BY LevelOpens
<1>2. h \in Seq(Int) /\ Len(h) = 1 /\ h[Len(h)] = o
  BY Turns
<1> HIDE DEF h
<1>3. \A k \in 1 .. Len(h) - 1 : h[k] # h[Len(h)]
  BY <1>2
<1>4. ItemsOf(h \o WithCommas(items) \o <<c>>, h[Len(h)]) = items
  BY <1>1, <1>2, <1>3, ItemsReadBack
<1> QED BY <1>2, <1>4 DEF h

-------------------------------------------------------------------------------
(* What a reader finds in what is printed of a chain.                        *)

\* What is printed of a chain with flat keys: no hash is a literal, and nothing opens or
\* closes in a key.
PrintedTxs == {t \in WrittenTxs : Flat(t.sender) /\ Flat(t.receiver)}

PrintedBlock ==
  {b \in WrittenBlock : b.previusHash \in Nat /\ b.blockHash \in Nat /\ b.tl \in Seq(PrintedTxs)}

\* A transaction is an item.
LEMMA TxsIsWhole ==
  ASSUME NEW t \in PrintedTxs
  PROVE  Whole(TxsToJson(t))
<1> DEFINE l1 == <<Lit("{sender:")>>
           l2 == <<Lit(",receiver:")>>
           l3 == <<Lit(",amount:")>>
           l4 == <<Lit(",time:")>>
           c == Lit("}")
           s == t.sender
           r == t.receiver
           a == Digits(t.amount)
           d == Digits(t.time)
           text == l1 \o s \o l2 \o r \o l3 \o a \o l4 \o d
<1>1. Level(l1, 1, 1)
  <2>1. Lit("{sender:") \in Opening
    BY Zenon DEF Opening
  <2> QED BY <2>1, LevelOpens, Zenon
<1>2. Level(l2, 0, 0) /\ Level(l3, 0, 0) /\ Level(l4, 0, 0)
  <2>1. \A x \in {-5, -6, -7} : Level(<<x>>, 0, 0)
    BY LevelOfKey
  <2>2. -5 \in {-5, -6, -7} /\ -6 \in {-5, -6, -7} /\ -7 \in {-5, -6, -7}
    OBVIOUS
  <2>3. Level(<<-5>>, 0, 0) /\ Level(<<-6>>, 0, 0) /\ Level(<<-7>>, 0, 0)
    BY <2>1, <2>2, Zenon
  <2> QED BY <2>3, LitsDiffer, Zenon
<1>3. c \in Closing
  BY Zenon DEF Closing
<1>4. /\ s \in Seq(Int) /\ r \in Seq(Int) /\ Flat(s) /\ Flat(r)
      /\ t.amount \in Nat /\ t.time \in Nat
  BY NumberType DEF PrintedTxs, WrittenTxs, WrittenText
<1>5. Level(s, 0, 0) /\ Level(r, 0, 0)
  BY <1>4, LevelFlat, SMTT(30) DEF Flat
<1>6. Level(a, 0, 0) /\ Level(d, 0, 0)
  BY <1>4, LevelOfDigits
<1>7. TxsToJson(t) = text \o <<c>>
  BY DEF TxsToJson
<1> HIDE DEF l1, l2, l3, l4, c, s, r, a, d
<1>8. Level(l1 \o s \o l2 \o r, 1, 1)
  <2>1. Level(l1 \o s, 1, 1)
    BY <1>1, <1>5, OpenGoesOn, Zenon
  <2>2. Level(l1 \o s \o l2, 1, 1)
    BY <1>2, <2>1, OpenGoesOn, Zenon
  <2> QED BY <1>5, <2>2, OpenGoesOn, Zenon
<1>9. Level(text, 1, 1)
  <2> DEFINE u == l1 \o s \o l2 \o r
  <2>1. Level(u, 1, 1) /\ text = u \o l3 \o a \o l4 \o d
    BY <1>8
  <2> HIDE DEF u, text
  <2>2. Level(u \o l3, 1, 1)
    BY <1>2, <2>1, OpenGoesOn, Zenon
  <2>3. Level(u \o l3 \o a, 1, 1)
    BY <1>6, <2>2, OpenGoesOn, Zenon
  <2>4. Level(u \o l3 \o a \o l4, 1, 1)
    BY <1>2, <2>3, OpenGoesOn, Zenon
  <2>5. Level(u \o l3 \o a \o l4 \o d, 1, 1)
    BY <1>6, <2>4, OpenGoesOn, Zenon
  <2> QED BY <2>1, <2>5
<1> HIDE DEF text
<1>10. Whole(text \o <<c>>)
  BY <1>3, <1>9, WholeCloses, Zenon
<1> QED BY <1>7, <1>10

\* All transactions of a list are.
LEMMA TxsItemsWhole ==
  ASSUME NEW tl \in Seq(PrintedTxs)
  PROVE  TxsItems(tl) \in Seq(Seq(Int)) /\ AllWhole(TxsItems(tl))
<1> DEFINE n == Len(tl)
           items == TxsItems(tl)
<1>1. /\ n \in Nat /\ DOMAIN tl = 1 .. n /\ tl = [i \in 1 .. n |-> tl[i]]
      /\ \A i \in 1 .. n : tl[i] \in PrintedTxs
  OBVIOUS
<1>2. items = [i \in 1 .. n |-> TxsToJson(tl[i])]
  BY <1>1 DEF TxsItems
<1> HIDE DEF n, items
<1>3. tl \in Seq(WrittenTxs)
  BY <1>1 DEF PrintedTxs
<1>4. items \in Seq(Seq(Int)) /\ Len(items) = n
  BY <1>3, TxsItemsType DEF items, n
<1>5. ASSUME NEW i \in 1 .. n PROVE Whole(items[i])
  <2> DEFINE t == tl[i]
  <2>1. t \in PrintedTxs /\ items[i] = TxsToJson(t)
    BY <1>1, <1>2
  <2> HIDE DEF t
  <2> QED BY <2>1, TxsIsWhole
<1> QED BY <1>4, <1>5 DEF AllWhole, items

\* What is printed of a block before its transactions.
HeadOf(b) ==
  <<Lit("{previousHash:"), b.previusHash, Lit(",currentHash:"), b.blockHash, Lit(",proof:")>>
    \o Digits(b.proof) \o <<Lit(",time:")>> \o Digits(b.time) \o <<Lit(",transactions:[")>>

\* Texts in which no list of transactions begins.
Lacks(s) == s \in Seq(Int) /\ \A k \in 1 .. Len(s) : s[k] # -11

\* Two in a row are one.
LEMMA LacksJoined ==
  ASSUME NEW a, Lacks(a), NEW b, Lacks(b)
  PROVE  Lacks(a \o b)
<1> DEFINE c == a \o b
<1>1. /\ a \in Seq(Int) /\ b \in Seq(Int) /\ Len(a) \in Nat /\ Len(b) \in Nat
      /\ (\A k \in 1 .. Len(a) : a[k] # -11) /\ \A k \in 1 .. Len(b) : b[k] # -11
  BY LenProperties DEF Lacks
<1>2. /\ c \in Seq(Int) /\ Len(c) = Len(a) + Len(b)
      /\ \A i \in 1 .. Len(a) + Len(b) : c[i] = IF i <= Len(a) THEN a[i] ELSE b[i - Len(a)]
  BY <1>1, ConcatProperties
<1> HIDE DEF c
<1>3. ASSUME NEW i \in 1 .. Len(c) PROVE c[i] # -11
  <2>1. CASE i <= Len(a)
    BY <1>1, <1>2, <2>1, SMTT(30)
  <2>2. CASE ~ (i <= Len(a))
    <3> DEFINE j == i - Len(a)
    <3>1. j \in 1 .. Len(b)
      BY <1>1, <1>2, <2>2
    <3>2. c[i] = b[j]
      BY <1>2, <2>2
    <3> HIDE DEF j
    <3> QED BY <1>1, <3>1, <3>2
  <2> QED BY <2>1, <2>2
<1>4. Lacks(c)
  BY <1>2, <1>3 DEF Lacks
<1> QED BY <1>4 DEF c

\* Numbers are one.
LEMMA LacksNumbers ==
  ASSUME NEW s \in Seq(Nat)
  PROVE  Lacks(s)
<1>1. s \in Seq(Int)
  BY SeqNatIsInt
<1>2. \A k \in 1 .. Len(s) : s[k] # -11
  OBVIOUS
<1> QED BY <1>1, <1>2 DEF Lacks

\* That begins an object, and where it ends the list begins for the first time.
LEMMA HeadIs ==
  ASSUME NEW b \in PrintedBlock
  PROVE  /\ HeadOf(b) \in Seq(Int) /\ Level(HeadOf(b), 1, 1)
         /\ HeadOf(b)[Len(HeadOf(b))] = Lit(",transactions:[")
         /\ \A k \in 1 .. Len(HeadOf(b)) - 1 : HeadOf(b)[k] # HeadOf(b)[Len(HeadOf(b))]
<1> DEFINE x == b.previusHash
           y == b.blockHash
           l1 == <<Lit("{previousHash:"), x, Lit(",currentHash:"), y, Lit(",proof:")>>
           p == Digits(b.proof)
           l2 == <<Lit(",time:")>>
           d == Digits(b.time)
           o == Lit(",transactions:[")
           l3 == <<o>>
           h == l1 \o p \o l2 \o d
<1>1. x \in Nat /\ y \in Nat /\ b.proof \in Nat /\ b.time \in Nat
  BY NumberType DEF PrintedBlock, WrittenBlock
<1>2. p \in Seq(Nat) /\ d \in Seq(Nat) /\ Level(p, 0, 0) /\ Level(d, 0, 0)
  BY <1>1, LevelOfDigits
<1>3. Lacks(p) /\ Lacks(d)
  BY <1>2, LacksNumbers
<1>4. l1 = <<-8, x, -9, y, -10>> /\ l2 = <<-7>> /\ o = -11
  BY LitsDiffer, Zenon
<1>5. HeadOf(b) = h \o l3
  BY DEF HeadOf
<1> HIDE DEF x, y, l1, l2, o, p, d
<1>6. /\ l1 \in Seq(Int) /\ Len(l1) = 5
      /\ l1[1] = -8 /\ l1[2] = x /\ l1[3] = -9 /\ l1[4] = y /\ l1[5] = -10
  <2>1. x \in Int /\ y \in Int
    BY <1>1
  <2> QED BY <1>4, <2>1
<1>7. Level(l1, 1, 1)
  <2> DEFINE dt == Depth(l1)
  <2>1. dt[0] = 0 /\ \A k \in 1 .. 5 : dt[k] = dt[k - 1] + Turn(l1[k])
    BY <1>6, DepthIs
  <2>2. Turn(-8) = 1 /\ Turn(x) = 0 /\ Turn(-9) = 0 /\ Turn(y) = 0 /\ Turn(-10) = 0
    BY <1>1, Turns
  <2> HIDE DEF dt
  <2>3. dt[1] = dt[0] + Turn(-8) /\ dt[2] = dt[1] + Turn(x) /\ dt[3] = dt[2] + Turn(-9)
        /\ dt[4] = dt[3] + Turn(y) /\ dt[5] = dt[4] + Turn(-10)
    BY <1>6, <2>1
  <2>4. dt[1] = 1 /\ dt[2] = 1 /\ dt[3] = 1 /\ dt[4] = 1 /\ dt[5] = 1
    BY <2>1, <2>2, <2>3
  <2>5. \A k \in 1 .. 5 : dt[k] >= 1
    BY <2>4
  <2> QED BY <1>6, <2>4, <2>5 DEF Level, dt
<1>8. Lacks(l1)
  <2>1. \A k \in 1 .. 5 : k = 1 \/ k = 2 \/ k = 3 \/ k = 4 \/ k = 5
    OBVIOUS
  <2>2. x # -11 /\ y # -11
    BY <1>1
  <2>3. \A k \in 1 .. 5 : l1[k] # -11
    BY <1>6, <2>1, <2>2
  <2> QED BY <1>6, <2>3 DEF Lacks
<1>9. Level(l2, 0, 0) /\ Lacks(l2)
  <2>1. Level(l2, 0, 0)
    BY <1>4, LevelOfKey
  <2>2. l2 \in Seq(Int) /\ Len(l2) = 1 /\ l2[1] = -7
    BY <1>4
  <2> QED BY <2>1, <2>2 DEF Lacks
<1>10. Level(l3, 0, 0) /\ l3 \in Seq(Int) /\ Len(l3) = 1 /\ l3[1] = o
  <2>1. o \in Int /\ o \in {-1, -5, -6, -7, -9, -10, -11}
    BY <1>4
  <2> QED BY <2>1, LevelOfKey
<1> HIDE DEF l3
<1>11. Level(h, 1, 1)
  <2>1. Level(l1 \o p, 1, 1)
    BY <1>2, <1>7, OpenGoesOn, Zenon
  <2>2. Level(l1 \o p \o l2, 1, 1)
    BY <1>9, <2>1, OpenGoesOn, Zenon
  <2> QED BY <1>2, <2>2, OpenGoesOn, Zenon
<1>12. Lacks(h)
  <2>1. Lacks(l1 \o p)
    BY <1>3, <1>8, LacksJoined, Zenon
  <2>2. Lacks(l1 \o p \o l2)
    BY <1>9, <2>1, LacksJoined, Zenon
  <2> QED BY <1>3, <2>2, LacksJoined, Zenon
<1> HIDE DEF h
<1> DEFINE head == h \o l3
           n == Len(h)
<1>13. Level(head, 1, 1)
  BY <1>10, <1>11, OpenGoesOn, Zenon
<1>14. h \in Seq(Int) /\ n \in Nat /\ \A k \in 1 .. n : h[k] # -11
  BY <1>12, LenProperties DEF Lacks
<1>15. /\ head \in Seq(Int) /\ Len(head) = n + 1
       /\ \A i \in 1 .. n + 1 : head[i] = IF i <= n THEN h[i] ELSE l3[i - n]
  <2>1. h \in Seq(Int) /\ l3 \in Seq(Int) /\ Len(l3) = 1
    BY <1>10, <1>14
  <2>2. /\ head \in Seq(Int) /\ Len(head) = Len(h) + Len(l3)
        /\ \A i \in 1 .. Len(h) + Len(l3) : head[i] = IF i <= Len(h) THEN h[i] ELSE l3[i - Len(h)]
    BY <2>1, ConcatProperties
  <2> HIDE DEF head
  <2> QED BY <2>1, <2>2
<1> HIDE DEF head, n
<1>16. head[n + 1] = o
  <2> DEFINE i == n + 1
  <2>1. i \in 1 .. n + 1 /\ ~ (i <= n) /\ i - n = 1
    BY <1>14
  <2> HIDE DEF i
  <2> QED BY <1>10, <1>15, <2>1 DEF i
<1>17. \A k \in 1 .. Len(head) - 1 : head[k] # head[Len(head)]
  <2>1. \A k \in 1 .. n : k \in 1 .. n + 1 /\ k <= n
    BY <1>14
  <2>2. \A k \in 1 .. n : head[k] # o
    BY <1>4, <1>14, <1>15, <2>1
  <2>3. Len(head) - 1 = n
    BY <1>14, <1>15
  <2> QED BY <1>15, <1>16, <2>2, <2>3
<1> QED BY <1>5, <1>13, <1>15, <1>16, <1>17 DEF head, o

\* A block is an item, of which its transactions are the items.
LEMMA BlockIsWhole ==
  ASSUME NEW b \in PrintedBlock
  PROVE  /\ Whole(BlockToJson(b))
         /\ ItemsOf(BlockToJson(b), Lit(",transactions:[")) = TxsItems(b.tl)
<1> DEFINE h == HeadOf(b)
           items == TxsItems(b.tl)
           w == WithCommas(items)
           c == Lit("]}")
           o == Lit(",transactions:[")
<1>1. BlockToJson(b) = h \o w \o <<c>>
  BY DEF BlockToJson, HeadOf
<1>2. /\ h \in Seq(Int) /\ Level(h, 1, 1) /\ h[Len(h)] = o
      /\ \A k \in 1 .. Len(h) - 1 : h[k] # h[Len(h)]
  BY HeadIs
<1>3. items \in Seq(Seq(Int)) /\ AllWhole(items)
  BY TxsItemsWhole DEF PrintedBlock
<1>4. c \in Closing
  BY Zenon DEF Closing
<1> HIDE DEF h, items, c, o
<1>5. Level(h \o w, 1, 1)
  <2>1. Level(w, 0, 0)
    BY <1>3, LevelOfItems
  <2> QED BY <1>2, <2>1, OpenGoesOn, Zenon
<1>6. ItemsOf(h \o w \o <<c>>, h[Len(h)]) = items
  BY <1>2, <1>3, <1>4, ItemsReadBack
<1> HIDE DEF w
<1>7. Whole(h \o w \o <<c>>)
  BY <1>4, <1>5, WholeCloses, Zenon
<1> QED BY <1>1, <1>2, <1>6, <1>7 DEF items, o

\* All blocks of a chain are.
LEMMA BlockItemsWhole ==
  ASSUME NEW bc \in Seq(PrintedBlock)
  PROVE  BlockItems(bc) \in Seq(Seq(Int)) /\ AllWhole(BlockItems(bc))
<1> DEFINE n == Len(bc)
           items == BlockItems(bc)
<1>1. n \in Nat /\ DOMAIN bc = 1 .. n /\ \A i \in 1 .. n : bc[i] \in PrintedBlock
  OBVIOUS
<1>2. items = [i \in 1 .. n |-> BlockToJson(bc[i])]
  BY <1>1 DEF BlockItems
<1> HIDE DEF n, items
<1>3. ASSUME NEW i \in 1 .. n PROVE items[i] \in Seq(Int) /\ Whole(items[i])
  <2> DEFINE b == bc[i]
  <2>1. b \in PrintedBlock /\ items[i] = BlockToJson(b)
    BY <1>1, <1>2
  <2> HIDE DEF b
  <2>2. Whole(items[i])
    BY <2>1, BlockIsWhole
  <2> QED BY <2>2, Zenon DEF Whole
<1>4. items \in Seq(Seq(Int)) /\ Len(items) = n
  BY <1>1, <1>2, <1>3
<1> QED BY <1>3, <1>4 DEF AllWhole, items

\* A block with flat keys is printed so,
LEMMA RawBlockIsPrinted ==
  ASSUME NEW b \in BuiltBlock, FlatKeys(RawBlock(b))
  PROVE  RawBlock(b) \in PrintedBlock
<1> DEFINE tl == RawBlock(b).tl
<1>1. b.previusHash \in Hash /\ b.blockHash \in Hash
  BY DEF BuiltBlock, Block
<1>2. \A h \in Hash : RawHash(h) \in Nat
  BY DEF RawHash, Hash
<1>3. /\ RawBlock(b).previusHash = RawHash(b.previusHash)
      /\ RawBlock(b).blockHash = RawHash(b.blockHash)
  BY DEF RawBlock
<1>4. RawBlock(b) \in WrittenBlock
  BY RawBlockIsWritten
<1>5. tl \in Seq(WrittenTxs) /\ \A i \in DOMAIN tl : Flat(tl[i].sender) /\ Flat(tl[i].receiver)
  BY <1>4 DEF WrittenBlock, FlatKeys
<1> HIDE DEF tl
<1>6. \A i \in 1 .. Len(tl) : tl[i] \in PrintedTxs
  BY <1>5 DEF PrintedTxs
<1>7. tl \in Seq(PrintedTxs)
  <2> DEFINE K == PrintedTxs
  <2>1. tl = [i \in 1 .. Len(tl) |-> tl[i]] /\ Len(tl) \in Nat /\ \A i \in 1 .. Len(tl) : tl[i] \in K
    BY <1>5, <1>6
  <2> HIDE DEF K
  <2>2. [i \in 1 .. Len(tl) |-> tl[i]] \in Seq(K)
    BY <2>1
  <2> QED BY <2>1, <2>2 DEF K
<1> QED BY <1>1, <1>2, <1>3, <1>4, <1>7 DEF PrintedBlock, tl

\* and so is a chain of such blocks.
LEMMA RawIsPrinted ==
  ASSUME EncodedInv, \A k \in DOMAIN Raw : FlatKeys(Raw[k])
  PROVE  Raw \in Seq(PrintedBlock)
<1>1. chain \in Seq(BuiltBlock)
  BY DEF EncodedInv
<1>2. /\ DOMAIN chain = 1 .. Len(chain) /\ Len(chain) \in Nat
      /\ \A k \in 1 .. Len(chain) : chain[k] \in BuiltBlock
  BY <1>1
<1> DEFINE raw == [k \in 1 .. Len(chain) |-> RawBlock(chain[k])]
<1>3. Raw = raw
  BY <1>2 DEF Raw
<1>4. ASSUME NEW k \in 1 .. Len(chain) PROVE RawBlock(chain[k]) \in PrintedBlock
  <2>1. FlatKeys(RawBlock(chain[k]))
    BY <1>3
  <2> QED BY <1>2, <2>1, RawBlockIsPrinted
<1>5. raw \in [1 .. Len(chain) -> PrintedBlock]
  BY <1>4
<1> HIDE DEF raw
<1>6. raw \in Seq(PrintedBlock)
  BY <1>2, <1>5
<1> QED BY <1>3, <1>6

\* A client finds every block and every transaction in what is printed of a chain that
\* grows, and each as it was printed, where keys are flat.
THEOREM JsonIsReadBack == Growth => []JsonReadsBack
<1>1. ASSUME EncodedInv, \A k \in DOMAIN Raw : FlatKeys(Raw[k])
      PROVE  ItemsOf(BlockchainToJson(Raw), Lit("{blocks:[")) = BlockItems(Raw)
  <2> DEFINE bc == BlockItems(Raw)
             o == Lit("{blocks:[")
             c == Lit("]}")
  <2>1. bc \in Seq(Seq(Int)) /\ AllWhole(bc)
    BY <1>1, RawIsPrinted, BlockItemsWhole
  <2>2. o \in Opening /\ c \in Closing
    BY Zenon DEF Opening, Closing
  <2>3. BlockchainToJson(Raw) = <<o>> \o WithCommas(bc) \o <<c>>
    BY DEF BlockchainToJson
  <2> HIDE DEF bc, o, c
  <2>4. ItemsOf(<<o>> \o WithCommas(bc) \o <<c>>, o) = bc
    BY <2>1, <2>2, ListReadsBack
  <2> QED BY <2>3, <2>4, Zenon DEF bc, o
<1>2. ASSUME EncodedInv, FlatKeys(Newest)
      PROVE  /\ ItemsOf(BlockToJson(Newest), Lit(",transactions:[")) = TxsItems(Newest.tl)
             /\ ItemsOf(TlToJson(Newest.tl), Lit("{transactions:[")) = TxsItems(Newest.tl)
  <2> DEFINE tl == TxsItems(Newest.tl)
             q == Lit("{transactions:[")
             c == Lit("]}")
  <2>1. Newest \in PrintedBlock
    BY <1>2, NewestIs, RawBlockIsPrinted
  <2>2. tl \in Seq(Seq(Int)) /\ AllWhole(tl)
    BY <2>1, TxsItemsWhole DEF PrintedBlock
  <2>3. q \in Opening /\ c \in Closing
    BY Zenon DEF Opening, Closing
  <2>4. TlToJson(Newest.tl) = <<q>> \o WithCommas(tl) \o <<c>>
    BY DEF TlToJson
  <2>5. ItemsOf(BlockToJson(Newest), Lit(",transactions:[")) = tl
    BY <2>1, BlockIsWhole
  <2> HIDE DEF tl, q, c
  <2>6. ItemsOf(<<q>> \o WithCommas(tl) \o <<c>>, q) = tl
    BY <2>2, <2>3, ListReadsBack
  <2> QED BY <2>4, <2>5, <2>6, Zenon DEF tl, q
<1>3. EncodedInv => JsonReadsBack
  BY <1>1, <1>2, Zenon DEF JsonReadsBack
<1> QED BY <1>3, EncodedInvHolds, PTL

===============================================================================
