---------------------------- MODULE RapidBigInteger ----------------------------
(* rapidjson/internal/biginteger.h and its use in strtod.h: a number is built   *)
(* from decimals, and CheckWithinHalfULP compares it, scaled to integers, with  *)
(* a binary approximation.  A word of 64 bits is one of TypeBits bits here, its *)
(* half of 32 half of them; powers of five and digits per turn are scaled alike. *)
EXTENDS Integers, Sequences, FiniteSetsExt

CONSTANTS
    TypeBits,     \* bits of a word (kTypeBit)
    Capacity,     \* words (kCapacity)
    Pow5Word,     \* 5^Pow5Word is the last power of five in a word (27)
    Pow5Half,     \* ... and in half a word (13)
    MaxDigits,    \* 10^MaxDigits is the last power of ten in a word (kMaxDigitPerIteration)
    Builds,       \* of MulAdd64: "wide", "portable"
    Junk,         \* what a word holds that was never written
    Jobs          \* records [decimals, dExp, b, bExp, build]: is b * 2^bExp close to the decimals?

Base == 2 ^ TypeBits
HalfBase == 2 ^ (TypeBits \div 2)

SizesAssumption ==
    /\ TypeBits \in Nat /\ TypeBits % 2 = 0 /\ Capacity \in Nat \ {0}
    /\ 5 ^ Pow5Word < Base /\ 5 ^ (Pow5Word + 1) >= Base
    /\ 5 ^ Pow5Half < HalfBase /\ 5 ^ (Pow5Half + 1) >= HalfBase
    /\ 10 ^ MaxDigits < Base /\ 10 ^ (MaxDigits + 1) >= Base

VARIABLES
    job, phase,
    taken,            \* decimals taken
    num,              \* dInt
    scaled,           \* dS, bS and hS
    delta, cmp

vars == <<job, phase, taken, num, scaled, delta, cmp>>

(* A BigInteger: digits_ and count_.                                            *)
Big(u) == [d |-> [i \in 0 .. Capacity - 1 |-> IF i = 0 THEN u ELSE Junk], n |-> 1]
IsZero(x) == x.n = 1 /\ x.d[0] = 0
IsWord(x, u) == x.n = 1 /\ x.d[0] = u
SetWord(x, u) == [d |-> [x.d EXCEPT ![0] = u], n |-> 1]
PushBack(x, u) == [d |-> [x.d EXCEPT ![x.n] = u], n |-> x.n + 1]

(* Mutant of AddWord: the carry out of the last word is lost.                   *)
AddWordNoCarry(x, u) ==
    LET sum[i \in 0 .. x.n - 1] ==
            IF i = 0 THEN (x.d[0] + u) % Base
            ELSE IF sum[i - 1] < x.d[i - 1] THEN (x.d[i] + 1) % Base ELSE x.d[i]
    IN  [x EXCEPT !.d = [i \in DOMAIN x.d |-> IF i < x.n THEN sum[i] ELSE x.d[i]]]

(* operator+=: a word that is smaller than before carries into the next.        *)
AddWord(x, u) ==
    LET sum[i \in 0 .. x.n - 1] ==
            IF i = 0 THEN (x.d[0] + u) % Base
            ELSE IF sum[i - 1] < x.d[i - 1] THEN (x.d[i] + 1) % Base ELSE x.d[i]
        y == [x EXCEPT !.d = [i \in DOMAIN x.d |-> IF i < x.n THEN sum[i] ELSE x.d[i]]]
    IN  IF sum[x.n - 1] < x.d[x.n - 1] THEN PushBack(y, 1) ELSE y

(* MulAdd64: both words of a * b + k, in the wider type or from halves.         *)
MulAdd(build, a, b, k) ==
    LET p == a * b + k IN
    IF build = "wide" THEN [lo |-> p % Base, hi |-> p \div Base]
    ELSE LET a0 == a % HalfBase   a1 == a \div HalfBase
             b0 == b % HalfBase   b1 == b \div HalfBase
             x0 == a0 * b0
             x2 == a1 * b0
             x1 == (a0 * b1 + x0 \div HalfBase + x2) % Base
             x3 == a1 * b1 + (IF x1 < x2 THEN HalfBase ELSE 0)
             lo == (((x1 * HalfBase) % Base) + (x0 % HalfBase)) % Base
             l2 == (lo + k) % Base
         IN  [lo |-> l2, hi |-> x3 + x1 \div HalfBase + (IF l2 < k THEN 1 ELSE 0)]

(* One word of operator*=(uint32_t): u is less than half a word.                *)
MulHalf(a, u, k) ==
    LET p0 == u * (a % HalfBase) + k
        p1 == u * (a \div HalfBase) + p0 \div HalfBase
    IN  [lo |-> (p0 % HalfBase) + (p1 % HalfBase) * HalfBase, hi |-> p1 \div HalfBase]

(* operator*= for a word and for half a word.                                   *)
Multiply(build, x, u, half) ==
    LET mul[i \in 0 .. x.n - 1] ==
            LET k == IF i = 0 THEN 0 ELSE mul[i - 1].hi IN
            IF half THEN MulHalf(x.d[i], u, k) ELSE MulAdd(build, x.d[i], u, k)
        y == [x EXCEPT !.d = [i \in DOMAIN x.d |-> IF i < x.n THEN mul[i].lo ELSE x.d[i]]]
    IN  CASE u = 0 -> SetWord(x, 0)
          [] u = 1 -> x
          [] u > 1 /\ IsWord(x, 1) -> SetWord(x, u)
          [] OTHER -> IF mul[x.n - 1].hi > 0 THEN PushBack(y, mul[x.n - 1].hi) ELSE y

(* MultiplyPow5: by the largest powers that fit a word, then half a word.       *)
MultiplyPow5(build, x, exp) ==
    LET go[e \in 0 .. exp] ==    \* after e of the exponent are dealt with
            IF e = 0 THEN x
            ELSE LET words == (exp \div Pow5Word) * Pow5Word
                     rest == exp - words
                     halves == words + (rest \div Pow5Half) * Pow5Half
                 IN  CASE e <= words /\ e % Pow5Word = 0 ->
                            Multiply(build, go[e - Pow5Word], 5 ^ Pow5Word, FALSE)
                       [] e > words /\ e <= halves /\ (e - words) % Pow5Half = 0 ->
                            Multiply(build, go[e - Pow5Half], 5 ^ Pow5Half, TRUE)
                       [] e = exp /\ e > halves -> Multiply(build, go[halves], 5 ^ (exp - halves), TRUE)
                       [] OTHER -> x
    IN  go[exp]

(* Mutant of ShiftLeft: the word behind the last is always counted.             *)
ShiftLeftCounts(x, shift) ==
    LET offset == shift \div TypeBits
        s == shift % TypeBits
        word(i) == IF i = x.n THEN 0 ELSE x.d[i]
        part(i) == ((word(i) * 2 ^ s) % Base) + word(i - 1) \div 2 ^ (TypeBits - s)
    IN  CASE IsZero(x) \/ shift = 0 -> x
          [] OTHER ->
               [d |-> [i \in DOMAIN x.d |->
                          IF i < offset THEN 0
                          ELSE IF i = offset THEN (x.d[0] * 2 ^ s) % Base
                          ELSE IF i <= x.n + offset THEN part(i - offset) ELSE x.d[i]],
                n |-> x.n + offset + 1]

(* Mutant of ShiftLeft: what leaves a word at the top stays in it, too.         *)
ShiftLeftUnmasked(x, shift) ==
    LET offset == shift \div TypeBits
        s == shift % TypeBits
        word(i) == IF i = x.n THEN 0 ELSE x.d[i]
        part(i) == word(i) * 2 ^ s + word(i - 1) \div 2 ^ (TypeBits - s)
    IN  CASE IsZero(x) \/ shift = 0 -> x
          [] OTHER ->
               [d |-> [i \in DOMAIN x.d |->
                          IF i < offset THEN 0
                          ELSE IF i = offset THEN x.d[0] * 2 ^ s
                          ELSE IF i <= x.n + offset THEN part(i - offset) ELSE x.d[i]],
                n |-> x.n + offset + (IF part(x.n) # 0 THEN 1 ELSE 0)]

(* operator<<=.  For whole words memmove copies the words from the last on, and *)
(* what is behind it, to where the last belongs.                                *)
ShiftLeft(x, shift) ==
    LET offset == shift \div TypeBits
        s == shift % TypeBits
        word(i) == IF i = x.n THEN 0 ELSE x.d[i]
        part(i) == ((word(i) * 2 ^ s) % Base) + word(i - 1) \div 2 ^ (TypeBits - s)
        top == part(x.n)
        from == x.n - 1 + offset
    IN  CASE IsZero(x) \/ shift = 0 -> x
          [] ~IsZero(x) /\ shift > 0 /\ s = 0 ->
               [d |-> [i \in DOMAIN x.d |->
                          IF i < offset THEN 0
                          ELSE IF i >= from /\ i < from + x.n THEN x.d[i - offset] ELSE x.d[i]],
                n |-> x.n + offset]
          [] OTHER ->
               [d |-> [i \in DOMAIN x.d |->
                          IF i < offset THEN 0
                          ELSE IF i = offset THEN (x.d[0] * 2 ^ s) % Base
                          ELSE IF i <= x.n + offset THEN part(i - offset) ELSE x.d[i]],
                n |-> x.n + offset + (IF top # 0 THEN 1 ELSE 0)]

Compare(x, y) ==
    IF x.n # y.n THEN IF x.n < y.n THEN -1 ELSE 1
    ELSE LET differ == {i \in 0 .. x.n - 1 : x.d[i] # y.d[i]} IN
         IF differ = {} THEN 0 ELSE IF x.d[Max(differ)] < y.d[Max(differ)] THEN -1 ELSE 1

(* Difference, of the greater and the smaller.                                  *)
Difference(x, y) ==
    LET a == IF Compare(x, y) < 0 THEN y ELSE x
        b == IF Compare(x, y) < 0 THEN x ELSE y
        sub[i \in 0 .. a.n - 1] ==
            LET borrow == IF i > 0 /\ sub[i - 1] > a.d[i - 1] THEN 1 ELSE 0
            IN  (a.d[i] - borrow - (IF i < b.n THEN b.d[i] ELSE 0)) % Base
        used == {i \in 0 .. a.n - 1 : sub[i] # 0}
    IN  [d |-> [i \in 0 .. Capacity - 1 |-> IF i < a.n THEN sub[i] ELSE Junk],
         n |-> IF used = {} THEN 1 ELSE Max(used) + 1]

------------------------------------------------------------------------------
(* ParseUint64 of the decimals i .. j.                                          *)
Word(i, j) ==
    LET r[k \in i - 1 .. j] == IF k = i - 1 THEN 0 ELSE r[k - 1] * 10 + job.decimals[k] IN r[j]

Init ==
    /\ job \in Jobs
    /\ phase = "decimals" /\ taken = 0 /\ num = Big(0)
    /\ scaled = <<>> /\ delta = Big(0) /\ cmp = 0

(* One turn of the constructor: AppendDecimal64 of the next MaxDigits, or of    *)
(* the rest.                                                                    *)
AppendDecimal ==
    /\ phase = "decimals" /\ taken < Len(job.decimals)
    /\ LET n == Min({MaxDigits, Len(job.decimals) - taken})
           u == Word(taken + 1, taken + n)
       IN  /\ num' = IF IsZero(num) THEN SetWord(num, u)
                     ELSE AddWord(ShiftLeft(MultiplyPow5(job.build, num, n), n), u)
           /\ taken' = taken + n
    /\ UNCHANGED <<job, phase, scaled, delta, cmp>>

(* Mutant of Exponents: b is compared with a whole unit in its last place.      *)
ExponentsWholeUlp ==
    LET pos(e) == IF e >= 0 THEN e ELSE 0
        neg(e) == IF e < 0 THEN -e ELSE 0
        hExp == job.bExp
        d2 == pos(job.dExp) + neg(job.bExp) + neg(hExp)
        b2 == neg(job.dExp) + pos(job.bExp) + neg(hExp)
        h2 == neg(job.dExp) + neg(job.bExp) + pos(hExp)
        common == Min({d2, b2, h2})
    IN  [d |-> [two |-> d2 - common, five |-> pos(job.dExp)],
         b |-> [two |-> b2 - common, five |-> neg(job.dExp)],
         h |-> [two |-> h2 - common, five |-> neg(job.dExp)]]

(* The exponents of CheckWithinHalfULP: of 2 and of 5, for d, b and half a unit *)
(* in the last place of b.                                                      *)
Exponents ==
    LET pos(e) == IF e >= 0 THEN e ELSE 0
        neg(e) == IF e < 0 THEN -e ELSE 0
        hExp == job.bExp - 1
        d2 == pos(job.dExp) + neg(job.bExp) + neg(hExp)
        b2 == neg(job.dExp) + pos(job.bExp) + neg(hExp)
        h2 == neg(job.dExp) + neg(job.bExp) + pos(hExp)
        common == Min({d2, b2, h2})
    IN  [d |-> [two |-> d2 - common, five |-> pos(job.dExp)],
         b |-> [two |-> b2 - common, five |-> neg(job.dExp)],
         h |-> [two |-> h2 - common, five |-> neg(job.dExp)]]

Scale ==
    /\ phase = "decimals" /\ taken = Len(job.decimals)
    /\ LET e == Exponents
           times(x, f) == ShiftLeft(MultiplyPow5(job.build, x, f.five), f.two)
       IN  scaled' = <<times(num, e.d), times(Big(job.b), e.b), times(Big(1), e.h)>>
    /\ phase' = "scaled"
    /\ UNCHANGED <<job, taken, num, delta, cmp>>

(* Difference asserts that the two are not the same.                            *)
CheckWithinHalfULP ==
    /\ phase = "scaled" /\ Compare(scaled[1], scaled[2]) # 0
    /\ delta' = Difference(scaled[1], scaled[2])
    /\ cmp' = Compare(delta', scaled[3])
    /\ phase' = "done"
    /\ UNCHANGED <<job, taken, num, scaled>>

Next == AppendDecimal \/ Scale \/ CheckWithinHalfULP

Spec == Init /\ [][Next]_vars

------------------------------------------------------------------------------
IsBig(x) == x.n \in 1 .. Capacity /\ \A i \in 0 .. x.n - 1 : x.d[i] \in 0 .. Base - 1

TypeOK == IsBig(num) /\ IsBig(delta) /\ \A i \in DOMAIN scaled : IsBig(scaled[i])

Value(x) ==
    LET v[i \in 0 .. x.n] == IF i = 0 THEN 0 ELSE v[i - 1] + x.d[i - 1] * Base ^ (i - 1) IN v[x.n]

(* The number is that of the decimals taken, in every build: no carry between   *)
(* words or halves of words is lost.                                            *)
DecimalsAreExact == Value(num) = Word(1, taken)

(* No number has a last word of 0, which Compare counts on.                     *)
NoLeadingZeros ==
    \A x \in {num, delta} \cup {scaled[i] : i \in DOMAIN scaled} : x.n > 1 => x.d[x.n - 1] # 0

(* What the two finding runs are about: several words moved by whole words, and *)
(* a borrow into a word that all ones are taken from.                           *)
MovesWords(x, shift) == shift > 0 /\ shift % TypeBits = 0 /\ x.n > 1
WordsMoved ==
    LET e == Exponents IN
    \/ MovesWords(MultiplyPow5(job.build, num, e.d.five), e.d.two)
    \/ MovesWords(MultiplyPow5(job.build, Big(job.b), e.b.five), e.b.two)
    \/ MovesWords(MultiplyPow5(job.build, Big(1), e.h.five), e.h.two)
AllOnesBorrow ==
    \E i \in {1, 2} : \E k \in 1 .. scaled[i].n - 1 : scaled[i].d[k] = Base - 1

Abs(n) == IF n < 0 THEN -n ELSE n

(* "Compute absolute difference of this and rhs", whatever the words are.       *)
DifferenceIsAbsolute ==
    phase = "done" => Value(delta) = Abs(Value(scaled[1]) - Value(scaled[2]))

(* The sign of the exact distance less half a unit in the last place of b.      *)
ExactSign ==
    LET tens == IF job.dExp < 0 THEN 10 ^ (-job.dExp) ELSE 1
        twos == IF job.bExp < 1 THEN 2 ^ (1 - job.bExp) ELSE 1
        d == Word(1, Len(job.decimals)) * (IF job.dExp > 0 THEN 10 ^ job.dExp ELSE 1) * twos
        b == job.b * (IF job.bExp >= 1 THEN 2 ^ job.bExp ELSE 2) * tens
        h == (IF job.bExp >= 1 THEN 2 ^ (job.bExp - 1) ELSE 1) * tens
    IN  IF Abs(d - b) < h THEN -1 ELSE IF Abs(d - b) = h THEN 0 ELSE 1

(* The comparison is that of the exact numbers, but for the two cases above.    *)
HalfUlpIsExact ==
    (phase = "done" /\ ~WordsMoved /\ ~AllOnesBorrow) => cmp = ExactSign

(* "within half ULP": the approximation is kept just when it is.                *)
KeptWithinHalfUlp == phase = "done" => cmp = ExactSign
==============================================================================
