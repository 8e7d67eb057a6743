----------------------------- MODULE RapidCompare -----------------------------
(* Numbers of rapidjson: how reader.h reads one from a text; and, of            *)
(* document.h, the flags a constructor gives a number, what may be read from it,*)
(* what Accept sends for it, and operator== of numbers and of objects.  An int  *)
(* has IntBits bits, an int64_t LongBits, and a double the integers that        *)
(* Mantissa bits hold (others are rounded; while a text is read, none is).      *)
EXTENDS Integers, Sequences, SequencesExt, FiniteSets

CONSTANTS
    IntBits, LongBits, Mantissa,
    Names, Values,      \* of the members of objects
    MaxMembers,
    Kinds,              \* what is looked at: "numbers", "objects", "texts"
    Texts,              \* records [kind, text, flags, build, refused] to be read
    ExpBits,            \* of the int that counts exponents
    MaxExp, MaxDigits,  \* decimal exponents (308) and digits (17) of a double
    Tenth               \* DBL_MAX / 10

WidthAssumption == IntBits < Mantissa /\ Mantissa < LongBits

ExpLimit == (2 ^ (ExpBits - 1)) \div 10

(* What a digit more than the fast path takes still fits, and no exponent that  *)
(* is not clamped makes 0 of a number.                                          *)
TextAssumption ==
    /\ 10 * 2 ^ Mantissa <= 2 ^ LongBits
    /\ MaxExp >= 9 /\ 10 ^ MaxExp <= 10 * Tenth
    /\ ExpLimit > 3 * MaxExp

VARIABLES job, seen

vars == <<job, seen>>

IntMin == -(2 ^ (IntBits - 1))
IntMax == 2 ^ (IntBits - 1) - 1
UintMax == 2 ^ IntBits - 1
LongMin == -(2 ^ (LongBits - 1))
LongMax == 2 ^ (LongBits - 1) - 1
ULongMax == 2 ^ LongBits - 1

(* The double nearest to n, halves to even.                                     *)
ToDouble(n) ==
    LET a == IF n < 0 THEN -n ELSE n
        unit == 2 ^ (CHOOSE e \in 0 .. LongBits :
                       a < 2 ^ (Mantissa + e) /\ \A f \in 0 .. e - 1 : a >= 2 ^ (Mantissa + f))
        low == a \div unit
        up == 2 * (a % unit) > unit \/ (2 * (a % unit) = unit /\ low % 2 = 1)
        r == (IF up THEN low + 1 ELSE low) * unit
    IN  IF n < 0 THEN -r ELSE r

------------------------------------------------------------------------------
(* Mutant of Flags: an unsigned with the top bit set is taken for an int, too.  *)
FlagsTopBit(c, n) ==
    CASE c = "int" -> {"Int", "Int64"} \cup (IF n >= 0 THEN {"Uint", "Uint64"} ELSE {})
      [] c = "unsigned" -> {"Uint", "Uint64", "Int64", "Int"}
      [] c = "int64" ->
           {"Int64"} \cup (IF n >= 0 THEN {"Uint64"} ELSE {})
           \cup (IF n >= 0 /\ n <= UintMax THEN {"Uint"} ELSE {})
           \cup (IF n <= IntMax /\ n >= IntMin THEN {"Int"} ELSE {})
      [] c = "uint64" ->
           {"Uint64"} \cup (IF n <= LongMax THEN {"Int64"} ELSE {})
           \cup (IF n <= UintMax THEN {"Uint"} ELSE {}) \cup (IF n <= IntMax THEN {"Int"} ELSE {})
      [] OTHER -> {"Double"}

(* The flags the constructors give: what the number may be read as.             *)
Flags(c, n) ==
    CASE c = "int" -> {"Int", "Int64"} \cup (IF n >= 0 THEN {"Uint", "Uint64"} ELSE {})
      [] c = "unsigned" -> {"Uint", "Uint64", "Int64"} \cup (IF n <= IntMax THEN {"Int"} ELSE {})
      [] c = "int64" ->
           {"Int64"} \cup (IF n >= 0 THEN {"Uint64"} ELSE {})
           \cup (IF n >= 0 /\ n <= UintMax THEN {"Uint"} ELSE {})
           \cup (IF n <= IntMax /\ n >= IntMin THEN {"Int"} ELSE {})
      [] c = "uint64" ->
           {"Uint64"} \cup (IF n <= LongMax THEN {"Int64"} ELSE {})
           \cup (IF n <= UintMax THEN {"Uint"} ELSE {}) \cup (IF n <= IntMax THEN {"Int"} ELSE {})
      [] OTHER -> {"Double"}

(* Mutant of Number: a negative number is not extended to the union.            *)
NumberInt(c, n) == [flags |-> Flags(c, n), bits |-> n]

(* A number: its flags and the bits of the union, or the double.                *)
Number(c, n) == [flags |-> Flags(c, n), bits |-> IF c = "double" THEN n ELSE n % (2 ^ LongBits)]

Signed(bits, w) == LET b == bits % (2 ^ w) IN IF b >= 2 ^ (w - 1) THEN b - 2 ^ w ELSE b

(* GetInt, GetUint, GetInt64, GetUint64: the low bits of the union.             *)
Get(v, t) ==
    CASE t = "Int" -> Signed(v.bits, IntBits)
      [] t = "Uint" -> v.bits % (2 ^ IntBits)
      [] t = "Int64" -> Signed(v.bits, LongBits)
      [] OTHER -> v.bits

GetDouble(v) ==
    CASE "Double" \in v.flags -> v.bits
      [] "Double" \notin v.flags /\ "Int" \in v.flags -> Get(v, "Int")
      [] v.flags \cap {"Double", "Int"} = {} /\ "Uint" \in v.flags -> Get(v, "Uint")
      [] v.flags \cap {"Double", "Int", "Uint"} = {} /\ "Int64" \in v.flags -> ToDouble(Get(v, "Int64"))
      [] OTHER -> ToDouble(Get(v, "Uint64"))

(* Mutant of IsLosslessDouble: the upper limit may be reached; the cast back of *)
(* what is beyond the type gives its last value.                                *)
IsLosslessDoubleToLimit(v) ==
    CASE "Uint64" \in v.flags ->
           LET u == Get(v, "Uint64")
               d == ToDouble(u)
           IN  u = IF d > ULongMax THEN ULongMax ELSE d
      [] "Uint64" \notin v.flags /\ "Int64" \in v.flags -> ToDouble(Get(v, "Int64")) = Get(v, "Int64")
      [] OTHER -> TRUE

IsLosslessDouble(v) ==
    CASE "Uint64" \in v.flags ->
           LET u == Get(v, "Uint64")
               d == ToDouble(u)
           IN  d >= 0 /\ d < ToDouble(ULongMax) /\ u = d
      [] "Uint64" \notin v.flags /\ "Int64" \in v.flags ->
           LET i == Get(v, "Int64")
               d == ToDouble(i)
           IN  d >= LongMin /\ d < ToDouble(LongMax) /\ i = d
      [] OTHER -> TRUE

(* Mutant of Accept: the wider types are asked for first.                       *)
AcceptUnsigned(v) ==
    LET t == CASE "Double" \in v.flags -> "Double"
               [] "Double" \notin v.flags /\ "Int" \in v.flags -> "Uint"
               [] OTHER -> "Uint64"
    IN  [t |-> t, n |-> Get(v, t)]

(* Accept of a number: the first type in this order that it may be read as.     *)
Accept(v) ==
    LET order == <<"Double", "Int", "Uint", "Int64", "Uint64">>
        t == order[CHOOSE i \in 1 .. 5 : order[i] \in v.flags /\ \A k \in 1 .. i - 1 : order[k] \notin v.flags]
    IN  [t |-> t, n |-> Get(v, t)]

(* Mutant of EqualNumbers: doubles are not looked for.                          *)
EqualNumbersBits(v, w) == v.bits = w.bits

(* operator== of numbers: as doubles if one is, else the bits.                  *)
EqualNumbers(v, w) ==
    IF "Double" \in v.flags \cup w.flags THEN GetDouble(v) = GetDouble(w) ELSE v.bits = w.bits

------------------------------------------------------------------------------
(* Mutant of EqualObjects: a name that is missing is not looked for further.    *)
EqualObjectsPrefix(l, r) ==
    /\ Len(l) = Len(r)
    /\ \A i \in DOMAIN l : \E k \in DOMAIN r : r[k][1] = l[i][1]

(* operator== of objects: as many members, and the first of each name equal.    *)
EqualObjects(l, r) ==
    /\ Len(l) = Len(r)
    /\ \A i \in DOMAIN l :
           \E k \in DOMAIN r : /\ r[k][1] = l[i][1]
                               /\ \A j \in 1 .. k - 1 : r[j][1] # l[i][1]
                               /\ r[k][2] = l[i][2]

------------------------------------------------------------------------------
(* ParseNumber of rapidjson/reader.h.  The state of the call: the place in the  *)
(* text, what NumberStream put on the stack, the integer n that i, i64 and d    *)
(* hold one after the other, and which of them does.                            *)
Digits == {"0", "1", "2", "3", "4", "5", "6", "7", "8", "9"}
Value(c) == CHOOSE v \in 0 .. 9 : c = <<"0", "1", "2", "3", "4", "5", "6", "7", "8", "9">>[v + 1]

Peek(s) == IF s.at <= Len(job.text) THEN job.text[s.at] ELSE "end"
IsDigit(s) == Peek(s) \in Digits /\ s.error = {}
AsString == "strings" \in job.flags

(* NumberStream: Take keeps the character when numbers are handed on as strings,*)
(* TakePush also for the full precision; in situ nothing is kept.               *)
Take(s) ==
    [s EXCEPT !.at = @ + 1,
              !.kept = IF AsString /\ "insitu" \notin job.flags THEN Append(@, Peek(s)) ELSE @]
TakePush(s) ==
    LET backup == IF AsString THEN "insitu" \notin job.flags ELSE "full" \in job.flags IN
    [s EXCEPT !.at = @ + 1, !.kept = IF backup THEN Append(@, Peek(s)) ELSE @]

Consume(s, c) == IF Peek(s) \in c THEN Take(s) ELSE s
Wrong(s, code, off) == [s EXCEPT !.error = {[code |-> code, off |-> off]}]

(* A loop: the step is taken as long as its guard holds.                        *)
While(s, Guard(_), Step(_)) ==
    LET go[k \in 0 .. Len(job.text)] ==
            IF k = 0 THEN s ELSE LET t == go[k - 1] IN IF Guard(t) THEN Step(t) ELSE t
    IN  go[Len(job.text)]

AddDigit(s) == [TakePush(s) EXCEPT !.n = s.n * 10 + Value(Peek(s))]

(* Mutant of Overflows: the last number that fits does not.                     *)
OverflowsSooner(s, bits) ==
    LET last == IF s.minus THEN 2 ^ (bits - 1) ELSE 2 ^ bits - 1
    IN  s.n >= last \div 10 /\ (s.n # last \div 10 \/ Value(Peek(s)) >= last % 10)

(* The next digit would not fit an integer of as many bits.                     *)
Overflows(s, bits) ==
    LET last == IF s.minus THEN 2 ^ (bits - 1) ELSE 2 ^ bits - 1
    IN  s.n >= last \div 10 /\ (s.n # last \div 10 \/ Value(Peek(s)) > last % 10)

(* The digits that fit are taken; what is left makes the number a wider one.    *)
TakeInt(s, bits, wider) ==
    LET t == While(s, LAMBDA u : IsDigit(u) /\ ~Overflows(u, bits),
                      LAMBDA u : [AddDigit(u) EXCEPT !.significand = @ + 1])
    IN  IF IsDigit(t) THEN [t EXCEPT !.holds = wider] ELSE t

(* As much of a word as is there is taken.                                      *)
Word(s, w) == While(s, LAMBDA u : u.at - s.at < Len(w) /\ Peek(u) = w[u.at - s.at + 1], Take)
Whole(s, w) == Word(s, w).at = s.at + Len(w)

NanOrInf(s) ==
    LET nan == <<"N", "a", "N">>
        inf == <<"I", "n", "f">>
        rest == <<"i", "n", "i", "t", "y">>
        t == Word(Word(s, nan), inf)
        u == Word(t, rest)
    IN  CASE Whole(s, nan) -> [Word(s, nan) EXCEPT !.special = "NaN"]
          [] Whole(s, inf) /\ Peek(t) # "i" -> [t EXCEPT !.special = "Inf"]
          [] Whole(s, inf) /\ Whole(t, rest) -> [u EXCEPT !.special = "Inf"]
          [] Whole(s, inf) /\ Peek(t) = "i" /\ ~Whole(t, rest) -> Wrong(u, "ValueInvalid", u.at - 1)
          [] Peek(s) = "N" /\ ~Whole(s, nan) ->
               LET v == Word(s, nan) IN Wrong(v, "ValueInvalid", v.at - 1)
          [] OTHER -> LET v == Word(s, inf) IN Wrong(v, "ValueInvalid", v.at - 1)

(* The integer part, up to where a double would be too big.                     *)
Integer(s) ==
    LET int == TakeInt(AddDigit(s), IntBits, "long")
        long == IF int.holds = "long" THEN TakeInt(int, LongBits, "double") ELSE int
        big == While(long, LAMBDA u : IsDigit(u) /\ u.n < Tenth, AddDigit)
    IN  CASE Peek(s) = "0" -> TakePush(s)
          [] Peek(s) \in Digits \ {"0"} ->
               IF long.holds # "double" THEN long
               ELSE IF IsDigit(big) THEN Wrong(big, "NumberTooBig", 0) ELSE big
          [] "nan" \in job.flags /\ Peek(s) \in {"I", "N"} -> NanOrInf(s)
          [] OTHER -> Wrong(s, "ValueInvalid", s.at - 1)

(* A digit behind the point.                                                    *)
AddDecimal(s) ==
    LET t == AddDigit(s) IN
    [t EXCEPT !.expFrac = @ - 1, !.significand = IF t.n # 0 THEN @ + 1 ELSE @]

(* Mutant of Decimals: a digit that is dropped is counted.                      *)
DecimalsCounted(s) ==
    LET fast == IF job.build = "64 bit" /\ s.holds # "double"
                THEN While(s, LAMBDA u : IsDigit(u) /\ u.n <= 2 ^ Mantissa - 1, AddDecimal) ELSE s
    IN  While([fast EXCEPT !.holds = "double"], IsDigit,
              LAMBDA u : IF u.significand < MaxDigits THEN AddDecimal(u)
                         ELSE [TakePush(u) EXCEPT !.expFrac = @ - 1])

(* The digits behind the point: as integers while they fit, then as a double    *)
(* until it has its digits; further ones are dropped.                           *)
Decimals(s) ==
    LET fast == IF job.build = "64 bit" /\ s.holds # "double"
                THEN While(s, LAMBDA u : IsDigit(u) /\ u.n <= 2 ^ Mantissa - 1, AddDecimal) ELSE s
    IN  While([fast EXCEPT !.holds = "double"], IsDigit,
              LAMBDA u : IF u.significand < MaxDigits THEN AddDecimal(u) ELSE TakePush(u))

Fraction(s) ==
    LET t == Consume(s, {"."})
        u == [t EXCEPT !.point = Len(t.kept)]
    IN  IF s.error # {} \/ Peek(s) # "." THEN u
        ELSE IF IsDigit(u) THEN Decimals(u) ELSE Wrong(u, "NumberMissFraction", u.at - 1)

AddExponent(s) == [Take(s) EXCEPT !.exp = s.exp * 10 + Value(Peek(s))]

(* Mutant of ExponentDigits: the exponents of the fraction are not counted.     *)
ExponentDigitsPlain(s) ==
    IF s.expMinus
    THEN While(s, IsDigit, LAMBDA u : IF u.exp >= ExpLimit THEN Take(u) ELSE AddExponent(u))
    ELSE While(s, IsDigit, LAMBDA u : LET v == AddExponent(u) IN
                  IF v.exp > MaxExp THEN Wrong(v, "NumberTooBig", 0) ELSE v)

(* The digits behind the first of the exponent: a negative one is clamped, a    *)
(* positive one may be too big.                                                 *)
ExponentDigits(s) ==
    IF s.expMinus
    THEN While(s, IsDigit, LAMBDA u : IF u.exp >= ExpLimit THEN Take(u) ELSE AddExponent(u))
    ELSE While(s, IsDigit, LAMBDA u : LET v == AddExponent(u) IN
                  IF v.exp > MaxExp - s.expFrac THEN Wrong(v, "NumberTooBig", 0) ELSE v)

Exponent(s) ==
    LET t == [Take(s) EXCEPT !.holds = "double"]
        u == [Consume(t, {"+", "-"}) EXCEPT !.expMinus = Peek(t) = "-"]
    IN  IF s.error # {} \/ Peek(s) \notin {"e", "E"} THEN s
        ELSE IF IsDigit(u) THEN ExponentDigits(AddExponent(u)) ELSE Wrong(u, "NumberMissExponent", u.at - 1)

(* exp + expFrac: an int.                                                       *)
Power(s) == Signed((IF s.expMinus THEN -s.exp ELSE s.exp) + s.expFrac, ExpBits)

(* StrtodNormalPrecision: n times ten to the p, 0 when FastPath finds the power *)
(* too small a second time.                                                     *)
NormalPrecision(n, p) == IF p < -MaxExp /\ p + MaxExp < -MaxExp THEN 0 ELSE n

(* What the handler is called with; a double is n times ten to the p, which     *)
(* StrtodFullPrecision finds from what was kept.                                *)
Event(s) ==
    LET minus(n, bits) == Signed(2 ^ bits - n, bits) IN
    CASE AsString ->
           [t |-> "RawNumber", str |-> IF "insitu" \in job.flags THEN SubSeq(job.text, 1, s.at - 1) ELSE s.kept]
      [] ~AsString /\ s.holds = "double" ->
           [t |-> "Double", minus |-> s.minus, p |-> Power(s),
            n |-> IF "full" \in job.flags THEN s.n ELSE NormalPrecision(s.n, Power(s)),
            kept |-> s.kept, point |-> s.point, exp |-> IF s.expMinus THEN -s.exp ELSE s.exp]
      [] ~AsString /\ s.holds # "double" /\ s.special # "none" ->
           [t |-> s.special, minus |-> s.minus /\ s.special = "Inf"]
      [] ~AsString /\ s.holds = "long" /\ s.special = "none" ->
           IF s.minus THEN [t |-> "Int64", n |-> minus(s.n, LongBits)] ELSE [t |-> "Uint64", n |-> s.n]
      [] OTHER ->
           IF s.minus THEN [t |-> "Int", n |-> minus(s.n, IntBits)] ELSE [t |-> "Uint", n |-> s.n]

Begin ==
    [at |-> 1, kept |-> <<>>, minus |-> Peek([at |-> 1]) = "-", n |-> 0, holds |-> "int", significand |-> 0,
     special |-> "none", expFrac |-> 0, point |-> 0, exp |-> 0, expMinus |-> FALSE, error |-> {}]

(* ParseNumber: the event, unless there is an error; a handler that refuses it  *)
(* is the last.                                                                 *)
ParseNumber ==
    LET Result(s) == [error |-> IF s.error # {} THEN s.error
                                ELSE IF job.refused THEN {[code |-> "Termination", off |-> 0]} ELSE {},
                      at |-> s.at, call |-> IF s.error # {} THEN {} ELSE {Event(s)}]
    IN  Result(Exponent(Fraction(Integer(Consume(Begin, {"-"})))))

------------------------------------------------------------------------------
Given == {<<"int", n>> : n \in IntMin .. IntMax} \cup {<<"unsigned", n>> : n \in 0 .. UintMax}
         \cup {<<"int64", n>> : n \in LongMin .. LongMax} \cup {<<"uint64", n>> : n \in 0 .. ULongMax}
         \cup {<<"double", ToDouble(n)>> : n \in LongMin .. ULongMax}
Objects == SeqOf(Names \X Values, MaxMembers)

Init ==
    /\ \/ "numbers" \in Kinds /\ job \in [kind : {"numbers"}, l : Given, r : Given]
       \/ "objects" \in Kinds /\ job \in [kind : {"objects"}, l : Objects, r : Objects]
       \/ "texts" \in Kinds /\ job \in Texts
    /\ seen = <<>>

(* Two numbers are made, read, sent and compared.                               *)
CompareNumbers ==
    /\ seen = <<>> /\ job.kind = "numbers"
    /\ LET v == Number(job.l[1], job.l[2])
           w == Number(job.r[1], job.r[2])
       IN  seen' = [v |-> v, w |-> w, eq |-> EqualNumbers(v, w), back |-> EqualNumbers(w, v)]
    /\ UNCHANGED job

CompareObjects ==
    /\ seen = <<>> /\ job.kind = "objects"
    /\ seen' = [eq |-> EqualObjects(job.l, job.r), back |-> EqualObjects(job.r, job.l)]
    /\ UNCHANGED job

ReadNumber ==
    /\ seen = <<>> /\ job.kind = "texts"
    /\ seen' = ParseNumber
    /\ UNCHANGED job

Next == CompareNumbers \/ CompareObjects \/ ReadNumber

Spec == Init /\ [][Next]_vars

------------------------------------------------------------------------------
Numbers == seen # <<>> /\ job.kind = "numbers"
TypeOK == (Numbers /\ job.l[1] # "double") => seen.v.bits \in 0 .. ULongMax

(* A number may be read as just the types that hold it, and every read, and     *)
(* what Accept sends, is that number.                                           *)
ReadsTheNumber ==
    Numbers => LET n == job.l[2]
                   v == seen.v
               IN  /\ job.l[1] # "double" =>
                        /\ "Int" \in v.flags <=> n \in IntMin .. IntMax
                        /\ "Uint" \in v.flags <=> n \in 0 .. UintMax
                        /\ "Int64" \in v.flags <=> n \in LongMin .. LongMax
                        /\ "Uint64" \in v.flags <=> n \in 0 .. ULongMax
                        /\ \A t \in v.flags : Get(v, t) = n

AcceptSendsTheNumber == Numbers => Accept(seen.v).n = job.l[2]

(* IsLosslessDouble holds just for the numbers a double holds, up to the ends   *)
(* of the types.                                                                *)
LosslessIsExact == Numbers => (IsLosslessDouble(seen.v) <=> ToDouble(job.l[2]) = job.l[2])

(* Numbers that a double holds are equal if and only if they are the same, but  *)
(* for a negative one and one beyond the signed type.                           *)
SameNumberIsEqual ==
    LET wraps(m, n) == m < 0 /\ n > LongMax IN
    (/\ Numbers
     /\ IsLosslessDouble(seen.v) /\ IsLosslessDouble(seen.w)
     /\ ~wraps(job.l[2], job.r[2]) /\ ~wraps(job.r[2], job.l[2]))
    => (seen.eq <=> job.l[2] = job.r[2])

(* "Equal-to operator": integers that are equal are the same number.            *)
EqualIntegersAreTheSame ==
    (Numbers /\ "double" \notin {job.l[1], job.r[1]} /\ seen.eq) => job.l[2] = job.r[2]

(* "If an object contains duplicated named member, comparing equality with any  *)
(* object is always false".                                                     *)
Duplicated(o) == \E i, k \in DOMAIN o : i # k /\ o[i][1] = o[k][1]
DuplicatedIsUnequal ==
    (seen # <<>> /\ job.kind = "objects" /\ (Duplicated(job.l) \/ Duplicated(job.r))) => ~seen.eq

(* Objects without duplicates are equal just when they have the same members,   *)
(* in any order.                                                                *)
ObjectsAreSets ==
    (seen # <<>> /\ job.kind = "objects" /\ ~Duplicated(job.l) /\ ~Duplicated(job.r)) =>
        /\ seen.eq = seen.back
        /\ seen.eq <=> {job.l[i] : i \in DOMAIN job.l} = {job.r[i] : i \in DOMAIN job.r}
------------------------------------------------------------------------------
(* The parts of a number by the shape of its text: a run of digits from a place.*)
ReadText == seen # <<>> /\ job.kind = "texts"
RunEnd(i) ==
    CHOOSE e \in i .. Len(job.text) + 1 :
        /\ \A k \in i .. e - 1 : job.text[k] \in Digits
        /\ e <= Len(job.text) => job.text[e] \notin Digits
CharAt(i) == IF i <= Len(job.text) THEN job.text[i] ELSE "end"
Natural(i, e) ==
    LET go[k \in i - 1 .. e - 1] == IF k < i THEN 0 ELSE go[k - 1] * 10 + Value(job.text[k]) IN go[e - 1]

(* Where the parts begin and end, each from the ends of those before it, and    *)
(* where a part is missing.                                                     *)
Places(int, point, e, exp, end) ==
    [int |-> int, point |-> point, e |-> e, exp |-> exp, end |-> end,
     miss |-> CASE CharAt(int) \notin Digits -> {[code |-> "ValueInvalid", off |-> int - 1]}
                [] CharAt(int) \in Digits /\ e = point + 1 -> {[code |-> "NumberMissFraction", off |-> point]}
                [] CharAt(int) \in Digits /\ e # point + 1 /\ exp > e /\ end = exp ->
                     {[code |-> "NumberMissExponent", off |-> exp - 1]}
                [] OTHER -> {}]
FromExponent(int, point, e, exp) == Places(int, point, e, exp, IF exp = e THEN e ELSE RunEnd(exp))
FromE(int, point, e) ==
    FromExponent(int, point, e, IF CharAt(e) \notin {"e", "E"} THEN e
                                ELSE IF CharAt(e + 1) \in {"+", "-"} THEN e + 2 ELSE e + 1)
FromPoint(int, point) == FromE(int, point, IF CharAt(point) = "." THEN RunEnd(point + 1) ELSE point)
FromInt(int) == FromPoint(int, IF CharAt(int) = "0" THEN int + 1 ELSE RunEnd(int))
Sign == IF CharAt(1) = "-" THEN 1 ELSE 0
Shape == FromInt(Sign + 1)

(* The digits of the number as one integer, and its power of ten.               *)
Whole10(h) == Natural(h.int, h.point) * 10 ^ (IF h.e > h.point THEN h.e - h.point - 1 ELSE 0)
              + (IF h.e > h.point THEN Natural(h.point + 1, h.e) ELSE 0)
WrittenExp(h) == IF h.exp = h.e THEN 0
                 ELSE IF CharAt(h.exp - 1) = "-" THEN -Natural(h.exp, h.end) ELSE Natural(h.exp, h.end)
Scale(h) == WrittenExp(h) - (IF h.e > h.point THEN h.e - h.point - 1 ELSE 0)

(* A word for no number, which a text with the flag may begin with.             *)
Named == "nan" \in job.flags /\ CharAt(Sign + 1) \in {"I", "N"}

(* The integer a text stands for is read as such, in the narrowest type that    *)
(* holds it; up to the digits a double has, its number is the one written, and  *)
(* what is dropped comes behind them.  exp + expFrac is left out where it wraps.*)
NumberReadAsWritten ==
    (ReadText /\ ~Named /\ seen.call # {}) =>
      \A h \in {Shape} : \A n \in {Whole10(h)}, x \in {Scale(h)} :
        LET integer == h.end = h.point
            minus == h.int = 2
            signed == IF minus THEN -n ELSE n
            types == <<[t |-> "Int", min |-> IntMin, max |-> 0], [t |-> "Int64", min |-> LongMin, max |-> 0]>>
            utypes == <<[t |-> "Uint", min |-> 0, max |-> UintMax], [t |-> "Uint64", min |-> 0, max |-> ULongMax]>>
            fits(ty) == signed >= ty.min /\ signed <= ty.max
            of == IF minus THEN types ELSE utypes
            clamped == WrittenExp(h) <= -10 * ExpLimit
            wraps(p) == x < -(2 ^ (ExpBits - 1)) /\ p > 0
        IN  /\ h.miss = {} /\ seen.at = h.end
            /\ \A c \in seen.call :
                 CASE c.t = "RawNumber" -> c.str = SubSeq(job.text, 1, h.end - 1)
                   [] c.t # "RawNumber" /\ integer /\ fits(of[1]) -> c = [t |-> of[1].t, n |-> signed]
                   [] c.t # "RawNumber" /\ integer /\ ~fits(of[1]) /\ fits(of[2]) -> c = [t |-> of[2].t, n |-> signed]
                   [] OTHER ->
                        /\ c.t = "Double" /\ c.minus = minus
                        /\ IF c.n = 0 THEN n = 0 \/ x < -2 * MaxExp
                           ELSE \/ wraps(c.p)
                                \/ clamped /\ "full" \in job.flags
                                \/ /\ ~clamped /\ c.p >= x /\ c.n = n \div 10 ^ (c.p - x)
                                   /\ c.p > x => c.n >= 10 ^ (MaxDigits - 1)

(* What is kept for the full precision are the digits, with the place of the    *)
(* point and the exponent.                                                      *)
KeptForFullPrecision ==
    (ReadText /\ ~Named /\ "full" \in job.flags) =>
        \A c \in seen.call, h \in {Shape} : c.t = "Double" =>
            /\ c.kept = SubSeq(job.text, h.int, h.point - 1) \o SubSeq(job.text, h.point + 1, h.e - 1)
            /\ c.point = h.point - h.int
            /\ c.exp = WrittenExp(h) \/ (c.exp <= -ExpLimit /\ WrittenExp(h) <= -10 * ExpLimit)

(* A number that is ten times the greatest power of ten of a double or more, or *)
(* has an integer part beyond the doubles.                                      *)
TooBig(h) ==
    \/ Natural(h.int, h.point) >= 10 * Tenth
    \/ Whole10(h) = 0
    \/ \E k \in 0 .. 9 : Whole10(h) >= 10 ^ k /\ k + Scale(h) > MaxExp

(* A text that is no number is refused where its part is missing; one that is   *)
(* is refused as too big only if it is, or is 0, and a handler ends the reading.*)
NumberErrorsInPlace ==
    (ReadText /\ ~Named) =>
      \A h \in {Shape} :
        LET big == [code |-> "NumberTooBig", off |-> 0]
        IN  /\ seen.call = {} =>
                 /\ seen.error \subseteq h.miss \cup {big} /\ seen.error # {}
                 /\ seen.error = {big} => TooBig(h)
            /\ seen.call # {} => seen.error = IF job.refused THEN {[code |-> "Termination", off |-> 0]} ELSE {}

(* The names of no number are read as such, Infinity whole or not at all.       *)
NamedAsWritten ==
    (ReadText /\ Named) =>
        LET begin == Sign + 1
            after(w) == IF \A k \in DOMAIN w : CharAt(begin + k - 1) = w[k] THEN {begin + Len(w)} ELSE {}
            inf == after(<<"I", "n", "f">>)
            ends == after(<<"N", "a", "N">>)
                    \cup after(<<"I", "n", "f", "i", "n", "i", "t", "y">>) \cup {e \in inf : CharAt(e) # "i"}
        IN  /\ ends = {} => \E o \in 0 .. Len(job.text) : seen.error = {[code |-> "ValueInvalid", off |-> o]}
            /\ \A e \in ends : (CharAt(e) \notin {".", "e", "E"} /\ ~AsString) =>
                   seen.at = e /\ seen.call = {[t |-> IF CharAt(begin) = "N" THEN "NaN" ELSE "Inf",
                                                minus |-> begin = 2 /\ CharAt(begin) = "I"]}
==============================================================================
