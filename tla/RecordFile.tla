------------------------------ MODULE RecordFile ------------------------------
(* Reading a line of the files the caches are loaded from: the two ways lines   *)
(* are split (rtb/common/split_string.hpp and boost::split with compression)    *)
(* and operator>> of Ad, CampaignBudget, GeoCampaign, ICOCampaign, CampaignData,*)
(* Geo and Domain, which assign the fields of the record one after the other.   *)
(* Numbers are in base 2, and uint16_t, uint32_t and uint64_t have 1, 2 and 3   *)
(* bits.                                                                        *)
EXTENDS Integers, Sequences, SequencesExt

CONSTANTS
    Lines,     \* per record type the lines there may be, each a sequence of fields
    MaxJunk    \* bound: fields that may be read behind an empty line

Tab == "t"
Types == {"ad", "budget", "pair", "geo", "domain"}

(* The fields of a record in the order they are assigned.                       *)
Fields(r) ==
    CASE r = "ad"     -> <<"u64", "u64 to u32", "u16", "u16", "u16", "u64", "rest">>
      [] r = "budget" -> <<"u32", "u64", "u64", "u32", "u64">>
      [] r = "pair"   -> <<"u32", "u32">>
      [] r = "geo"    -> <<"atol", "text", "text">>
      [] r = "domain" -> <<"text", "atol">>

(* The number of fields below which a line is passed over.                      *)
Needed(r) == CASE r = "ad" -> 6 [] OTHER -> Len(Fields(r))

Compressed(r) == r \in {"geo", "domain"}

VARIABLES type, given, text, fields, rec, at, status
vars == <<type, given, text, fields, rec, at, status>>

Digits == {"0", "1"}
Bits(kind) == CASE kind = "u16" -> 1 [] kind = "u32" -> 2 [] OTHER -> 3
Digit(c) == IF c = "1" THEN 1 ELSE 0
Number(ds) == FoldLeft(LAMBDA n, c : 2 * n + Digit(c), 0, ds)
AllDigits(s) == s # <<>> /\ \A i \in DOMAIN s : s[i] \in Digits

(* boost::lexical_cast to an unsigned type: digits that fit, or their negation  *)
(* modulo the width; {} where it throws.                                        *)
Cast(kind, s) ==
    LET w == 2 ^ Bits(kind)
        ds == IF s # <<>> /\ Head(s) = "-" THEN Tail(s) ELSE s
    IN  IF ~AllDigits(ds) \/ Number(ds) >= w THEN {}
        ELSE {<<IF ds = s THEN Number(ds) ELSE (w - Number(ds)) % w>>}

(* atol: the digits the text begins with, cut to the uint32_t it is stored in.  *)
Atol(s) ==
    LET n == SelectInSeq(s, LAMBDA c : c \notin Digits)
        ds == IF n = 0 THEN s ELSE SubSeq(s, 1, n - 1)
    IN  <<Number(ds) % 4>>

Join(fs) == IF fs = <<>> THEN <<>> ELSE FoldLeft(LAMBDA a, b : a \o <<Tab>> \o b, Head(fs), Tail(fs))

(* First place from i on that holds a tab, 0 if there is none.                  *)
TabFrom(s, i) ==
    LET ts == {j \in i .. Len(s) : s[j] = Tab} IN
    IF ts = {} THEN 0 ELSE CHOOSE j \in ts : \A k \in ts : j <= k

Pieces[s \in Seq({Tab, "0", "1", "x", "-"}), from \in Nat] ==
    LET end == TabFrom(s, from) IN
    IF end = 0 THEN IF s = <<>> THEN <<>> ELSE <<s>>
    ELSE <<SubSeq(s, 1, end - 1)>> \o Pieces[SubSeq(s, end + 1, Len(s)), 1]

(* split_string: the first search starts at the second character, so a line     *)
(* that begins with a tab keeps it, and an empty last field is dropped.  In an  *)
(* empty line it starts behind the terminating zero: fields of what the memory  *)
(* there holds may follow, the first of them beginning with that zero.          *)
split_string(s) ==
    IF s = <<>> THEN {<<>>} \cup {[i \in 1 .. n |-> <<"x">>] : n \in 2 .. MaxJunk}
    ELSE {Pieces[s, 2]}

(* boost::split with token_compress_on: a run of tabs is one delimiter, and a   *)
(* line that begins or ends with one has an empty field there.                  *)
split_compressed(s) ==
    LET all == FoldLeft(LAMBDA fs, c : IF c = Tab THEN Append(fs, <<>>)
                                       ELSE [fs EXCEPT ![Len(fs)] = Append(@, c)], <<<<>>>>, s)
        keep == {i \in DOMAIN all : i = 1 \/ i = Len(all) \/ all[i] # <<>>}
        order == SetToSortSeq(keep, LAMBDA i, j : i < j)
    IN  {[i \in DOMAIN order |-> all[order[i]]]}

TypeOK ==
    /\ type \in Types
    /\ status \in {"line", "short", "assign", "read", "threw"}
    /\ at \in 1 .. Len(Fields(type)) + 1
    /\ Len(rec) = at - 1

Init ==
    /\ type \in Types /\ given \in Lines[type]
    /\ text = Join(given)
    /\ fields = <<>> /\ rec = <<>> /\ at = 1
    /\ status = "line"

(* Mutant of Split: one field too few is enough.                                *)
SplitEarly ==
    /\ status = "line"
    /\ fields' \in IF Compressed(type) THEN split_compressed(text) ELSE split_string(text)
    /\ status' = IF Len(fields') < Needed(type) - 1 THEN "short" ELSE "assign"
    /\ UNCHANGED <<type, given, text, rec, at>>

Split ==
    /\ status = "line"
    /\ fields' \in IF Compressed(type) THEN split_compressed(text) ELSE split_string(text)
    /\ status' = IF Len(fields') < Needed(type) THEN "short" ELSE "assign"
    /\ UNCHANGED <<type, given, text, rec, at>>

(* What data() of a field gives: the line from the field on, to its end.        *)
Data(i) == Join(SubSeq(fields, i, Len(fields)))
               \o (IF Last(text) = Tab THEN <<Tab>> ELSE <<>>)

(* Mutant of Convert: the last field ends where the next one begins.            *)
ConvertField(i) ==
    LET kind == Fields(type)[i] IN
    CASE i > Len(fields) -> {}
      [] kind \in {"rest", "text"} -> {fields[i]}
      [] kind = "atol" -> {Atol(fields[i])}
      [] kind = "u64 to u32" -> {<<v[1] % 4>> : v \in Cast("u64", fields[i])}
      [] OTHER -> Cast(kind, fields[i])

(* The value of field i, {} where at() or lexical_cast throws.                  *)
Convert(i) ==
    LET kind == Fields(type)[i] IN
    CASE i > Len(fields) -> {}
      [] kind = "rest" -> {Data(i)}
      [] kind = "text" -> {fields[i]}
      [] kind = "atol" -> {Atol(fields[i])}
      [] kind = "u64 to u32" -> {<<v[1] % 4>> : v \in Cast("u64", fields[i])}
      [] OTHER -> Cast(kind, fields[i])

(* Mutant of Assign: a field that throws is passed over.                         *)
AssignSkips ==
    /\ status = "assign" /\ at <= Len(Fields(type))
    /\ at' = at + 1
    /\ rec' = IF Convert(at) = {} THEN rec ELSE Append(rec, CHOOSE v \in Convert(at) : TRUE)
    /\ UNCHANGED <<type, given, text, fields, status>>

Assign ==
    /\ status = "assign" /\ at <= Len(Fields(type))
    /\ IF Convert(at) = {}
       THEN status' = "threw" /\ UNCHANGED <<rec, at>>
       ELSE \E v \in Convert(at) : rec' = Append(rec, v) /\ at' = at + 1 /\ UNCHANGED status
    /\ UNCHANGED <<type, given, text, fields>>

Return ==
    /\ status = "assign" /\ at > Len(Fields(type))
    /\ status' = "read"
    /\ UNCHANGED <<type, given, text, fields, rec, at>>

Next == Split \/ Assign \/ Return

Spec == Init /\ [][Next]_vars

------------------------------------------------------------------------------
(* A line that is read gives each field of the record from its own column: a    *)
(* number is the column's number where it fits the member, and the code of an   *)
(* ad is the rest of the line, tabs included.  The files that are split with    *)
(* compression have this only where no column is empty.                         *)
ColumnsAreTheFields ==
    (status = "read" /\ (Compressed(type) => \A i \in DOMAIN given : given[i] # <<>>)) =>
        \A i \in DOMAIN Fields(type) :
            LET kind == Fields(type)[i] IN
            CASE kind = "rest" -> rec[i] = Join(SubSeq(given, i, Len(given)))
              [] kind = "text" -> rec[i] = given[i]
              [] OTHER -> AllDigits(given[i]) =>
                            \/ rec[i] = <<Number(given[i])>>
                            \/ kind \in {"atol", "u64 to u32"} /\ Number(given[i]) > 3

Good(kind, f) ==
    CASE kind \in {"text", "atol"} -> f # <<>>
      [] kind = "rest" -> f # <<>>
      [] OTHER -> AllDigits(f) /\ Number(f) < 2 ^ Bits(kind)

(* A line with a good field in every column of the record is read, whatever     *)
(* follows; one with fewer columns is passed over, except that the line of an   *)
(* ad without its code throws.                                                  *)
GoodLinesAreRead ==
    LET n == Len(Fields(type)) IN
    /\ (Len(given) >= n /\ \A i \in 1 .. n : Good(Fields(type)[i], given[i]))
           => status \notin {"short", "threw"}
    /\ (status = "threw" /\ Len(given) < n) =>
           (type = "ad" /\ Len(given) = 6) \/ text = <<>>
==============================================================================
