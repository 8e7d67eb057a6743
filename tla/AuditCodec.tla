------------------------------ MODULE AuditCodec ------------------------------
(* The record codec of the audit log, benchmarks/audit_codec.hpp: a heading,    *)
(* one tagged field per argument, then the texts, which the fields reach by     *)
(* their offsets.  The caller reserves full_record_size bytes and encodes into  *)
(* them; a reader walks the fields with decode_field.                           *)
EXTENDS Naturals, Sequences, SequencesExt

CONSTANTS
    ArgTypes,     \* the argument types records are made of
    MaxArgs,      \* bound: arguments of a record
    MaxText,      \* bound: length of a text
    Capacity      \* bytes of the buffer the caller passes

VARIABLES
    args,       \* the record: a sequence of [type, val]
    reserved,   \* full_record_size of it
    buf,        \* the bytes written so far
    turn,       \* the argument the current pass has come to
    rel_blob_offset,
    rbeg,       \* where the fields end and the texts begin
    at, out,    \* of the reader: its place and the values it passed to fn
    pc

vars == <<args, reserved, buf, turn, rel_blob_offset, rbeg, at, out, pc>>

mappings_t == <<"bool", "uint8_t", "int8_t", "uint16_t", "int16_t", "uint32_t", "int32_t",
                "uint64_t", "int64_t", "float", "double", "string_view">>
\* '?', 'B', 'b', 'H', 'h', 'L', 'l', 'Q', 'q', 'f', 'd', 'S'
type_codes == <<63, 66, 98, 72, 104, 76, 108, 81, 113, 102, 100, 83>>
SOH == 1
STX == 2
sizes == <<1, 1, 1, 2, 2, 4, 4, 8, 8, 4, 8>>

(* A text comes as a string_view, as a char const* or as an array of char.      *)
Blobs == {"string_view", "char const*", "char[]"}
Naked(t) == IF t \in Blobs THEN "string_view" ELSE t

index_of(t) == CHOOSE i \in 1 .. Len(mappings_t) : mappings_t[i] = t
code_of(t) == type_codes[index_of(t)]
sizeof(t) == sizes[index_of(t)]

(* An array of N characters is a text of N - 1, whatever it holds; a char       *)
(* const* ends at its first zero.                                               *)
Text(a) ==
    IF a.type = "char const*" /\ 0 \in Range(a.val)
    THEN SubSeq(a.val, 1, SelectInSeq(a.val, LAMBDA c : c = 0) - 1) ELSE a.val

Value(a) == IF a.type \in Blobs THEN Text(a) ELSE a.val

Args ==
    {[type |-> t, val |-> v] : t \in ArgTypes \ Blobs, v \in {0, 1}}
      \cup {[type |-> t, val |-> v] : t \in ArgTypes \cap Blobs, v \in SeqOf({0, 7}, MaxText)}

(* The bytes of the buffer: a value and which of its bytes this one is.          *)
Bytes(v, n) == [i \in 1 .. n |-> <<v, i>>]

field_size(t) == 1 + (IF t \in Blobs THEN sizeof("uint32_t") ELSE sizeof(t))

(* Mutant of blob_size: the Start-of-Text byte is left out.                     *)
blob_size_no_tag(a) == IF a.type \in Blobs THEN sizeof("uint32_t") + Len(Text(a)) ELSE 0

blob_size(a) == IF a.type \in Blobs THEN 1 + sizeof("uint32_t") + Len(Text(a)) ELSE 0

Total(f(_), s) == FoldLeft(LAMBDA n, a : n + f(a), 0, s)
record_size(s) == Total(LAMBDA a : field_size(a.type), s)
full_record_size(s) == 1 + sizeof("uint32_t") + record_size(s) + Total(blob_size, s)

Init ==
    /\ args \in SeqOf(Args, MaxArgs) \ {<<>>}
    /\ reserved = full_record_size(args)
    /\ buf = <<>> /\ turn = 1 /\ rel_blob_offset = 0 /\ rbeg = 0
    /\ at = 0 /\ out = <<>>
    /\ pc = "heading"

Heading ==
    /\ pc = "heading"
    /\ buf' = Bytes(SOH, 1) \o Bytes(record_size(args), sizeof("uint32_t"))
    /\ pc' = "fields"
    /\ UNCHANGED <<args, reserved, turn, rel_blob_offset, rbeg, at, out>>

(* Mutant of encode_field: the offset is advanced before it is stored.          *)
encode_field_late ==
    /\ pc = "fields" /\ turn <= Len(args)
    /\ LET a == args[turn] IN
       /\ rel_blob_offset' = rel_blob_offset + blob_size(a)
       /\ buf' = buf \o Bytes(code_of(Naked(a.type)), 1)
                     \o (IF a.type \in Blobs THEN Bytes(rel_blob_offset', sizeof("uint32_t"))
                         ELSE Bytes(a.val, sizeof(a.type)))
    /\ turn' = turn + 1
    /\ UNCHANGED <<args, reserved, rbeg, at, out, pc>>

(* A field: the code of its type and the value, or for a text the offset that   *)
(* the text will have among the texts.                                          *)
encode_field ==
    /\ pc = "fields" /\ turn <= Len(args)
    /\ LET a == args[turn] IN
       /\ rel_blob_offset' = rel_blob_offset + blob_size(a)
       /\ buf' = buf \o Bytes(code_of(Naked(a.type)), 1)
                     \o (IF a.type \in Blobs THEN Bytes(rel_blob_offset, sizeof("uint32_t"))
                         ELSE Bytes(a.val, sizeof(a.type)))
    /\ turn' = turn + 1
    /\ UNCHANGED <<args, reserved, rbeg, at, out, pc>>

FieldsDone ==
    /\ pc = "fields" /\ turn > Len(args)
    /\ rbeg' = Len(buf) /\ turn' = 1 /\ pc' = "blobs"
    /\ UNCHANGED <<args, reserved, buf, rel_blob_offset, at, out>>

encode_blob ==
    /\ pc = "blobs" /\ turn <= Len(args)
    /\ LET a == args[turn] IN
       buf' = IF a.type \in Blobs
              THEN buf \o Bytes(STX, 1) \o Bytes(Len(Text(a)), sizeof("uint32_t"))
                       \o [i \in 1 .. Len(Text(a)) |-> <<Text(a)[i], 0>>]
              ELSE buf
    /\ turn' = turn + 1
    /\ UNCHANGED <<args, reserved, rel_blob_offset, rbeg, at, out, pc>>

(* The end of encode_record with its assertions; a reader starts at the fields. *)
BlobsDone ==
    /\ pc = "blobs" /\ turn > Len(args)
    /\ pc' = IF /\ Len(buf) - rbeg = Total(blob_size, args)
                /\ rel_blob_offset = Len(buf) - rbeg
                /\ rbeg - (1 + sizeof("uint32_t")) = record_size(args)
             THEN "decode" ELSE "encode_assert"
    /\ at' = 1 + sizeof("uint32_t")
    /\ UNCHANGED <<args, reserved, buf, turn, rel_blob_offset, rbeg, out>>

(* memcpy of n bytes into a value: the value if they are its bytes in order.    *)
Garbage == 999
Load(pos, n) ==
    IF pos + n <= Len(buf) /\ \E v \in {buf[pos + 1][1]} : SubSeq(buf, pos + 1, pos + n) = Bytes(v, n)
    THEN buf[pos + 1][1] ELSE Garbage

(* Mutant of Cases: the case of double is forgotten too.                        *)
CasesNoDouble == {mappings_t[i] : i \in 2 .. Len(mappings_t)} \ {"double"}

(* The types decode_field has a case for.                                       *)
Cases == {mappings_t[i] : i \in 2 .. Len(mappings_t)}

(* Mutant of decode_text: the reader forgets the Start-of-Text byte.            *)
decode_text_at_offset(pos) ==
    LET off == Load(pos, sizeof("uint32_t"))
        len == IF off = Garbage THEN Garbage ELSE Load(rbeg + off, sizeof("uint32_t"))
    IN  IF len = Garbage THEN <<Garbage>>
        ELSE [i \in 1 .. len |-> buf[rbeg + off + sizeof("uint32_t") + i][1]]

(* The text of a field: its offset, then its length behind the Start-of-Text.   *)
decode_text(pos) ==
    LET off == Load(pos, sizeof("uint32_t"))
        len == IF off = Garbage THEN Garbage ELSE Load(rbeg + off + 1, sizeof("uint32_t"))
    IN  IF len = Garbage THEN <<Garbage>>
        ELSE [i \in 1 .. len |-> buf[rbeg + off + 1 + sizeof("uint32_t") + i][1]]

(* Mutant of decode_field: the reader is moved past the buffer.                 *)
decode_field_no_size ==
    /\ pc = "decode" /\ at < rbeg
    /\ LET code == Load(at, 1)
           ts == {t \in Cases : code_of(t) = code}
       IN  IF ts = {}
           THEN pc' = "assert" /\ UNCHANGED <<at, out>>
           ELSE \E t \in ts :
                  /\ out' = Append(out, [type |-> t,
                                         val |-> IF t = "string_view" THEN decode_text(at + 1)
                                                 ELSE Load(at + 1, sizeof(t))])
                  /\ at' = at + Capacity
                  /\ UNCHANGED pc
    /\ UNCHANGED <<args, reserved, buf, turn, rel_blob_offset, rbeg>>

decode_field ==
    /\ pc = "decode" /\ at < rbeg
    /\ LET code == Load(at, 1)
           ts == {t \in Cases : code_of(t) = code}
       IN  IF ts = {}
           THEN pc' = "assert" /\ UNCHANGED <<at, out>>
           ELSE \E t \in ts :
                  /\ out' = Append(out, [type |-> t,
                                         val |-> IF t = "string_view" THEN decode_text(at + 1)
                                                 ELSE Load(at + 1, sizeof(t))])
                  /\ at' = at + 1 + (IF t = "string_view" THEN sizeof("uint32_t") ELSE sizeof(t))
                  /\ UNCHANGED pc
    /\ UNCHANGED <<args, reserved, buf, turn, rel_blob_offset, rbeg>>

Done ==
    /\ pc = "decode" /\ at >= rbeg
    /\ pc' = "done"
    /\ UNCHANGED <<args, reserved, buf, turn, rel_blob_offset, rbeg, at, out>>

Next == Heading \/ encode_field \/ FieldsDone \/ encode_blob \/ BlobsDone \/ decode_field \/ Done

Spec == Init /\ [][Next]_vars

------------------------------------------------------------------------------
TypeOK ==
    /\ pc \in {"heading", "fields", "blobs", "decode", "done", "encode_assert", "assert"}
    /\ turn \in 1 .. Len(args) + 1
    /\ Len(buf) <= Capacity /\ at <= Capacity
    /\ \A i \in DOMAIN out : out[i].type \in Cases

(* encode_record writes the bytes full_record_size told the caller to reserve   *)
(* in the log, no more at any step and no fewer at the end.                     *)
StaysInReservation ==
    /\ Len(buf) <= reserved
    /\ pc \in {"decode", "done"} => Len(buf) = reserved

(* A reader gets back the arguments of the record, in order and with the types  *)
(* of their fields, and every text that was passed in any of the three ways.    *)
RecordReadsBack ==
    pc = "done" => out = [i \in DOMAIN args |-> [type |-> Naked(args[i].type), val |-> Value(args[i])]]

(* The assertions of encode_record on its sizes hold, and the one of            *)
(* decode_field fails at the first bool of a record and nowhere else: bool has  *)
(* a code, and decode_field no case for it.                                     *)
AssertsAtBools ==
    /\ pc # "encode_assert"
    /\ \A i \in DOMAIN out : args[i].type # "bool"
    /\ pc = "assert" => args[Len(out) + 1].type = "bool"

(* "assert(false)" (audit_codec.hpp:255): no record that encode_record wrote    *)
(* has a type that decode_field has no case for.                                *)
NoAssertionFails == pc # "assert"
==============================================================================
