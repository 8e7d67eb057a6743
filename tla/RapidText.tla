------------------------------ MODULE RapidText ------------------------------
(* The bytes of rapidjson's texts: encodings, the streams that find them out,   *)
(* and the writing and reading of strings.                                      *)
EXTENDS Integers, Sequences, FiniteSetsExt

(* rapidjson/encodings.h: how a code point becomes code units and code units    *)
(* bytes, and back.  Units and bytes are numbers; a stream that is read past    *)
(* its end gives 0.                                                             *)

UTFTypes == {"UTF8", "UTF16LE", "UTF16BE", "UTF32LE", "UTF32BE"}
Width(type) ==
    CASE type = "UTF8" -> 1
      [] type \in {"UTF16LE", "UTF16BE"} -> 2
      [] type \in {"UTF32LE", "UTF32BE"} -> 4

At(s, i) == IF i <= Len(s) THEN s[i] ELSE 0
IsSurrogate(u) == u \in 55296 .. 57343        \* D800 .. DFFF
IsHigh(u) == u \in 55296 .. 56319
IsLow(u) == u \in 56320 .. 57343
MaxCodePoint == 1114111

------------------------------------------------------------------------------
(* Mutant of Utf8Encode: the middle of three bytes is not masked.               *)
Utf8EncodeUnmasked(cp) ==
    CASE cp <= 127 -> <<cp>>
      [] cp \in 128 .. 2047 -> <<192 + cp \div 64, 128 + (cp % 64)>>
      [] cp \in 2048 .. 65535 -> <<224 + cp \div 4096, 128 + cp \div 64, 128 + (cp % 64)>>
      [] OTHER -> <<240 + cp \div 262144, 128 + ((cp \div 4096) % 64),
                    128 + ((cp \div 64) % 64), 128 + (cp % 64)>>

Utf8Encode(cp) ==
    CASE cp <= 127 -> <<cp>>
      [] cp \in 128 .. 2047 -> <<192 + cp \div 64, 128 + (cp % 64)>>
      [] cp \in 2048 .. 65535 ->
           <<224 + cp \div 4096, 128 + ((cp \div 64) % 64), 128 + (cp % 64)>>
      [] OTHER -> <<240 + cp \div 262144, 128 + ((cp \div 4096) % 64),
                    128 + ((cp \div 64) % 64), 128 + (cp % 64)>>

(* Mutant of GetRange: the first byte ED is one of the others of three bytes.   *)
GetRangeNoSurrogates(c) ==
    CASE c <= 127 -> 0
      [] c \in 128 .. 143 -> 16
      [] c \in 144 .. 159 -> 64
      [] c \in 160 .. 191 -> 32
      [] c \in 194 .. 223 -> 2
      [] c = 224 -> 10
      [] c \in 225 .. 239 -> 3
      [] c = 240 -> 11
      [] c \in 241 .. 243 -> 6
      [] c = 244 -> 5
      [] OTHER -> 8

(* The class of a byte: 16, 64, 32 follow another byte, 2 .. 6, 10, 11 are      *)
(* first bytes, 8 is none.                                                      *)
GetRange(c) ==
    CASE c <= 127 -> 0
      [] c \in 128 .. 143 -> 16
      [] c \in 144 .. 159 -> 64
      [] c \in 160 .. 191 -> 32
      [] c \in 194 .. 223 -> 2
      [] c = 224 -> 10
      [] c \in (225 .. 236) \cup {238, 239} -> 3
      [] c = 237 -> 4
      [] c = 240 -> 11
      [] c \in 241 .. 243 -> 6
      [] c = 244 -> 5
      [] OTHER -> 8

TailClasses == {16, 32, 64}

(* The classes the bytes behind a first byte must have.                         *)
Tails(type) ==
    CASE type = 2 -> <<TailClasses>>
      [] type = 3 -> <<TailClasses, TailClasses>>
      [] type = 4 -> <<{16, 64}, TailClasses>>
      [] type = 5 -> <<{16}, TailClasses, TailClasses>>
      [] type = 6 -> <<TailClasses, TailClasses, TailClasses>>
      [] type = 10 -> <<{32}, TailClasses>>
      [] type = 11 -> <<{32, 64}, TailClasses, TailClasses>>
      [] OTHER -> <<>>

(* Decode from unit i: whether it is a code point, which, and the place behind. *)
Utf8Decode(s, i) ==
    LET c == At(s, i)
        type == GetRange(c)
        tails == Tails(type)
        bits == [k \in 1 .. Len(tails) |-> At(s, i + k) % 64]
        lead == IF type >= 8 THEN 0 ELSE c % 2 ^ (8 - type)
    IN  IF c < 128 THEN [ok |-> TRUE, cp |-> c, next |-> i + 1]
        ELSE [ok |-> tails # <<>> /\ \A k \in DOMAIN tails : GetRange(At(s, i + k)) \in tails[k],
              cp |-> CASE Len(tails) = 0 -> lead
                       [] Len(tails) = 1 -> lead * 64 + bits[1]
                       [] Len(tails) = 2 -> (lead * 64 + bits[1]) * 64 + bits[2]
                       [] Len(tails) = 3 -> ((lead * 64 + bits[1]) * 64 + bits[2]) * 64 + bits[3],
              next |-> i + 1 + Len(tails)]

(* Mutant of Utf8Validate: nothing is taken behind the first byte that is wrong. *)
Utf8ValidateStops(s, i) ==
    LET tails == Tails(GetRange(At(s, i)))
        good == \A k \in DOMAIN tails : GetRange(At(s, i + k)) \in tails[k]
    IN  [ok |-> At(s, i) < 128 \/ (tails # <<>> /\ good),
         out |-> [k \in 1 .. 1 + Len(tails) |-> At(s, i + k - 1)],
         next |-> IF good THEN i + 1 + Len(tails) ELSE i + 1]

(* Validate: the units are copied whether they are valid or not.                *)
Utf8Validate(s, i) ==
    LET tails == Tails(GetRange(At(s, i)))
    IN  [ok |-> \/ At(s, i) < 128
                \/ tails # <<>> /\ \A k \in DOMAIN tails : GetRange(At(s, i + k)) \in tails[k],
         out |-> [k \in 1 .. 1 + Len(tails) |-> At(s, i + k - 1)],
         next |-> i + 1 + Len(tails)]

------------------------------------------------------------------------------
Utf16Encode(cp) ==
    IF cp <= 65535 THEN <<cp>>
    ELSE LET v == cp - 65536 IN <<55296 + v \div 1024, 56320 + (v % 1024)>>

Utf16Decode(s, i) ==
    LET c == At(s, i)
        d == At(s, i + 1)
    IN  CASE ~IsSurrogate(c) -> [ok |-> TRUE, cp |-> c, next |-> i + 1]
          [] IsHigh(c) -> [ok |-> IsLow(d), cp |-> (c % 1024) * 1024 + (d % 1024) + 65536, next |-> i + 2]
          [] IsLow(c) -> [ok |-> FALSE, cp |-> 0, next |-> i + 1]

Utf16Validate(s, i) ==
    LET c == At(s, i)
        d == At(s, i + 1)
    IN  CASE ~IsSurrogate(c) -> [ok |-> TRUE, out |-> <<c>>, next |-> i + 1]
          [] IsHigh(c) -> [ok |-> IsLow(d), out |-> <<c, d>>, next |-> i + 2]
          [] IsLow(c) -> [ok |-> FALSE, out |-> <<c>>, next |-> i + 1]

Utf32Encode(cp) == <<cp>>
Utf32Decode(s, i) == [ok |-> At(s, i) <= MaxCodePoint, cp |-> At(s, i), next |-> i + 1]
Utf32Validate(s, i) == [ok |-> At(s, i) <= MaxCodePoint, out |-> <<At(s, i)>>, next |-> i + 1]

------------------------------------------------------------------------------
(* AutoUTF: the functions of the type.                                          *)
Encode(type, cp) ==
    CASE Width(type) = 1 -> Utf8Encode(cp)
      [] Width(type) = 2 -> Utf16Encode(cp)
      [] Width(type) = 4 -> Utf32Encode(cp)
Decode(type, s, i) ==
    CASE Width(type) = 1 -> Utf8Decode(s, i)
      [] Width(type) = 2 -> Utf16Decode(s, i)
      [] Width(type) = 4 -> Utf32Decode(s, i)
Validate(type, s, i) ==
    CASE Width(type) = 1 -> Utf8Validate(s, i)
      [] Width(type) = 2 -> Utf16Validate(s, i)
      [] Width(type) = 4 -> Utf32Validate(s, i)

IsBigEndian(type) == type \in {"UTF16BE", "UTF32BE"}

(* Mutant of Put: the low byte is not masked.                                   *)
PutUnmasked(type, u) ==
    LET w == Width(type)
        low == [k \in 1 .. w |-> u \div 256 ^ (k - 1)]
    IN  IF IsBigEndian(type) THEN [k \in 1 .. w |-> low[w + 1 - k]] ELSE low

(* Put: the bytes of a unit; Take: the unit of as many bytes.                   *)
Put(type, u) ==
    LET w == Width(type)
        low == [k \in 1 .. w |-> (u \div 256 ^ (k - 1)) % 256]
    IN  IF IsBigEndian(type) THEN [k \in 1 .. w |-> low[w + 1 - k]] ELSE low

(* The highest of four bytes: all that is not 0 is beyond every code point.     *)
High(b) == IF b = 0 THEN 0 ELSE 16777216

Take(type, b) ==
    LET w == Width(type)
        byte(k) == IF IsBigEndian(type) THEN b[w + 1 - k] ELSE b[k]
    IN  CASE w = 1 -> byte(1)
          [] w = 2 -> byte(1) + 256 * byte(2)
          [] w = 4 -> byte(1) + 256 * byte(2) + 65536 * byte(3) + High(byte(4))

BOM == 65279    \* FEFF
PutBOM(type) == IF type = "UTF8" THEN <<239, 187, 191>> ELSE Put(type, BOM)
------------------------------------------------------------------------------
(* A text written through an encoded output stream of rapidjson and read back:  *)
(* EncodedOutputStream puts the byte order mark and the bytes of every unit,    *)
(* FileReadStream reads them through its buffer (MemoryStream has them all),    *)
(* AutoUTFInputStream finds out the encoding, EncodedInputStream is told.       *)

CONSTANTS
    Jobs,          \* records [cps, bytes, type, bom, source, reader, user]: a text of code points
                   \* to write, or, where cps is empty, bytes that are there already
    BufferSize     \* of FileReadStream

BufferSizeAssumption == BufferSize \in Nat /\ BufferSize >= 4

VARIABLES
    job, phase,
    file,      \* the bytes
    in,        \* the byte stream: [current, last, read, count, from, eof]
    type,      \* type_ of the reader
    current,   \* the unit the encoded stream has taken ahead
    units,     \* the units its reader took
    place,     \* in the units, when they are decoded
    decoded    \* what Decode and Validate gave, one after the other

streamVars == <<job, phase, file, in, type, current, units, place, decoded>>

------------------------------------------------------------------------------
(* FileReadStream: the buffer holds the bytes from + 1 .. from + read of the    *)
(* file, which fread was given; current_ and bufferLast_ are offsets into it.   *)
Fill(from) == Min({BufferSize, Len(file) - from})

(* Mutant of Read: the bytes of the buffer before are not counted.              *)
ReadUncounted(s) ==
    IF s.current < s.last THEN [s EXCEPT !.current = @ + 1]
    ELSE IF s.eof THEN s
    ELSE LET n == Fill(s.from + s.read) IN
         [current |-> 0, read |-> n, count |-> n, from |-> s.from + s.read,
          eof |-> n < BufferSize, last |-> IF n < BufferSize THEN n ELSE n - 1]

Read(s) ==
    IF s.current < s.last THEN [s EXCEPT !.current = @ + 1]
    ELSE IF s.eof THEN s
    ELSE LET n == Fill(s.from + s.read) IN
         [current |-> 0, read |-> n, count |-> s.count + s.read, from |-> s.from + s.read,
          eof |-> n < BufferSize, last |-> IF n < BufferSize THEN n ELSE n - 1]

Peek(s) == At(file, s.from + s.current + 1)
Tell(s) == s.count + s.current
Peek4(s) == s.current + 4 <= s.last

(* MemoryStream: the whole file is its buffer.                                  *)
Memory == [current |-> 0, read |-> Len(file), count |-> 0, from |-> 0, eof |-> TRUE, last |-> Len(file)]

FileStream == Read([current |-> 0, last |-> 0, read |-> 0, count |-> 0, from |-> 0, eof |-> FALSE])

(* The stream after n bytes more are taken, and these bytes.                    *)
After(s, n) ==
    LET step[k \in 0 .. n] == IF k = 0 THEN s ELSE Read(step[k - 1]) IN step[n]
Bytes(s, n) ==
    LET step[k \in 0 .. n] == IF k = 0 THEN s ELSE Read(step[k - 1])
    IN  [k \in 1 .. n |-> Peek(step[k - 1])]
Unit(s, t) == Take(t, Bytes(s, Width(t)))

------------------------------------------------------------------------------
InitStreams ==
    /\ job \in Jobs
    /\ phase = IF job.cps = <<>> THEN "open" ELSE "write"
    /\ file = IF job.cps = <<>> THEN job.bytes
              ELSE IF job.bom THEN PutBOM(job.type) ELSE <<>>
    /\ in = [current |-> 0, last |-> 0, read |-> 0, count |-> 0, from |-> 0, eof |-> FALSE]
    /\ type = job.user /\ current = 0 /\ units = <<>> /\ place = 0 /\ decoded = <<>>

(* EncodedOutputStream::Put and AutoUTFOutputStream::Put of every unit of the   *)
(* next code point.                                                             *)
Write ==
    /\ phase = "write"
    /\ LET us == Encode(job.type, job.cps[place + 1])
           bytes[k \in 0 .. Len(us)] == IF k = 0 THEN file ELSE bytes[k - 1] \o Put(job.type, us[k])
       IN  file' = bytes[Len(us)]
    /\ place' = IF place + 1 = Len(job.cps) THEN 0 ELSE place + 1
    /\ phase' = IF place + 1 = Len(job.cps) THEN "open" ELSE "write"
    /\ UNCHANGED <<job, in, type, current, units, decoded>>

(* Mutant of DetectType: the marks of two bytes are looked for first.           *)
DetectTypeShortFirst(s) ==
    LET c == Bytes(s, 4)
        null(k) == c[k] = 0
        found(t, n) == [type |-> t, skip |-> n]
    IN  CASE ~Peek4(s) -> found(job.user, 0)
          [] Peek4(s) /\ c[1] = 255 /\ c[2] = 254 -> found("UTF16LE", 2)
          [] Peek4(s) /\ c[1] = 254 /\ c[2] = 255 -> found("UTF16BE", 2)
          [] Peek4(s) /\ c = <<0, 0, 254, 255>> -> found("UTF32BE", 4)
          [] Peek4(s) /\ SubSeq(c, 1, 3) = <<239, 187, 191>> -> found("UTF8", 3)
          [] OTHER ->
               CASE null(1) /\ null(2) /\ null(3) /\ ~null(4) -> found("UTF32BE", 0)
                 [] null(1) /\ ~null(2) /\ null(3) /\ ~null(4) -> found("UTF16BE", 0)
                 [] ~null(1) /\ null(2) /\ null(3) /\ null(4) -> found("UTF32LE", 0)
                 [] ~null(1) /\ null(2) /\ ~null(3) /\ null(4) -> found("UTF16LE", 0)
                 [] \A k \in 1 .. 4 : ~null(k) -> found("UTF8", 0)
                 [] OTHER -> found(job.user, 0)

(* DetectType: by a mark, which is skipped, or by where the null bytes are.     *)
DetectType(s) ==
    LET c == Bytes(s, 4)
        null(k) == c[k] = 0
        found(t, n) == [type |-> t, skip |-> n]
    IN  CASE ~Peek4(s) -> found(job.user, 0)
          [] Peek4(s) /\ c = <<0, 0, 254, 255>> -> found("UTF32BE", 4)
          [] Peek4(s) /\ c = <<255, 254, 0, 0>> -> found("UTF32LE", 4)
          [] Peek4(s) /\ SubSeq(c, 1, 2) = <<254, 255>> -> found("UTF16BE", 2)
          [] Peek4(s) /\ SubSeq(c, 1, 2) = <<255, 254>> /\ ~(null(3) /\ null(4)) -> found("UTF16LE", 2)
          [] Peek4(s) /\ SubSeq(c, 1, 3) = <<239, 187, 191>> -> found("UTF8", 3)
          [] OTHER ->
               CASE null(1) /\ null(2) /\ null(3) /\ ~null(4) -> found("UTF32BE", 0)
                 [] null(1) /\ ~null(2) /\ null(3) /\ ~null(4) -> found("UTF16BE", 0)
                 [] ~null(1) /\ null(2) /\ null(3) /\ null(4) -> found("UTF32LE", 0)
                 [] ~null(1) /\ null(2) /\ ~null(3) /\ null(4) -> found("UTF16LE", 0)
                 [] \A k \in 1 .. 4 : ~null(k) -> found("UTF8", 0)
                 [] OTHER -> found(job.user, 0)

(* TakeBOM: how many bytes are dropped before the first unit.                   *)
TakeBOM(s, t) ==
    LET b == Bytes(s, 3) IN
    CASE t # "UTF8" -> IF Unit(s, t) = BOM THEN Width(t) ELSE 0
      [] t = "UTF8" /\ job.source = "file" ->
           IF b[1] # 239 THEN 0 ELSE IF b[2] # 187 THEN 1 ELSE IF b[3] # 191 THEN 2 ELSE 3
      [] OTHER ->    \* the specialisation for MemoryStream
           LET at1 == IF b[1] = 239 THEN 1 ELSE 0
               at2 == at1 + IF b[at1 + 1] = 187 THEN 1 ELSE 0
           IN  at2 + IF Peek(After(s, at2)) = 191 THEN 1 ELSE 0

(* The constructor of the reader, which takes one unit ahead.                   *)
Open ==
    /\ phase = "open"
    /\ \E s \in {IF job.source = "file" THEN FileStream ELSE Memory} :
       \E d \in {IF job.reader = "auto" THEN DetectType(s)
                 ELSE [type |-> job.type, skip |-> TakeBOM(s, job.type)]} :
          /\ type' = d.type
          /\ current' = Unit(After(s, d.skip), d.type)
          /\ in' = After(s, d.skip + Width(d.type))
    /\ phase' = "take"
    /\ UNCHANGED <<job, file, units, place, decoded>>

(* Take of the encoded stream, until it gives the 0 of the end.                 *)
TakeUnit ==
    /\ phase = "take"
    /\ IF current = 0
       THEN phase' = "decode" /\ place' = 1 /\ UNCHANGED <<current, in, units>>
       ELSE /\ units' = Append(units, current)
            /\ current' = Unit(in, type) /\ in' = After(in, Width(type))
            /\ UNCHANGED <<phase, place>>
    /\ UNCHANGED <<job, file, type, decoded>>

(* Decode and Validate of the next code point, each from the same place.        *)
DecodeNext ==
    /\ phase = "decode" /\ place <= Len(units)
    /\ LET d == Decode(type, units, place)
           v == Validate(type, units, place)
       IN  /\ decoded' = Append(decoded, [at |-> place, decode |-> d, validate |-> v])
           /\ place' = d.next
    /\ UNCHANGED <<job, phase, file, in, type, current, units>>

NextStreams == Write \/ Open \/ TakeUnit \/ DecodeNext

SpecStreams == InitStreams /\ [][NextStreams]_streamVars

------------------------------------------------------------------------------
StreamsTypeOK ==
    /\ type \in UTFTypes
    /\ in.current \in 0 .. in.last /\ in.last <= BufferSize + Len(file)
    /\ \A i \in DOMAIN file : file[i] \in 0 .. 255
    /\ \A i \in DOMAIN units : units[i] # 0

StreamDone == phase = "decode" /\ place > Len(units)
CodePoints == [i \in DOMAIN decoded |-> decoded[i].decode.cp]

(* A text that begins with two ASCII characters, as the readers count on, or    *)
(* with a mark.                                                                 *)
Recognizable ==
    \/ job.bom
    \/ job.cps[1] < 128 /\ (job.reader = "auto" => Len(job.cps) >= 2 /\ job.cps[2] < 128)

(* What was written is read back, whatever the encoding, the mark, the reader   *)
(* and where the buffer of the file is refilled.                                *)
ReadsBackWhatWasWritten ==
    (StreamDone /\ job.cps # <<>> /\ Recognizable) =>
        /\ type = job.type
        /\ CodePoints = job.cps
        /\ \A i \in DOMAIN decoded : decoded[i].decode.ok

(* Tell counts the bytes of the file, over all refills, and never passes them.  *)
TellIsThePlace ==
    phase \in {"take", "decode"} => Tell(in) = in.from + in.current /\ Tell(in) <= Len(file)

(* n units of a sequence, 0 behind its end.                                     *)
Slice(s, i, n) == [k \in 1 .. n |-> At(s, i + k - 1)]

(* The code points one of whose encodings begins at a place of the units, by    *)
(* the shape of UTF-8 alone: the number of units, then six bits of each.        *)
Utf8At(s, i) ==
    LET v == <<At(s, i),
               (At(s, i) % 32) * 64 + (At(s, i + 1) % 64),
               ((At(s, i) % 16) * 64 + (At(s, i + 1) % 64)) * 64 + (At(s, i + 2) % 64),
               (((At(s, i) % 8) * 64 + (At(s, i + 1) % 64)) * 64 + (At(s, i + 2) % 64)) * 64
                   + (At(s, i + 3) % 64)>>
    IN  {v[n] : n \in {n \in 1 .. 4 : /\ v[n] <= MaxCodePoint /\ ~IsSurrogate(v[n])
                                      /\ Utf8Encode(v[n]) = Slice(s, i, n)}}

(* UTF-8 bytes, well formed or not, are taken for a code point just when they   *)
(* are the one encoding of it: no surrogate, no second form, nothing cut off.   *)
DecodeTakesUtf8Only ==
    type = "UTF8" => \A i \in DOMAIN decoded :
        LET d == decoded[i] IN
        IF d.decode.ok THEN Utf8At(units, d.at) = {d.decode.cp} ELSE Utf8At(units, d.at) = {}

(* Validate copies the units it looks at and agrees with Decode.                *)
ValidateAgrees ==
    \A i \in DOMAIN decoded :
        LET d == decoded[i].decode
            v == decoded[i].validate
        IN  /\ d.ok = v.ok /\ d.next = v.next
            /\ v.ok => v.out = Slice(units, decoded[i].at, v.next - decoded[i].at)

(* "Take a character from input byte stream, skip BOM if exist": a told reader  *)
(* drops a byte order mark and nothing else.                                    *)
OnlyTheMarkIsDropped ==
    (phase = "take" /\ units = <<>> /\ job.reader = "told") =>
        LET bytes == Put(type, current) IN
        \E n \in {0, Len(PutBOM(type))} :
            /\ n > 0 => Slice(file, 1, n) = PutBOM(type)
            /\ Slice(file, n + 1, Width(type)) = bytes
------------------------------------------------------------------------------
(* How rapidjson/reader.h skips white space and reads a string: into its stack, *)
(* or in situ, over the text itself; one character at a time, or a block at a   *)
(* time with SSE or NEON instructions.  The same text is read by every build    *)
(* and in every mode.  A string may be written by rapidjson/writer.h before.    *)

CONSTANTS
    Inputs,   \* records [text, base, rest, validate, writer]: bytes that end with 0, the address of
              \* the first, the byte that is found everywhere else, kParseValidateEncodingFlag,
              \* and the writer the bytes are the string of, if any
    Turns,     \* a sequence of [build, mode]
    Block     \* bytes in a SIMD register

BlockAssumption == Block \in Nat /\ Block >= 2 /\ Block % 2 = 0

VARIABLES
    input, turn,
    pc,       \* "write", "escape", "wrote", "refused", "first", "ws", "begin", "scan", "char", "done"
    mem,      \* the memory around the text
    src, dst, head,
    out,      \* the characters put on the stack
    error,    \* {} or the one [code, off]
    loads,    \* addresses of the blocks that were loaded
    results

stringVars == <<input, turn, pc, mem, src, dst, head, out, error, loads, results>>

Build == Turns[turn].build
Mode == Turns[turn].mode
InSitu == Mode = "insitu"
Running == turn <= Len(Turns)
End == input.base + Len(input.text) - 1    \* the address of the last byte, 0

Laid(i) ==
    [a \in 0 .. i.base + Len(i.text) + 2 * Block |->
        IF a >= i.base /\ a - i.base < Len(i.text) THEN i.text[a - i.base + 1] ELSE i.rest]

InitString ==
    /\ input \in Inputs
    /\ turn = 1 /\ pc = IF input.writer = "none" THEN "first" ELSE "write"
    /\ mem = Laid(input)
    /\ src = input.base /\ dst = 0 /\ head = 0
    /\ out = IF input.writer = "none" THEN <<>> ELSE <<34>>    \* the quote WriteString begins with
    /\ error = {} /\ loads = {} /\ results = <<>>

------------------------------------------------------------------------------
White == {32, 10, 13, 9}
Special(c) == c < 32 \/ c = 34 \/ c = 92

(* What a scan stops at: blanks are skipped up to a byte that is none.          *)
Stops(scan, c) == IF scan = "blanks" THEN c \notin White ELSE Special(c)

(* Mutant of NextAligned: the address as it is.                                 *)
NextAlignedNot(p) == p

NextAligned(p) == p + ((Block - (p % Block)) % Block)

(* The index of the first of the bytes at p that a scan stops at, Block if none: *)
(* from the bit mask of SSE, or from the two halves NEON gives.                 *)
FirstSse(p, scan) ==
    IF \E k \in 0 .. Block - 1 : Stops(scan, mem[p + k])
    THEN CHOOSE k \in 0 .. Block - 1 : Stops(scan, mem[p + k]) /\ \A j \in 0 .. k - 1 : ~Stops(scan, mem[p + j])
    ELSE Block

(* Mutant of HighHalf: the index within the half.                               *)
HighHalfOnly(k) == k

HighHalf(k) == Block \div 2 + k

FirstNeon(p, scan) ==
    LET half == Block \div 2
        low == {k \in 0 .. half - 1 : Stops(scan, mem[p + k])}
        high == {k \in 0 .. half - 1 : Stops(scan, mem[p + half + k])}
        least(s) == CHOOSE k \in s : \A j \in s : k <= j
    IN  IF low # {} THEN least(low) ELSE IF high # {} THEN HighHalf(least(high)) ELSE Block

First(p, scan) == IF Build = "neon" THEN FirstNeon(p, scan) ELSE FirstSse(p, scan)

Copied(p, n) == [k \in 1 .. n |-> mem[p + k - 1]]

------------------------------------------------------------------------------
(* Writer::WriteString of rapidjson/writer.h, into out: of Writers "generic",   *)
(* "sse" and "neon" into UTF-8, of "validating" with kWriteValidateEncodingFlag,*)
(* and of "ascii" into ASCII, where supportUnicode is false.                    *)
Simd == input.writer \in {"sse", "neon"} /\ Len(input.text) - 1 >= Block
EndAligned == End - (End % Block)

(* The bytes the scan stops at; a char of the SSE builds is signed.             *)
StopsWriting(c) == Special(c) \/ (input.writer = "sse" /\ c >= 128)

(* ScanWriteUnescapedString: whether there is more to write, ...                *)
ScanWrite ==
    /\ pc = "write"
    /\ \/ ~Simd \/ src >= End \/ NextAligned(src) > End \/ src = EndAligned
    /\ pc' = IF src < End THEN "escape" ELSE "wrote"
    /\ UNCHANGED <<input, turn, mem, src, dst, head, out, error, loads, results>>

(* ... what is before the next boundary, byte by byte, ...                      *)
ScanWriteToBoundary ==
    /\ pc = "write" /\ Simd /\ src # NextAligned(src) /\ NextAligned(src) <= End
    /\ IF StopsWriting(mem[src]) THEN pc' = "escape" /\ UNCHANGED <<src, out>>
       ELSE out' = Append(out, mem[src]) /\ src' = src + 1 /\ UNCHANGED pc
    /\ UNCHANGED <<input, turn, mem, dst, head, error, loads, results>>

(* Mutant of ScanWriteBlock: the whole block is kept where a byte in it is to   *)
(* be escaped.                                                                  *)
ScanWriteBlockKeepsAll ==
    /\ pc = "write" /\ Simd /\ src = NextAligned(src) /\ src < EndAligned
    /\ LET k == IF input.writer = "neon" THEN FirstNeon(src, "text") ELSE FirstSse(src, "text") IN
       /\ out' = out \o Copied(src, Block) /\ src' = src + k
       /\ pc' = IF k # Block THEN "escape" ELSE "write"
    /\ loads' = loads \cup {src}
    /\ UNCHANGED <<input, turn, mem, dst, head, error, results>>

(* ... and block by block behind it, to the last boundary of the string.        *)
ScanWriteBlock ==
    /\ pc = "write" /\ Simd /\ src = NextAligned(src) /\ src < EndAligned
    /\ LET k == IF input.writer = "neon" THEN FirstNeon(src, "text") ELSE FirstSse(src, "text") IN
       /\ out' = out \o Copied(src, k) /\ src' = src + k
       /\ pc' = IF k # Block THEN "escape" ELSE "write"
    /\ loads' = loads \cup {src}
    /\ UNCHANGED <<input, turn, mem, dst, head, error, results>>

HexDigits == <<48, 49, 50, 51, 52, 53, 54, 55, 56, 57, 65, 66, 67, 68, 69, 70>>
Hex4(u) == <<92, 117>> \o [k \in 1 .. 4 |-> HexDigits[((u \div 16 ^ (4 - k)) % 16) + 1]]

(* The table escape of WriteString: empty where the byte is written as it is.   *)
WrittenEscape(c) ==
    CASE c \in {34, 92} -> <<92, c>>
      [] c = 8 -> <<92, 98>> [] c = 9 -> <<92, 116>> [] c = 10 -> <<92, 110>>
      [] c = 12 -> <<92, 102>> [] c = 13 -> <<92, 114>>
      [] c < 32 /\ c \notin {8, 9, 10, 12, 13} -> Hex4(c)
      [] OTHER -> <<>>

(* One turn of the loop of WriteString; false is returned where the bytes are   *)
(* no UTF-8 and are looked at.                                                  *)
WriteCharacter ==
    /\ pc = "escape"
    /\ LET c == mem[src]
           d == Utf8Decode(Copied(src, 4), 1)
           v == Utf8Validate(Copied(src, 4), 1)
           put(bytes, n) == out' = out \o bytes /\ src' = src + n /\ pc' = "write"
           refuse == pc' = "refused" /\ UNCHANGED <<out, src>>
       IN  CASE input.writer = "ascii" /\ c >= 128 ->
                  IF ~d.ok THEN refuse
                  ELSE IF d.cp <= 65535 THEN put(Hex4(d.cp), d.next - 1)
                  ELSE put(Hex4(Utf16Encode(d.cp)[1]) \o Hex4(Utf16Encode(d.cp)[2]), d.next - 1)
             [] WrittenEscape(c) # <<>> -> put(WrittenEscape(c), 1)
             [] input.writer = "validating" /\ WrittenEscape(c) = <<>> ->
                  IF v.ok THEN put(v.out, v.next - 1) ELSE refuse
             [] OTHER -> put(<<c>>, 1)
    /\ UNCHANGED <<input, turn, mem, dst, head, error, loads, results>>

(* The closing quote; what is written is the text that is read.                 *)
WriteQuote ==
    /\ pc = "wrote"
    /\ input' = [input EXCEPT !.text = out \o <<34, 44, 0>>, !.pieces =
                    <<[src |-> Tail(out), val |-> Copied(input.base, Len(input.text) - 1), bad |-> {}]>>]
    /\ mem' = Laid(input') /\ src' = input.base /\ out' = <<>> /\ loads' = {} /\ pc' = "first"
    /\ UNCHANGED <<turn, dst, head, error, results>>

------------------------------------------------------------------------------
(* SkipWhitespace, SkipWhitespace_SIMD(p) and, for a MemoryStream,              *)
(* SkipWhitespace_SIMD(p, end): one turn of a loop.                             *)
SkipWhitespace ==
    /\ Running /\ pc \in {"first", "ws"}
    /\ LET white == mem[src] \in White /\ ~(Mode = "memory" /\ src = End)
           byBlock == /\ pc = "ws" /\ Build # "generic"
                      /\ IF Mode = "memory" THEN src <= End - Block ELSE src = NextAligned(src)
           k == First(src, "blanks")
       IN  IF byBlock
           THEN /\ src' = src + k /\ loads' = loads \cup {src}
                /\ pc' = IF k # Block THEN "begin" ELSE "ws"
           ELSE /\ src' = IF white THEN src + 1 ELSE src
                /\ pc' = IF white THEN "ws" ELSE "begin"
                /\ UNCHANGED loads
    /\ UNCHANGED <<input, turn, mem, dst, head, out, error, results>>

(* ParseString: behind the quote, where in situ the output begins.              *)
ParseString ==
    /\ Running /\ pc = "begin"
    /\ src' = src + 1 /\ dst' = src + 1 /\ head' = src + 1
    /\ pc' = "scan"
    /\ UNCHANGED <<input, turn, mem, out, error, loads, results>>

Fail(code, at) == error' = {[code |-> code, off |-> at - input.base]} /\ pc' = "done"

(* Puts bytes where the output of the mode is.                                  *)
PutAll(bytes) ==
    IF InSitu
    THEN /\ mem' = [a \in DOMAIN mem |-> IF a >= dst /\ a < dst + Len(bytes) THEN bytes[a - dst + 1] ELSE mem[a]]
         /\ dst' = dst + Len(bytes) /\ UNCHANGED out
    ELSE out' = out \o bytes /\ UNCHANGED <<mem, dst>>

Scans == Build # "generic" /\ ~input.validate /\ Mode # "memory"

(* No scan in the generic version, for other streams, or when validating.       *)
NoScan ==
    /\ Running /\ pc = "scan" /\ ~Scans
    /\ pc' = "char"
    /\ UNCHANGED <<input, turn, mem, src, dst, head, out, error, loads, results>>

(* ScanCopyUnescapedString and SkipUnescapedString up to the next boundary.     *)
ScanToBoundary ==
    /\ Running /\ pc = "scan" /\ Scans /\ src # NextAligned(src)
    /\ IF Special(mem[src]) THEN pc' = "char" /\ UNCHANGED <<mem, src, dst, out>>
       ELSE PutAll(Copied(src, 1)) /\ src' = src + 1 /\ UNCHANGED pc
    /\ UNCHANGED <<input, turn, head, error, loads, results>>

(* Mutant of ScanBlock: the whole block is stored before the special byte in it *)
(* is looked for.                                                               *)
ScanBlockStoresAll ==
    /\ Running /\ pc = "scan" /\ Scans /\ src = NextAligned(src)
    /\ LET k == First(src, "text") IN
       /\ IF InSitu
          THEN /\ mem' = [a \in DOMAIN mem |-> IF a >= dst /\ a < dst + Block THEN mem[src + a - dst] ELSE mem[a]]
               /\ dst' = dst + k /\ UNCHANGED out
          ELSE PutAll(Copied(src, k))
       /\ src' = src + k /\ loads' = loads \cup {src}
       /\ pc' = IF k # Block THEN "char" ELSE "scan"
    /\ UNCHANGED <<input, turn, head, error, results>>

(* ... and block by block behind it.                                            *)
ScanBlock ==
    /\ Running /\ pc = "scan" /\ Scans /\ src = NextAligned(src)
    /\ LET k == First(src, "text") IN
       /\ PutAll(Copied(src, k))
       /\ src' = src + k /\ loads' = loads \cup {src}
       /\ pc' = IF k # Block THEN "char" ELSE "scan"
    /\ UNCHANGED <<input, turn, head, error, results>>

------------------------------------------------------------------------------
(* The characters an escape of two stands for: quote, \, /, b, f, n, r, t.      *)
Escape(e) ==
    CASE e \in {34, 92, 47} -> {e}
      [] e = 98 -> {8} [] e = 102 -> {12} [] e = 110 -> {10} [] e = 114 -> {13} [] e = 116 -> {9}
      [] OTHER -> {}

HexDigit(c) ==
    CASE c \in 48 .. 57 -> {c - 48} [] c \in 65 .. 70 -> {c - 55} [] c \in 97 .. 102 -> {c - 87}
      [] OTHER -> {}

(* ParseHex4 at an address: the number, or none.                                *)
ParseHex4(p) ==
    {((a * 16 + b) * 16 + c) * 16 + d :
        a \in HexDigit(mem[p]), b \in HexDigit(mem[p + 1]), c \in HexDigit(mem[p + 2]), d \in HexDigit(mem[p + 3])}

(* Mutant of Pair: the code points of pairs are not moved up.                   *)
PairLow(hi, lo) == (hi - 55296) * 1024 + (lo - 56320)

Pair(hi, lo) == (hi - 55296) * 1024 + (lo - 56320) + 65536

(* The escape \u at src.                                                        *)
ParseUnicode ==
    LET one == ParseHex4(src + 2)
        two == ParseHex4(src + 8)
        bad(code) == Fail(code, src) /\ UNCHANGED <<mem, src, dst, out>>
    IN  IF one = {} THEN bad("UnicodeEscapeInvalidHex")
        ELSE \E cp \in one :
             CASE ~IsHigh(cp) ->
                    PutAll(Utf8Encode(cp)) /\ src' = src + 6 /\ pc' = "scan" /\ UNCHANGED error
               [] IsHigh(cp) /\ (mem[src + 6] # 92 \/ mem[src + 7] # 117) -> bad("UnicodeSurrogateInvalid")
               [] IsHigh(cp) /\ mem[src + 6] = 92 /\ mem[src + 7] = 117 /\ two = {} ->
                    bad("UnicodeEscapeInvalidHex")
               [] OTHER -> \E lo \in two :
                    IF ~IsLow(lo) THEN bad("UnicodeSurrogateInvalid")
                    ELSE /\ PutAll(Utf8Encode(Pair(cp, lo))) /\ src' = src + 12 /\ pc' = "scan"
                         /\ UNCHANGED error

(* One turn of ParseStringToStream at an escape.                                *)
ParseEscape ==
    /\ Running /\ pc = "char" /\ mem[src] = 92
    /\ LET e == mem[src + 1] IN
       CASE Escape(e) # {} ->
              /\ \E c \in Escape(e) : PutAll(<<c>>)
              /\ src' = src + 2 /\ pc' = "scan" /\ UNCHANGED error
         [] e = 117 -> ParseUnicode
         [] OTHER -> Fail("EscapeInvalid", src) /\ UNCHANGED <<mem, src, dst, out>>
    /\ UNCHANGED <<input, turn, head, loads, results>>

(* ... at the closing quote: a 0 is put behind the string.                      *)
CloseQuote ==
    /\ Running /\ pc = "char" /\ mem[src] = 34
    /\ src' = src + 1 /\ PutAll(<<0>>) /\ pc' = "done"
    /\ UNCHANGED <<input, turn, head, error, loads, results>>

(* ... at a control character or the end of the text.                           *)
Control ==
    /\ Running /\ pc = "char" /\ mem[src] < 32
    /\ Fail(IF mem[src] = 0 THEN "MissQuotationMark" ELSE "InvalidEncoding", src)
    /\ UNCHANGED <<input, turn, mem, src, dst, head, out, loads, results>>

(* ... at any other byte: Transcoder<UTF8, UTF8>::Transcode or Validate.        *)
Plain ==
    /\ Running /\ pc = "char" /\ ~Special(mem[src])
    /\ LET v == Utf8Validate(Copied(src, 4), 1)
           n == IF input.validate THEN Len(v.out) ELSE 1
       IN  /\ PutAll(Copied(src, n)) /\ src' = src + n
           /\ IF input.validate /\ ~v.ok THEN Fail("InvalidEncoding", src)
              ELSE pc' = "scan" /\ UNCHANGED error
    /\ UNCHANGED <<input, turn, head, loads, results>>

(* What the handler is given; then the next job gets the text anew.             *)
Return ==
    /\ Running /\ pc = "done"
    /\ LET str == IF InSitu THEN Copied(head, dst - head - 1) ELSE SubSeq(out, 1, Len(out) - 1)
       IN  results' = Append(results, [error |-> error, at |-> IF error = {} THEN src ELSE 0,
                                       str |-> IF error = {} THEN str ELSE <<>>])
    /\ turn' = turn + 1 /\ pc' = "first"
    /\ mem' = Laid(input) /\ src' = input.base /\ dst' = 0 /\ head' = 0 /\ out' = <<>>
    /\ error' = {} /\ loads' = {}
    /\ UNCHANGED input

NextString ==
    \/ SkipWhitespace \/ ParseString \/ NoScan \/ ScanToBoundary \/ ScanBlock
    \/ ParseEscape \/ CloseQuote \/ Control \/ Plain \/ Return
    \/ ScanWrite \/ ScanWriteToBoundary \/ ScanWriteBlock \/ WriteCharacter \/ WriteQuote

SpecString == InitString /\ [][NextString]_stringVars

------------------------------------------------------------------------------
StringTypeOK ==
    /\ src \in DOMAIN mem /\ dst \in DOMAIN mem
    /\ \A a \in DOMAIN mem : mem[a] \in 0 .. 255
    /\ \A i \in DOMAIN out : out[i] \in 0 .. 255

(* In situ the output stays behind the place that is read, and the text from    *)
(* there on is as it was: no escape is longer decoded than written, no store of *)
(* a block passes it.                                                           *)
InSituStaysBehind ==
    (Running /\ pc \in {"scan", "char", "done"} /\ error = {}) =>
        /\ InSitu => head <= dst /\ dst <= src
        /\ \A a \in DOMAIN mem : a >= src => mem[a] = Laid(input)[a]

(* Every build in every mode gives the handler the same string, ends at the     *)
(* same place, or finds the same error at the same offset.                      *)
BuildsAgree == \A i, j \in DOMAIN results : results[i] = results[j]

(* A block that is loaded is aligned and holds some byte of the text, so that   *)
(* it is in a page of the text; in a MemoryStream it is all text.               *)
LoadsStayWithTheText ==
    Running => \A a \in loads :
        IF Mode = "memory" THEN a >= input.base /\ a + Block - 1 < End
        ELSE a % Block = 0 /\ a <= End

IsUtf8(s) ==
    LET at[i \in 1 .. Len(s) + 4] ==
            IF i > Len(s) THEN i = Len(s) + 1
            ELSE Utf8Decode(s, i).ok /\ at[Utf8Decode(s, i).next]
    IN  at[1]

(* A block the writer loads is all string; it refuses just what is no UTF-8.    *)
WriterLoadsTheString == pc = "write" => \A a \in loads : a >= input.base /\ a + Block - 1 < End
RefusesNoUtf8 ==
    /\ pc = "refused" => ~IsUtf8(SubSeq(input.text, 1, Len(input.text) - 1))
    /\ (pc = "wrote" /\ input.writer \in {"ascii", "validating"}) =>
           IsUtf8(SubSeq(input.text, 1, Len(input.text) - 1))

(* The string a text stands for: its pieces one by one.                         *)
Meant == [ok |-> \A i \in DOMAIN input.pieces : input.pieces[i].bad = {},
          first |-> CHOOSE i \in 0 .. Len(input.pieces) :
                        /\ i < Len(input.pieces) => input.pieces[i + 1].bad # {}
                        /\ \A j \in 1 .. i : input.pieces[j].bad = {}]

Joined(seqs) ==
    LET go[i \in 0 .. Len(seqs)] == IF i = 0 THEN <<>> ELSE go[i - 1] \o seqs[i] IN go[Len(seqs)]

(* The string is what its escapes mean, and the error that of the first wrong   *)
(* one, reported where that begins.                                             *)
StringIsWhatIsMeant ==
    \A i \in DOMAIN results :
        IF Meant.ok /\ input.closed
        THEN /\ results[i].error = {}
             /\ results[i].str = Joined([k \in DOMAIN input.pieces |-> input.pieces[k].val])
        ELSE LET n == Meant.first
                 before == input.white + 1 + Len(Joined([k \in 1 .. n |-> input.pieces[k].src]))
                 code == IF Meant.ok THEN {"MissQuotationMark"} ELSE input.pieces[n + 1].bad
             IN  \E c \in code : results[i].error = {[code |-> c, off |-> before]}

(* "Validate encoding of JSON strings": with the flag a string that is accepted *)
(* is UTF-8.                                                                    *)
AcceptedIsUtf8 ==
    \A i \in DOMAIN results : (input.validate /\ results[i].error = {}) => IsUtf8(results[i].str)
==============================================================================
