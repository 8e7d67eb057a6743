------------------------------ MODULE FileHandler ------------------------------
(* CRUD/service/request_handler.cpp: the address of a request is decoded and    *)
(* names a file below the document root.  Characters are classes; "0", "2", "e" *)
(* and "f" are hexadecimal digits, "g" is a letter that is none.                *)
EXTENDS Naturals, Sequences, FiniteSets

CONSTANTS
    Chars,    \* the characters of an address
    MaxLen,   \* BOUND: the length of an address
    Exists(_) \* the files below the document root: a predicate of paths

Hex == {"0", "2", "e", "f"}

(* The character with a hexadecimal value, by the class it falls in.            *)
Value2(a, b) ==
    CASE a = "2" /\ b = "e" -> "."
      [] a = "2" /\ b = "f" -> "/"
      [] a = "2" /\ b = "2" -> "quote"
      [] a = "2" /\ b = "0" -> "sp"
      [] a = "0" -> IF b = "0" THEN "nul" ELSE "ctl"
      [] OTHER -> "hi"

(* is >> std::hex >> value of two characters: a sign, then digits as far as     *)
(* they go; "none" where there is no digit.                                     *)
Extract(a, b) ==
    CASE a \in Hex /\ b \in Hex -> Value2(a, b)
      [] a \in Hex /\ b \notin Hex -> Value2("0", a)
      [] a = "+" /\ b \in Hex -> Value2("0", b)
      [] OTHER -> "none"

BadUrl == [ok |-> FALSE, path |-> <<>>]

(* Mutant of Escape: the loop goes on inside the escape.                        *)
EscapeShort(in, i, rest) ==
    IF i + 2 > Len(in) \/ Extract(in[i + 1], in[i + 2]) = "none" \/ ~rest[i + 2].ok
    THEN BadUrl
    ELSE [ok |-> TRUE, path |-> <<Extract(in[i + 1], in[i + 2])>> \o rest[i + 2].path]

(* An escape at position i, with what follows it decoded already.               *)
Escape(in, i, rest) ==
    IF i + 2 > Len(in) \/ Extract(in[i + 1], in[i + 2]) = "none" \/ ~rest[i + 3].ok
    THEN BadUrl
    ELSE [ok |-> TRUE, path |-> <<Extract(in[i + 1], in[i + 2])>> \o rest[i + 3].path]

url_decode(in) ==
    LET rest[i \in 1 .. Len(in) + 1] ==
            IF i > Len(in) THEN [ok |-> TRUE, path |-> <<>>]
            ELSE IF in[i] = "%" THEN Escape(in, i, rest)
            ELSE IF ~rest[i + 1].ok THEN BadUrl
            ELSE [ok |-> TRUE, path |-> <<IF in[i] = "+" THEN "sp" ELSE in[i]>> \o rest[i + 1].path]
    IN rest[1]

Last(path, c) ==
    LET found == {i \in 1 .. Len(path) : path[i] = c} IN
    IF found = {} THEN 0 ELSE CHOOSE i \in found : \A j \in found : j <= i

(* Mutant of extension: any dot of the path starts it.                          *)
extensionAny(path) ==
    IF Last(path, ".") # 0 THEN SubSeq(path, Last(path, ".") + 1, Len(path)) ELSE <<>>

extension(path) ==
    IF Last(path, ".") # 0 /\ Last(path, ".") > Last(path, "/")
    THEN SubSeq(path, Last(path, ".") + 1, Len(path)) ELSE <<>>

extension_to_type(ext) == IF ext = <<"html">> THEN "text/html" ELSE "text/plain"

TwoDots(path) == \E i \in 1 .. Len(path) - 1 : path[i] = "." /\ path[i + 1] = "."

(* Mutant of Refused: the address is looked at as it came.                      *)
RefusedRaw(uri, path) == path = <<>> \/ path[1] # "/" \/ TwoDots(uri)

Refused(uri, path) == path = <<>> \/ path[1] # "/" \/ TwoDots(path)

Index == <<"index", ".", "html">>

Named(path) == IF path[Len(path)] = "/" THEN path \o Index ELSE path

(* c_str(): the name a file is opened by ends at the first NUL.                 *)
Opened(path) ==
    LET whole == {n \in 0 .. Len(path) : \A i \in 1 .. n : path[i] # "nul"} IN
    SubSeq(path, 1, CHOOSE n \in whole : \A k \in whole : k <= n)

Stock(status) == [status |-> status, path |-> <<>>, ext |-> <<"html">>, type |-> "text/html"]

(* request_handler::handle_request: the reply's status, the file that was       *)
(* opened, and the type by the extension of the name that was asked for.        *)
handle_request(uri) ==
    LET decoded == url_decode(uri)
        name == Named(decoded.path)
    IN
    IF ~decoded.ok \/ Refused(uri, decoded.path) THEN Stock("bad_request")
    ELSE IF ~Exists(Opened(name)) THEN Stock("not_found")
    ELSE [status |-> "ok", path |-> Opened(name), ext |-> extension(name),
          type |-> extension_to_type(extension(name))]

------------------------------------------------------------------------------
VARIABLES uri, reply
vars == <<uri, reply>>

(* Every address up to the bound, one character at a time.                      *)
Init == uri = <<>> /\ reply = handle_request(<<>>)
Next ==
    \E c \in Chars :
        /\ Len(uri) < MaxLen
        /\ uri' = Append(uri, c)
        /\ reply' = handle_request(uri')
Spec == Init /\ [][Next]_vars

(* Reading the address from the left: how many characters of an escape are      *)
(* still owed, and what has been decoded.                                       *)
ValidEscapes(in) ==
    \A i \in 1 .. Len(in) : in[i] = "%" =>
        i + 2 <= Len(in) /\ in[i + 1] \in Hex /\ in[i + 2] \in Hex

Escaped(in) == {i \in 1 .. Len(in) : \E j \in {i - 1, i - 2} : j \in 1 .. Len(in) /\ in[j] = "%"}

Plain(in, i) ==
    CASE in[i] = "%" -> Value2(in[i + 1], in[i + 2])
      [] in[i] = "+" -> "sp"
      [] OTHER -> in[i]

(* An address whose escapes are all well formed decodes to one character for    *)
(* each escape and each character outside them, in their order.                 *)
DecodesEscapes ==
    ValidEscapes(uri) =>
        LET kept == {i \in 1 .. Len(uri) : i \notin Escaped(uri)}
            place(i) == Cardinality({j \in kept : j <= i})
        IN /\ url_decode(uri).ok
           /\ Len(url_decode(uri).path) = Cardinality(kept)
           /\ \A i \in kept : url_decode(uri).path[place(i)] = Plain(uri, i)

Segment(path) == SubSeq(path, Last(path, "/") + 1, Len(path))

(* A file that is served lies below the root, however its dots and slashes      *)
(* were written; where an address has a NUL, it is the one named before it.     *)
ServedBelowRoot ==
    reply.status = "ok" =>
        /\ reply.path[1] = "/" /\ ~TwoDots(reply.path)
        /\ LET name == Named(url_decode(uri).path) IN
           \/ reply.path = name
           \/ /\ reply.path = SubSeq(name, 1, Len(reply.path))
              /\ name[Len(reply.path) + 1] = "nul"

(* The extension that chooses the type of a file is the end of its last         *)
(* segment: a dot in a directory's name does not count.  An address with a NUL  *)
(* names the type of another file than the one that is opened.                  *)
TypeFromLastSegment ==
    reply.status = "ok" /\ reply.path = Named(url_decode(uri).path) =>
        /\ \A i \in 1 .. Len(reply.ext) : reply.ext[i] \notin {"/", "."}
        /\ reply.type = "text/html" <=> reply.ext = <<"html">>
        /\ LET segment == Segment(reply.path)
               dots == {i \in 1 .. Len(segment) : segment[i] = "."}
           IN IF dots = {} THEN reply.ext = <<>>
              ELSE \E i \in dots : reply.ext = SubSeq(segment, i + 1, Len(segment))

(* "Determine the file extension" (request_handler.cpp:51), "open the file to   *)
(* send back" (request_handler.cpp:60): of one and the same file.               *)
TypeOfTheFile == reply.status = "ok" => reply.ext = extension(reply.path)

(* "Returns false if the encoding was invalid" (request_handler.hpp:39).        *)
InvalidIsRefused == ~ValidEscapes(uri) => ~url_decode(uri).ok
==============================================================================
