---------------------------- MODULE RequestParser ----------------------------
(* CRUD/service/request_parser.{hpp,cpp}: the automaton that reads a request  *)
(* character by character.  Characters are classes: every character of the   *)
(* code falls into one of them, and the automaton treats a class alike.       *)
EXTENDS Naturals, Sequences

(* "hi" is a byte above 127, "ctl" a control character without a name here,   *)
(* "tspecial" a separator without a name here, "token" any other character.   *)
(* "name" stands for the characters of the header name content-length.        *)
Digit == {"1", "2"}
Char == {"token", "name", "H", "T", "P", "/", ".", ":", "sp", "ht", "cr", "lf", "ctl", "tspecial", "hi"}
            \cup Digit

is_char(c) == c # "hi"
is_ctl(c) == c \in {"ht", "cr", "lf", "ctl"}
is_tspecial(c) == c \in {"/", ":", "sp", "ht", "tspecial"}
is_digit(c) == c \in Digit
IsToken(c) == is_char(c) /\ ~is_ctl(c) /\ ~is_tspecial(c)

(* The part of a request that the parser writes and that anyone reads later:  *)
(* whether it holds headers, and the value of its content-length header.      *)
NoLength == <<"none">>
EmptyRequest == [headers |-> 0, last |-> "other", length |-> NoLength]

State ==
    {"method_start", "method", "uri", "http_version_h", "http_version_t_1", "http_version_t_2",
     "http_version_p", "http_version_slash", "http_version_major_start", "http_version_major",
     "http_version_minor_start", "http_version_minor", "expecting_newline_1", "header_line_start",
     "header_lws", "header_name", "space_before_header_value", "header_value",
     "expecting_newline_2", "expecting_newline_3"}

(* What a character does in a state: the state it leads to, "good" or "bad".  *)
On(test, state) == IF test THEN state ELSE "bad"

(* Mutant of InUri: a control character is part of the address.               *)
InUriAny(c) == IF c = "sp" THEN "http_version_h" ELSE "uri"

InUri(c) == IF c = "sp" THEN "http_version_h" ELSE On(~is_ctl(c), "uri")

(* Mutant of AtHeaderLine: the first header may be a folded line.             *)
AtHeaderLineFolds(c, headers) ==
    IF c = "cr" THEN "expecting_newline_3"
    ELSE IF c \in {"sp", "ht"} THEN "header_lws"
    ELSE On(IsToken(c), "header_name")

AtHeaderLine(c, headers) ==
    IF c = "cr" THEN "expecting_newline_3"
    ELSE IF headers > 0 /\ c \in {"sp", "ht"} THEN "header_lws"
    ELSE On(IsToken(c), "header_name")

Transition(state, c, headers) ==
    CASE state = "method_start" -> On(IsToken(c), "method")
      [] state = "method" -> IF c = "sp" THEN "uri" ELSE On(IsToken(c), "method")
      [] state = "uri" -> InUri(c)
      [] state = "http_version_h" -> On(c = "H", "http_version_t_1")
      [] state = "http_version_t_1" -> On(c = "T", "http_version_t_2")
      [] state = "http_version_t_2" -> On(c = "T", "http_version_p")
      [] state = "http_version_p" -> On(c = "P", "http_version_slash")
      [] state = "http_version_slash" -> On(c = "/", "http_version_major_start")
      [] state = "http_version_major_start" -> On(is_digit(c), "http_version_major")
      [] state = "http_version_major" ->
             IF c = "." THEN "http_version_minor_start" ELSE On(is_digit(c), "http_version_major")
      [] state = "http_version_minor_start" -> On(is_digit(c), "http_version_minor")
      [] state = "http_version_minor" ->
             IF c = "cr" THEN "expecting_newline_1" ELSE On(is_digit(c), "http_version_minor")
      [] state = "expecting_newline_1" -> On(c = "lf", "header_line_start")
      [] state = "header_line_start" -> AtHeaderLine(c, headers)
      [] state = "header_lws" ->
             IF c = "cr" THEN "expecting_newline_2"
             ELSE IF c \in {"sp", "ht"} THEN "header_lws" ELSE On(~is_ctl(c), "header_value")
      [] state = "header_name" ->
             IF c = ":" THEN "space_before_header_value" ELSE On(IsToken(c), "header_name")
      [] state = "space_before_header_value" -> On(c = "sp", "header_value")
      [] state = "header_value" ->
             IF c = "cr" THEN "expecting_newline_2" ELSE On(~is_ctl(c), "header_value")
      [] state = "expecting_newline_2" -> On(c = "lf", "header_line_start")
      [] state = "expecting_newline_3" -> On(c = "lf", "good")

(* Mutant of Store: every header's value is added to the length.              *)
StoreAnyValue(req, state, next, c) ==
    CASE state = "header_line_start" /\ next = "header_name" ->
             [req EXCEPT !.headers = @ + 1, !.last = "length", !.length = IF c = "name" THEN <<>> ELSE @]
      [] next = "header_value" /\ state \in {"header_value", "header_lws"} ->
             [req EXCEPT !.length = Append(@, c)]
      [] OTHER -> req

(* What the same character does to the request.  A folded line goes on with   *)
(* the value of the last header; the handlers look up content-length by the   *)
(* first header that has the name.                                            *)
Store(req, state, next, c) ==
    CASE state = "header_line_start" /\ next = "header_name" ->
             [req EXCEPT !.headers = @ + 1,
                         !.last = IF c = "name" /\ req.length = NoLength THEN "length" ELSE "other",
                         !.length = IF c = "name" /\ @ = NoLength THEN <<>> ELSE @]
      [] state = "header_name" /\ next = "header_name" /\ req.last = "length" ->
             [req EXCEPT !.last = "other", !.length = NoLength]
      [] next = "header_value" /\ state \in {"header_value", "header_lws"} /\ req.last = "length" ->
             [req EXCEPT !.length = Append(@, c)]
      [] OTHER -> req

(* Mutant of Consume: the state is left by the character that decides.        *)
ConsumeMoves(p, c) ==
    LET next == Transition(p.state, c, p.req.headers) IN
    [p EXCEPT !.result = IF next \in {"good", "bad"} THEN next ELSE @, !.state = next,
              !.req = Store(p.req, p.state, next, c)]

(* consume: [state, req, result].                                             *)
Consume(p, c) ==
    LET next == Transition(p.state, c, p.req.headers) IN
    IF next \in {"good", "bad"}
    THEN [p EXCEPT !.result = next]
    ELSE [p EXCEPT !.state = next, !.req = Store(p.req, p.state, next, c)]

Fresh == [state |-> "method_start", req |-> EmptyRequest, result |-> "indeterminate", read |-> 0]

(* parse: characters are consumed until one decides, or none is left.  The    *)
(* choice from a singleton gives the parser before each character a value.    *)
Parse(p, chars) ==
    LET Step(before, n) ==
            IF before.result # "indeterminate" THEN before
            ELSE [Consume(before, chars[n]) EXCEPT !.read = n]
        run[n \in 0 .. Len(chars)] ==
            IF n = 0 THEN [p EXCEPT !.read = 0]
            ELSE CHOOSE q \in {Step(before, n) : before \in {run[n - 1]}} : TRUE
    IN run[Len(chars)]
==============================================================================
