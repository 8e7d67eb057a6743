-------------------------------- MODULE UriHost --------------------------------
(* Finding the domain of a page: the URI grammar of rtb/common/uri_grammar.hpp, *)
(* whose rules take the first alternative that matches and never come back to   *)
(* it, and DomainEntity::retrieve of examples/matchers/domain.hpp, which looks  *)
(* up the host without asking whether the whole URI was parsed.                 *)
(* A character is one of its class: "l" and "U" a small and a capital letter,   *)
(* "." also for "-", "!" for the sub-delimiters, "%" for a whole                *)
(* %XX, "6" for a whole literal address in brackets, " " for what no rule takes.*)
EXTENDS Integers, Sequences, SequencesExt

CONSTANTS
    Urls,       \* the texts that are looked up
    Domains     \* the names in the file of domains, before they are lower-cased

digit == {"0", "1", "9"}
alpha == {"l", "U"}
sub_delims == {"!"}
unreserved == alpha \cup digit \cup {"."}
reg_char == unreserved \cup {"%"} \cup sub_delims
pchar == reg_char \cup {":", "@"}

VARIABLES url, at, scheme, user_info, host, port, path, query, fragment, pc, found
parts == <<scheme, user_info, host, port, path, query, fragment>>
vars == <<url, at, parts, pc, found>>

(* An optional part: {} or the one range [from, to) of it.                      *)
None == {}
Part(a, b) == {[from |-> a, to |-> b]}
TextOf(p) == LET r == CHOOSE r \in p : TRUE IN SubSeq(url, r.from, r.to - 1)

Is(i, c) == i <= Len(url) /\ url[i] = c
In(i, cs) == i <= Len(url) /\ url[i] \in cs

(* *cs: the end of the run of characters of cs from i on.                        *)
Star(i, cs) ==
    LET ends == {j \in i .. Len(url) + 1 : ~In(j, cs)} IN
    CHOOSE j \in ends : \A k \in ends : j <= k

(* dec_octet: up to three digits, at most 255 and without a leading zero; 0 if  *)
(* it does not match.                                                           *)
dec_octet(i) ==
    LET j == Star(i, digit)
        e == IF j > i + 3 THEN i + 3 ELSE j
        big == e = i + 3 /\ Is(i, "9")
    IN  IF e = i \/ big \/ (Is(i, "0") /\ In(i + 1, digit)) THEN 0 ELSE e

ipv4address(i) ==
    LET Next4[n \in 0 .. 3] ==
            IF n = 0 THEN dec_octet(i)
            ELSE IF Next4[n - 1] = 0 \/ ~Is(Next4[n - 1], ".") THEN 0
                 ELSE dec_octet(Next4[n - 1] + 1)
    IN  Next4[3]

(* host: a literal address, else four numbers, else a name, even an empty one.  *)
host_end(i) ==
    IF Is(i, "6") THEN i + 1
    ELSE IF ipv4address(i) # 0 THEN ipv4address(i)
    ELSE Star(i, reg_char)

path_abempty(i) == IF Is(i, "/") THEN Star(i, pchar \cup {"/"}) ELSE i

(* path_absolute, path_rootless or path_empty: "//" is no path_absolute, its    *)
(* second segment being of another alternative.                                 *)
path_other(i) ==
    CASE Is(i, "/") -> IF In(i + 1, pchar) THEN Star(i + 1, pchar \cup {"/"}) ELSE i + 1
      [] In(i, pchar) -> Star(i, pchar \cup {"/"})
      [] OTHER -> i

Init ==
    /\ url \in Urls
    /\ at = 1
    /\ scheme = None /\ user_info = None /\ host = None /\ port = None
    /\ path = None /\ query = None /\ fragment = None
    /\ pc = "scheme"
    /\ found = {}

(* scheme >> ':'                                                                *)
Scheme ==
    /\ pc = "scheme"
    /\ LET e == IF In(1, alpha) THEN Star(1, alpha \cup digit \cup {"."}) ELSE 1 IN
       IF e > 1 /\ Is(e, ":")
       THEN scheme' = Part(1, e) /\ at' = e + 1 /\ pc' = "hier_part"
       ELSE pc' = "lookup" /\ UNCHANGED <<scheme, at>>
    /\ UNCHANGED <<url, user_info, host, port, path, query, fragment, found>>

(* Mutant of Authority: the port is looked for without its colon.                *)
AuthorityNoColon ==
    /\ pc = "hier_part" /\ Is(at, "/") /\ Is(at + 1, "/")
    /\ LET u == Star(at + 2, reg_char \cup {":"})
           h == IF Is(u, "@") THEN u + 1 ELSE at + 2
           he == host_end(h)
           pe == Star(he, digit)
       IN  /\ user_info' = IF Is(u, "@") THEN Part(at + 2, u) ELSE None
           /\ host' = Part(h, he)
           /\ port' = Part(he, pe)
           /\ path' = Part(pe, path_abempty(pe))
           /\ at' = path_abempty(pe)
    /\ pc' = "tail"
    /\ UNCHANGED <<url, scheme, query, fragment, found>>

(* hier_part with an authority: "//" [ user_info "@" ] host [ ":" port ] path.  *)
Authority ==
    /\ pc = "hier_part" /\ Is(at, "/") /\ Is(at + 1, "/")
    /\ LET u == Star(at + 2, reg_char \cup {":"})
           h == IF Is(u, "@") THEN u + 1 ELSE at + 2
           he == host_end(h)
           p == IF Is(he, ":") THEN he + 1 ELSE 0
           pe == IF p = 0 THEN he ELSE Star(p, digit)
       IN  /\ user_info' = IF Is(u, "@") THEN Part(at + 2, u) ELSE None
           /\ host' = Part(h, he)
           /\ port' = IF p = 0 THEN None ELSE Part(p, pe)
           /\ path' = Part(pe, path_abempty(pe))
           /\ at' = path_abempty(pe)
    /\ pc' = "tail"
    /\ UNCHANGED <<url, scheme, query, fragment, found>>

(* The other alternative sets user, host and port to empty ranges.              *)
NoAuthority ==
    /\ pc = "hier_part" /\ ~(Is(at, "/") /\ Is(at + 1, "/"))
    /\ user_info' = Part(1, 1) /\ host' = Part(1, 1) /\ port' = Part(1, 1)
    /\ path' = Part(at, path_other(at)) /\ at' = path_other(at)
    /\ pc' = "tail"
    /\ UNCHANGED <<url, scheme, query, fragment, found>>

(* Mutant of QueryFragment: the place is left behind the end of the text.        *)
QueryFragmentPast ==
    /\ pc = "tail"
    /\ query' = IF Is(at, "?") THEN Part(at + 1, Len(url) + 2) ELSE None
    /\ at' = Len(url) + 1
    /\ pc' = "lookup"
    /\ UNCHANGED <<url, scheme, user_info, host, port, path, fragment, found>>

(* -('?' >> query) >> -('#' >> fragment)                                         *)
QueryFragment ==
    /\ pc = "tail"
    /\ LET q == IF Is(at, "?") THEN Star(at + 1, pchar \cup {"/", "?"}) ELSE at
           f == IF Is(q, "#") THEN Star(q + 1, pchar \cup {"/", "?"}) ELSE q
       IN  /\ query' = IF Is(at, "?") THEN Part(at + 1, q) ELSE None
           /\ fragment' = IF Is(q, "#") THEN Part(q + 1, f) ELSE None
           /\ at' = f
    /\ pc' = "lookup"
    /\ UNCHANGED <<url, scheme, user_info, host, port, path, found>>

LowerCase(s) == [i \in DOMAIN s |-> IF s[i] = "U" THEN "l" ELSE s[i]]
Cache == {LowerCase(d) : d \in Domains}

(* Mutant of Retrieve: a URI without a host is looked up by its first part.     *)
RetrieveScheme ==
    /\ pc = "lookup"
    /\ LET h == IF host # None THEN TextOf(host) ELSE url IN
       found' = {d \in Cache : d = h}
    /\ pc' = "done"
    /\ UNCHANGED <<url, at, parts>>

(* retrieve: the host as it is written, if the parser set one.                  *)
Retrieve ==
    /\ pc = "lookup"
    /\ found' = IF host = None THEN {} ELSE {d \in Cache : d = TextOf(host)}
    /\ pc' = "done"
    /\ UNCHANGED <<url, at, parts>>

Next == Scheme \/ Authority \/ NoAuthority \/ QueryFragment \/ Retrieve

Spec == Init /\ [][Next]_vars

------------------------------------------------------------------------------
(* What parse returns, and retrieve ignores.                                    *)
IsValid == scheme # None /\ at = Len(url) + 1

TypeOK ==
    /\ pc \in {"scheme", "hier_part", "tail", "lookup", "done"}
    /\ at \in 1 .. Len(url) + 1
    /\ \A p \in {scheme, user_info, host, port, path, query, fragment} :
           \A r \in p : r.from <= r.to /\ r.to <= Len(url) + 1

Opt(pre, p, post) == IF p = None THEN <<>> ELSE pre \o TextOf(p) \o post

(* The parts of a URI that was parsed, with their delimiters, are the URI: no   *)
(* character belongs to two parts or to none.                                   *)
PartsAreTheUri ==
    (pc = "done" /\ scheme # None) =>
        SubSeq(url, 1, at - 1) =
            TextOf(scheme) \o <<":">>
              \o (IF TextOf(host) = <<>> /\ host = Part(1, 1) THEN <<>>
                  ELSE <<"/", "/">> \o Opt(<<>>, user_info, <<"@">>) \o TextOf(host)
                         \o Opt(<<":">>, port, <<>>))
              \o TextOf(path) \o Opt(<<"?">>, query, <<>>) \o Opt(<<"#">>, fragment, <<>>)

(* The authority of a URI by its delimiters alone, and the host in it.          *)
First(s, cs) ==
    LET is == {i \in DOMAIN s : s[i] \in cs} IN
    IF is = {} THEN Len(s) + 1 ELSE CHOOSE i \in is : \A j \in is : i <= j
AfterScheme == SubSeq(url, First(url, {":"}) + 1, Len(url))
HasAuthority == Len(AfterScheme) >= 2 /\ SubSeq(AfterScheme, 1, 2) = <<"/", "/">>
AuthorityText ==
    LET r == SubSeq(AfterScheme, 3, Len(AfterScheme)) IN SubSeq(r, 1, First(r, {"/", "?", "#"}) - 1)
HostText ==
    LET a == AuthorityText
        h == IF \E i \in DOMAIN a : a[i] = "@" THEN SubSeq(a, First(a, {"@"}) + 1, Len(a)) ELSE a
    IN  SubSeq(h, 1, First(h, {":"}) - 1)

(* A page whose URI was parsed to the end is given the domain of its host and   *)
(* no other, and is given it when the file has the host in small letters; one   *)
(* without an authority gets none.                                              *)
DomainOfTheHost ==
    pc = "done" =>
        /\ (IsValid /\ HasAuthority) =>
               found = {d \in Cache : d = HostText}
        /\ (scheme = None \/ ~HasAuthority) => found \subseteq {<<>>}

(* "host = IP-literal / IPv4address / reg-name": a host of legal characters is  *)
(* parsed whole, so no page gets the domain of a part of its host.              *)
HostIsWhole ==
    (pc = "done" /\ scheme # None /\ HasAuthority
      /\ \A i \in DOMAIN AuthorityText : AuthorityText[i] \in reg_char)
        => TextOf(host) = HostText
==============================================================================
