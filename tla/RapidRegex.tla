------------------------------ MODULE RapidRegex ------------------------------
(* GenericRegex and GenericRegexSearch: a pattern is compiled into states of a  *)
(* machine with the two stacks of Parse, and a text is searched with the set of *)
(* states that are reached.  A pattern is a sequence of characters.  State 0 is *)
(* kRegexInvalidState; the state that matches has neither successor.            *)
EXTENDS Integers, Sequences, FiniteSets, SequencesExt

CONSTANTS
    Inputs,      \* records [pattern, ast], the ast what the pattern was written from
    Texts,       \* texts to search
    MaxUnsigned  \* the greatest number of a quantifier, 2^32 - 1 in the code

VARIABLES
    input, at, pc,
    machine,            \* [states, operands, bad], bad what made Parse give up
    operators, atoms,   \* the stack of operators, and of atoms for each parenthesis
    ranges,             \* [start, end, next, negate]
    anchorBegin, anchorEnd, root,
    text, taken, begin, end,   \* a search: its text and its anchors
    current, matched

vars == <<input, at, pc, machine, operators, atoms, ranges, anchorBegin, anchorEnd, root, text, taken, begin, end, current, matched>>
compiled == <<machine, operators, atoms, ranges, anchorBegin, anchorEnd, root>>
searched == <<text, taken, begin, end, current, matched>>

pattern == input.pattern
kInfinityQuantifier == -1
Code == [c \in {"-", "a", "b", "c"} |-> CASE c = "-" -> 0 [] c = "a" -> 1 [] c = "b" -> 2 [] c = "c" -> 3]
Digit == [d \in {"0", "1", "2", "3", "4"} |->
    CASE d = "0" -> 0 [] d = "1" -> 1 [] d = "2" -> 2 [] d = "3" -> 3 [] d = "4" -> 4]
Special == {"^", "$", "|", "(", ")", "?", "*", "+", "{", ".", "[", "\\"}
Escapable == Special \cup {"]", "}"}

Init ==
    /\ input \in Inputs
    /\ at = 1 /\ pc = "parse"
    /\ machine = [states |-> <<>>, operands |-> <<>>, bad |-> "none"]
    /\ operators = <<>> /\ atoms = <<0>> /\ ranges = <<>>
    /\ anchorBegin = FALSE /\ anchorEnd = FALSE /\ root = 0
    /\ text = <<>> /\ taken = 0 /\ begin = FALSE /\ end = FALSE
    /\ current = {} /\ matched = FALSE

------------------------------------------------------------------------------
Least(x, y) == IF x < y THEN x ELSE y
State(out, out1, c, range) == [out |-> out, out1 |-> out1, c |-> c, range |-> range]
Frag(start, out, min) == [start |-> start, out |-> out, min |-> min]
Bad(m, why) == [m EXCEPT !.bad = why]

(* The states of the list of outputs that begins with l.                        *)
RECURSIVE Outputs(_, _)
Outputs(states, l) == IF l = 0 THEN {} ELSE {l} \cup Outputs(states, states[l].out)

Patch(states, l, s) ==
    [n \in DOMAIN states |-> IF n \in Outputs(states, l) THEN [states[n] EXCEPT !.out = s] ELSE states[n]]
AppendList(states, l1, l2) ==
    [n \in DOMAIN states |->
        IF n \in Outputs(states, l1) /\ states[n].out = 0 THEN [states[n] EXCEPT !.out = l2] ELSE states[n]]

(* Eval with the operand on top, and with the two on top.                       *)
Unary(m, op) ==
    LET e == Last(m.operands)
        s == Len(m.states) + 1
        states == Append(m.states, State(0, e.start, "split", 0))
    IN  IF m.operands = <<>> THEN Bad(m, "invalid")
        ELSE [m EXCEPT
            !.states = IF op = "?" THEN AppendList(states, e.out, s) ELSE Patch(states, e.out, s),
            !.operands = Append(Front(@),
                CASE op = "?" -> Frag(s, e.out, e.min)
                  [] op = "*" -> Frag(s, s, e.min)
                  [] op = "+" -> Frag(e.start, s, e.min))]

(* Mutant of Binary: the states of the first operand are forgotten.             *)
BinaryForgets(m, op) ==
    LET n == Len(m.operands)
        e2 == m.operands[n]
        e1 == m.operands[n - 1]
        s == Len(m.states) + 1
        Becomes(states, e) == [m EXCEPT !.states = states, !.operands = Append(SubSeq(@, 1, n - 2), e)]
    IN  IF n < 2 THEN Bad(m, IF op = "cat" THEN "assertion" ELSE "invalid")
        ELSE IF op = "cat" THEN Becomes(Patch(m.states, e1.out, e2.start), Frag(e1.start, e2.out, e2.min))
        ELSE Becomes(AppendList(Append(m.states, State(e1.start, e2.start, "split", 0)), e1.out, e2.out),
                     Frag(s, e1.out, Least(e1.min, e2.min)))

Binary(m, op) ==
    LET n == Len(m.operands)
        e2 == m.operands[n]
        e1 == m.operands[n - 1]
        s == Len(m.states) + 1
        Becomes(states, e) == [m EXCEPT !.states = states, !.operands = Append(SubSeq(@, 1, n - 2), e)]
    IN  IF n < 2 THEN Bad(m, IF op = "cat" THEN "assertion" ELSE "invalid")
        ELSE IF op = "cat"
        THEN Becomes(Patch(m.states, e1.out, e2.start), Frag(e1.start, e2.out, Least(e1.min, e2.min)))
        ELSE Becomes(AppendList(Append(m.states, State(e1.start, e2.start, "split", 0)), e1.out, e2.out),
                     Frag(s, e1.out, Least(e1.min, e2.min)))

Eval(m, op) ==
    CASE m.bad # "none" -> m
      [] op \in {"cat", "|"} -> Binary(m, op)
      [] op \in {"?", "*", "+"} -> Unary(m, op)
      [] op = "(" -> Bad(m, "assertion")

(* The operators on top that are not in keep are evaluated.                     *)
RECURSIVE EvalTop(_, _, _)
EvalTop(m, ops, keep) ==
    IF ops = <<>> \/ m.bad # "none" THEN [m |-> m, ops |-> ops]
    ELSE IF Last(ops) \in keep THEN [m |-> m, ops |-> ops]
    ELSE EvalTop(Eval(m, Last(ops)), Front(ops), keep)

(* The operand on top once more, with states of its own.                        *)
CloneTopOperand(m) ==
    LET src == Last(m.operands)
        count == Len(m.states) + 1 - src.min
        Moved(x) == IF x = 0 THEN 0 ELSE x + count
        copies == [j \in 1 .. count |->
                    LET s == m.states[src.min + j - 1] IN
                    [s EXCEPT !.out = Moved(@), !.out1 = Moved(@)]]
    IN  [m EXCEPT !.states = @ \o copies,
                  !.operands = Append(@, Frag(src.start + count, src.out + count, src.min + count))]

RECURSIVE Cloned(_, _), Joined(_, _)
Cloned(m, n) == IF n <= 0 THEN m ELSE Cloned(CloneTopOperand(m), n - 1)
Joined(m, n) == IF n <= 0 THEN m ELSE Joined(Eval(m, "cat"), n - 1)

(* Mutant of EvalQuantifier: the last of the operands is not optional.          *)
EvalQuantifierFull(m, n, max) ==
    IF m.operands = <<>> THEN Bad(m, "assertion")
    ELSE IF n = 0
    THEN CASE max = 0 -> Bad(m, "invalid")
           [] max = kInfinityQuantifier -> Eval(m, "*")
           [] OTHER -> Joined(Cloned(Eval(m, "?"), max - 1), max - 1)
    ELSE LET copies == Cloned(m, n - 1)
             rest == CASE max = kInfinityQuantifier -> Eval(copies, "+")
                       [] max > n -> Joined(Cloned(CloneTopOperand(copies), max - n - 1), max - n)
                       [] OTHER -> copies
         IN  Joined(rest, n - 1)

EvalQuantifier(m, n, max) ==
    IF m.operands = <<>> THEN Bad(m, "assertion")
    ELSE IF n = 0
    THEN CASE max = 0 -> Bad(m, "invalid")
           [] max = kInfinityQuantifier -> Eval(m, "*")
           [] OTHER -> Joined(Cloned(Eval(m, "?"), max - 1), max - 1)
    ELSE LET copies == Cloned(m, n - 1)
             rest == CASE max = kInfinityQuantifier -> Eval(copies, "+")
                       [] max > n -> Joined(Cloned(Eval(CloneTopOperand(copies), "?"), max - n - 1), max - n)
                       [] OTHER -> copies
         IN  Joined(rest, n - 1)

------------------------------------------------------------------------------
Char == IF pc = "parse" /\ at <= Len(pattern) THEN pattern[at] ELSE "none"

(* Parse goes on behind n characters, or gives up.                              *)
Continue(m, n) ==
    /\ machine' = m
    /\ IF m.bad = "none" THEN at' = at + n /\ UNCHANGED pc ELSE pc' = "done" /\ UNCHANGED at
    /\ UNCHANGED <<input, root>> /\ UNCHANGED searched

ImplicitConcatenation(ops, counts) ==
    /\ operators' = IF Last(counts) > 0 THEN Append(ops, "cat") ELSE ops
    /\ atoms' = [counts EXCEPT ![Len(counts)] = @ + 1]
NoOperator == UNCHANGED <<operators, atoms>>

Anchor ==
    /\ Char \in {"^", "$"}
    /\ anchorBegin' = (anchorBegin \/ Char = "^") /\ anchorEnd' = (anchorEnd \/ Char = "$")
    /\ Continue(machine, 1) /\ NoOperator /\ UNCHANGED ranges

(* Mutant of Close: the count of the atoms in the parenthesis stays.            *)
CloseKeeps ==
    /\ Char = ")"
    /\ LET top == EvalTop(machine, operators, {"("}) IN
       IF top.ops = <<>> THEN Continue(Bad(top.m, "invalid"), 1) /\ NoOperator
       ELSE Continue(top.m, 1) /\ ImplicitConcatenation(Front(top.ops), atoms)
    /\ UNCHANGED <<ranges, anchorBegin, anchorEnd>>

Alternative ==
    /\ Char = "|"
    /\ LET top == EvalTop(machine, operators, {"|", "("}) IN
       Continue(top.m, 1) /\ operators' = Append(top.ops, "|")
    /\ atoms' = [atoms EXCEPT ![Len(atoms)] = 0]
    /\ UNCHANGED <<ranges, anchorBegin, anchorEnd>>

Open ==
    /\ Char = "("
    /\ operators' = Append(operators, "(") /\ atoms' = Append(atoms, 0)
    /\ Continue(machine, 1) /\ UNCHANGED <<ranges, anchorBegin, anchorEnd>>

Close ==
    /\ Char = ")"
    /\ LET top == EvalTop(machine, operators, {"("}) IN
       IF top.ops = <<>> THEN Continue(Bad(top.m, "invalid"), 1) /\ NoOperator
       ELSE Continue(top.m, 1) /\ ImplicitConcatenation(Front(top.ops), Front(atoms))
    /\ UNCHANGED <<ranges, anchorBegin, anchorEnd>>

Repeat ==
    /\ Char \in {"?", "*", "+"}
    /\ Continue(Eval(machine, Char), 1)
    /\ NoOperator /\ UNCHANGED <<ranges, anchorBegin, anchorEnd>>

(* ParseUnsigned: digits from k on; an overflow is looked for at a digit that   *)
(* is greater than the last one of the maximum.                                 *)
DigitsFrom(k) ==
    CHOOSE j \in k .. Len(pattern) + 1 :
        /\ \A n \in k .. j - 1 : pattern[n] \in DOMAIN Digit
        /\ j > Len(pattern) \/ pattern[j] \notin DOMAIN Digit
ParseUnsigned(k) ==
    LET j == DigitsFrom(k)
        f[n \in k - 1 .. j - 1] ==
            IF n = k - 1 THEN 0
            ELSE IF f[n - 1] = -1 \/ (f[n - 1] >= MaxUnsigned \div 10 /\ Digit[pattern[n]] > MaxUnsigned % 10)
            THEN -1 ELSE (f[n - 1] * 10 + Digit[pattern[n]]) % (MaxUnsigned + 1)
    IN  IF j = k THEN -1 ELSE f[j - 1]
Is(k, c) == k <= Len(pattern) /\ pattern[k] = c

Quantifier ==
    /\ Char = "{"
    /\ LET n == ParseUnsigned(at + 1)
           comma == DigitsFrom(at + 1)
           open == Is(comma, ",") /\ Is(comma + 1, "}")
           max == IF ~Is(comma, ",") THEN n ELSE IF open THEN kInfinityQuantifier ELSE ParseUnsigned(comma + 1)
           close == IF ~Is(comma, ",") THEN comma ELSE IF open THEN comma + 1 ELSE DigitsFrom(comma + 1)
           wrong == n = -1 \/ (~open /\ (max = -1 \/ max < n))
           m == IF wrong THEN Bad(machine, "invalid") ELSE EvalQuantifier(machine, n, max)
       IN  Continue(IF m.bad = "none" /\ ~Is(close, "}") THEN Bad(m, "invalid") ELSE m, close + 1 - at)
    /\ NoOperator /\ UNCHANGED <<ranges, anchorBegin, anchorEnd>>

PushOperand(m, c, range) ==
    LET s == Len(m.states) + 1 IN
    [m EXCEPT !.states = Append(@, State(0, 0, c, range)), !.operands = Append(@, Frag(s, s, s))]

(* ParseRange of what is between the brackets: the ranges of the class.         *)
ParseRange(body) ==
    LET negate == body # <<>> /\ Head(body) = "^"
        chars == IF negate THEN Tail(body) ELSE body
        New(c) == [start |-> Code[c], end |-> Code[c], negate |-> negate]
        f[n \in 0 .. Len(chars)] ==
            IF n = 0 THEN [step |-> 0, list |-> <<>>]
            ELSE LET p == f[n - 1]
                     c == chars[n]
                 IN  CASE p.step = 1 /\ c = "-" -> [p EXCEPT !.step = 2]
                       [] p.step = 2 -> [step |-> 0, list |-> Append(Front(p.list), [Last(p.list) EXCEPT !.end = Code[c]])]
                       [] OTHER -> [step |-> 1, list |-> Append(p.list, New(c))]
        last == f[Len(chars)]
    IN  IF last.step = 2 THEN Append(last.list, New("-")) ELSE last.list

Class ==
    /\ Char = "["
    /\ LET closes == {k \in at + 1 .. Len(pattern) : pattern[k] = "]"}
           close == CHOOSE k \in closes : \A j \in closes : k <= j
           list == IF closes = {} THEN <<>> ELSE ParseRange(SubSeq(pattern, at + 1, close - 1))
       IN  IF list = <<>> THEN Continue(Bad(machine, "invalid"), 1) /\ NoOperator /\ UNCHANGED ranges
           ELSE /\ ranges' = Append(ranges, list)
                /\ Continue(PushOperand(machine, "class", Len(ranges) + 1), close + 1 - at)
                /\ ImplicitConcatenation(operators, atoms)
    /\ UNCHANGED <<anchorBegin, anchorEnd>>

(* A character, any character, and a character that is escaped.                 *)
Atom ==
    /\ Char # "none" /\ Char \notin Special \ {".", "\\"}
    /\ IF Char = "\\" /\ (at = Len(pattern) \/ pattern[at + 1] \notin Escapable)
       THEN Continue(Bad(machine, "invalid"), 1) /\ NoOperator
       ELSE /\ CASE Char = "." -> Continue(PushOperand(machine, "any", 0), 1)
                 [] Char = "\\" -> Continue(PushOperand(machine, pattern[at + 1], 0), 2)
                 [] OTHER -> Continue(PushOperand(machine, Char, 0), 1)
            /\ ImplicitConcatenation(operators, atoms)
    /\ UNCHANGED <<ranges, anchorBegin, anchorEnd>>

(* Mutant of Finish: operands that are left do not matter.                      *)
FinishLeft ==
    /\ pc = "parse" /\ at > Len(pattern)
    /\ LET m == EvalTop(machine, operators, {"(", "cat"}).m
           e == Last(m.operands)
           good == m.bad = "none" /\ m.operands # <<>>
       IN  /\ machine' = IF good
                         THEN [m EXCEPT !.states = Patch(Append(@, State(0, 0, "match", 0)), e.out, Len(@) + 1),
                                        !.operands = Front(@)]
                         ELSE IF m.bad = "none" THEN Bad(m, "invalid") ELSE m
           /\ root' = IF good THEN e.start ELSE 0
           /\ pc' = IF good THEN "ready" ELSE "done"
    /\ operators' = <<>>
    /\ UNCHANGED <<input, at, atoms, ranges, anchorBegin, anchorEnd>> /\ UNCHANGED searched

(* The end of Parse: one operand must be left, and is linked to a state that    *)
(* matches.                                                                     *)
Finish ==
    /\ pc = "parse" /\ at > Len(pattern)
    /\ LET m == EvalTop(machine, operators, {}).m
           e == Last(m.operands)
           good == m.bad = "none" /\ Len(m.operands) = 1
       IN  /\ machine' = IF good
                         THEN [m EXCEPT !.states = Patch(Append(@, State(0, 0, "match", 0)), e.out, Len(@) + 1),
                                        !.operands = <<>>]
                         ELSE IF m.bad = "none" THEN Bad(m, "invalid") ELSE m
           /\ root' = IF good THEN e.start ELSE 0
           /\ pc' = IF good THEN "ready" ELSE "done"
    /\ operators' = <<>>
    /\ UNCHANGED <<input, at, atoms, ranges, anchorBegin, anchorEnd>> /\ UNCHANGED searched

------------------------------------------------------------------------------
States == machine.states
IsSplit(s) == States[s].out1 # 0

(* AddState: the states reached from s without a character.                     *)
RECURSIVE Reached(_, _)
Reached(found, todo) ==
    IF todo = {} THEN found
    ELSE LET next == UNION {IF IsSplit(s) THEN {States[s].out, States[s].out1} ELSE {} : s \in todo}
         IN  Reached(found \cup todo, next \ (found \cup todo))
From(s) == Reached({}, {s})
AddState(s) == {n \in From(s) : ~IsSplit(n)}
IsMatch(set) == \E s \in set : States[s].c = "match"

(* It calls itself for ever when a split leads back to itself.                  *)
Endless(s) == \E n \in From(s) : IsSplit(n) /\ n \in Reached({}, {States[n].out, States[n].out1})

(* MatchRange of the class r.                                                   *)
MatchRange(r, c) ==
    LET in == \E n \in DOMAIN r : c >= r[n].start /\ c <= r[n].end
    IN  IF r[1].negate THEN ~in ELSE in
Accepts(s, c) ==
    CASE States[s].c = "any" -> TRUE
      [] States[s].c = "class" -> MatchRange(ranges[States[s].range], Code[c])
      [] OTHER -> States[s].c = c

(* The begin of SearchWithAnchoring, for Match and for Search.                  *)
Search(t, b, e) ==
    /\ pc = "ready"
    /\ text' = t /\ begin' = b /\ end' = e /\ taken' = 0
    /\ IF Endless(root) THEN pc' = "hung" /\ UNCHANGED <<current, matched>>
       ELSE /\ current' = AddState(root) /\ matched' = IsMatch(AddState(root))
            /\ pc' = "scan"
    /\ UNCHANGED <<input, at>> /\ UNCHANGED compiled

(* Mutant of Scan: the search begins at the first character only.               *)
ScanAnchored ==
    /\ pc = "scan" /\ current # {} /\ taken < Len(text)
    /\ LET c == text[taken + 1]
           followed == UNION {AddState(States[s].out) : s \in {s \in current : Accepts(s, c)}}
       IN  /\ matched' = IsMatch(followed) /\ current' = followed
           /\ pc' = IF ~end /\ IsMatch(followed) THEN "answer" ELSE "scan"
    /\ taken' = taken + 1
    /\ UNCHANGED <<input, at, text, begin, end>> /\ UNCHANGED compiled

(* One character: the states behind those that accept it, and the first again   *)
(* when the match may begin anywhere.                                           *)
Scan ==
    /\ pc = "scan" /\ current # {} /\ taken < Len(text)
    /\ LET c == text[taken + 1]
           followed == UNION {AddState(States[s].out) : s \in {s \in current : Accepts(s, c)}}
       IN  /\ matched' = IsMatch(followed)
           /\ current' = IF begin THEN followed ELSE followed \cup AddState(root)
           /\ pc' = IF ~end /\ IsMatch(followed) THEN "answer" ELSE "scan"
    /\ taken' = taken + 1
    /\ UNCHANGED <<input, at, text, begin, end>> /\ UNCHANGED compiled

Answer ==
    /\ pc = "scan" /\ (current = {} \/ taken = Len(text))
    /\ pc' = "answer"
    /\ UNCHANGED <<input, at>> /\ UNCHANGED searched /\ UNCHANGED compiled

Next ==
    \/ Anchor \/ Alternative \/ Open \/ Close \/ Repeat \/ Quantifier \/ Class \/ Atom \/ Finish
    \/ \E t \in Texts : Search(t, TRUE, TRUE) \/ Search(t, anchorBegin, anchorEnd)
    \/ Scan \/ Answer
Spec == Init /\ [][Next]_vars

------------------------------------------------------------------------------
(* What an expression matches: the places behind a match of ast that begins     *)
(* behind i characters of t.  An ast is [op, c, subs, lo, hi], a class c a set. *)
RECURSIVE Ends(_, _, _), Repeated(_, _, _, _)
Ends(ast, t, i) ==
    CASE ast.op = "char" -> IF i < Len(t) /\ t[i + 1] \in ast.c THEN {i + 1} ELSE {}
      [] ast.op = "cat" -> UNION {Ends(ast.subs[2], t, j) : j \in Ends(ast.subs[1], t, i)}
      [] ast.op = "alt" -> Ends(ast.subs[1], t, i) \cup Ends(ast.subs[2], t, i)
      [] ast.op = "begin" -> IF i = 0 THEN Ends(ast.subs[1], t, i) ELSE {}
      [] ast.op = "end" -> Ends(ast.subs[1], t, i) \cap {Len(t)}
      [] ast.op = "rep" ->
           UNION {Repeated(ast.subs[1], t, {i}, n) :
               n \in ast.lo .. (IF ast.hi = kInfinityQuantifier THEN ast.lo + Len(t) + 1 ELSE ast.hi)}
Repeated(ast, t, set, n) == IF n = 0 THEN set ELSE Repeated(ast, t, UNION {Ends(ast, t, j) : j \in set}, n - 1)

Nullable(ast) == 0 \in Ends(ast, <<>>, 0)
Whole(t) == Len(t) \in Ends(input.ast, t, 0)
Somewhere(t) == \E i \in 0 .. Len(t) : Ends(input.ast, t, i) # {}
Anchored == begin /\ end

TypeOK ==
    /\ \A s \in DOMAIN States : {States[s].out, States[s].out1} \subseteq 0 .. Len(States)
    /\ root \in 0 .. Len(States)
    /\ pc \in {"ready", "scan", "answer"} => root # 0 /\ machine.operands = <<>>
    /\ current \subseteq DOMAIN States

(* "Assumes top operand contains states in [src->minIndex, stateCount_)": the   *)
(* operands share the states among them in the order of the stack.              *)
OperandsApart ==
    pc = "parse" =>
        \A n \in DOMAIN machine.operands :
            LET e == machine.operands[n]
                beyond == IF n = Len(machine.operands) THEN Len(States) ELSE machine.operands[n + 1].min - 1
            IN  /\ n = 1 => e.min = 1
                /\ {e.start} \cup Outputs(States, e.out) \subseteq e.min .. beyond
                /\ \A s \in e.min .. beyond : {States[s].out, States[s].out1} \subseteq {0} \cup (e.min .. beyond)

(* An expression of the grammar is compiled.                                    *)
Compiles == pc = "done" => machine.bad = "none"

(* Match answers whether the whole text is of the expression.                   *)
MatchIsRight == pc = "answer" /\ Anchored => (matched <=> Whole(text))

(* Search answers whether a part of the text is, when the empty text is not.    *)
SearchIsRight == pc = "answer" /\ ~Anchored /\ ~Nullable(input.ast) => (matched <=> Somewhere(text))

(* ... and when it is.                                                          *)
SearchFindsEmpty == pc = "answer" /\ ~Anchored => (matched <=> Somewhere(text))

(* AddState comes back.                                                         *)
AddStateReturns == pc # "hung"

(* The assertions of Eval hold, whatever the pattern.                           *)
AssertionsHold == machine.bad # "assertion"

(* The number of a quantifier that is too great is refused.                     *)
GreatNumberRefused ==
    LET j == DigitsFrom(at + 1)
        f[n \in at .. j - 1] == IF n = at THEN 0 ELSE f[n - 1] * 10 + Digit[pattern[n]]
    IN  Char = "{" /\ f[j - 1] > MaxUnsigned => ParseUnsigned(at + 1) = -1
==============================================================================
