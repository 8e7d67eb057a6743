------------------------------ MODULE RapidDom -------------------------------
(* The values of rapidjson/document.h and the memory they are in: what a client *)
(* does to values, and how documents build theirs while they are parsed.        *)
EXTENDS Integers, Sequences, FiniteSets, SequencesExt

(* The memory of rapidjson values: the variant Data of document.h, blocks of    *)
(* elements or members, and what constructors, the destructor and assignments   *)
(* do to it when the allocator needs Free (CrtAllocator).  An object's block    *)
(* holds name, value, name, value...  A string is what it says; only long ones  *)
(* are copied to blocks.                                                        *)

CONSTANTS
    MaxBlocks,      \* blocks there may be
    DefaultCapacity \* kDefaultArrayCapacity and kDefaultObjectCapacity

Blocks == 1 .. MaxBlocks
NoBlock == 0    \* the null pointer

(* Data: size and capacity are only meaningful for containers, v for others.    *)
Data(t, v, b, size, cap) == [t |-> t, v |-> v, b |-> b, size |-> size, cap |-> cap]
Null == Data("null", "", NoBlock, 0, 0)
Junk == Data("junk", "", NoBlock, 0, 0)
Empty(t) == Data(t, "", NoBlock, 0, 0)    \* t is "array" or "object"
IsContainer(d) == d.t \in {"array", "object"}
Owns(d) == d.t \in {"array", "object", "copy"}

(* Values of a member and of an element.                                        *)
Width(d) == IF d.t = "object" THEN 2 ELSE 1

(* A heap: the cells and the state of each block, and whether memory was used   *)
(* that is not there.  A freed block may be given out again.                    *)
EmptyHeap == [cell |-> [b \in Blocks |-> <<>>], st |-> [b \in Blocks |-> "free"], bad |-> FALSE]

Fresh(h) == {b \in Blocks : h.st[b] = "free"}
Room(h, n) == Cardinality(Fresh(h)) >= n
NewBlock(h) == CHOOSE b \in Fresh(h) : \A c \in Fresh(h) : b <= c

(* Malloc of n cells, NULL for none.                                            *)
MallocBlock(h, n) == IF n = 0 THEN NoBlock ELSE NewBlock(h)
Malloc(h, cells) ==
    IF cells = <<>> THEN h
    ELSE [h EXCEPT !.cell[NewBlock(h)] = cells, !.st[NewBlock(h)] = "live"]

Free(h, b) ==
    IF b = NoBlock THEN h
    ELSE [h EXCEPT !.st[b] = "free", !.cell[b] = <<>>, !.bad = @ \/ h.st[b] # "live"]

Cell(h, b, i) == IF b = NoBlock \/ i > Len(h.cell[b]) THEN Junk ELSE h.cell[b][i]

(* Reading or writing a cell of a block that is not live is what goes wrong.    *)
Touch(h, b) == [h EXCEPT !.bad = @ \/ b = NoBlock \/ h.st[b] # "live"]

(* What is behind the last value of a block is not read again.                  *)
Trim(h, b, n) == [h EXCEPT !.cell[b] = [i \in DOMAIN @ |-> IF i <= n THEN @[i] ELSE Junk]]

(* Mutant of Destruct: the elements are not destructed before their block.      *)
DestructBlockOnly(h, d) == IF Owns(d) THEN Free(h, d.b) ELSE h

(* ~GenericValue: the elements or members from the first on, then the block.    *)
RECURSIVE Destruct(_, _)
RECURSIVE DestructCells(_, _, _, _)
Destruct(h, d) ==
    IF ~Owns(d) THEN h
    ELSE Free(IF d.size = 0 THEN h ELSE DestructCells(Touch(h, d.b), d.b, 1, d.size * Width(d)), d.b)

(* The values first .. last of a block.                                         *)
DestructCells(h, b, first, last) ==
    IF first > last THEN h
    ELSE DestructCells(Destruct(h, Cell(h, b, first)), b, first + 1, last)

(* The copy constructor: the capacity of the copy is its size; a constant       *)
(* string is shared unless copyConstStrings says otherwise.                     *)
RECURSIVE Copy(_, _, _)
RECURSIVE CopyCells(_, _, _, _, _)
Copy(h, d, force) ==
    CASE IsContainer(d) ->
           LET n == d.size * Width(d)
               b == MallocBlock(h, n)
               h1 == Malloc(h, [i \in 1 .. n |-> Junk])
           IN  [h |-> CopyCells(h1, d.b, b, n, force),
                d |-> Data(d.t, "", b, d.size, d.size)]
      [] d.t = "copy" \/ (d.t = "const" /\ force) ->
           [h |-> Malloc(h, <<Null>>), d |-> Data("copy", d.v, MallocBlock(h, 1), 0, 0)]
      [] OTHER -> [h |-> h, d |-> d]

CopyCells(h, from, to, n, force) ==
    IF n = 0 THEN h
    ELSE LET h1 == CopyCells(h, from, to, n - 1, force)
             c == Copy(Touch(h1, from), Cell(h1, from, n), force)
         IN  [c.h EXCEPT !.cell[to][n] = c.d]

(* Blocks a copy needs.                                                         *)
RECURSIVE BlocksOf(_, _)
BlocksOf(h, d) ==
    IF d.t \in {"copy", "const"} THEN 1
    ELSE IF ~IsContainer(d) \/ d.size = 0 THEN 0
    ELSE LET n == d.size * Width(d)
             s[i \in 0 .. n] == IF i = 0 THEN 1 ELSE s[i - 1] + BlocksOf(h, Cell(h, d.b, i))
         IN  s[n]

(* Realloc of CrtAllocator: a new block with the old cells, the old one gone.   *)
Realloc(h, b, n) ==
    LET old == IF b = NoBlock THEN <<>> ELSE h.cell[b]
    IN  Free(Malloc(h, [i \in 1 .. n |-> IF i <= Len(old) THEN old[i] ELSE Junk]), b)

(* The tree a value stands for, and the blocks in it with their owners.         *)
Tree(t, v, kids) == [t |-> t, v |-> v, kids |-> kids]
RECURSIVE Content(_, _)
Content(h, d) ==
    Tree(IF d.t \in {"copy", "const"} THEN "string" ELSE d.t, d.v,
         [i \in 1 .. d.size * Width(d) |-> Content(h, Cell(h, d.b, i))])

RECURSIVE Owners(_, _)
Owners(h, d) ==
    IF ~Owns(d) THEN <<>>
    ELSE LET n == d.size * Width(d)
             s[i \in 0 .. n] == IF i = 0 THEN <<d.b>> ELSE s[i - 1] \o Owners(h, Cell(h, d.b, i))
         IN  s[n]
------------------------------------------------------------------------------
(* GenericValue of rapidjson/document.h as its client uses it: values move into *)
(* and out of arrays and objects, containers grow, members are removed, copies  *)
(* are made.  `want` is what each value should read as.                         *)

CONSTANTS
    Vars,           \* the client's values
    Names,          \* member names
    Texts,          \* strings
    MaxSize,        \* elements or members of a container
    MaxNodes,       \* values there are, those in containers included, names not
    FromInside      \* may a value be moved out of the value that takes it?

VARIABLES
    var,     \* the Data of the client's values
    heap,
    want     \* the tree each value, or each document, should be

valueVars == <<var, heap, want>>

Leaf(v) == Tree("string", v, <<>>)
NullTree == Tree("null", "", <<>>)

------------------------------------------------------------------------------
(* Places: a client's value (<<x, 0>>) or an element or member value of its     *)
(* container (<<x, i>>, a cell of the block).                                   *)
Slots(x) == IF ~IsContainer(var[x]) THEN {}
            ELSE {i \in 1 .. var[x].size * Width(var[x]) : i % Width(var[x]) = 0}
Places == {<<x, 0>> : x \in Vars} \cup UNION {{<<x, i>> : i \in Slots(x)} : x \in Vars}

At(p) == IF p[2] = 0 THEN var[p[1]] ELSE Cell(heap, var[p[1]].b, p[2])
TreeAt(w, p) == IF p[2] = 0 THEN w[p[1]] ELSE w[p[1]].kids[p[2]]
PutTree(w, p, t) == IF p[2] = 0 THEN [w EXCEPT ![p[1]] = t] ELSE [w EXCEPT ![p[1]].kids[p[2]] = t]

(* Writing d to a place in the state s of values and heap.                      *)
Put(s, p, d) ==
    IF p[2] = 0 THEN [s EXCEPT !.v[p[1]] = d]
    ELSE [s EXCEPT !.h = [Touch(s.h, s.v[p[1]].b) EXCEPT !.cell[s.v[p[1]].b][p[2]] = d]]

(* What a place reads in a state where its block may be gone.                   *)
Reads(s, p, b) == IF p[2] = 0 THEN s ELSE [s EXCEPT !.h = Touch(s.h, b)]

State == [v |-> var, h |-> heap]
Become(s) == var' = s.v /\ heap' = s.h

(* RawAssign: p takes the contents of q, whose block is b when q is an element; *)
(* q gives them up.                                                             *)
RawAssign(s, p, q, b) ==
    LET s1 == Reads(s, q, b)
        d == IF q[2] = 0 THEN s.v[q[1]] ELSE Cell(s.h, b, q[2])
        s2 == Put(s1, p, d)
    IN  IF q[2] = 0 THEN [s2 EXCEPT !.v[q[1]] = Null] ELSE [s2 EXCEPT !.h.cell[b][q[2]] = Null]

(* One value is inside of the other.                                            *)
Inside(p, q) == q[2] = 0 /\ p[1] = q[1] /\ p[2] # 0

------------------------------------------------------------------------------
InitValue ==
    /\ var = [x \in Vars |-> Null]
    /\ heap = EmptyHeap
    /\ want = [x \in Vars |-> NullTree]

(* SetArray, SetObject, SetNull: destruct, then a constructor in place.         *)
SetTo(p, t) ==
    /\ LET s == [v |-> var, h |-> Destruct(heap, At(p))]
       IN  Become(Put(s, p, IF t = "null" THEN Null ELSE Empty(t)))
    /\ want' = PutTree(want, p, Tree(t, "", <<>>))

(* SetString: a constant is referred to, a copy gets its own block.             *)
SetString(p, kind, v) ==
    /\ Room(heap, 1)
    /\ LET h1 == Destruct(heap, At(p))
           copy == kind = "copy"
           d == Data(kind, v, IF copy THEN MallocBlock(h1, 1) ELSE NoBlock, 0, 0)
       IN  Become(Put([v |-> var, h |-> IF copy THEN Malloc(h1, <<Null>>) ELSE h1], p, d))
    /\ want' = PutTree(want, p, Leaf(v))

(* operator=: destruct, then take over the contents of q.                       *)
Assign(p, q) ==
    /\ p # q /\ ~Inside(p, q)
    /\ FromInside \/ ~Inside(q, p)
    /\ LET b == IF q[2] = 0 THEN NoBlock ELSE var[q[1]].b
       IN  Become(RawAssign([v |-> var, h |-> Destruct(heap, At(p))], p, q, b))
    /\ LET t == TreeAt(want, q)
       IN  want' = IF Inside(q, p) THEN PutTree(want, p, t)
                   ELSE PutTree(PutTree(want, q, NullTree), p, t)

(* CopyFrom: destruct, then the copy constructor in place.                      *)
CopyFrom(p, q, force) ==
    /\ p # q /\ ~Inside(p, q) /\ ~Inside(q, p)
    /\ Room(heap, BlocksOf(heap, At(q)))
    /\ LET h1 == Destruct(heap, At(p))
           c == Copy(h1, At(q), force)
       IN  Become(Put([v |-> var, h |-> c.h], p, c.d))
    /\ want' = PutTree(want, p, TreeAt(want, q))

(* Swap, by way of a third value.                                               *)
Swap(p, q) ==
    /\ p # q /\ ~Inside(p, q) /\ ~Inside(q, p)
    /\ Become(Put(Put(State, p, At(q)), q, At(p)))
    /\ want' = PutTree(PutTree(want, p, TreeAt(want, q)), q, TreeAt(want, p))

(* Mutant of Grown: the new capacity is kept without memory for it.             *)
GrownForgets(d, h) == [d |-> [d EXCEPT !.cap = DefaultCapacity + @], h |-> h]

(* The growth of AddMember, and of PushBack by Reserve: to the default, then by *)
(* half.                                                                        *)
Grown(d, h) ==
    IF d.size < d.cap THEN [d |-> d, h |-> h]
    ELSE LET cap == IF d.cap = 0 THEN DefaultCapacity ELSE d.cap + (d.cap + 1) \div 2
         IN  [d |-> [d EXCEPT !.cap = cap, !.b = MallocBlock(h, cap)],
              h |-> Realloc(h, d.b, cap * Width(d))]

(* PushBack of the value at q; a reference into the array's own block is one    *)
(* into the old block when it grew.                                             *)
PushBack(x, q) ==
    /\ var[x].t = "array" /\ var[x].size < MaxSize /\ q # <<x, 0>>
    /\ FromInside \/ q[1] # x
    /\ Room(heap, 1)
    /\ LET g == Grown(var[x], heap)
           d == [g.d EXCEPT !.size = @ + 1]
           b == IF q[2] = 0 THEN NoBlock ELSE var[q[1]].b
       IN  Become(RawAssign([v |-> [var EXCEPT ![x] = d], h |-> g.h], <<x, d.size>>, q, b))
    /\ want' = LET w == PutTree(want, q, NullTree)
               IN  [w EXCEPT ![x].kids = Append(@, TreeAt(want, q))]

(* AddMember with a constant name: nothing looks for the name in the object.    *)
AddMember(x, name, q) ==
    /\ var[x].t = "object" /\ var[x].size < MaxSize /\ q # <<x, 0>>
    /\ FromInside \/ q[1] # x
    /\ Room(heap, 1)
    /\ LET g == Grown(var[x], heap)
           n == 2 * var[x].size
           d == [g.d EXCEPT !.size = @ + 1]
           s == [v |-> [var EXCEPT ![x] = d],
                 h |-> [g.h EXCEPT !.cell[d.b][n + 1] = Data("const", name, NoBlock, 0, 0)]]
           b == IF q[2] = 0 THEN NoBlock ELSE var[q[1]].b
       IN  Become(RawAssign(s, <<x, n + 2>>, q, b))
    /\ want' = LET w == PutTree(want, q, NullTree)
               IN  [w EXCEPT ![x].kids = @ \o <<Leaf(name), TreeAt(want, q)>>]

(* Mutant of Reserve: the capacity is raised before memory is asked for.        *)
ReserveForgets(x, cap) ==
    /\ var[x].t = "array" /\ cap > var[x].cap /\ cap <= MaxSize /\ Room(heap, 1)
    /\ var' = [var EXCEPT ![x].cap = cap]
    /\ UNCHANGED <<heap, want>>

(* Reserve by the client.                                                       *)
Reserve(x, cap) ==
    /\ var[x].t = "array" /\ cap > var[x].cap /\ cap <= MaxSize /\ Room(heap, 1)
    /\ heap' = Realloc(heap, var[x].b, cap)
    /\ var' = [var EXCEPT ![x].cap = cap, ![x].b = MallocBlock(heap, cap)]
    /\ UNCHANGED want

PopBack(x) ==
    /\ var[x].t = "array" /\ var[x].size > 0
    /\ heap' = Trim(Destruct(Touch(heap, var[x].b), Cell(heap, var[x].b, var[x].size)),
                    var[x].b, var[x].size - 1)
    /\ var' = [var EXCEPT ![x].size = @ - 1]
    /\ want' = [want EXCEPT ![x].kids = Front(@)]

(* Mutant of Erase: the size counts the end of the range as still there.        *)
EraseInclusive(x, first, last) ==
    /\ IsContainer(var[x]) /\ var[x].size > 0
    /\ LET w == Width(var[x])
           b == var[x].b
           from == (first - 1) * w
           gone == (last - first) * w
           n == var[x].size * w
           h1 == DestructCells(Touch(heap, b), b, from + 1, from + gone)
           h2 == [h1 EXCEPT !.cell[b] =
                     [i \in DOMAIN @ |-> IF i > from /\ i <= n - gone THEN @[i + gone] ELSE @[i]]]
       IN  heap' = Trim(h2, b, n - gone)
    /\ var' = [var EXCEPT ![x].size = IF last = first THEN @ ELSE @ - (last - first) + 1]
    /\ want' = [want EXCEPT ![x].kids =
                   LET w == Width(var[x]) IN
                   SubSeq(@, 1, (first - 1) * w) \o SubSeq(@, (last - 1) * w + 1, Len(@))]

(* Erase of [first, last): destruct them, move the rest down.  EraseMember does *)
(* the same to members.                                                         *)
Erase(x, first, last) ==
    /\ IsContainer(var[x]) /\ var[x].size > 0
    /\ LET w == Width(var[x])
           b == var[x].b
           from == (first - 1) * w
           gone == (last - first) * w
           n == var[x].size * w
           h1 == DestructCells(Touch(heap, b), b, from + 1, from + gone)
           h2 == [h1 EXCEPT !.cell[b] =
                     [i \in DOMAIN @ |-> IF i > from /\ i <= n - gone THEN @[i + gone] ELSE @[i]]]
       IN  heap' = Trim(h2, b, n - gone)
    /\ var' = [var EXCEPT ![x].size = @ - (last - first)]
    /\ want' = [want EXCEPT ![x].kids =
                   LET w == Width(var[x]) IN
                   SubSeq(@, 1, (first - 1) * w) \o SubSeq(@, (last - 1) * w + 1, Len(@))]

EraseElements(x, first, last) == var[x].t = "array" /\ Erase(x, first, last)
EraseMember(x, first, last) == var[x].t = "object" /\ Erase(x, first, last)

(* Clear, and RemoveAllMembers of an object, keep the capacity.                 *)
Clear(x) ==
    /\ IsContainer(var[x]) /\ var[x].size > 0
    /\ heap' = Trim(DestructCells(Touch(heap, var[x].b), var[x].b, 1, var[x].size * Width(var[x])),
                    var[x].b, 0)
    /\ var' = [var EXCEPT ![x].size = 0]
    /\ want' = [want EXCEPT ![x].kids = <<>>]

(* FindMember: the first member of that name, 0 for MemberEnd.                  *)
FindMember(x, name) ==
    LET found == {m \in 1 .. var[x].size : Cell(heap, var[x].b, 2 * m - 1).v = name}
    IN  IF found = {} THEN 0 ELSE CHOOSE m \in found : \A k \in found : m <= k

(* The members of an object, and those left when member m goes.                 *)
Pairs(kids) == [i \in 1 .. Len(kids) \div 2 |-> <<kids[2 * i - 1], kids[2 * i]>>]
Without(kids, m) == SubSeq(kids, 1, 2 * m - 2) \o SubSeq(kids, 2 * m + 1, Len(kids))
Count(s, e) == Cardinality({i \in DOMAIN s : s[i] = e})
SamePairs(k, l) ==
    /\ Len(k) = Len(l)
    /\ \A i \in DOMAIN Pairs(k) : Count(Pairs(k), Pairs(k)[i]) = Count(Pairs(l), Pairs(k)[i])

(* RemoveMember: the last member is assigned to the place, or destroyed if it   *)
(* is the one.  The order may change, the other members may not.         *)
RemoveMember(x, name) ==
    /\ var[x].t = "object" /\ FindMember(x, name) # 0
    /\ LET m == FindMember(x, name)
           b == var[x].b
           last == var[x].size
           h1 == DestructCells(Touch(heap, b), b, 2 * m - 1, 2 * m)
           h2 == IF m = last THEN h1
                 ELSE [h1 EXCEPT !.cell[b][2 * m - 1] = h1.cell[b][2 * last - 1],
                                 !.cell[b][2 * m] = h1.cell[b][2 * last]]
       IN  /\ heap' = Trim(h2, b, 2 * last - 2)
           /\ var' = [var EXCEPT ![x].size = @ - 1]
           /\ want' = LET left == Without(want[x].kids, m)
                          is == Content(heap', var'[x]).kids
                      IN  [want EXCEPT ![x].kids = IF SamePairs(is, left) THEN is ELSE left]

RECURSIVE Nodes(_)
Nodes(t) ==
    LET n == FoldLeft(LAMBDA acc, k : acc + Nodes(k), 0, t.kids)
    IN  1 + (IF t.t = "object" THEN n - Len(t.kids) \div 2 ELSE n)
Bounded == FoldSet(LAMBDA x, acc : acc + Nodes(want[x]), 0, Vars) <= MaxNodes

(* A string reaches an element, and two elements each other, by way of a        *)
(* client's value.                                                              *)
NextValue ==
    \/ \E p \in Places, t \in {"null", "array", "object"} : At(p).t # t /\ SetTo(p, t)
    \/ \E p \in {<<x, 0>> : x \in Vars}, k \in {"const", "copy"}, v \in Texts : SetString(p, k, v)
    \/ \E p \in Places, q \in Places : Assign(p, q)
    \/ \E p \in {<<x, 0>> : x \in Vars}, q \in Places : Swap(p, q)
    \/ \E p \in Places, q \in Places, f \in BOOLEAN : CopyFrom(p, q, f) /\ Bounded'
    \/ \E x \in Vars, q \in Places : PushBack(x, q) /\ Bounded'
    \/ \E x \in Vars, q \in Places, n \in Names : AddMember(x, n, q) /\ Bounded'
    \/ \E x \in Vars : PopBack(x) \/ Clear(x) \/ \E n \in Names : RemoveMember(x, n)
    \/ \E x \in Vars, cap \in 1 .. MaxSize : Reserve(x, cap)
    \/ \E x \in Vars : \E first \in 1 .. var[x].size : \E last \in first .. var[x].size + 1 :
           EraseElements(x, first, last) \/ EraseMember(x, first, last)

SpecValue == InitValue /\ [][NextValue]_valueVars

------------------------------------------------------------------------------
(* A container has as many cells as its capacity says, and fits.                *)
ValueTypeOK ==
    \A p \in Places : LET d == At(p) IN
        IsContainer(d) =>
            /\ d.size <= d.cap
            /\ IF d.cap = 0 THEN d.b = NoBlock
               ELSE d.b # NoBlock /\ Len(heap.cell[d.b]) = d.cap * Width(d)

(* No block is used after it was freed, nor freed twice, whatever values are    *)
(* moved where.                                                                 *)
NoUseAfterFree == ~heap.bad

(* Every block in use belongs to one value and every other was freed: nothing   *)
(* leaks and nothing is shared.                                                 *)
OwnedOnce ==
    LET all == FoldLeft(LAMBDA acc, x : acc \o Owners(heap, var[x]), <<>>, SetToSeq(Vars))
        used == SelectSeq(all, LAMBDA b : b # NoBlock)
    IN  /\ \A i, j \in DOMAIN used : i # j => used[i] # used[j]
        /\ {b \in Blocks : heap.st[b] = "live"} = {used[i] : i \in DOMAIN used}

(* Each value reads as the operations say: what moves into a container is in    *)
(* it and its source is null, ranges keep their order, a copy is equal and a    *)
(* removal leaves all other members.                                            *)
ReadsAsMeant == \A x \in Vars : Content(heap, var[x]) = want[x]
------------------------------------------------------------------------------
(* GenericDocument of rapidjson/document.h as the handler of its own parser:    *)
(* values are built on a stack (internal/stack.h) and moved to blocks when      *)
(* their container ends.  A parse may fail anywhere.  Documents are swapped,    *)
(* move-assigned, destroyed, and may use each other's allocator.  The parser's  *)
(* events are those of a text not yet at its end.                               *)

CONSTANTS
    Docs,
    NeedFree,         \* kNeedFree of the allocator
    InitialCapacity,  \* of the stack, in values (kDefaultStackCapacity)
    MaxKids,          \* values or names in one container
    MaxOpen,          \* containers open at a time
    MaxValues,        \* values and names of a text
    CopyStrings       \* the copy argument of String: {TRUE}, {FALSE} in situ, or both

NoDoc == "none"
Allocs == 1 .. Cardinality(Docs)
NoAlloc == 0

VARIABLES
    val, alloc, own,  \* the value, allocator_ and ownAllocator_ of each document
    stk,              \* its stack_: the cells of its memory, <<>> for none, and the top
    from,             \* the allocator each block came from
    parsing,          \* the document that is parsing
    open              \* containers the reader has open, the innermost last

documentVars == <<val, alloc, own, stk, heap, from, parsing, open, want>>
docVars == <<alloc, own>>

NoStack == [cell |-> <<>>, top |-> 0]
Used == {own[d] : d \in Docs}

(* Mutant of Expand: it grows by half even if that is not enough.               *)
ExpandHalf(s, n) ==
    LET old == Len(s.cell)
        cap == IF old = 0 THEN InitialCapacity ELSE old + old \div 2
    IN  [s EXCEPT !.cell = [i \in 1 .. cap |-> IF i <= old THEN s.cell[i] ELSE Junk]]

(* Expand: the initial capacity, or half as much again, or what is needed.      *)
Expand(s, n) ==
    LET old == Len(s.cell)
        more == IF old = 0 THEN InitialCapacity ELSE old + (old + 1) \div 2
        cap == IF more < s.top + n THEN s.top + n ELSE more
    IN  [s EXCEPT !.cell = [i \in 1 .. cap |-> IF i <= old THEN s.cell[i] ELSE Junk]]

(* Push of one value.                                                           *)
Push(s, d) ==
    LET s1 == IF s.top + 1 > Len(s.cell) THEN Expand(s, 1) ELSE s
    IN  [cell |-> [s1.cell EXCEPT ![s.top + 1] = d], top |-> s.top + 1]

(* Pop; what is behind the top is not read again.                               *)
Pop(s, n) == [cell |-> [i \in DOMAIN s.cell |-> IF i <= s.top - n THEN s.cell[i] ELSE Junk],
              top |-> s.top - n]

(* ~GenericValue, which does nothing when the allocator needs no Free.          *)
Drop(h, d) == IF NeedFree THEN Destruct(h, d) ELSE h

(* Mutant of ClearStack: the values on it are forgotten.                        *)
ClearStackForgets(h, s) == [h |-> h, s |-> NoStack]

(* ClearStack: destruct what is left, give the memory back (ShrinkToFit).       *)
ClearStack(h, s) ==
    LET clear[n \in 0 .. s.top] == IF n = 0 THEN h ELSE Drop(clear[n - 1], s.cell[n])
    IN  [h |-> clear[s.top], s |-> NoStack]

(* Blocks the next allocation is given, marked with their allocator if it is    *)
(* what frees them.                                                             *)
Take(d, cells) ==
    /\ heap' = Malloc(heap, cells)
    /\ from' = IF cells = <<>> \/ NeedFree THEN from ELSE [from EXCEPT ![NewBlock(heap)] = alloc[d]]

(* ~Allocator: its blocks are gone, unless they are each freed on their own.    *)
DeleteAlloc(h, a) ==
    IF NeedFree \/ a = NoAlloc THEN h
    ELSE [h EXCEPT !.st = [b \in Blocks |-> IF from[b] = a THEN "free" ELSE @[b]],
                   !.cell = [b \in Blocks |-> IF from[b] = a THEN <<>> ELSE @[b]]]

------------------------------------------------------------------------------
InitDocument ==
    /\ val = [d \in Docs |-> Null]
    /\ \E f \in [Docs -> Allocs] :
           /\ \A d, e \in Docs : f[d] = f[e] => d = e
           /\ own = f /\ alloc = f
    /\ stk = [d \in Docs |-> NoStack]
    /\ heap = EmptyHeap /\ from = [b \in Blocks |-> NoAlloc]
    /\ parsing = NoDoc /\ open = <<>>
    /\ want = [d \in Docs |-> NullTree]

(* ParseStream or Populate begins; GetAllocator asserts that there is one.      *)
ParseStream(d) ==
    /\ parsing = NoDoc /\ alloc[d] # NoAlloc
    /\ parsing' = d
    /\ open' = <<Tree("root", "", <<>>)>>
    /\ UNCHANGED <<val, stk, heap, from, want>> /\ UNCHANGED docVars

RECURSIVE SentIn(_)
SentIn(t) == FoldLeft(LAMBDA acc, k : acc + SentIn(k), 1, t.kids)
SentSoFar == FoldLeft(LAMBDA acc, t : acc + SentIn(t), 0, open) - 1

(* What the reader may send next.                                               *)
Innermost == Last(open)
MayValue ==
    /\ parsing # NoDoc /\ SentSoFar < MaxValues
    /\ CASE Innermost.t = "root" -> Innermost.kids = <<>>
         [] Innermost.t = "array" -> Len(Innermost.kids) < MaxKids
         [] OTHER -> Len(Innermost.kids) % 2 = 1
MayKey == parsing # NoDoc /\ Innermost.t = "object" /\ Len(Innermost.kids) % 2 = 0
          /\ Len(Innermost.kids) < 2 * MaxKids /\ SentSoFar + 1 < MaxValues
MayEnd(t) == parsing # NoDoc /\ Innermost.t = t /\ (t = "object" => Len(Innermost.kids) % 2 = 0)
Sent(t) == open' = [open EXCEPT ![Len(open)].kids = Append(@, t)]

(* The events Null, Bool and the numbers.                                       *)
SendNull ==
    /\ MayValue
    /\ stk' = [stk EXCEPT ![parsing] = Push(@, Null)]
    /\ Sent(NullTree)
    /\ UNCHANGED <<val, heap, from, parsing, want>> /\ UNCHANGED docVars

(* String, RawNumber and Key.                                                   *)
SendString(copy) ==
    /\ MayValue \/ MayKey
    /\ Room(heap, 1)
    /\ Take(parsing, IF copy THEN <<Null>> ELSE <<>>)
    /\ stk' = [stk EXCEPT ![parsing] =
                  Push(@, IF copy THEN Data("copy", "s", NewBlock(heap), 0, 0)
                          ELSE Data("const", "s", NoBlock, 0, 0))]
    /\ Sent(Tree("string", "s", <<>>))
    /\ UNCHANGED <<val, parsing, want>> /\ UNCHANGED docVars

(* StartObject and StartArray push an empty one.                                *)
SendStart(t) ==
    /\ MayValue /\ Len(open) <= MaxOpen
    /\ stk' = [stk EXCEPT ![parsing] = Push(@, Empty(t))]
    /\ open' = Append(open, Tree(t, "", <<>>))
    /\ UNCHANGED <<val, heap, from, parsing, want>> /\ UNCHANGED docVars

(* Mutant of SendEnd: the members of an object are popped as values.            *)
SendEndValues(t) ==
    /\ MayEnd(t)
    /\ LET s == stk[parsing]
           n == IF t = "object" THEN Len(Innermost.kids) \div 2 ELSE Len(Innermost.kids)
           s1 == Pop(s, n)
           cells == SubSeq(s.cell, s1.top + 1, s.top)
       IN  /\ n > 0 => Room(heap, 1)
           /\ Take(parsing, cells)
           /\ stk' = [stk EXCEPT ![parsing] =
                          [s1 EXCEPT !.cell[s1.top] = Data(t, "", MallocBlock(heap, n), n, n)]]
    /\ open' = LET o == Front(open) IN [o EXCEPT ![Len(o)].kids = Append(@, Innermost)]
    /\ UNCHANGED <<val, parsing, want>> /\ UNCHANGED docVars

(* EndObject and EndArray: pop the members or elements and copy them to a block *)
(* of the container below them (SetObjectRaw, SetArrayRaw).                     *)
SendEnd(t) ==
    /\ MayEnd(t)
    /\ LET s == stk[parsing]
           n == Len(Innermost.kids)
           count == IF t = "object" THEN n \div 2 ELSE n
           s1 == Pop(s, n)
           cells == SubSeq(s.cell, s1.top + 1, s.top)
       IN  /\ n > 0 => Room(heap, 1)
           /\ Take(parsing, cells)
           /\ stk' = [stk EXCEPT ![parsing] =
                          [s1 EXCEPT !.cell[s1.top] = Data(t, "", MallocBlock(heap, n), count, count)]]
    /\ open' = LET o == Front(open) IN [o EXCEPT ![Len(o)].kids = Append(@, Innermost)]
    /\ UNCHANGED <<val, parsing, want>> /\ UNCHANGED docVars

(* The end of a parse: the one value is moved from the stack to the document.   *)
ParseOk ==
    /\ parsing # NoDoc /\ Innermost.t = "root" /\ Innermost.kids # <<>>
    /\ LET s == stk[parsing]
           c == ClearStack(Drop(heap, val[parsing]), Pop(s, 1))
       IN  /\ val' = [val EXCEPT ![parsing] = s.cell[s.top]]
           /\ heap' = c.h
           /\ stk' = [stk EXCEPT ![parsing] = c.s]
    /\ want' = [want EXCEPT ![parsing] = Innermost.kids[1]]
    /\ parsing' = NoDoc /\ open' = <<>>
    /\ UNCHANGED <<alloc, own, from>>

(* Mutant of ParseError: the stack is left as it is.                            *)
ParseErrorKeeps ==
    /\ parsing # NoDoc
    /\ parsing' = NoDoc /\ open' = <<>>
    /\ UNCHANGED <<val, alloc, own, stk, heap, from, want>>

(* The reader stops with an error: ClearStackOnExit, the value stays.           *)
ParseError ==
    /\ parsing # NoDoc
    /\ LET c == ClearStack(heap, stk[parsing])
       IN  heap' = c.h /\ stk' = [stk EXCEPT ![parsing] = c.s]
    /\ parsing' = NoDoc /\ open' = <<>>
    /\ UNCHANGED <<val, alloc, own, from, want>>

(* Nobody but d depends on the allocator d owns; its user sees to that.         *)
Alone(d) == own[d] # NoAlloc => \A e \in Docs \ {d} : alloc[e] # own[d]

(* Mutant of SwapDocuments: the documents keep the allocators they own.                  *)
SwapNoOwner(d, e) ==
    /\ parsing = NoDoc /\ d # e
    /\ LET sw(f) == [f EXCEPT ![d] = f[e], ![e] = f[d]]
       IN  val' = sw(val) /\ alloc' = sw(alloc) /\ stk' = sw(stk) /\ want' = sw(want)
    /\ UNCHANGED <<own, heap, from, parsing, open>>

SwapDocuments(d, e) ==
    /\ parsing = NoDoc /\ d # e
    /\ LET sw(f) == [f EXCEPT ![d] = f[e], ![e] = f[d]]
       IN  /\ val' = sw(val) /\ alloc' = sw(alloc) /\ own' = sw(own)
           /\ stk' = sw(stk) /\ want' = sw(want)
    /\ UNCHANGED <<heap, from, parsing, open>>

(* Mutant of MoveAssign: the allocator is deleted after the new one is taken.   *)
MoveAssignLate(d, e) ==
    /\ parsing = NoDoc /\ d # e /\ Alone(d)
    /\ val' = [val EXCEPT ![d] = val[e], ![e] = Null]
    /\ heap' = DeleteAlloc(Drop(heap, val[d]), own[e])
    /\ alloc' = [alloc EXCEPT ![d] = alloc[e], ![e] = NoAlloc]
    /\ own' = [own EXCEPT ![d] = own[e], ![e] = NoAlloc]
    /\ stk' = [stk EXCEPT ![d] = stk[e], ![e] = NoStack]
    /\ want' = [want EXCEPT ![d] = want[e], ![e] = NullTree]
    /\ UNCHANGED <<from, parsing, open>>

(* operator=(GenericDocument&&): take the value, delete the own allocator, then *)
(* take the rest; the source is left without an allocator.                      *)
MoveAssign(d, e) ==
    /\ parsing = NoDoc /\ d # e /\ Alone(d)
    /\ val' = [val EXCEPT ![d] = val[e], ![e] = Null]
    /\ heap' = DeleteAlloc(Drop(heap, val[d]), own[d])
    /\ alloc' = [alloc EXCEPT ![d] = alloc[e], ![e] = NoAlloc]
    /\ own' = [own EXCEPT ![d] = own[e], ![e] = NoAlloc]
    /\ stk' = [stk EXCEPT ![d] = stk[e], ![e] = NoStack]
    /\ want' = [want EXCEPT ![d] = want[e], ![e] = NullTree]
    /\ UNCHANGED <<from, parsing, open>>

(* ~GenericDocument, then a new document with an allocator of its own or the    *)
(* one it is given.                                                             *)
Renew(d, a) ==
    /\ parsing = NoDoc /\ Alone(d) /\ a # own[d]
    /\ heap' = Drop(DeleteAlloc(heap, own[d]), val[d])
    /\ val' = [val EXCEPT ![d] = Null]
    /\ alloc' = [alloc EXCEPT ![d] = a]
    /\ own' = [own EXCEPT ![d] = IF a \in Used THEN NoAlloc ELSE a]
    /\ stk' = [stk EXCEPT ![d] = NoStack]
    /\ want' = [want EXCEPT ![d] = NullTree]
    /\ UNCHANGED <<from, parsing, open>>

NextDocument ==
    \/ \E d \in Docs : ParseStream(d)
    \/ SendNull \/ ParseOk \/ ParseError
    \/ \E copy \in CopyStrings : SendString(copy)
    \/ \E t \in {"array", "object"} : SendStart(t) \/ SendEnd(t)
    \/ \E d, e \in Docs : SwapDocuments(d, e) \/ MoveAssign(d, e)
    \/ \E d \in Docs, a \in Allocs : Renew(d, a)

SpecDocument == InitDocument /\ [][NextDocument]_documentVars

------------------------------------------------------------------------------
(* The stack has room for what is on it.                                        *)
DocumentTypeOK ==
    /\ \A d \in Docs : stk[d].top \in 0 .. Len(stk[d].cell)
    /\ \A d \in Docs : own[d] # NoAlloc => alloc[d] = own[d]

StackCells(d) == {stk[d].cell[i] : i \in 1 .. stk[d].top}
AllOwners ==
    LET values == FoldLeft(LAMBDA acc, d : acc \o <<val[d]>> \o SubSeq(stk[d].cell, 1, stk[d].top),
                           <<>>, SetToSeq(Docs))
    IN  SelectSeq(FoldLeft(LAMBDA acc, v : acc \o Owners(heap, v), <<>>, values), LAMBDA b : b # NoBlock)

(* Every block of a document or of its half-built stack is live and has one     *)
(* owner, and with CrtAllocator no other block is: neither an error in the      *)
(* middle of a text nor a move leaks, shares or frees too early.                *)
BlocksOwnedOnce ==
    LET used == AllOwners IN
    /\ ~heap.bad
    /\ \A i, j \in DOMAIN used : i # j => used[i] # used[j]
    /\ \A i \in DOMAIN used : heap.st[used[i]] = "live"
    /\ NeedFree => {b \in Blocks : heap.st[b] = "live"} = {used[i] : i \in DOMAIN used}

(* A document reads as the last text that was parsed without error, wherever it *)
(* was swapped or moved, and nothing of a text that failed is in it.            *)
DocumentReads == \A d \in Docs : Content(heap, val[d]) = want[d]

(* Between parses no stack is left.                                             *)
StackReleased == parsing = NoDoc => \A d \in Docs : stk[d] = NoStack
==============================================================================
