--------------------------- MODULE VanillaProofs ---------------------------
(* Theorems about the smaller components, for every value of the constants     *)
(* that satisfies ComponentAssumptions.  Each has its own variables, so a step  *)
(* of the suite is a step of it or leaves its variables alone.                  *)
EXTENDS Vanilla, FiniteSetTheorems, SequenceTheorems, WellFoundedInduction, TLAPS

-----------------------------------------------------------------------------
(* DecisionTree: rows are run in order, the row at hand is behind those that  *)
(* were run, and the bidder's table is walked as its two answers say.         *)
TreeInv ==
  /\ tree \in Rows!ForwardTrees
  /\ walked \in Seq(Tree!Row) /\ now \in Tree!Row
  /\ status \in {"walking", "exited"}
  /\ \A i, j \in 1 .. Len(walked) : i < j => walked[i] < walked[j]
  /\ status = "walking" => \A i \in 1 .. Len(walked) : walked[i] < now
  /\ tree = Tree!BidderTree =>
       \/ status = "walking" /\ now = 0 /\ walked = <<>>
       \/ status = "walking" /\ now \in {1, 2} /\ walked = <<0>>
       \/ status = "exited" /\ walked \in {<<0, 1>>, <<0, 2>>}

LEMMA TreeInit == Init => TreeInv
<1> SUFFICES ASSUME Init PROVE TreeInv
  OBVIOUS
<1>1. tree \in Rows!ForwardTrees /\ now = 0 /\ walked = <<>> /\ status = "walking"
  BY DEF Init, Tree!Init
<1>2. 0 \in Tree!Row
  BY ComponentAssumptions DEF Tree!RowsAssumption, Tree!Row
<1>3. QED
  BY <1>1, <1>2 DEF TreeInv

(* The row a table that leads forward names is behind the one at hand.        *)
LEMMA Forward ==
  ASSUME tree \in Rows!ForwardTrees, now \in Tree!Row, NEW res \in BOOLEAN,
         NEW n, n = Tree!get(tree[now], res), n # Tree!EXIT
  PROVE  /\ Tree!Successor(tree[now], n) \in Tree!Row
         /\ Tree!Successor(tree[now], n) > now
<1>1. N \in Nat \ {0}
  BY ComponentAssumptions DEF Tree!RowsAssumption
<1>2. n \in {tree[now].yes, tree[now].no} /\ tree[now].row_num = now
      /\ n \in -1 .. N - 1
  BY DEF Tree!get, Rows!ForwardTrees, Rows!Row, Rows!Node, Tree!Row
<1>3. n > now \/ (n = 0 /\ now # N - 1)
  BY <1>2 DEF Rows!ForwardTrees, Rows!Row, Rows!EXIT, Tree!EXIT, Rows!CONTINUE, Tree!Row
<1>4. QED
  BY <1>1, <1>2, <1>3 DEF Tree!Successor, Tree!CONTINUE, Tree!Row

LEMMA AppendSecond ==
  ASSUME NEW r \in {1, 2}
  PROVE  Append(<<0>>, r) \in {<<0, 1>>, <<0, 2>>}
<1>1. /\ <<0, r>> \in Seq(Int) /\ Len(<<0, r>>) = 2
      /\ <<0, r>>[1] = 0 /\ <<0, r>>[2] = r
  OBVIOUS
<1>2. /\ Append(<<0>>, r) \in Seq(Int) /\ Len(Append(<<0>>, r)) = 2
      /\ Append(<<0>>, r)[1] = 0 /\ Append(<<0>>, r)[2] = r
  OBVIOUS
<1>3. \A i \in 1 .. 2 : Append(<<0>>, r)[i] = <<0, r>>[i]
  BY <1>1, <1>2
<1>4. Append(<<0>>, r) = <<0, r>>
  BY <1>1, <1>2, <1>3, SeqEqual
<1>5. QED
  BY <1>4

LEMMA TreeStep ==
  ASSUME TreeInv, [Next]_vars
  PROVE  TreeInv'
<1>1. CASE UNCHANGED treeVars
  BY <1>1 DEF treeVars, TreeInv
<1>2. ASSUME NEW res \in BOOLEAN, Tree!Step(res) PROVE TreeInv'
  <2> DEFINE n == Tree!get(tree[now], res)
  <2>0. /\ status = "walking" /\ tree' = tree /\ walked' = Append(walked, now)
        /\ tree \in Rows!ForwardTrees /\ now \in Tree!Row /\ walked \in Seq(Tree!Row)
        /\ \A i \in 1 .. Len(walked) : walked[i] < now
        /\ \A i, j \in 1 .. Len(walked) : i < j => walked[i] < walked[j]
    BY <1>2 DEF Tree!Step, TreeInv
  <2>1. walked' \in Seq(Tree!Row) /\ Len(walked') = Len(walked) + 1
        /\ \A i \in 1 .. Len(walked) : walked'[i] = walked[i]
        /\ walked'[Len(walked) + 1] = now
    BY <2>0
  <2>2. \A i, j \in 1 .. Len(walked') : i < j => walked'[i] < walked'[j]
    BY <2>0, <2>1
  <2>3. CASE n = Tree!EXIT
    <3>1. now' = now /\ status' = "exited"
      BY <1>2, <2>3 DEF Tree!Step
    <3>2. ASSUME tree = Tree!BidderTree PROVE walked' \in {<<0, 1>>, <<0, 2>>}
      <4>1. CASE now = 0
        BY <4>1, <3>2, <2>0, <2>3 DEF Tree!BidderTree, Tree!Row, Tree!USER_DATA, Tree!NO_BID,
             Tree!AUCTION_ASYNC, Tree!EXIT, Tree!get
      <4>2. CASE now \in {1, 2} /\ walked = <<0>>
        BY <4>2, <2>0, AppendSecond
      <4>3. QED
        BY <4>1, <4>2, <3>2, <2>0 DEF TreeInv
    <3>3. QED
      BY <2>0, <2>1, <2>2, <3>1, <3>2 DEF TreeInv
  <2>4. CASE n # Tree!EXIT
    <3> DEFINE s == Tree!Successor(tree[now], n)
    <3>1. s \in Tree!Row /\ s > now
      BY <2>4, <2>0, Forward
    <3>2. now' = s /\ status' = "walking"
      BY <1>2, <2>4, <3>1 DEF Tree!Step, Tree!At
    <3>3. \A i \in 1 .. Len(walked') : walked'[i] < now'
      <4>1. N \in Nat /\ now \in Int /\ s \in Int /\ \A i \in 1 .. Len(walked) : walked[i] \in Int
        BY <2>0, <3>1, ComponentAssumptions DEF Tree!Row, Tree!RowsAssumption
      <4>2. \A i \in 1 .. Len(walked) : walked[i] < s
        BY <2>0, <3>1, <4>1
      <4>3. QED
        BY <2>0, <2>1, <3>1, <3>2, <4>1, <4>2
    <3>4. ASSUME tree = Tree!BidderTree PROVE now' \in {1, 2} /\ walked' = <<0>>
      <4>1. now = 0 /\ walked = <<>>
        <5>1. SUFFICES ASSUME now \in {1, 2} PROVE FALSE
          BY <3>4, <2>0 DEF TreeInv
        <5>2. QED
          BY <5>1, <3>4, <2>0, <2>4 DEF Tree!BidderTree, Tree!Row, Tree!USER_DATA, Tree!NO_BID,
               Tree!AUCTION_ASYNC, Tree!EXIT, Tree!get
      <4>2. n \in {1, 2}
        BY <4>1, <3>4, <2>0 DEF Tree!BidderTree, Tree!Row, Tree!USER_DATA, Tree!NO_BID,
             Tree!AUCTION_ASYNC, Tree!EXIT, Tree!get
      <4>3. s = n
        BY <4>2 DEF Tree!Successor, Tree!CONTINUE
      <4>4. QED
        BY <4>1, <4>2, <4>3, <3>2, <2>0
    <3>5. QED
      BY <2>0, <2>1, <2>2, <3>1, <3>2, <3>3, <3>4 DEF TreeInv
  <2>5. QED
    BY <2>3, <2>4
<1>3. QED
  BY <1>1, <1>2 DEF Next, vars, Tree!Next

-----------------------------------------------------------------------------
(* Process: distribute has come round r times and to the pipe at hand.        *)
Dealt(p) == {v \in 1 .. given : (v - 1) % forks = p - 1}

Rounds(r) ==
  /\ given = r * forks + (pipe - 1)
  /\ \A p \in 1 .. forks : Len(input[p]) = IF p < pipe THEN r + 1 ELSE r

PipeInv ==
  /\ Piped!TypeOK
  /\ input \in [Piped!Pid -> Seq(Nat)] /\ pipe \in Piped!Pid
  /\ phase = "forking" => given = 0 /\ pipe = 1 /\ \A p \in Piped!Pid : input[p] = <<>>
  /\ phase # "forking" => pipe <= forks
  /\ forks > 0 => \E r \in 0 .. given : Rounds(r)
  /\ \A p \in 1 .. forks :
       /\ Cardinality(Dealt(p)) = Len(input[p])
       /\ \A i \in 1 .. Len(input[p]) : input[p][i] = (i - 1) * forks + p

LEMMA Division ==
  ASSUME NEW x \in Int, NEW m \in Int, m > 0
  PROVE  \E q \in Int, s \in 0 .. m - 1 : x = m * q + s /\ s = x % m
BY SMT

(* The place in a round of whole rounds and a part of one.                    *)
LEMMA Remainder ==
  ASSUME NEW r \in Nat, NEW m \in Nat, m > 0, NEW k \in 0 .. m - 1
  PROVE  (r * m + k) % m = k
<1> DEFINE x == r * m + k
<1>1. x \in Int /\ m \in Int
  OBVIOUS
<1> HIDE DEF x
<1>2. PICK q \in Int, s \in 0 .. m - 1 : x = m * q + s /\ s = x % m
  <2>1. \E q \in Int, s \in 0 .. m - 1 : x = m * q + s /\ s = x % m
    BY <1>1, Division
  <2>2. QED
    BY <2>1, Zenon
<1> USE DEF x
<1>3. ASSUME q > r PROVE FALSE
  <2>1. m * q >= m * (r + 1)
    BY <1>3
  <2>2. QED
    BY <1>2, <2>1
<1>4. ASSUME q < r PROVE FALSE
  <2>1. m * (q + 1) <= m * r
    BY <1>4
  <2>2. QED
    BY <1>2, <2>1
<1>5. QED
  BY <1>2, <1>3, <1>4

LEMMA DealtFinite ==
  ASSUME NEW g \in Nat, NEW S \in SUBSET (1 .. g)
  PROVE  IsFiniteSet(S)
<1>1. IsFiniteSet(1 .. g)
  BY FS_Interval
<1>2. QED
  BY <1>1, FS_Subset

LEMMA NoneDealt ==
  ASSUME given = 0, NEW p
  PROVE  Dealt(p) = {} /\ Cardinality(Dealt(p)) = 0
<1>1. Dealt(p) = {}
  BY DEF Dealt
<1>2. QED
  BY <1>1, FS_EmptySet

LEMMA PipeInit == Init => PipeInv
<1> SUFFICES ASSUME Init PROVE PipeInv
  OBVIOUS
<1>1. /\ forks = 0 /\ child = [p \in Piped!Pid |-> "none"] /\ sub_procs = {}
      /\ holders = [p \in Piped!Pid |-> {}] /\ input = [p \in Piped!Pid |-> <<>>]
      /\ given = 0 /\ pipe = 1 /\ waiting = {} /\ phase = "forking"
  BY DEF Init, Forks!Init, Forks!Pid, Piped!Pid
<1>2. MaxForks \in Nat \ {0} /\ NValues \in Nat
  BY ComponentAssumptions DEF Piped!ProcessBounds
<1>3. Piped!TypeOK
  BY <1>1, <1>2 DEF Piped!TypeOK, Piped!Pid
<1>4. QED
  BY <1>1, <1>2, <1>3 DEF PipeInv, Piped!Pid

(* A step that deals nothing.                                                 *)
LEMMA NothingDealt ==
  ASSUME PipeInv, Piped!TypeOK', UNCHANGED <<forks, input, given, pipe>>,
         phase' = phase \/ (phase = "forking" /\ forks > 0 /\ phase' # "forking")
                       \/ (phase # "forking" /\ phase' # "forking")
  PROVE  PipeInv'
<1>1. \A p : Dealt(p)' = Dealt(p)
  BY DEF Dealt
<1>2. \A r : Rounds(r)' = Rounds(r)
  BY DEF Rounds
<1>3. input' \in [Piped!Pid -> Seq(Nat)] /\ pipe' \in Piped!Pid
  BY DEF PipeInv
<1>4. phase' = "forking" => given' = 0 /\ pipe' = 1 /\ \A p \in Piped!Pid : input'[p] = <<>>
  BY DEF PipeInv
<1>5. phase' # "forking" => pipe' <= forks'
  BY DEF PipeInv, Piped!TypeOK
<1>6. forks' > 0 => \E r \in 0 .. given' : Rounds(r)'
  BY <1>2 DEF PipeInv
<1>7. \A p \in 1 .. forks' :
        /\ Cardinality(Dealt(p)') = Len(input'[p])
        /\ \A i \in 1 .. Len(input'[p]) : input'[p][i] = (i - 1) * forks' + p
  BY <1>1 DEF PipeInv
<1>8. QED
  BY <1>3, <1>4, <1>5, <1>6, <1>7 DEF PipeInv

(* One more fork, before anything is dealt.                                   *)
LEMMA ForkStep ==
  ASSUME PipeInv, phase = "forking", forks < MaxForks, forks' = forks + 1,
         Piped!TypeOK', UNCHANGED <<input, given, pipe, phase>>
  PROVE  PipeInv'
<1>1. /\ given' = 0 /\ pipe' = 1 /\ \A p \in Piped!Pid : input'[p] = <<>>
      /\ input' \in [Piped!Pid -> Seq(Nat)] /\ pipe' \in Piped!Pid /\ given = 0
  BY DEF PipeInv
<1>2. forks' \in 0 .. MaxForks /\ MaxForks \in Nat
  BY ComponentAssumptions DEF Piped!TypeOK, Piped!ProcessBounds
<1>3. \A p : Dealt(p)' = {}
  BY <1>1 DEF Dealt
<1>4. \A p \in 1 .. forks' : Cardinality(Dealt(p)') = Len(input'[p]) /\ input'[p] = <<>>
  BY <1>1, <1>2, <1>3, FS_EmptySet DEF Piped!Pid
<1>5. Rounds(0)'
  BY <1>1, <1>2, <1>4 DEF Rounds
<1>6. QED
  BY <1>1, <1>2, <1>4, <1>5 DEF PipeInv

(* What Append does, index by index.                                          *)
LEMMA AppendOne ==
  ASSUME NEW s \in Seq(Nat), NEW x \in Nat
  PROVE  /\ Append(s, x) \in Seq(Nat) /\ Len(s) \in Nat
         /\ Len(Append(s, x)) = Len(s) + 1 /\ Append(s, x)[Len(s) + 1] = x
         /\ \A i \in 1 .. Len(s) : Append(s, x)[i] = s[i]
  OBVIOUS

LEMMA DistributeStep ==
  ASSUME PipeInv, Piped!Distribute
  PROVE  PipeInv'
<1>1. /\ phase = "distributing" /\ phase' = phase /\ forks' = forks
      /\ given < NValues /\ given' = given + 1 /\ pipe' = Piped!Turn(pipe)
      /\ input' = [input EXCEPT ![pipe] = Append(@, given + 1)]
      /\ UNCHANGED <<child, sub_procs, holders, waiting>>
  BY DEF Piped!Distribute
<1>2. /\ MaxForks \in Nat \ {0} /\ NValues \in Nat /\ forks \in 0 .. MaxForks
      /\ given \in 0 .. NValues /\ pipe \in 1 .. MaxForks /\ pipe <= forks
      /\ input \in [1 .. MaxForks -> Seq(Nat)]
  BY <1>1, ComponentAssumptions DEF PipeInv, Piped!TypeOK, Piped!ProcessBounds, Piped!Pid
<1>3. /\ forks \in Nat /\ forks > 0 /\ pipe \in 1 .. forks /\ given \in Nat
      /\ forks <= MaxForks
  BY <1>2
<1>4. PICK r \in 0 .. given : Rounds(r)
  BY <1>3 DEF PipeInv
<1>5. given = r * forks + (pipe - 1) /\ given % forks = pipe - 1 /\ r \in Nat
  <2>1. pipe - 1 \in 0 .. forks - 1 /\ r \in Nat
    BY <1>3, <1>4
  <2>2. (r * forks + (pipe - 1)) % forks = pipe - 1
    BY <2>1, <1>3, Remainder
  <2>3. QED
    BY <2>1, <2>2, <1>4 DEF Rounds
<1>6. Piped!TypeOK'
  BY <1>1, <1>2 DEF PipeInv, Piped!TypeOK, Piped!Pid
<1>7. /\ input' \in [1 .. MaxForks -> Seq(Nat)]
      /\ \A p \in 1 .. forks : p # pipe => input'[p] = input[p]
      /\ input'[pipe] = Append(input[pipe], given + 1)
  BY <1>1, <1>2, <1>3
<1>8. pipe' \in 1 .. forks /\ pipe' = IF pipe = forks THEN 1 ELSE pipe + 1
  BY <1>1, <1>3 DEF Piped!Turn
<1>9. \A p \in 1 .. forks : Len(input[p]) = IF p < pipe THEN r + 1 ELSE r
  BY <1>4 DEF Rounds
<1>10. \A p \in 1 .. forks : Len(input'[p]) = IF p <= pipe THEN r + 1 ELSE r
  <2> SUFFICES ASSUME NEW p \in 1 .. forks
               PROVE  Len(input'[p]) = IF p <= pipe THEN r + 1 ELSE r
    OBVIOUS
  <2>1. CASE p = pipe
    <3>1. input[pipe] \in Seq(Nat) /\ Len(input[pipe]) = r
      BY <1>2, <1>3, <1>9
    <3>2. QED
      BY <2>1, <3>1, <1>7, <1>3
  <2>2. CASE p # pipe
    BY <2>2, <1>7, <1>9, <1>3
  <2>3. QED
    BY <2>1, <2>2
<1>11. \E n \in 0 .. given' : Rounds(n)'
  <2>1. CASE pipe = forks
    <3>1. given' = (r + 1) * forks + (1 - 1)
      BY <2>1, <1>1, <1>3, <1>5
    <3>2. \A p \in 1 .. forks : Len(input'[p]) = IF p < 1 THEN (r + 1) + 1 ELSE r + 1
      BY <2>1, <1>3, <1>10
    <3>3. Rounds(r + 1)'
      BY <3>1, <3>2, <2>1, <1>8, <1>1 DEF Rounds
    <3>4. r + 1 \in 0 .. given'
      BY <1>4, <1>1, <1>3
    <3>5. QED
      BY <3>3, <3>4
  <2>2. CASE pipe # forks
    <3>1. given' = r * forks + ((pipe + 1) - 1)
      BY <1>1, <1>3, <1>5
    <3>2. \A p \in 1 .. forks : Len(input'[p]) = IF p < pipe + 1 THEN r + 1 ELSE r
      BY <1>3, <1>10
    <3>3. Rounds(r)'
      BY <3>1, <3>2, <2>2, <1>8, <1>1 DEF Rounds
    <3>4. r \in 0 .. given'
      BY <1>4, <1>1, <1>3
    <3>5. QED
      BY <3>3, <3>4
  <2>3. QED
    BY <2>1, <2>2
<1>12. ASSUME NEW p \in 1 .. forks
       PROVE  /\ Cardinality(Dealt(p)') = Len(input'[p])
              /\ \A i \in 1 .. Len(input'[p]) : input'[p][i] = (i - 1) * forks + p
  <2>0. /\ Cardinality(Dealt(p)) = Len(input[p])
        /\ \A i \in 1 .. Len(input[p]) : input[p][i] = (i - 1) * forks + p
    BY DEF PipeInv
  <2>1. Dealt(p)' = {v \in 1 .. given + 1 : (v - 1) % forks = p - 1}
    BY <1>1 DEF Dealt
  <2>2. (given + 1) - 1 = given
    BY <1>3
  <2>3. CASE p = pipe
    <3>1. Dealt(p)' = Dealt(p) \cup {given + 1}
      BY <2>1, <2>2, <2>3, <1>3, <1>5 DEF Dealt
    <3>2. given + 1 \notin Dealt(p) /\ Dealt(p) \in SUBSET (1 .. given)
      BY <1>3 DEF Dealt
    <3>3. IsFiniteSet(Dealt(p))
      BY <3>2, <1>3, DealtFinite
    <3>4. Cardinality(Dealt(p)') = Cardinality(Dealt(p)) + 1
      BY <3>1, <3>2, <3>3, FS_AddElement
    <3>5. input[p] \in Seq(Nat) /\ Len(input[p]) = r /\ input'[p] = Append(input[p], given + 1)
      BY <2>3, <1>2, <1>3, <1>7, <1>9
    <3>6. given + 1 = ((r + 1) - 1) * forks + p
      BY <2>3, <1>3, <1>5
    <3>7. Len(input'[p]) = r + 1 /\ input'[p][r + 1] = given + 1
          /\ \A i \in 1 .. r : input'[p][i] = input[p][i]
      BY <3>5, <1>3, AppendOne
    <3>8. \A i \in 1 .. r + 1 : i = r + 1 \/ i \in 1 .. r
      BY <1>5
    <3>9. QED
      BY <2>0, <3>4, <3>5, <3>6, <3>7, <3>8
  <2>4. CASE p # pipe
    <3>1. given % forks # p - 1
      BY <2>4, <1>3, <1>5
    <3>2. Dealt(p)' = Dealt(p)
      BY <2>1, <2>2, <3>1, <1>3, SMTT(30) DEF Dealt
    <3>3. QED
      BY <2>0, <2>4, <3>2, <1>7
  <2>5. QED
    BY <2>3, <2>4
<1>13. input' \in [Piped!Pid -> Seq(Nat)] /\ pipe' \in Piped!Pid
  BY <1>3, <1>7, <1>8, <1>2 DEF Piped!Pid
<1>14. phase' # "forking" /\ pipe' <= forks'
  BY <1>1, <1>3, <1>8
<1>15. \A p \in 1 .. forks' :
         /\ Cardinality(Dealt(p)') = Len(input'[p])
         /\ \A i \in 1 .. Len(input'[p]) : input'[p][i] = (i - 1) * forks' + p
  BY <1>1, <1>12
<1>16. QED
  BY <1>6, <1>11, <1>13, <1>14, <1>15 DEF PipeInv

(* What a step leaves of the types, with pipes and without.                   *)
LEMMA PipedStep ==
  ASSUME PipeInv, Piped!Next
  PROVE  PipeInv'
<1>0. /\ MaxForks \in Nat \ {0} /\ NValues \in Nat /\ Piped!TypeOK
  BY ComponentAssumptions DEF PipeInv, Piped!ProcessBounds
<1>1. CASE Piped!Fork
  <2>1. Piped!TypeOK'
    BY <1>0, <1>1 DEF Piped!Fork, Piped!TypeOK, Piped!Pid, Piped!Inherited
  <2>2. QED
    BY <2>1, <1>1, ForkStep DEF Piped!Fork
<1>2. CASE Piped!ForkFailed
  <2>1. Piped!TypeOK'
    BY <1>0, <1>2 DEF Piped!ForkFailed, Piped!TypeOK, Piped!Pid, Piped!FAILED
  <2>2. QED
    BY <2>1, <1>2, ForkStep DEF Piped!ForkFailed
<1>3. CASE Piped!Forked
  <2>1. Piped!TypeOK'
    BY <1>0, <1>3 DEF Piped!Forked, Piped!TypeOK
  <2>2. QED
    BY <2>1, <1>3, NothingDealt DEF Piped!Forked
<1>4. CASE Piped!Distribute
  BY <1>4, DistributeStep
<1>5. CASE Piped!DistributeFails \/ Piped!Distributed
  <2>1. Piped!TypeOK'
    BY <1>0, <1>5 DEF Piped!DistributeFails, Piped!Distributed, Piped!TypeOK, Piped!Pid
  <2>2. QED
    BY <2>1, <1>5, NothingDealt DEF Piped!DistributeFails, Piped!Distributed
<1>6. CASE Piped!Wait \/ Piped!WaitReturns
  <2>1. Piped!TypeOK'
    BY <1>0, <1>6 DEF Piped!Wait, Piped!WaitReturns, Piped!TypeOK
  <2>2. QED
    BY <2>1, <1>6, NothingDealt DEF Piped!Wait, Piped!WaitReturns
<1>7. ASSUME NEW p \in Piped!Pid, Piped!Reap(p) PROVE PipeInv'
  <2>1. Piped!TypeOK'
    BY <1>0, <1>7 DEF Piped!Reap, Piped!TypeOK
  <2>2. QED
    BY <2>1, <1>7, NothingDealt DEF Piped!Reap
<1>8. ASSUME NEW p \in Piped!Pid, Piped!End(p) PROVE PipeInv'
  <2>1. Piped!TypeOK'
    BY <1>0, <1>8 DEF Piped!End, Piped!TypeOK, Piped!Pid
  <2>2. QED
    BY <2>1, <1>8, NothingDealt DEF Piped!End
<1>9. QED
  BY <1>1, <1>2, <1>3, <1>4, <1>5, <1>6, <1>7, <1>8 DEF Piped!Next

(* Without pipes nothing is dealt, and every other step is one with pipes but *)
(* for the forks and their end.                                               *)
LEMMA ForksStep ==
  ASSUME PipeInv, Forks!Next
  PROVE  PipeInv'
<1>0. /\ MaxForks \in Nat \ {0} /\ NValues \in Nat /\ Piped!TypeOK
      /\ Forks!Pid = Piped!Pid
  BY ComponentAssumptions DEF PipeInv, Piped!ProcessBounds, Forks!Pid, Piped!Pid
<1>1. CASE Forks!Fork \/ Forks!ForkFailed
  <2>1. Piped!TypeOK'
    <3>1. CASE Forks!Fork
      BY <1>0, <3>1 DEF Forks!Fork, Piped!TypeOK, Piped!Pid
    <3>2. CASE Forks!ForkFailed
      BY <1>0, <3>2 DEF Forks!ForkFailed, Piped!TypeOK, Piped!Pid, Piped!FAILED, Forks!FAILED
    <3>3. QED
      BY <1>1, <3>1, <3>2
  <2>2. QED
    BY <2>1, <1>1, ForkStep DEF Forks!Fork, Forks!ForkFailed
<1>2. CASE Forks!Forked
  <2>1. Piped!TypeOK'
    BY <1>0, <1>2 DEF Forks!Forked, Piped!TypeOK
  <2>2. QED
    BY <2>1, <1>2, NothingDealt DEF Forks!Forked
<1>3. ~Forks!Distribute /\ ~Forks!DistributeFails
  BY <1>0 DEF Forks!Distribute, Forks!DistributeFails, Piped!TypeOK
<1>4. CASE Forks!Distributed
  <2>1. Piped!TypeOK'
    BY <1>0, <1>4 DEF Forks!Distributed, Piped!TypeOK, Piped!Pid, Forks!Pid
  <2>2. QED
    BY <2>1, <1>4, NothingDealt DEF Forks!Distributed
<1>5. CASE Forks!Wait \/ Forks!WaitReturns
  BY <1>5, PipedStep DEF Forks!Wait, Forks!WaitReturns, Piped!Wait, Piped!WaitReturns, Piped!Next
<1>6. ASSUME NEW p \in Forks!Pid, Forks!Reap(p) \/ Forks!End(p) PROVE PipeInv'
  <2>1. Piped!Reap(p) \/ Piped!End(p)
    BY <1>6, <1>0 DEF Forks!Reap, Forks!End, Piped!Reap, Piped!End
  <2>2. QED
    BY <2>1, <1>6, <1>0, PipedStep DEF Piped!Next
<1>7. QED
  BY <1>1, <1>2, <1>3, <1>4, <1>5, <1>6 DEF Forks!Next

LEMMA PipeStep ==
  ASSUME PipeInv, [Next]_vars
  PROVE  PipeInv'
<1>1. CASE UNCHANGED processVars
  <2>1. Piped!TypeOK'
    BY <1>1 DEF PipeInv, Piped!TypeOK, processVars
  <2>2. QED
    BY <2>1, <1>1, NothingDealt DEF processVars
<1>2. QED
  BY <1>1, PipedStep, ForksStep DEF Next, vars

-----------------------------------------------------------------------------
(* CacheLoad: a loader reads a file, or has read it to its end.               *)
Reads(l, e) == Load!Now(l) = e /\ line[l] >= 1
HasRead(l, e) ==
  \E i \in 1 .. Len(Order[l]) :
    /\ Order[l][i] = e
    /\ i < turn[l] \/ (i = turn[l] /\ load_status[l] = "loaded")

(* The records of the first n lines are in the cache, or their keys are.      *)
InCache(e, r) == IF e \in Unique THEN \E q \in cache[e] : q.key = r.key ELSE r \in cache[e]
Covered(e, n) ==
  \A i \in 1 .. n : i <= Len(source[e]) /\ source[e][i].kind = "record" => InCache(e, source[e][i].rec)

(* What the last loader to clear a cache has read since is in the cache.      *)
Keeps(l, e) ==
  \/ Reads(l, e) /\ Covered(e, line[l] - 1)
  \/ ~Reads(l, e) /\ HasRead(l, e) /\ Covered(e, Len(source[e]))
LastLoader ==
  \A e \in Load!Entity :
    (\E l \in Loaders : Reads(l, e) \/ HasRead(l, e)) => \E l \in Loaders : Keeps(l, e)

LoadTypes ==
  /\ source \in Sources
  /\ cache \in [Load!Entity -> SUBSET [key : Nat, val : Nat]]
  /\ turn \in [Loaders -> Nat] /\ line \in [Loaders -> Nat]
  /\ \A l \in Loaders : turn[l] \in 1 .. Len(Order[l])
  /\ value \in [Loaders -> [key : Nat, val : Nat]]
  /\ load_status \in [Loaders -> {"loading", "loaded", "threw"}]
  /\ stage \in 0 .. 3 /\ user \in BOOLEAN

(* The value at hand comes from the file, once a line was read.               *)
ValueGiven ==
  \A l \in Loaders : load_status[l] = "loading" =>
    /\ line[l] = 1 => value[l] = Load!Default
    /\ line[l] > 1 => value[l] \in Load!Given(Load!Now(l))

LoadedAll == \A l \in Loaders : load_status[l] = "loaded" => turn[l] = Len(Order[l]) /\ line[l] = 0

Matching ==
  /\ Load!MatchesComeFromTheFiles
  /\ stage = 0 => user /\ found = {Request}

LoadInv ==
  /\ LoadTypes /\ Load!OnlyRecordsOfTheFile /\ ValueGiven /\ LoadedAll
  /\ LastLoader /\ Matching


LEMMA LoadFacts ==
  ASSUME LoadTypes
  PROVE  /\ \A e \in Load!Entity : source[e] \in Seq(Load!Line) /\ Len(source[e]) \in Nat
         /\ \A l \in Loaders : /\ Order[l] \in Seq(Load!Entity) /\ Len(Order[l]) \in Nat
                              /\ turn[l] \in Nat /\ turn[l] >= 1 /\ turn[l] <= Len(Order[l])
                              /\ Load!Now(l) \in Load!Entity
         /\ Request \in Nat /\ Load!Default \in [key : Nat, val : Nat]
<1>1. /\ Sources \subseteq [Load!Entity -> Seq(Load!Line)] /\ Request \in Nat
      /\ Order \in [Loaders -> Seq(Load!Entity)]
  BY ComponentAssumptions DEF Load!LoadAssumption
<1>2. \A e \in Load!Entity : source[e] \in Seq(Load!Line) /\ Len(source[e]) \in Nat
  BY <1>1 DEF LoadTypes
<1>3. \A l \in Loaders : /\ Order[l] \in Seq(Load!Entity) /\ Len(Order[l]) \in Nat
                        /\ turn[l] \in Nat /\ turn[l] >= 1 /\ turn[l] <= Len(Order[l])
  BY <1>1 DEF LoadTypes
<1>4. \A l \in Loaders : Load!Now(l) \in Load!Entity
  BY <1>3 DEF Load!Now
<1>5. QED
  BY <1>1, <1>2, <1>3, <1>4 DEF Load!Default

LEMMA LoadInit == Init => LoadInv
<1> SUFFICES ASSUME Init PROVE LoadInv
  OBVIOUS
<1>1. /\ source \in Sources /\ cache = [e \in Load!Entity |-> {}]
      /\ turn = [l \in Loaders |-> 1] /\ line = [l \in Loaders |-> 0]
      /\ value = [l \in Loaders |-> Load!Default]
      /\ load_status = [l \in Loaders |-> "loading"]
      /\ stage = 0 /\ user = TRUE /\ found = {Request}
  BY DEF Init, Load!Init
<1>2. \A l \in Loaders : 1 <= Len(Order[l]) /\ Len(Order[l]) \in Nat
  <2>1. Order \in [Loaders -> Seq(Load!Entity) \ {<<>>}]
    BY ComponentAssumptions DEF Load!LoadAssumption
  <2>2. QED
    BY <2>1, EmptySeq
<1>3. LoadTypes
  BY <1>1, <1>2 DEF LoadTypes, Load!Default
<1>4. Load!OnlyRecordsOfTheFile /\ ValueGiven /\ LoadedAll /\ Matching
  BY <1>1 DEF Load!OnlyRecordsOfTheFile, ValueGiven, LoadedAll, Matching, Load!MatchesComeFromTheFiles
<1>5. \A l \in Loaders, e \in Load!Entity : ~Reads(l, e) /\ ~HasRead(l, e)
  BY <1>1, <1>2 DEF Reads, HasRead
<1>6. LastLoader
  BY <1>5 DEF LastLoader
<1>7. QED
  BY <1>3, <1>4, <1>6 DEF LoadInv

(* What is covered stays so while the cache grows.                            *)
LEMMA CoveredGrows ==
  ASSUME NEW e, NEW n, source' = source, cache[e] \subseteq cache'[e], Covered(e, n)
  PROVE  Covered(e, n)'
BY DEF Covered, InCache

(* A step leaves what a loader that rests has done for a cache that only grows. *)
LEMMA StillKept ==
  ASSUME NEW e \in Load!Entity, NEW l \in Loaders, source' = source,
         turn'[l] = turn[l], line'[l] = line[l], load_status'[l] = load_status[l],
         cache[e] \subseteq cache'[e]
  PROVE  /\ Reads(l, e)' = Reads(l, e) /\ HasRead(l, e)' = HasRead(l, e)
         /\ Keeps(l, e) => Keeps(l, e)'
<1>1. Reads(l, e)' = Reads(l, e) /\ HasRead(l, e)' = HasRead(l, e)
  BY DEF Reads, HasRead, Load!Now
<1>2. ASSUME NEW n, Covered(e, n) PROVE Covered(e, n)'
  BY <1>2, CoveredGrows
<1>3. QED
  BY <1>1, <1>2 DEF Keeps

(* So does a step of a loader for what the bidder has found.                  *)
LEMMA StillMatching ==
  ASSUME Matching, UNCHANGED <<source, stage, user, found>>
  PROVE  Matching'
<1>1. \A e : Load!Given(e)' = Load!Given(e)
  BY DEF Load!Given, Load!Records
<1>2. Load!Places' = Load!Places /\ Load!Campaigns' = Load!Campaigns
      /\ Load!Join(Load!Campaigns, "ad")' = Load!Join(Load!Campaigns, "ad")
  BY <1>1 DEF Load!Places, Load!Campaigns, Load!Join
<1>3. QED
  BY <1>2 DEF Matching, Load!MatchesComeFromTheFiles

(* The files stay as they are, and so does what they give.                    *)
LEMMA GivesStay ==
  ASSUME UNCHANGED <<source, turn>>
  PROVE  /\ \A e \in Load!Entity : Load!Given(e)' = Load!Given(e)
         /\ \A m \in Loaders : Load!Given(Load!Now(m))' = Load!Given(Load!Now(m))
BY DEF Load!Given, Load!Records, Load!Now

LEMMA StillThrown ==
  ASSUME LoadInv, NEW l \in Loaders, UNCHANGED <<source, turn, cache, line, value>>,
         load_status' = [load_status EXCEPT ![l] = "threw"]
  PROVE  Load!OnlyRecordsOfTheFile' /\ ValueGiven' /\ LoadedAll'
<1>1. Load!OnlyRecordsOfTheFile'
  BY GivesStay DEF LoadInv, Load!OnlyRecordsOfTheFile
<1>2. \A m \in Loaders : load_status'[m] # "threw" => load_status'[m] = load_status[m]
  BY DEF LoadInv, LoadTypes
<1>3. ValueGiven'
  BY <1>2, GivesStay DEF LoadInv, ValueGiven
<1>4. LoadedAll'
  BY <1>2 DEF LoadInv, LoadedAll
<1>5. QED
  BY <1>1, <1>3, <1>4

LEMMA OpenStep ==
  ASSUME LoadInv, NEW l \in Loaders, Load!Open(l)
  PROVE  LoadInv'
<1> PICK e \in Load!Entity : e = Load!Now(l)
  BY LoadFacts DEF LoadInv
<1>0. /\ LoadTypes /\ load_status[l] = "loading" /\ line[l] = 0
      /\ UNCHANGED <<source, turn, stage, user, found>>
  BY DEF LoadInv, Load!Open
<1>1. Matching'
  BY <1>0, StillMatching DEF LoadInv
<1>2. CASE source[e] = <<>>
  <2>1. load_status' = [load_status EXCEPT ![l] = "threw"] /\ UNCHANGED <<cache, line, value>>
    BY <1>2 DEF Load!Open
  <2>2. LoadTypes'
    BY <1>0, <2>1 DEF LoadTypes
  <2>3. Load!OnlyRecordsOfTheFile' /\ ValueGiven' /\ LoadedAll'
    BY <1>0, <2>1, StillThrown
  <2>4. ASSUME NEW m \in Loaders, NEW d \in Load!Entity
        PROVE  /\ Reads(m, d)' = Reads(m, d) /\ HasRead(m, d)' = HasRead(m, d)
               /\ Keeps(m, d) => Keeps(m, d)'
    <3>1. Reads(m, d)' = Reads(m, d) /\ HasRead(m, d)' = HasRead(m, d)
      BY <1>0, <2>1 DEF Reads, HasRead, Load!Now, LoadTypes
    <3>2. QED
      BY <1>0, <2>1, <3>1 DEF Keeps, Covered, InCache
  <2>5. LastLoader'
    BY <2>4 DEF LoadInv, LastLoader
  <2>6. QED
    BY <1>1, <2>2, <2>3, <2>5 DEF LoadInv
<1>3. CASE source[e] # <<>>
  <2>1. /\ cache' = [cache EXCEPT ![e] = {}] /\ line' = [line EXCEPT ![l] = 1]
        /\ value' = [value EXCEPT ![l] = Load!Default] /\ load_status' = load_status
    BY <1>3 DEF Load!Open
  <2>2. LoadTypes'
    BY <1>0, <2>1, LoadFacts DEF LoadTypes
  <2>3. Load!OnlyRecordsOfTheFile' /\ LoadedAll'
    BY <1>0, <2>1 DEF LoadInv, LoadTypes, Load!OnlyRecordsOfTheFile, LoadedAll, Load!Given, Load!Records
  <2>4. ValueGiven'
    <3> SUFFICES ASSUME NEW m \in Loaders, load_status'[m] = "loading"
                 PROVE  /\ line'[m] = 1 => value'[m] = Load!Default
                        /\ line'[m] > 1 => value'[m] \in Load!Given(Load!Now(m))'
      BY DEF ValueGiven
    <3>1. Load!Given(Load!Now(m))' = Load!Given(Load!Now(m))
      BY <1>0, GivesStay
    <3>2. CASE m = l
      BY <3>2, <1>0, <2>1 DEF LoadTypes
    <3>3. CASE m # l
      BY <3>1, <3>3, <1>0, <2>1 DEF LoadInv, LoadTypes, ValueGiven
    <3>4. QED
      BY <3>2, <3>3
  <2>5. ASSUME NEW d \in Load!Entity, d # e,
               (\E m \in Loaders : Reads(m, d) \/ HasRead(m, d))'
        PROVE  (\E m \in Loaders : Keeps(m, d))'
    <3>1. ASSUME NEW m \in Loaders
          PROVE  /\ Reads(m, d)' = Reads(m, d) /\ HasRead(m, d)' = HasRead(m, d)
                 /\ Keeps(m, d) => Keeps(m, d)'
      <4>1. cache'[d] = cache[d]
        BY <1>0, <2>1, <2>5 DEF LoadTypes
      <4>2. CASE m # l
        <5>1. turn'[m] = turn[m] /\ line'[m] = line[m] /\ load_status'[m] = load_status[m]
          BY <1>0, <2>1, <4>2 DEF LoadTypes
        <5>2. QED
          BY <5>1, <4>1, <1>0, StillKept
      <4>3. CASE m = l
        <5>1. /\ ~Reads(m, d) /\ ~Reads(m, d)' /\ Reads(m, d)' = Reads(m, d)
              /\ HasRead(m, d)' = HasRead(m, d)
          BY <1>0, <2>1, <2>5, <4>3 DEF Reads, HasRead, Load!Now, LoadTypes
        <5>2. Covered(d, Len(source[d])) => Covered(d, Len(source[d]))'
          BY <1>0, <4>1 DEF Covered, InCache
        <5>3. QED
          BY <5>1, <5>2, <1>0 DEF Keeps, Covered
      <4>4. QED
        BY <4>2, <4>3
    <3>2. QED
      BY <2>5, <3>1 DEF LoadInv, LastLoader
  <2>6. Keeps(l, e)'
    <3>1. line'[l] = 1 /\ Load!Now(l)' = e
      BY <1>0, <2>1 DEF LoadTypes, Load!Now
    <3>2. QED
      BY <3>1 DEF Keeps, Reads, Covered
  <2>7. LastLoader'
    BY <2>5, <2>6 DEF LastLoader
  <2>8. QED
    BY <1>1, <2>2, <2>3, <2>4, <2>7 DEF LoadInv
<1>4. QED
  BY <1>2, <1>3

LEMMA ReadStep ==
  ASSUME LoadInv, NEW l \in Loaders, Load!Read(l)
  PROVE  LoadInv'
<1> PICK e \in Load!Entity : e = Load!Now(l)
  BY LoadFacts DEF LoadInv
<1> PICK k, ln : k = line[l] /\ ln = source[e][k]
  OBVIOUS
<1>0. /\ LoadTypes /\ load_status[l] = "loading" /\ line[l] \in 1 .. Len(source[e])
      /\ UNCHANGED <<source, turn, stage, user, found>>
      /\ source[e] \in Seq(Load!Line) /\ Len(source[e]) \in Nat
  BY LoadFacts DEF LoadInv, Load!Read
<1>1. Matching'
  BY <1>0, StillMatching DEF LoadInv
<1>2. CASE ln.kind = "throws"
  <2>1. load_status' = [load_status EXCEPT ![l] = "threw"] /\ UNCHANGED <<cache, line, value>>
    BY <1>2 DEF Load!Read
  <2>2. LoadTypes'
    BY <1>0, <2>1 DEF LoadTypes
  <2>3. Load!OnlyRecordsOfTheFile' /\ ValueGiven' /\ LoadedAll'
    BY <1>0, <2>1, StillThrown
  <2>4. ASSUME NEW m \in Loaders, NEW d \in Load!Entity
        PROVE  /\ Reads(m, d)' = Reads(m, d) /\ HasRead(m, d)' = HasRead(m, d)
               /\ Keeps(m, d) => Keeps(m, d)'
    <3>1. Reads(m, d)' = Reads(m, d) /\ HasRead(m, d)' = HasRead(m, d)
      BY <1>0, <2>1 DEF Reads, HasRead, Load!Now, LoadTypes
    <3>2. QED
      BY <1>0, <2>1, <3>1 DEF Keeps, Covered, InCache
  <2>5. LastLoader'
    BY <2>4 DEF LoadInv, LastLoader
  <2>6. QED
    BY <1>1, <2>2, <2>3, <2>5 DEF LoadInv
<1>3. CASE ln.kind # "throws"
  <2> PICK v : v = Load!Parse(value[l], ln)
    OBVIOUS
  <2>1. /\ value' = [value EXCEPT ![l] = v] /\ line' = [line EXCEPT ![l] = @ + 1]
        /\ cache' = [cache EXCEPT ![e] = Load!Insert(e, v)] /\ load_status' = load_status
    BY <1>0, <1>3 DEF Load!Read, LoadTypes
  <2>2. ln \in Load!Line /\ (ln.kind = "record" \/ ln.kind = "short")
    <3>1. ln \in Load!Line
      BY <1>0
    <3>2. ln.kind \in {"record", "short", "throws"}
      BY <3>1 DEF Load!Line
    <3>3. QED
      BY <3>1, <3>2, <1>3
  <2>3. v \in Load!Given(e) /\ v \in [key : Nat, val : Nat]
    <3>1. CASE ln.kind = "record"
      <4>1. v = ln.rec
        BY <3>1 DEF Load!Parse
      <4>2. QED
        BY <4>1, <3>1, <2>2, <1>0 DEF Load!Line, Load!Given, Load!Records
    <3>2. CASE ln.kind = "short"
      <4>1. v = value[l]
        BY <3>2 DEF Load!Parse
      <4>2. v \in [key : Nat, val : Nat]
        BY <4>1, <1>0 DEF LoadTypes
      <4>3. CASE line[l] = 1
        <5>1. v = Load!Default /\ source[e] # <<>> /\ source[e][1].kind = "short"
          BY <4>1, <4>3, <3>2, <1>0 DEF LoadInv, ValueGiven
        <5>2. QED
          BY <5>1, <4>2 DEF Load!Given
      <4>4. CASE line[l] # 1
        BY <4>1, <4>2, <4>4, <1>0 DEF LoadInv, ValueGiven
      <4>5. QED
        BY <4>3, <4>4
    <3>3. QED
      BY <2>2, <3>1, <3>2
  <2>4. /\ cache[e] \subseteq Load!Insert(e, v) /\ Load!Insert(e, v) \subseteq cache[e] \cup {v}
        /\ IF e \in Unique THEN \E q \in Load!Insert(e, v) : q.key = v.key ELSE v \in Load!Insert(e, v)
    BY DEF Load!Insert
  <2>5. LoadTypes'
    BY <1>0, <2>1, <2>3, <2>4, SMTT(30) DEF LoadTypes
  <2>6. Load!OnlyRecordsOfTheFile' /\ LoadedAll'
    <3>1. \A d \in Load!Entity : Load!Given(d)' = Load!Given(d)
      BY <1>0 DEF Load!Given, Load!Records
    <3>2. \A d \in Load!Entity : cache'[d] = IF d = e THEN Load!Insert(e, v) ELSE cache[d]
      BY <1>0, <2>1 DEF LoadTypes
    <3>3. \A d \in Load!Entity : cache[d] \subseteq Load!Given(d)
      BY DEF LoadInv, Load!OnlyRecordsOfTheFile
    <3>4. Load!OnlyRecordsOfTheFile'
      BY <3>1, <3>2, <3>3, <2>3, <2>4 DEF Load!OnlyRecordsOfTheFile
    <3>5. LoadedAll'
      BY <1>0, <2>1 DEF LoadInv, LoadTypes, LoadedAll
    <3>6. QED
      BY <3>4, <3>5
  <2>7. ValueGiven'
    <3>1. Load!Given(e)' = Load!Given(e) /\ Load!Now(l)' = Load!Now(l)
          /\ line'[l] # 1 /\ value'[l] = v
      BY <1>0, <2>1 DEF Load!Given, Load!Records, Load!Now, LoadTypes
    <3>2. \A m \in Loaders : m # l => /\ line'[m] = line[m] /\ value'[m] = value[m]
                                     /\ load_status'[m] = load_status[m]
                                     /\ Load!Now(m)' = Load!Now(m)
                                     /\ Load!Given(Load!Now(m))' = Load!Given(Load!Now(m))
      BY <1>0, <2>1 DEF Load!Given, Load!Records, Load!Now, LoadTypes
    <3>3. Load!Given(Load!Now(l))' = Load!Given(e)
      BY <1>0 DEF Load!Given, Load!Records, Load!Now
    <3>4. QED
      BY <3>1, <3>2, <3>3, <2>3 DEF LoadInv, ValueGiven
  <2>8. ASSUME NEW m \in Loaders, NEW d \in Load!Entity
        PROVE  /\ Reads(m, d)' = Reads(m, d) /\ HasRead(m, d)' = HasRead(m, d)
               /\ Keeps(m, d) => Keeps(m, d)'
    <3>1. cache[d] \subseteq cache'[d]
      BY <1>0, <2>1, <2>4 DEF LoadTypes
    <3>2. CASE m # l
      <4>1. turn'[m] = turn[m] /\ line'[m] = line[m] /\ load_status'[m] = load_status[m]
        BY <1>0, <2>1, <3>2 DEF LoadTypes
      <4>2. QED
        BY <4>1, <3>1, <1>0, StillKept
    <3>3. CASE m = l
      <4>1. /\ Reads(l, d)' = Reads(l, d) /\ HasRead(l, d)' = HasRead(l, d)
            /\ Reads(l, d) <=> d = e
        BY <1>0, <2>1 DEF Reads, HasRead, Load!Now, LoadTypes
      <4>2. ASSUME NEW n, Covered(d, n) PROVE Covered(d, n)'
        BY <4>2, <1>0, <3>1, CoveredGrows
      <4>3. ASSUME d = e, Covered(e, k - 1) PROVE Covered(e, k)'
        <5>1. Covered(e, k - 1)'
          BY <4>2, <4>3, <1>0
        <5>2. ln.kind = "record" => InCache(e, ln.rec)'
          <6>1. SUFFICES ASSUME ln.kind = "record" PROVE InCache(e, ln.rec)'
            OBVIOUS
          <6>2. v = ln.rec /\ cache'[e] = Load!Insert(e, v)
            BY <6>1, <1>0, <2>1 DEF Load!Parse, LoadTypes
          <6>3. QED
            BY <6>2, <2>4 DEF InCache
        <5>3. source'[e][k] = ln /\ \A i \in 1 .. k : i \in 1 .. k - 1 \/ i = k
          BY <1>0
        <5>4. QED
          BY <5>1, <5>2, <5>3 DEF Covered
      <4>4. line'[l] - 1 = k
        BY <1>0, <2>1 DEF LoadTypes
      <4>5. source'[d] = source[d]
        BY <1>0
      <4>6. CASE Reads(l, d)
        BY <4>1, <4>3, <4>4, <4>6, <3>3 DEF Keeps
      <4>7. CASE ~Reads(l, d)
        BY <4>1, <4>2, <4>5, <4>7, <3>3 DEF Keeps
      <4>8. QED
        BY <4>6, <4>7
    <3>4. QED
      BY <3>2, <3>3
  <2>9. LastLoader'
    BY <2>8 DEF LoadInv, LastLoader
  <2>10. QED
    BY <1>1, <2>5, <2>6, <2>7, <2>9 DEF LoadInv
<1>4. QED
  BY <1>2, <1>3

LEMMA EndOfFileStep ==
  ASSUME LoadInv, NEW l \in Loaders, Load!EndOfFile(l)
  PROVE  LoadInv'
<1> PICK e \in Load!Entity : e = Load!Now(l)
  BY LoadFacts DEF LoadInv
<1>0. /\ LoadTypes /\ load_status[l] = "loading" /\ line[l] > Len(source[e])
      /\ line' = [line EXCEPT ![l] = 0]
      /\ UNCHANGED <<source, cache, value, stage, user, found>>
      /\ source[e] \in Seq(Load!Line) /\ Len(source[e]) \in Nat
      /\ turn[l] \in Nat /\ Len(Order[l]) \in Nat /\ turn[l] >= 1 /\ turn[l] <= Len(Order[l])
      /\ line[l] \in Nat
  BY LoadFacts DEF LoadInv, Load!EndOfFile, LoadTypes
<1>1. Matching'
  BY <1>0, StillMatching DEF LoadInv
<1>2. \/ /\ turn[l] = Len(Order[l]) /\ turn' = turn
         /\ load_status' = [load_status EXCEPT ![l] = "loaded"]
      \/ /\ turn[l] # Len(Order[l]) /\ load_status' = load_status
         /\ turn' = [turn EXCEPT ![l] = @ + 1]
  BY DEF Load!EndOfFile
<1>3. LoadTypes'
  <2>1. CASE turn[l] = Len(Order[l])
    BY <1>0, <1>2, <2>1 DEF LoadTypes
  <2>2. CASE turn[l] # Len(Order[l])
    <3>1. turn \in [Loaders -> Nat] /\ turn' = [turn EXCEPT ![l] = @ + 1]
      BY <1>0, <1>2, <2>2 DEF LoadTypes
    <3>2. turn' \in [Loaders -> Nat] /\ turn'[l] = turn[l] + 1
          /\ \A m \in Loaders : m # l => turn'[m] = turn[m]
      BY <3>1, <1>0
    <3>3. turn'[l] \in 1 .. Len(Order[l])
      BY <3>2, <2>2, <1>0
    <3>4. turn' \in [Loaders -> Nat] /\ \A m \in Loaders : turn'[m] \in 1 .. Len(Order[m])
      BY <3>2, <3>3, <1>0 DEF LoadTypes
    <3>5. /\ load_status' = load_status /\ line' \in [Loaders -> Nat]
          /\ source' = source /\ cache' = cache /\ value' = value
          /\ stage' = stage /\ user' = user
      BY <1>0, <1>2, <2>2 DEF LoadTypes
    <3>6. QED
      BY <3>4, <3>5, <1>0 DEF LoadTypes
  <2>3. QED
    BY <2>1, <2>2
<1>4. Load!OnlyRecordsOfTheFile' /\ LoadedAll'
  <2>1. Load!OnlyRecordsOfTheFile'
    BY <1>0 DEF LoadInv, Load!OnlyRecordsOfTheFile, Load!Given, Load!Records
  <2>2. LoadedAll'
    BY <1>0, <1>2 DEF LoadInv, LoadTypes, LoadedAll
  <2>3. QED
    BY <2>1, <2>2
<1>5. ValueGiven'
  <2>1. ASSUME NEW m \in Loaders, m # l
        PROVE  /\ line'[m] = line[m] /\ value'[m] = value[m]
               /\ load_status'[m] = load_status[m] /\ turn'[m] = turn[m]
    BY <2>1, <1>0, <1>2 DEF LoadTypes
  <2>2. \A m \in Loaders : m # l => Load!Given(Load!Now(m))' = Load!Given(Load!Now(m))
    <3>1. \A d : Load!Given(d)' = Load!Given(d)
      BY <1>0 DEF Load!Given, Load!Records
    <3>2. \A m \in Loaders : m # l => Load!Now(m)' = Load!Now(m)
      BY <2>1 DEF Load!Now
    <3>3. QED
      BY <3>1, <3>2, <1>0 DEF Load!Given, Load!Records
  <2>3. line'[l] = 0
    BY <1>0 DEF LoadTypes
  <2>4. QED
    BY <2>1, <2>2, <2>3 DEF LoadInv, ValueGiven
<1>6. ASSUME NEW m \in Loaders, NEW d \in Load!Entity
      PROVE  /\ Reads(m, d) \/ HasRead(m, d) <=> Reads(m, d)' \/ HasRead(m, d)'
             /\ Keeps(m, d) => Keeps(m, d)'
  <2>1. CASE m # l
    <3>1. turn'[m] = turn[m] /\ line'[m] = line[m] /\ load_status'[m] = load_status[m]
      BY <1>0, <1>2, <2>1 DEF LoadTypes
    <3>2. source' = source /\ cache[d] \subseteq cache'[d]
      BY <1>0
    <3>3. /\ Reads(m, d)' = Reads(m, d) /\ HasRead(m, d)' = HasRead(m, d)
          /\ Keeps(m, d) => Keeps(m, d)'
      BY <3>1, <3>2, StillKept
    <3>4. QED
      BY <3>3
  <2>2. CASE m = l
    <3>1. /\ ~Reads(l, d)' /\ (Reads(l, d) <=> d = e)
      BY <1>0 DEF Reads, LoadTypes
    <3>2. \A i \in 1 .. Len(Order[l]) :
            (i < turn[l] \/ (i = turn[l] /\ load_status[l] = "loaded")) <=> i < turn[l]
      BY <1>0
    <3>3. \A i \in 1 .. Len(Order[l]) :
            (i < turn'[l] \/ (i = turn'[l] /\ load_status'[l] = "loaded")) <=> i <= turn[l]
      BY <1>0, <1>2 DEF LoadTypes
    <3>4. HasRead(l, d) <=> \E i \in 1 .. Len(Order[l]) : Order[l][i] = d /\ i < turn[l]
      BY <3>2 DEF HasRead
    <3>5. HasRead(l, d)' <=> \E i \in 1 .. Len(Order[l]) : Order[l][i] = d /\ i <= turn[l]
      BY <3>3 DEF HasRead
    <3>6. Order[l][turn[l]] = e /\ turn[l] \in 1 .. Len(Order[l])
      BY <1>0 DEF Load!Now
    <3>7. HasRead(l, d)' <=> HasRead(l, d) \/ d = e
      BY <3>4, <3>5, <3>6, <1>0
    <3>8. ASSUME NEW n, Covered(d, n) PROVE Covered(d, n)'
      <4>1. source' = source /\ cache[d] \subseteq cache'[d]
        BY <1>0
      <4>2. QED
        BY <4>1, <3>8, CoveredGrows
    <3>9. ASSUME d = e, Covered(e, line[l] - 1) PROVE Covered(e, Len(source[e]))
      BY <3>9, <1>0 DEF Covered
    <3>10. source'[d] = source[d]
      BY <1>0
    <3>11. Keeps(l, d) => HasRead(l, d)' /\ Covered(d, Len(source[d]))
      BY <3>1, <3>7, <3>9 DEF Keeps
    <3>12. Keeps(l, d) => Keeps(l, d)'
      <4>1. SUFFICES ASSUME Keeps(l, d) PROVE Keeps(l, d)'
        OBVIOUS
      <4>2. HasRead(l, d)' /\ ~Reads(l, d)' /\ Covered(d, Len(source[d]))'
        BY <4>1, <3>1, <3>8, <3>10, <3>11
      <4>3. QED
        BY <4>2 DEF Keeps
    <3>13. QED
      BY <2>2, <3>1, <3>7, <3>12
  <2>3. QED
    BY <2>1, <2>2
<1>7. LastLoader'
  BY <1>6 DEF LoadInv, LastLoader
<1>8. QED
  BY <1>1, <1>3, <1>4, <1>5, <1>7 DEF LoadInv

(* The bidder's steps and those of other components.                          *)
LEMMA LoadersRest ==
  ASSUME LoadInv, UNCHANGED <<source, cache, turn, line, value, load_status>>,
         stage' \in 0 .. 3, user' \in BOOLEAN, Matching'
  PROVE  LoadInv'
<1>1. LoadTypes' /\ Load!OnlyRecordsOfTheFile' /\ LoadedAll'
  BY DEF LoadInv, LoadTypes, Load!OnlyRecordsOfTheFile, Load!Given, Load!Records, LoadedAll
<1>2. ValueGiven'
  BY DEF LoadInv, ValueGiven, Load!Given, Load!Records, Load!Now
<1>3. LastLoader'
  BY DEF LoadInv, LastLoader, Keeps, Reads, HasRead, Covered, InCache, Load!Now
<1>4. QED
  BY <1>1, <1>2, <1>3 DEF LoadInv

LEMMA MatchStep ==
  ASSUME LoadInv, Load!Match
  PROVE  LoadInv'
<1>1. /\ stage \in 0 .. 2 /\ stage' = stage + 1 /\ user \in BOOLEAN /\ user' = user
      /\ found' = Load!Retrieve(Load!Chain[stage + 1], found)
      /\ UNCHANGED <<source, cache, turn, line, value, load_status>>
  BY DEF LoadInv, LoadTypes, Load!Match
<1>2. ASSUME NEW e \in Load!Entity, NEW keys, NEW more, keys \subseteq more
      PROVE  Load!Retrieve(e, keys) \subseteq Load!Join(more, e)
  BY <1>2 DEF LoadInv, Load!OnlyRecordsOfTheFile, Load!Retrieve, Load!Join
<1>3. /\ Load!Places' = Load!Places /\ Load!Campaigns' = Load!Campaigns
      /\ Load!Join(Load!Campaigns, "ad")' = Load!Join(Load!Campaigns, "ad")
  BY <1>1 DEF Load!Places, Load!Campaigns, Load!Join, Load!Given, Load!Records
<1>4. CASE stage = 0
  <2>1. Load!Places = Load!Join({Request}, "geo") /\ found = {Request}
    BY <1>4 DEF LoadInv, Matching, Load!Places
  <2>2. found' \subseteq Load!Places
    BY <1>1, <1>2, <1>4, <2>1 DEF Load!Chain, Load!Entity
  <2>3. Matching'
    BY <1>1, <1>3, <1>4, <2>2 DEF Matching, Load!MatchesComeFromTheFiles
  <2>4. QED
    BY <1>1, <2>3, LoadersRest
<1>5. CASE stage = 1
  <2>1. found \subseteq Load!Places
    BY <1>5 DEF LoadInv, Matching, Load!MatchesComeFromTheFiles
  <2>2. found' \subseteq Load!Campaigns
    BY <1>1, <1>2, <1>5, <2>1 DEF Load!Chain, Load!Entity, Load!Campaigns
  <2>3. Matching'
    BY <1>1, <1>3, <1>5, <2>2 DEF Matching, Load!MatchesComeFromTheFiles
  <2>4. QED
    BY <1>1, <2>3, LoadersRest
<1>6. CASE stage = 2
  <2>1. found \subseteq Load!Campaigns
    BY <1>6 DEF LoadInv, Matching, Load!MatchesComeFromTheFiles
  <2>2. found' \subseteq Load!Join(Load!Campaigns, "ad")
    BY <1>1, <1>2, <1>6, <2>1 DEF Load!Chain, Load!Entity
  <2>3. Matching'
    BY <1>1, <1>3, <1>6, <2>2 DEF Matching, Load!MatchesComeFromTheFiles
  <2>4. QED
    BY <1>1, <2>3, LoadersRest
<1>7. QED
  BY <1>1, <1>4, <1>5, <1>6

LEMMA NextRequestStep ==
  ASSUME LoadInv, Load!NextRequest
  PROVE  LoadInv'
<1>1. /\ UNCHANGED <<source, cache, turn, line, value, load_status>>
      /\ \/ stage' = 0 /\ user' = TRUE /\ found' = {Request}
         \/ stage' = 1 /\ user' = FALSE /\ found' = {Load!Default.val}
  BY DEF Load!NextRequest
<1>2. Matching'
  BY <1>1 DEF Matching, Load!MatchesComeFromTheFiles, Load!Places
<1>3. stage' = 0 \/ stage' = 1
  BY <1>1
<1>4. stage' \in 0 .. 3
  BY <1>3
<1>5. user' \in BOOLEAN
  BY <1>1, Zenon
<1>6. QED
  BY <1>1, <1>2, <1>4, <1>5, LoadersRest

LEMMA LoadStep ==
  ASSUME LoadInv, [Next]_vars
  PROVE  LoadInv'
<1>1. CASE UNCHANGED loadVars
  <2>1. Matching'
    BY <1>1, StillMatching DEF LoadInv, loadVars
  <2>2. QED
    BY <1>1, <2>1, LoadersRest DEF LoadInv, LoadTypes, loadVars
<1>2. CASE Load!Next
  BY <1>2, MatchStep, NextRequestStep, OpenStep, ReadStep, EndOfFileStep DEF Load!Next
<1>3. QED
  BY <1>1, <1>2 DEF Next, vars

LEMMA LoadsDone ==
  ASSUME LoadInv
  PROVE  Load!LoadsComplete
<1> SUFFICES ASSUME \A l \in Loaders : load_status[l] = "loaded",
                    NEW e \in Load!Entity, NEW r \in Load!Records(e)
             PROVE  IF e \in Unique THEN \E q \in cache[e] : q.key = r.key ELSE r \in cache[e]
  BY DEF Load!LoadsComplete
<1>1. PICK l \in Loaders : \E i \in 1 .. Len(Order[l]) : Order[l][i] = e
  BY ComponentAssumptions DEF Load!LoadAssumption
<1>2. HasRead(l, e)
  <2>1. turn[l] = Len(Order[l]) /\ Len(Order[l]) \in Nat
    BY LoadFacts DEF LoadInv, LoadedAll
  <2>2. QED
    BY <1>1, <2>1 DEF HasRead
<1>3. PICK m \in Loaders : Keeps(m, e)
  BY <1>2 DEF LoadInv, LastLoader
<1>4. ~Reads(m, e)
  BY DEF LoadInv, LoadedAll, Reads
<1>5. Covered(e, Len(source[e]))
  BY <1>3, <1>4 DEF Keeps
<1>6. PICK i \in 1 .. Len(source[e]) : source[e][i].kind = "record" /\ r = source[e][i].rec
  BY DEF Load!Records
<1>7. InCache(e, r)
  BY <1>5, <1>6, LoadFacts DEF Covered, LoadInv
<1>8. QED
  BY <1>7 DEF InCache

-----------------------------------------------------------------------------
LEMMA DoneMeans ==
  ASSUME TreeInv, PipeInv, LoadInv
  PROVE  DoneExactlyOnce
<1>1. Load!TypeOK
  BY LoadFacts DEF LoadInv, LoadTypes, Load!TypeOK
<1>2. Load!OnlyRecordsOfTheFile /\ Load!LoadsComplete /\ Load!MatchesComeFromTheFiles
  BY LoadsDone DEF LoadInv, Matching
<1>3. Piped!TypeOK /\ Piped!DealtInTurn
  <2>1. Piped!TypeOK
    BY DEF PipeInv
  <2>2. \A p \in 1 .. forks : Dealt(p) = {v \in 1 .. given : (v - 1) % forks = p - 1}
    BY DEF Dealt
  <2>3. \A p \in 1 .. forks :
          /\ Len(input[p]) = Cardinality(Dealt(p))
          /\ \A i \in 1 .. Len(input[p]) : input[p][i] = (i - 1) * forks + p
    BY DEF PipeInv
  <2>4. \A S : Piped!Cardinality(S) = Cardinality(S)
    BY DEF Cardinality, Piped!Cardinality
  <2>5. QED
    BY <2>1, <2>2, <2>3, <2>4 DEF Piped!DealtInTurn
<1>4. Tree!TypeOK /\ Tree!NoRowTwice /\ Tree!OneReply
  BY DEF TreeInv, Tree!TypeOK, Tree!NoRowTwice, Tree!OneReply, Tree!USER_DATA, Tree!NO_BID,
       Tree!AUCTION_ASYNC
<1>5. QED
  BY <1>1, <1>2, <1>3, <1>4 DEF DoneExactlyOnce

(* Work that is handed out is done exactly once, for any files, orders of     *)
(* loading and loaders, any number of children and values, and any table of   *)
(* rows that leads forward.                                                   *)
THEOREM DoneTheorem == Spec => []DoneExactlyOnce
<1>1. Init => TreeInv /\ PipeInv /\ LoadInv
  BY TreeInit, PipeInit, LoadInit
<1>2. TreeInv /\ PipeInv /\ LoadInv /\ [Next]_vars => (TreeInv /\ PipeInv /\ LoadInv)'
  BY TreeStep, PipeStep, LoadStep
<1>3. TreeInv /\ PipeInv /\ LoadInv => DoneExactlyOnce
  BY DoneMeans
<1>4. QED
  BY <1>1, <1>2, <1>3, PTL DEF Spec

-----------------------------------------------------------------------------
(* HttpServer with several threads: the theorems about it, used here.         *)
Srv == INSTANCE HttpServerProofs WITH Persistent <- TRUE, Signals <- TRUE

ServerInv == part # "one_thread" => Srv!IInv

LEMMA SameServer ==
  /\ Server!Init => Srv!Init
  /\ Server!Next => Srv!Next
  /\ Server!TypeOK <=> Srv!TypeOK
  /\ Server!ServesLiveConnections <=> Srv!ServesLiveConnections
  /\ Server!NothingForgotten <=> Srv!NothingForgotten
<1>1. Server!Init => Srv!Init
  BY DEF Server!Init, Srv!Init, Server!NoConn, Srv!NoConn
<1>2. Server!Next => Srv!Next
  BY DEF Server!Next, Srv!Next, Server!Complete, Srv!Complete, Server!Connect,
         Srv!Connect, Server!conVars, Srv!conVars, Server!Raise, Srv!Raise,
         Server!Run, Srv!Run, Server!Accepted, Srv!Accepted, Server!Start,
         Srv!Start, Server!NoConn, Srv!NoConn, Server!Walking, Srv!Walking,
         Server!Started, Srv!Started, Server!Begin, Srv!Begin, Server!AcceptAgain,
         Srv!AcceptAgain, Server!Aborted, Srv!Aborted, Server!Take, Srv!Take,
         Server!Handle, Srv!Handle, Server!Alive, Srv!Alive, Server!GoTo, Srv!GoTo,
         Server!Failed, Srv!Failed, Server!Handled, Srv!Handled, Server!Stop,
         Srv!Stop, Server!Close, Srv!Close, Server!Signalled, Srv!Signalled,
         Server!Walk, Srv!Walk, Server!WalkEnd, Srv!WalkEnd, Server!Clear,
         Srv!Clear, Server!Return, Srv!Return, Server!Idle, Srv!Idle
<1>3. Server!TypeOK <=> Srv!TypeOK
  BY DEF Server!TypeOK, Srv!TypeOK, Server!NoConn, Srv!NoConn, Server!Where, Srv!Where,
         Server!Idle, Srv!Idle
<1>4. Server!ServesLiveConnections <=> Srv!ServesLiveConnections
  BY DEF Server!ServesLiveConnections, Srv!ServesLiveConnections, Server!Alive, Srv!Alive
<1>5. Server!NothingForgotten <=> Srv!NothingForgotten
  BY DEF Server!NothingForgotten, Srv!NothingForgotten
<1>6. QED
  BY <1>1, <1>2, <1>3, <1>4, <1>5

LEMMA ServerInit == Init => ServerInv
<1>1. Srv!NoneApart
  BY ComponentAssumptions DEF Srv!NoneApart, Srv!NoConn, Server!NoConn
<1>2. QED
  BY <1>1, SameServer, Srv!InitIInv DEF Init, ServerInv

LEMMA ServerStep ==
  ASSUME ServerInv, [Next]_vars
  PROVE  ServerInv'
<1> SUFFICES ASSUME part' # "one_thread" PROVE Srv!IInv'
  BY DEF ServerInv
<1>1. part' = part /\ Srv!IInv
  BY DEF ServerInv, Next, vars
<1>2. Srv!Next \/ UNCHANGED serverVars
  BY <1>1, SameServer DEF Next, vars
<1>3. [Srv!Next]_(Srv!vars)
  BY <1>2 DEF serverVars, Srv!vars
<1>4. QED
  BY <1>1, <1>3, Srv!NextIInv

LEMMA ServerMeans ==
  ASSUME ServerInv
  PROVE  ServesLiveConnections
<1> SUFFICES ASSUME part # "one_thread"
             PROVE  Server!TypeOK /\ Server!ServesLiveConnections /\ Server!NothingForgotten
  BY DEF ServesLiveConnections
<1>1. Srv!IInv
  BY DEF ServerInv
<1>2. Srv!TypeOK /\ Srv!NothingForgotten
  BY <1>1 DEF Srv!IInv
<1>3. Srv!ServesLiveConnections
  BY <1>1 DEF Srv!IInv, Srv!Managed, Srv!ServesLiveConnections, Srv!Alive
<1>4. QED
  BY <1>2, <1>3, SameServer

(* Any number of threads runs handlers on connections that exist, and each     *)
(* connection in the set has an operation or a thread that will take it out,   *)
(* while the set is not changed under stop_all.                                *)
THEOREM ServesTheorem == Spec => []ServesLiveConnections
<1>1. Init => ServerInv
  BY ServerInit
<1>2. ServerInv /\ [Next]_vars => ServerInv'
  BY ServerStep
<1>3. ServerInv => ServesLiveConnections
  BY ServerMeans
<1>4. QED
  BY <1>1, <1>2, <1>3, PTL DEF Spec

-----------------------------------------------------------------------------
(* Responder: what a datagram is, where it came from, and what is owed to it. *)
Asked(client, id) == \E d \in received : d.from = client /\ d.id = id

RespInv ==
  /\ Endpoint!TypeOK /\ Endpoint!AnswersReachTheAsker
  /\ pending \in Seq([to : Clients, buffer : (1 .. MaxAsked) \cup {Endpoint!Freed}])
  /\ armed => completed = 0
  /\ completed = 1 => Asked(from_endpoint, in_data.id)
  /\ response # 0 => completed = 1 /\ response = in_data.id
  /\ \A i \in 1 .. Len(pending) :
       pending[i].buffer = Endpoint!Freed \/ Asked(pending[i].to, pending[i].buffer)


LEMMA EndpointConstants ==
  /\ Sizes \subseteq Nat /\ MAX_DATA_SIZE \in Nat /\ MaxAsked \in Nat /\ MaxPending \in Nat
BY ComponentAssumptions DEF Endpoint!ResponderAssumption

LEMMA PendingSends ==
  ASSUME NEW q \in Seq([to : Clients, buffer : (1 .. MaxAsked) \cup {Endpoint!Freed}])
  PROVE  /\ Len(q) \in Nat /\ DOMAIN q = 1 .. Len(q)
         /\ \A i \in DOMAIN q : q[i] \in [to : Clients, buffer : (1 .. MaxAsked) \cup {Endpoint!Freed}]
         /\ \A i \in DOMAIN q : /\ q[i].to \in Clients
                               /\ q[i].buffer \in (1 .. MaxAsked) \cup {Endpoint!Freed}
<1> PICK T : T = [to : Clients, buffer : (1 .. MaxAsked) \cup {Endpoint!Freed}]
  OBVIOUS
<1>1. q \in Seq(T)
  OBVIOUS
<1>2. Len(q) \in Nat /\ DOMAIN q = 1 .. Len(q) /\ \A i \in DOMAIN q : q[i] \in T
  BY <1>1, LenProperties, ElementOfSeq
<1>3. \A m \in T : m.to \in Clients /\ m.buffer \in (1 .. MaxAsked) \cup {Endpoint!Freed}
  OBVIOUS
<1>4. QED
  BY <1>2, <1>3

LEMMA EndpointInit == Init => RespInv
<1> SUFFICES ASSUME Init PROVE RespInv
  OBVIOUS
<1>1. /\ received = {} /\ count = 0 /\ armed = TRUE /\ completed = 0
      /\ from_endpoint = Endpoint!NoClient /\ in_data = Endpoint!NoRequest
      /\ response = 0 /\ out_data = 0 /\ pending = <<>> /\ sent = {} /\ running = TRUE
  BY DEF Init, Endpoint!Init
<1>2. Endpoint!TypeOK
  BY <1>1, EndpointConstants DEF Endpoint!TypeOK, Endpoint!NoRequest
<1>3. QED
  BY <1>1, <1>2 DEF RespInv, Endpoint!AnswersReachTheAsker

(* What was asked stays asked.                                                *)
LEMMA AskedStays ==
  ASSUME NEW client, NEW id, received \subseteq received', Asked(client, id)
  PROVE  Asked(client, id)'
BY DEF Asked

LEMMA EndpointStep ==
  ASSUME RespInv, Endpoint!Next
  PROVE  RespInv'
<1> USE EndpointConstants
<1>1. ASSUME NEW c \in Clients, NEW size \in Sizes, Endpoint!Ask(c, size) PROVE RespInv'
  <2>1. /\ count' = count + 1 /\ count < MaxAsked
        /\ received' = received \cup {[from |-> c, id |-> count + 1, size |-> size]}
        /\ UNCHANGED <<armed, completed, from_endpoint, in_data, response, out_data,
                       pending, sent, running>>
    BY <1>1 DEF Endpoint!Ask
  <2>2. Endpoint!TypeOK'
    BY <2>1 DEF RespInv, Endpoint!TypeOK
  <2>3. Endpoint!AnswersReachTheAsker'
    BY <2>1 DEF RespInv, Endpoint!AnswersReachTheAsker
  <2>4. \A client, id : Asked(client, id) => Asked(client, id)'
    BY <2>1 DEF Asked
  <2>5. QED
    BY <2>1, <2>2, <2>3, <2>4 DEF RespInv
<1>2. ASSUME NEW d \in received, Endpoint!Receive(d) PROVE RespInv'
  <2>1. /\ armed = TRUE /\ armed' = FALSE /\ completed' = 1 /\ from_endpoint' = d.from
        /\ in_data' = [id |-> d.id, size |-> d.size,
                       bytes |-> IF d.size > MAX_DATA_SIZE THEN MAX_DATA_SIZE ELSE d.size]
        /\ UNCHANGED <<received, count, response, out_data, pending, sent, running>>
    BY <1>2 DEF Endpoint!Receive, RespInv, Endpoint!TypeOK
  <2>2. d \in [from : Clients, id : 1 .. MaxAsked, size : Sizes]
    BY DEF RespInv, Endpoint!TypeOK
  <2>3. Endpoint!TypeOK'
    <3>1. in_data' \in [id : 0 .. MaxAsked, bytes : 0 .. MAX_DATA_SIZE, size : Sizes \cup {0}]
      <4>1. (IF d.size > MAX_DATA_SIZE THEN MAX_DATA_SIZE ELSE d.size) \in 0 .. MAX_DATA_SIZE
        <5>1. d.size \in Nat
          BY <2>2
        <5>2. QED
          BY <5>1
      <4>2. d.id \in 0 .. MaxAsked /\ d.size \in Sizes
        BY <2>2
      <4>3. QED
        BY <2>1, <4>1, <4>2
    <3>2. from_endpoint' \in Clients
      BY <2>1, <2>2
    <3>3. QED
      BY <2>1, <3>1, <3>2 DEF RespInv, Endpoint!TypeOK
  <2>4. Endpoint!AnswersReachTheAsker' /\ \A client, id : Asked(client, id)' = Asked(client, id)
    BY <2>1 DEF RespInv, Endpoint!AnswersReachTheAsker, Asked
  <2>5. Asked(from_endpoint', in_data'.id)
    BY <2>1 DEF Asked
  <2>6. response' = 0
    BY <2>1 DEF RespInv, Endpoint!TypeOK
  <2>7. QED
    BY <2>1, <2>3, <2>4, <2>5, <2>6 DEF RespInv, Asked
<1>3. CASE Endpoint!Handle
  <2>1. /\ completed = 1 /\ response = 0 /\ response' = in_data.id
        /\ UNCHANGED <<received, count, armed, completed, from_endpoint, in_data, out_data,
                       pending, sent, running>>
    BY <1>3 DEF Endpoint!Handle
  <2>2. Endpoint!TypeOK'
    BY <2>1 DEF RespInv, Endpoint!TypeOK
  <2>3. QED
    BY <2>1, <2>2 DEF RespInv, Endpoint!AnswersReachTheAsker, Asked
<1>4. CASE Endpoint!HandleCut
  <2>1. /\ completed = 1 /\ response = 0 /\ completed' = 0 /\ running' = FALSE
        /\ UNCHANGED <<received, count, armed, from_endpoint, in_data, response, out_data,
                       pending, sent>>
    BY <1>4 DEF Endpoint!HandleCut
  <2>2. Endpoint!TypeOK'
    BY <2>1 DEF RespInv, Endpoint!TypeOK
  <2>3. QED
    BY <2>1, <2>2 DEF RespInv, Endpoint!AnswersReachTheAsker, Asked
<1>5. CASE Endpoint!Respond
  <2>1. /\ response # 0 /\ response' = 0 /\ completed' = 0 /\ armed' = TRUE
        /\ out_data' = response
        /\ UNCHANGED <<received, count, from_endpoint, in_data, running>>
    BY <1>5 DEF Endpoint!Respond, Endpoint!SendAsync
  <2>2. Asked(from_endpoint, response)
    BY <2>1 DEF RespInv
  <2>3. from_endpoint \in Clients /\ response \in 1 .. MaxAsked
    BY <2>2 DEF Asked, RespInv, Endpoint!TypeOK
  <2>4. CASE pending = <<>> /\ pending' = pending
             /\ sent' = sent \cup {[to |-> from_endpoint, answers |-> response]}
    <3>1. Endpoint!TypeOK'
      BY <2>1, <2>3, <2>4 DEF RespInv, Endpoint!TypeOK
    <3>2. Endpoint!AnswersReachTheAsker'
      BY <2>1, <2>2, <2>4 DEF RespInv, Endpoint!AnswersReachTheAsker, Asked
    <3>3. QED
      BY <2>1, <2>4, <3>1, <3>2 DEF RespInv, Asked
  <2>5. CASE /\ pending' = Append([i \in DOMAIN pending |-> [pending[i] EXCEPT !.buffer = Endpoint!Freed]],
                                 [to |-> from_endpoint, buffer |-> response])
             /\ sent' = sent
    <3> DEFINE T == [to : Clients, buffer : (1 .. MaxAsked) \cup {Endpoint!Freed}]
    <3> PICK stale : stale = [i \in DOMAIN pending |-> [pending[i] EXCEPT !.buffer = Endpoint!Freed]]
      OBVIOUS
    <3>1. pending \in Seq(T) /\ DOMAIN pending = 1 .. Len(pending) /\ Len(pending) \in Nat
      BY PendingSends DEF RespInv
    <3>2. ASSUME NEW i \in 1 .. Len(pending)
          PROVE  stale[i] \in T /\ stale[i].buffer = Endpoint!Freed
      <4>1. pending[i] \in T /\ stale[i] = [pending[i] EXCEPT !.buffer = Endpoint!Freed]
        BY <3>1, PendingSends
      <4>2. QED
        BY <4>1
    <3>3. stale \in Seq(T) /\ Len(stale) = Len(pending)
      BY <3>1, <3>2
    <3> PICK last \in T : last = [to |-> from_endpoint, buffer |-> response]
      BY <2>3
    <3>4. /\ pending' \in Seq(T) /\ Len(pending') = Len(pending) + 1
          /\ \A i \in 1 .. Len(pending) : pending'[i] = stale[i]
          /\ pending'[Len(pending) + 1] = last
      BY <2>5, <3>3
    <3>5. Endpoint!TypeOK'
      <4>1. \A i \in DOMAIN pending' : pending'[i].to \in Clients
                                      /\ pending'[i].buffer \in (1 .. MaxAsked) \cup {Endpoint!Freed}
        BY <3>4, PendingSends
      <4>2. QED
        BY <2>1, <2>3, <2>5, <4>1 DEF RespInv, Endpoint!TypeOK
    <3>6. \A i \in 1 .. Len(pending') :
            pending'[i].buffer = Endpoint!Freed \/ Asked(pending'[i].to, pending'[i].buffer)
      <4>1. \A i \in 1 .. Len(pending') : i \in 1 .. Len(pending) \/ i = Len(pending) + 1
        BY <3>1, <3>4
      <4>2. Asked(last.to, last.buffer)
        BY <2>2
      <4>3. QED
        BY <3>2, <3>4, <4>1, <4>2
    <3>7. Endpoint!AnswersReachTheAsker' /\ \A client, id : Asked(client, id)' = Asked(client, id)
      BY <2>1, <2>5 DEF RespInv, Endpoint!AnswersReachTheAsker, Asked
    <3>8. QED
      BY <2>1, <3>4, <3>5, <3>6, <3>7 DEF RespInv, Asked
  <2>6. QED
    BY <1>5, <2>4, <2>5 DEF Endpoint!Respond, Endpoint!SendAsync
<1>6. CASE Endpoint!Flush
  <2> DEFINE T == [to : Clients, buffer : (1 .. MaxAsked) \cup {Endpoint!Freed}]
  <2>1. /\ pending # <<>> /\ pending' = Tail(pending)
        /\ sent' = sent \cup {[to |-> Head(pending).to, answers |-> Head(pending).buffer]}
        /\ UNCHANGED <<received, count, armed, completed, from_endpoint, in_data, response,
                       out_data, running>>
    BY <1>6 DEF Endpoint!Flush
  <2>2. pending \in Seq(T)
    BY DEF RespInv
  <2>3. /\ Head(pending) = pending[1] /\ pending[1] \in T /\ 1 \in 1 .. Len(pending)
        /\ pending' \in Seq(T) /\ Len(pending') = Len(pending) - 1
        /\ \A i \in 1 .. Len(pending') : pending'[i] = pending[i + 1] /\ i + 1 \in 1 .. Len(pending)
    <3>1. Len(pending) \in Nat /\ Len(pending) # 0
      BY <2>1, <2>2, EmptySeq
    <3>2. /\ Head(pending) = pending[1] /\ 1 \in 1 .. Len(pending) /\ pending[1] \in T
          /\ Tail(pending) \in Seq(T) /\ Len(Tail(pending)) = Len(pending) - 1
      <4> PICK S : S = T
        OBVIOUS
      <4>1. pending \in Seq(S) /\ pending # <<>>
        BY <2>1, <2>2
      <4>2. 1 \in 1 .. Len(pending)
        BY <3>1
      <4>3. pending[1] \in S /\ Head(pending) = pending[1]
        <5>1. pending[1] \in S
          BY <4>1, <4>2, ElementOfSeq
        <5>2. Head(pending) = pending[1]
          BY <4>1
        <5>3. QED
          BY <5>1, <5>2
      <4>4. Tail(pending) \in Seq(S) /\ Len(Tail(pending)) = Len(pending) - 1
        BY <4>1, HeadTailProperties
      <4>5. QED
        BY <4>2, <4>3, <4>4
    <3>3. \A i \in 1 .. Len(Tail(pending)) : Tail(pending)[i] = pending[i + 1]
      BY <2>1, <2>2, <3>2
    <3>4. QED
      BY <2>1, <3>1, <3>2, <3>3
  <2>4. Endpoint!TypeOK'
    <3>1. \A i \in DOMAIN pending' : pending'[i].to \in Clients
                                    /\ pending'[i].buffer \in (1 .. MaxAsked) \cup {Endpoint!Freed}
      BY <2>3, PendingSends
    <3>2. sent' \subseteq [to : Clients, answers : (1 .. MaxAsked) \cup {Endpoint!Freed}]
      BY <2>1, <2>3 DEF RespInv, Endpoint!TypeOK
    <3>3. QED
      BY <2>1, <3>1, <3>2 DEF RespInv, Endpoint!TypeOK
  <2>5. Endpoint!AnswersReachTheAsker'
    BY <2>1, <2>3 DEF RespInv, Endpoint!AnswersReachTheAsker, Asked
  <2>6. QED
    BY <2>1, <2>3, <2>4, <2>5 DEF RespInv, Asked
<1>7. QED
  BY <1>1, <1>2, <1>3, <1>4, <1>5, <1>6 DEF Endpoint!Next

LEMMA PromptStep ==
  ASSUME RespInv, Prompt!Next
  PROVE  Endpoint!Next
<1>1. Prompt!Respond => Endpoint!Respond
  BY DEF RespInv, Prompt!Respond, Endpoint!Respond, Prompt!SendAsync, Endpoint!SendAsync
<1>2. QED
  BY <1>1 DEF Prompt!Next, Endpoint!Next, Prompt!Ask, Endpoint!Ask, Prompt!Receive,
       Endpoint!Receive, Prompt!Handle, Endpoint!Handle, Prompt!HandleCut, Endpoint!HandleCut,
       Prompt!Flush, Endpoint!Flush

LEMMA ResponderStep ==
  ASSUME RespInv, [Next]_vars
  PROVE  RespInv'
<1>1. CASE UNCHANGED responderVars
  BY <1>1 DEF responderVars, RespInv, Endpoint!TypeOK, Endpoint!AnswersReachTheAsker, Asked
<1>2. QED
  BY <1>1, EndpointStep, PromptStep DEF Next, vars

(* Whatever clients ask, and however sends are delayed, a response that is    *)
(* sent answers a request of the client it is sent to.                        *)
THEOREM AnswersTheorem == Spec => [](Endpoint!TypeOK /\ Endpoint!AnswersReachTheAsker)
<1>1. RespInv => Endpoint!TypeOK /\ Endpoint!AnswersReachTheAsker
  BY DEF RespInv
<1>2. Init => RespInv
  BY EndpointInit
<1>3. RespInv /\ [Next]_vars => RespInv'
  BY ResponderStep
<1>4. QED
  BY <1>1, <1>2, <1>3, PTL DEF Spec

-----------------------------------------------------------------------------
(* CrudDispatch: the handlers due, when a thread has come to the matcher n,   *)
(* and those that have run.                                                   *)
DueBefore(t, n) ==
  {m \in request[t].uri : m < n /\ request[t].method \in Registered[m]}

Ran(t) == {dispatch_reply[t][i] : i \in 1 .. Len(dispatch_reply[t])}

(* Outside the maps that were raced on, a thread that found an entry found    *)
(* what was registered, and the handlers that ran are those that were due.    *)
ThreadInv(t) ==
  /\ dispatch_at[t] \notin {"idle", "dead"} =>
       request[t].method \in Methods /\ served[t] < MaxDispatched
  /\ dispatch_at[t] = "idle" /\ served[t] > 0 => next[t] = Matchers + 1
  /\ dispatch_at[t] = "calling" /\ next[t] \notin map_raced =>
       request[t].method \in Registered[next[t]]
  /\ dispatch_at[t] \in {"inserting", "passing"} /\ next[t] \notin map_raced =>
       request[t].method \notin Registered[next[t]]
  /\ \A m \in Ran(t) : m \in request[t].uri /\ m < next[t]
  /\ Ran(t) \ map_raced = DueBefore(t, next[t]) \ map_raced
  /\ \A i, j \in 1 .. Len(dispatch_reply[t]) : i < j => dispatch_reply[t][i] < dispatch_reply[t][j]

DispatchTypes ==
  /\ Crud!TypeOK
  /\ request \in [Threads -> [method : Methods \cup {Crud!NoRequest.method},
                             uri : SUBSET (1 .. Matchers)]]
  /\ dispatch_reply \in [Threads -> Seq(1 .. Matchers)]

(* A map that was not raced on has a handler where one was registered.        *)
MapsInv ==
  \A m \in 1 .. Matchers : m \notin map_raced =>
    \A x \in Methods : handlers[m][x] = "set" <=> x \in Registered[m]

DispatchInv == DispatchTypes /\ MapsInv /\ \A t \in Threads : ThreadInv(t)

LEMMA DispatchConstants ==
  /\ Matchers \in Nat \ {0} /\ MaxDispatched \in Nat
  /\ Uris \subseteq SUBSET (1 .. Matchers) /\ Registered \in [1 .. Matchers -> SUBSET Methods]
BY ComponentAssumptions DEF Crud!DispatchAssumption

LEMMA DispatchInit == Init => DispatchInv
<1> SUFFICES ASSUME Init PROVE DispatchInv
  OBVIOUS
<1>1. /\ handlers = [m \in 1 .. Matchers |->
                       [x \in Methods |-> IF x \in Registered[m] THEN "set" ELSE "absent"]]
      /\ dispatch_at = [t \in Threads |-> "idle"]
      /\ request = [t \in Threads |-> Crud!NoRequest] /\ next = [t \in Threads |-> 1]
      /\ dispatch_reply = [t \in Threads |-> <<>>] /\ served = [t \in Threads |-> 0]
      /\ map_raced = {}
  BY DEF Init, Crud!Init
<1>2. Crud!NoRequest.uri = {} /\ Crud!NoRequest \in [method : {Crud!NoRequest.method}, uri : {{}}]
  BY DEF Crud!NoRequest
<1>3. handlers \in [1 .. Matchers -> [Methods -> {"absent", "empty", "set"}]] /\ MapsInv
  BY <1>1 DEF MapsInv
<1>4. DispatchTypes
  <2>1. /\ dispatch_at \in [Threads -> {"idle"}] /\ next \in [Threads -> 1 .. Matchers + 1]
        /\ served \in [Threads -> 0 .. MaxDispatched]
    BY <1>1, DispatchConstants
  <2>2. Crud!TypeOK
    BY <1>1, <1>3, <2>1 DEF Crud!TypeOK, Crud!InMap, Crud!Found
  <2>3. QED
    BY <1>1, <1>2, <2>2 DEF DispatchTypes
<1>5. \A t \in Threads : DueBefore(t, next[t]) = {} /\ dispatch_reply[t] = <<>> /\ Ran(t) = {}
  BY <1>1, <1>2 DEF DueBefore, Ran
<1>6. ASSUME NEW t \in Threads PROVE ThreadInv(t)
  <2>1. dispatch_at[t] = "idle" /\ served[t] = 0 /\ Len(dispatch_reply[t]) = 0
    BY <1>1, <1>5
  <2>2. QED
    BY <1>5, <2>1 DEF ThreadInv
<1>7. QED
  BY <1>3, <1>4, <1>6 DEF DispatchInv

Smaller == {ss \in Nat \X Nat : ss[1] < ss[2]}

LEMMA LeastNumber ==
  ASSUME NEW T \in SUBSET Nat, T # {}
  PROVE  \E x \in T : \A y \in T : x <= y
<1>1. IsWellFoundedOn(Smaller, Nat)
  BY NatLessThanWellFounded DEF OpToRel, Smaller
<1>2. PICK x \in T : \A y \in T : ~(<<y, x>> \in Smaller)
  BY <1>1, WFMin
<1>3. ASSUME NEW y \in T PROVE x <= y
  <2>1. x \in Nat /\ y \in Nat /\ ~(<<y, x>> \in Smaller)
    BY <1>2
  <2>2. ~(y < x)
    BY <2>1 DEF Smaller
  <2>3. QED
    BY <2>1, <2>2
<1>4. QED
  BY <1>3

(* A race found adds the matcher to those raced on.                           *)
LEMMA EnterRaces ==
  ASSUME NEW t \in Threads, NEW place, NEW m, Crud!Enter(t, place, m)
  PROVE  /\ dispatch_at' = [dispatch_at EXCEPT ![t] = place]
         /\ map_raced \subseteq map_raced' /\ map_raced' \subseteq map_raced \cup {m}
BY DEF Crud!Enter

(* What is known of a thread stays known when it does not move, and what is   *)
(* exempt only grows.                                                         *)
LEMMA OtherThread ==
  ASSUME NEW u, ThreadInv(u), map_raced \subseteq map_raced',
         dispatch_at'[u] = dispatch_at[u] \/ dispatch_at'[u] = "dead",
         request'[u] = request[u], next'[u] = next[u],
         dispatch_reply'[u] = dispatch_reply[u], served'[u] = served[u]
  PROVE  ThreadInv(u)'
<1>1. Ran(u)' = Ran(u) /\ DueBefore(u, next[u])' = DueBefore(u, next[u])
  BY DEF Ran, DueBefore
<1>2. Ran(u)' \ map_raced' = DueBefore(u, next[u])' \ map_raced'
  BY <1>1 DEF ThreadInv
<1>3. QED
  BY <1>1, <1>2 DEF ThreadInv

(* A step of one thread leaves the others as they are.                        *)
LEMMA OneThreadSteps ==
  ASSUME DispatchInv, DispatchTypes', MapsInv', NEW t \in Threads, ThreadInv(t)',
         map_raced \subseteq map_raced',
         \A u \in Threads : u # t =>
           /\ dispatch_at'[u] = dispatch_at[u] /\ request'[u] = request[u]
           /\ next'[u] = next[u] /\ dispatch_reply'[u] = dispatch_reply[u]
           /\ served'[u] = served[u]
  PROVE  DispatchInv'
<1>1. ASSUME NEW u \in Threads, u # t PROVE ThreadInv(u)'
  BY <1>1, OtherThread DEF DispatchInv
<1>2. QED
  BY <1>1 DEF DispatchInv

(* A step that leaves the maps alone may still find that they are raced on.   *)
LEMMA MapsStay ==
  ASSUME MapsInv, handlers' = handlers, map_raced \subseteq map_raced'
  PROVE  MapsInv'
BY DEF MapsInv

LEMMA ReceiveRequest ==
  ASSUME DispatchInv, NEW t \in Threads, Crud!Receive(t)
  PROVE  DispatchInv'
<1>0. DispatchTypes /\ MapsInv
  BY DEF DispatchInv
<1>1. PICK m \in Methods, u \in Uris :
        /\ dispatch_at[t] = "idle" /\ served[t] < MaxDispatched
        /\ request' = [request EXCEPT ![t] = [method |-> m, uri |-> u]]
        /\ dispatch_at' = [dispatch_at EXCEPT ![t] = "matching"]
        /\ next' = [next EXCEPT ![t] = 1]
        /\ dispatch_reply' = [dispatch_reply EXCEPT ![t] = <<>>]
        /\ UNCHANGED <<handlers, served, map_raced>>
  BY DEF Crud!Receive
<1>2. u \in SUBSET (1 .. Matchers) /\ [method |-> m, uri |-> u] \in [method : Methods, uri : SUBSET (1 .. Matchers)]
  BY DispatchConstants
<1>3. DispatchTypes'
  <2>1. Crud!TypeOK'
    <3>1. next' \in [Threads -> 1 .. Matchers + 1]
      BY <1>0, <1>1, DispatchConstants DEF DispatchTypes, Crud!TypeOK
    <3>2. \A v \in Threads : v # t =>
            dispatch_at'[v] = dispatch_at[v] /\ next'[v] = next[v] /\ request'[v] = request[v]
      BY <1>0, <1>1 DEF DispatchTypes, Crud!TypeOK
    <3>3. dispatch_at'[t] = "matching"
      BY <1>0, <1>1 DEF DispatchTypes, Crud!TypeOK
    <3>4. \A v \in Threads : dispatch_at'[v] \in {"finding", "inserting"} \cup {"calling", "passing"}
            => next'[v] \in request'[v].uri
      BY <1>0, <3>2, <3>3 DEF DispatchTypes, Crud!TypeOK, Crud!InMap, Crud!Found
    <3>5. QED
      BY <1>0, <1>1, <3>1, <3>4 DEF DispatchTypes, Crud!TypeOK, Crud!InMap, Crud!Found
  <2>2. QED
    BY <1>0, <1>1, <1>2, <2>1 DEF DispatchTypes
<1>4. ThreadInv(t)'
  <2>1. /\ request'[t] = [method |-> m, uri |-> u] /\ next'[t] = 1 /\ dispatch_reply'[t] = <<>>
        /\ dispatch_at'[t] = "matching" /\ served'[t] = served[t]
    BY <1>0, <1>1 DEF DispatchTypes, Crud!TypeOK
  <2>2. DueBefore(t, next[t])' = {} /\ Ran(t)' = {}
    BY <2>1, <1>2, DispatchConstants DEF DueBefore, Ran
  <2>3. QED
    BY <2>1, <2>2, <1>1 DEF ThreadInv
<1>5. MapsInv'
  BY <1>0, <1>1, MapsStay
<1>6. QED
  BY <1>0, <1>1, <1>3, <1>4, <1>5, OneThreadSteps DEF DispatchTypes, Crud!TypeOK

LEMMA MatchRequest ==
  ASSUME DispatchInv, NEW t \in Threads, Crud!Match(t)
  PROVE  DispatchInv'
<1> PICK fits : fits = {m \in request[t].uri : m >= next[t]}
  OBVIOUS
<1>0. /\ DispatchTypes /\ MapsInv /\ ThreadInv(t) /\ request[t].uri \in SUBSET (1 .. Matchers)
      /\ next[t] \in 1 .. Matchers + 1 /\ served[t] \in 0 .. MaxDispatched
      /\ Matchers \in Nat \ {0} /\ MaxDispatched \in Nat
  BY DispatchConstants DEF DispatchInv, DispatchTypes, Crud!TypeOK
<1>1. /\ dispatch_at[t] = "matching" /\ UNCHANGED <<handlers, request, dispatch_reply>>
      /\ served[t] < MaxDispatched
  BY <1>0 DEF Crud!Match, ThreadInv
<1>2. CASE fits = {}
  <2>1. /\ dispatch_at' = [dispatch_at EXCEPT ![t] = "idle"]
        /\ next' = [next EXCEPT ![t] = Matchers + 1]
        /\ served' = [served EXCEPT ![t] = @ + 1]
        /\ map_raced' = map_raced
    BY <1>2 DEF Crud!Match
  <2>2. DispatchTypes'
    <3>1. Crud!TypeOK'
      BY <1>0, <1>1, <2>1 DEF DispatchTypes, Crud!TypeOK, Crud!InMap, Crud!Found
    <3>2. QED
      BY <1>0, <1>1, <3>1 DEF DispatchTypes
  <2>3. dispatch_at'[t] = "idle" /\ next'[t] = Matchers + 1
    BY <1>0, <2>1 DEF DispatchTypes, Crud!TypeOK
  <2>4. \A m \in request[t].uri : m < next[t] <=> m < Matchers + 1
    BY <1>0, <1>2
  <2>5. DueBefore(t, next[t])' = DueBefore(t, next[t]) /\ Ran(t)' = Ran(t)
    BY <1>1, <2>3, <2>4 DEF DueBefore, Ran
  <2>6. \A m \in Ran(t) : m \in request[t].uri /\ m < Matchers + 1
    BY <1>0, <2>4 DEF ThreadInv
  <2>7. ThreadInv(t)'
    BY <1>0, <1>1, <2>1, <2>3, <2>5, <2>6 DEF ThreadInv
  <2>8. MapsInv'
    BY <1>0, <1>1, <2>1, MapsStay
  <2>9. QED
    BY <1>0, <1>1, <2>1, <2>2, <2>7, <2>8, OneThreadSteps DEF DispatchTypes, Crud!TypeOK
<1>3. CASE fits # {}
  <2>0. \A x : x \in fits => x \in request[t].uri /\ x >= next[t]
    OBVIOUS
  <2> PICK m : m = CHOOSE x \in fits : \A n \in fits : x <= n
    OBVIOUS
  <2>1. m \in fits /\ \A n \in fits : m <= n
    <3>1. fits \in SUBSET Nat
      BY <1>0
    <3>2. QED
      BY <3>1, <1>3, LeastNumber
  <2>2. /\ next' = [next EXCEPT ![t] = m] /\ served' = served
        /\ Crud!Enter(t, "finding", next'[t])
    BY <1>3 DEF Crud!Match
  <2>3. m \in request[t].uri /\ m \in 1 .. Matchers /\ m >= next[t]
    <3>1. m \in request[t].uri /\ m >= next[t]
      BY <2>0, <2>1, Zenon
    <3>2. QED
      BY <3>1, <1>0
  <2>4. next'[t] = m
    BY <1>0, <2>2 DEF DispatchTypes, Crud!TypeOK
  <2>5. /\ dispatch_at' = [dispatch_at EXCEPT ![t] = "finding"]
        /\ map_raced \subseteq map_raced' /\ map_raced' \subseteq map_raced \cup {m}
    BY <2>2, <2>4, EnterRaces
  <2>6. DispatchTypes'
    <3>1. /\ next' \in [Threads -> 1 .. Matchers + 1]
          /\ \A u \in Threads : next'[u] = IF u = t THEN m ELSE next[u]
      <4>1. m \in 1 .. Matchers + 1 /\ next \in [Threads -> 1 .. Matchers + 1]
        BY <2>3, <1>0 DEF DispatchTypes, Crud!TypeOK
      <4>2. QED
        BY <4>1, <2>2
    <3>2. \A u \in Threads : dispatch_at'[u] = IF u = t THEN "finding" ELSE dispatch_at[u]
      BY <2>5, <1>0 DEF DispatchTypes, Crud!TypeOK
    <3>3. map_raced' \subseteq 1 .. Matchers
      BY <1>0, <2>3, <2>5 DEF DispatchTypes, Crud!TypeOK
    <3>4. Crud!TypeOK'
      BY <1>0, <1>1, <2>2, <2>3, <2>5, <3>1, <3>2, <3>3
         DEF DispatchTypes, Crud!TypeOK, Crud!InMap, Crud!Found
    <3>5. QED
      BY <3>4, <1>0, <1>1 DEF DispatchTypes
  <2>7. dispatch_at'[t] = "finding"
    BY <1>0, <2>5 DEF DispatchTypes, Crud!TypeOK
  <2>8. \A n \in request[t].uri : n < next[t] <=> n < m
    BY <1>0, <2>1, <2>3
  <2>9. DueBefore(t, next[t])' = DueBefore(t, next[t]) /\ Ran(t)' = Ran(t)
    BY <1>1, <2>4, <2>8 DEF DueBefore, Ran
  <2>10. \A n \in Ran(t) : n \in request[t].uri /\ n < m
    BY <1>0, <2>8 DEF ThreadInv
  <2>11. ThreadInv(t)'
    <3>1. Ran(t) \ map_raced = DueBefore(t, next[t]) \ map_raced
      BY <1>0 DEF ThreadInv
    <3>2. Ran(t)' \ map_raced' = DueBefore(t, next[t])' \ map_raced'
      BY <2>5, <2>9, <3>1
    <3>3. /\ request[t].method \in Methods /\ served'[t] < MaxDispatched
          /\ \A i, j \in 1 .. Len(dispatch_reply[t]) :
               i < j => dispatch_reply[t][i] < dispatch_reply[t][j]
      BY <1>0, <1>1, <2>2 DEF ThreadInv
    <3>4. QED
      BY <1>1, <2>4, <2>7, <2>9, <2>10, <3>2, <3>3 DEF ThreadInv
  <2>12. MapsInv'
    BY <1>0, <1>1, <2>5, MapsStay
  <2>13. QED
    BY <1>0, <1>1, <2>2, <2>5, <2>6, <2>11, <2>12, OneThreadSteps DEF DispatchTypes, Crud!TypeOK
<1>4. QED
  BY <1>2, <1>3

(* A step inside a map to another place in it or past it.                     *)
LEMMA PlaceTypes ==
  ASSUME DispatchTypes, NEW t \in Threads, next[t] \in request[t].uri,
         NEW place \in {"inserting", "calling", "passing"},
         dispatch_at' = [dispatch_at EXCEPT ![t] = place],
         handlers' \in [1 .. Matchers -> [Methods -> {"absent", "empty", "set"}]],
         map_raced' \subseteq map_raced \cup {next[t]},
         UNCHANGED <<request, next, dispatch_reply, served>>
  PROVE  DispatchTypes'
<1>1. next[t] \in 1 .. Matchers
  BY DEF DispatchTypes
<1>2. map_raced' \subseteq 1 .. Matchers
  BY <1>1 DEF DispatchTypes, Crud!TypeOK
<1>3. Crud!TypeOK'
  BY <1>2 DEF DispatchTypes, Crud!TypeOK, Crud!InMap, Crud!Found
<1>4. QED
  BY <1>3 DEF DispatchTypes

LEMMA FindMethod ==
  ASSUME DispatchInv, NEW t \in Threads, Crud!Find(t)
  PROVE  DispatchInv'
<1> DEFINE m == next[t]
           x == request[t].method
<1>0. /\ DispatchTypes /\ MapsInv /\ ThreadInv(t) /\ m \in request[t].uri /\ m \in 1 .. Matchers
      /\ dispatch_at[t] = "finding" /\ x \in Methods /\ served[t] < MaxDispatched
  BY DEF DispatchInv, DispatchTypes, Crud!TypeOK, ThreadInv, Crud!Find, Crud!InMap, Crud!Found
<1>1. UNCHANGED <<handlers, request, next, dispatch_reply, served>>
  BY DEF Crud!Find
<1>2. m \notin map_raced => (handlers[m][x] = "set" <=> x \in Registered[m])
  BY <1>0 DEF MapsInv
<1>3. PICK place \in {"inserting", "calling", "passing"} :
        /\ dispatch_at' = [dispatch_at EXCEPT ![t] = place]
        /\ map_raced \subseteq map_raced' /\ map_raced' \subseteq map_raced \cup {m}
        /\ m \notin map_raced => (place = "calling" <=> handlers[m][x] = "set")
  <2>1. CASE handlers[m][x] = "set" /\ dispatch_at' = [dispatch_at EXCEPT ![t] = "calling"]
             /\ UNCHANGED map_raced
    BY <2>1
  <2>2. CASE handlers[m][x] = "empty" /\ dispatch_at' = [dispatch_at EXCEPT ![t] = "passing"]
             /\ UNCHANGED map_raced
    BY <2>2
  <2>3. CASE (handlers[m][x] = "absent" \/ m \in map_raced) /\ Crud!Enter(t, "inserting", m)
    BY <2>3, EnterRaces
  <2>4. QED
    BY <2>1, <2>2, <2>3 DEF Crud!Find
<1>4. DispatchTypes'
  BY <1>0, <1>1, <1>3, PlaceTypes DEF DispatchTypes, Crud!TypeOK
<1>5. dispatch_at'[t] = place
  BY <1>0, <1>3 DEF DispatchTypes, Crud!TypeOK
<1>6. ThreadInv(t)'
  <2>1. Ran(t)' = Ran(t) /\ DueBefore(t, next[t])' = DueBefore(t, next[t])
    BY <1>1 DEF Ran, DueBefore
  <2>2. Ran(t)' \ map_raced' = DueBefore(t, next[t])' \ map_raced'
    BY <1>0, <1>3, <2>1 DEF ThreadInv
  <2>3. /\ place = "calling" /\ m \notin map_raced' => x \in Registered[m]
        /\ place # "calling" /\ m \notin map_raced' => x \notin Registered[m]
    BY <1>2, <1>3
  <2>4. QED
    BY <1>0, <1>1, <1>5, <2>1, <2>2, <2>3 DEF ThreadInv
<1>7. MapsInv'
  BY <1>0, <1>1, <1>3, MapsStay
<1>8. QED
  BY <1>0, <1>1, <1>3, <1>4, <1>6, <1>7, OneThreadSteps DEF DispatchTypes, Crud!TypeOK

LEMMA InsertMethod ==
  ASSUME DispatchInv, NEW t \in Threads, Crud!Insert(t)
  PROVE  DispatchInv'
<1> DEFINE m == next[t]
           x == request[t].method
<1>0. /\ DispatchTypes /\ MapsInv /\ ThreadInv(t) /\ m \in request[t].uri /\ m \in 1 .. Matchers
      /\ dispatch_at[t] = "inserting" /\ x \in Methods /\ served[t] < MaxDispatched
      /\ m \notin map_raced => x \notin Registered[m]
  BY DEF DispatchInv, DispatchTypes, Crud!TypeOK, ThreadInv, Crud!Insert, Crud!InMap, Crud!Found
<1>1. /\ UNCHANGED <<request, next, dispatch_reply, served, map_raced>>
      /\ dispatch_at' = [dispatch_at EXCEPT ![t] = "passing"]
      /\ \/ handlers' = [handlers EXCEPT ![m][x] = "empty"]
         \/ handlers' = handlers
  BY DEF Crud!Insert
<1>2. /\ handlers' \in [1 .. Matchers -> [Methods -> {"absent", "empty", "set"}]]
      /\ \A n \in 1 .. Matchers, y \in Methods :
           \/ handlers'[n][y] = handlers[n][y]
           \/ n = m /\ y = x /\ handlers'[n][y] = "empty"
  <2>1. handlers \in [1 .. Matchers -> [Methods -> {"absent", "empty", "set"}]]
    BY <1>0 DEF DispatchTypes, Crud!TypeOK
  <2>2. [handlers[m] EXCEPT ![x] = "empty"] \in [Methods -> {"absent", "empty", "set"}]
    BY <2>1, <1>0
  <2>3. CASE handlers' = [handlers EXCEPT ![m] = [handlers[m] EXCEPT ![x] = "empty"]]
    BY <2>1, <2>2, <2>3, <1>0
  <2>4. CASE handlers' = handlers
    BY <2>1, <2>4
  <2>5. QED
    BY <2>3, <2>4, <1>1
<1>3. DispatchTypes'
  BY <1>0, <1>1, <1>2, PlaceTypes
<1>4. dispatch_at'[t] = "passing"
  BY <1>0, <1>1 DEF DispatchTypes, Crud!TypeOK
<1>5. ThreadInv(t)'
  <2>1. Ran(t)' = Ran(t) /\ DueBefore(t, next[t])' = DueBefore(t, next[t])
    BY <1>1 DEF Ran, DueBefore
  <2>2. QED
    BY <1>0, <1>1, <1>4, <2>1 DEF ThreadInv
<1>6. MapsInv'
  <2> SUFFICES ASSUME NEW n \in 1 .. Matchers, n \notin map_raced, NEW y \in Methods
               PROVE  handlers'[n][y] = "set" <=> y \in Registered[n]
    BY <1>1 DEF MapsInv
  <2>1. handlers[n][y] = "set" <=> y \in Registered[n]
    BY <1>0 DEF MapsInv
  <2>2. QED
    BY <2>1, <1>0, <1>2
<1>7. QED
  BY <1>0, <1>1, <1>3, <1>5, <1>6, OneThreadSteps DEF DispatchTypes, Crud!TypeOK

LEMMA CrashProcess ==
  ASSUME DispatchInv, NEW t \in Threads, Crud!Crash(t)
  PROVE  DispatchInv'
<1>1. /\ dispatch_at' = [u \in Threads |-> "dead"]
      /\ UNCHANGED <<handlers, request, next, dispatch_reply, served, map_raced>>
  BY DEF Crud!Crash
<1>2. DispatchTypes'
  BY <1>1 DEF DispatchInv, DispatchTypes, Crud!TypeOK, Crud!InMap, Crud!Found
<1>3. MapsInv'
  BY <1>1, MapsStay DEF DispatchInv
<1>4. ASSUME NEW u \in Threads PROVE ThreadInv(u)'
  BY <1>1, OtherThread DEF DispatchInv
<1>5. QED
  BY <1>2, <1>3, <1>4 DEF DispatchInv

(* The matcher at hand runs its handler or is passed; what was due before the *)
(* next one is what was due before it, and the one at hand if it has one.     *)
LEMMA CallOrPass ==
  ASSUME DispatchInv, NEW t \in Threads, Crud!Call(t) \/ Crud!Pass(t)
  PROVE  DispatchInv'
<1> PICK m, q : m = next[t] /\ q = dispatch_reply[t]
  OBVIOUS
<1> PICK p : p = IF dispatch_at[t] = "calling" THEN Append(q, m) ELSE q
  OBVIOUS
<1>0. /\ DispatchTypes /\ MapsInv /\ ThreadInv(t) /\ m \in request[t].uri /\ m \in 1 .. Matchers
      /\ request[t].uri \in SUBSET (1 .. Matchers) /\ q \in Seq(1 .. Matchers)
      /\ Matchers \in Nat \ {0} /\ dispatch_at[t] \in {"calling", "passing"}
  BY DispatchConstants
     DEF DispatchInv, DispatchTypes, Crud!TypeOK, Crud!Call, Crud!Pass, Crud!InMap, Crud!Found
<1>1. /\ UNCHANGED <<handlers, request, served, map_raced>>
      /\ dispatch_at' = [dispatch_at EXCEPT ![t] = "matching"]
      /\ next' = [next EXCEPT ![t] = m + 1]
      /\ dispatch_reply' = [dispatch_reply EXCEPT ![t] = p]
  BY <1>0 DEF Crud!Call, Crud!Pass, DispatchTypes
<1>2. dispatch_at'[t] = "matching" /\ next'[t] = m + 1 /\ dispatch_reply'[t] = p
  BY <1>0, <1>1 DEF DispatchTypes, Crud!TypeOK
<1>3. /\ \A i, j \in 1 .. Len(q) : i < j => q[i] < q[j]
      /\ \A n \in Ran(t) : n \in request[t].uri /\ n < m
      /\ Ran(t) \ map_raced = DueBefore(t, m) \ map_raced
      /\ Ran(t) = {q[i] : i \in 1 .. Len(q)}
  BY <1>0 DEF ThreadInv, Ran
<1>4. /\ p \in Seq(1 .. Matchers)
      /\ Ran(t)' = IF dispatch_at[t] = "calling" THEN Ran(t) \cup {m} ELSE Ran(t)
      /\ \A i, j \in 1 .. Len(p) : i < j => p[i] < p[j]
  <2>1. Ran(t)' = {p[i] : i \in 1 .. Len(p)}
    BY <1>2 DEF Ran
  <2>2. \A i \in 1 .. Len(q) : q[i] < m
    BY <1>3
  <2>3. CASE dispatch_at[t] = "calling"
    <3>1. p = Append(q, m)
      BY <2>3
    <3>2. /\ Len(q) \in Nat /\ Len(p) = Len(q) + 1 /\ p[Len(q) + 1] = m
          /\ \A i \in 1 .. Len(q) : p[i] = q[i]
          /\ p \in Seq(1 .. Matchers)
      <4>1. q \in Seq(1 .. Matchers) /\ m \in 1 .. Matchers
        BY <1>0
      <4>2. /\ Len(Append(q, m)) = Len(q) + 1 /\ Append(q, m)[Len(q) + 1] = m
            /\ \A i \in 1 .. Len(q) : Append(q, m)[i] = q[i]
            /\ Append(q, m) \in Seq(1 .. Matchers) /\ Len(q) \in Nat
        BY <4>1
      <4>3. QED
        BY <3>1, <4>2
    <3>3. {p[i] : i \in 1 .. Len(p)} = {q[i] : i \in 1 .. Len(q)} \cup {m}
      BY <3>2
    <3>4. \A i, j \in 1 .. Len(p) : i < j => p[i] < p[j]
      <4>1. \A i, j \in 1 .. Len(p) :
              i < j => i \in 1 .. Len(q) /\ (j \in 1 .. Len(q) \/ j = Len(q) + 1)
        BY <3>2
      <4>2. QED
        BY <2>2, <3>2, <4>1, <1>3
    <3>5. QED
      BY <2>1, <2>3, <3>2, <3>3, <3>4, <1>3
  <2>4. CASE dispatch_at[t] # "calling"
    BY <2>1, <2>4, <1>0, <1>3
  <2>5. QED
    BY <2>3, <2>4
<1>5. DispatchTypes'
  <2>1. next' \in [Threads -> 1 .. Matchers + 1]
    BY <1>0, <1>1 DEF DispatchTypes, Crud!TypeOK
  <2>2. Crud!TypeOK'
    BY <1>0, <1>1, <2>1 DEF DispatchTypes, Crud!TypeOK, Crud!InMap, Crud!Found
  <2>3. QED
    BY <1>0, <1>1, <1>4, <2>2 DEF DispatchTypes
<1>6. ThreadInv(t)'
  <2>1. DueBefore(t, next[t])' = IF request[t].method \in Registered[m]
                                 THEN DueBefore(t, m) \cup {m} ELSE DueBefore(t, m)
    BY <1>0, <1>1, <1>2 DEF DueBefore
  <2>2. m \notin map_raced =>
          (dispatch_at[t] = "calling" <=> request[t].method \in Registered[m])
    BY <1>0 DEF ThreadInv
  <2>3. Ran(t)' \ map_raced' = DueBefore(t, next[t])' \ map_raced'
    BY <1>1, <1>3, <1>4, <2>1, <2>2
  <2>4. \A n \in Ran(t)' : n \in request[t].uri /\ n < m + 1
    <3>1. Ran(t)' \subseteq Ran(t) \cup {m}
      BY <1>4
    <3>2. \A n \in request[t].uri : n \in Nat /\ (n < m => n < m + 1)
      BY <1>0
    <3>3. m \in request[t].uri /\ m < m + 1
      BY <1>0
    <3>4. ASSUME NEW n \in Ran(t)' PROVE n \in request[t].uri /\ n < m + 1
      BY <3>1, <3>2, <3>3, <1>3
    <3>5. QED
      BY <3>4
  <2>5. request[t].method \in Methods /\ served[t] < MaxDispatched
    BY <1>0 DEF ThreadInv
  <2>6. QED
    BY <1>1, <1>2, <1>4, <2>3, <2>4, <2>5 DEF ThreadInv
<1>7. MapsInv'
  BY <1>0, <1>1, MapsStay
<1>8. QED
  BY <1>0, <1>1, <1>5, <1>6, <1>7, OneThreadSteps DEF DispatchTypes, Crud!TypeOK

LEMMA DispatchStep ==
  ASSUME DispatchInv, [Next]_vars
  PROVE  DispatchInv'
<1>1. CASE UNCHANGED dispatchVars
  BY <1>1 DEF dispatchVars, DispatchInv, DispatchTypes, MapsInv, Crud!TypeOK, ThreadInv,
       DueBefore, Ran
<1>2. CASE Crud!Next
  BY <1>2, ReceiveRequest, MatchRequest, FindMethod, InsertMethod, CrashProcess, CallOrPass
     DEF Crud!Next
<1>3. QED
  BY <1>1, <1>2 DEF Next, vars

(* A reply is the work of every matcher that fits its request and knows the   *)
(* method, in their order, whatever other threads dispatch meanwhile: but for *)
(* the matchers whose map one thread was in while another inserted into it.   *)
THEOREM DispatchTheorem == Spec => [](Crud!TypeOK /\ Crud!RepliesFromAllMatches)
<1>1. DispatchInv => Crud!TypeOK /\ Crud!RepliesFromAllMatches
  <2>1. SUFFICES ASSUME DispatchInv, NEW t \in Threads, dispatch_at[t] = "idle", served[t] > 0
                 PROVE  /\ Ran(t) \subseteq request[t].uri
                        /\ Ran(t) \ map_raced
                             = {m \in request[t].uri : request[t].method \in Registered[m]} \ map_raced
                        /\ \A i, j \in 1 .. Len(dispatch_reply[t]) :
                             i < j => dispatch_reply[t][i] < dispatch_reply[t][j]
    BY DEF DispatchInv, DispatchTypes, Crud!RepliesFromAllMatches, Ran
  <2>2. ThreadInv(t) /\ next[t] = Matchers + 1 /\ request[t].uri \in SUBSET (1 .. Matchers)
    BY <2>1 DEF DispatchInv, DispatchTypes, ThreadInv
  <2>3. DueBefore(t, next[t]) = {m \in request[t].uri : request[t].method \in Registered[m]}
    BY <2>2, DispatchConstants DEF DueBefore
  <2>4. QED
    BY <2>2, <2>3 DEF ThreadInv
<1>2. Init => DispatchInv
  BY DispatchInit
<1>3. DispatchInv /\ [Next]_vars => DispatchInv'
  BY DispatchStep
<1>4. QED
  BY <1>1, <1>2, <1>3, PTL DEF Spec

=============================================================================
