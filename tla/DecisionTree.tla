----------------------------- MODULE DecisionTree -----------------------------
(* rtb/common/decision_tree.hpp: a table of actions, each naming its successor *)
(* for a true and for a false result, walked from row 0; and the table that    *)
(* examples/bidder/http_bidder_test.cpp gives to its router.                   *)
EXTENDS Integers, Sequences

CONSTANTS
    N,         \* number of rows
    Trees,     \* the tables to walk: functions from rows to [row_num, yes, no]
    MaxSteps   \* BOUND: actions run on one walk

RowsAssumption == N \in Nat \ {0}

EXIT == -1
CONTINUE == 0

Row == 0 .. N - 1
Node == [row_num : Row, yes : -1 .. N - 1, no : -1 .. N - 1]

(* Tables whose rows carry their own number and lead forward: to a later row,  *)
(* to the next one (CONTINUE), which the last row has not, or out.             *)
ForwardTrees ==
    {tree \in [Row -> Node] :
        \A r \in Row :
            /\ tree[r].row_num = r
            /\ \A n \in {tree[r].yes, tree[r].no} :
                 n = EXIT \/ n > r \/ (n = CONTINUE /\ r # N - 1)}

(* The table of the bidder, with the codes of its enum.                        *)
USER_DATA == 0
NO_BID == 1
AUCTION_ASYNC == 2
(* Mutant of BidderTree: no bid goes on to the next row.                       *)
BidderTreeFalls ==
    [r \in Row |->
        CASE r = USER_DATA -> [row_num |-> r, yes |-> AUCTION_ASYNC, no |-> NO_BID]
          [] r = NO_BID -> [row_num |-> r, yes |-> CONTINUE, no |-> CONTINUE]
          [] OTHER -> [row_num |-> r, yes |-> EXIT, no |-> EXIT]]

BidderTree ==
    [r \in Row |->
        CASE r = USER_DATA -> [row_num |-> r, yes |-> AUCTION_ASYNC, no |-> NO_BID]
          [] r = NO_BID -> [row_num |-> r, yes |-> EXIT, no |-> EXIT]
          [] OTHER -> [row_num |-> r, yes |-> EXIT, no |-> EXIT]]

VARIABLES
    tree,     \* decision_tree_manager::tree
    now,      \* the row whose action runs, or where the walk ended
    walked,   \* history: the rows whose actions have run
    status    \* "walking", "exited", or "out_of_range": tree.at threw

vars == <<tree, now, walked, status>>

TypeOK ==
    /\ tree \in Trees
    /\ status \in {"walking", "exited", "out_of_range"}
    /\ status = "walking" => now \in Row
    /\ walked \in Seq(Row)

Init ==
    /\ tree \in Trees
    /\ now = 0
    /\ walked = <<>>
    /\ status = "walking"

(* decision_action::get.                                                       *)
get(node, res) == IF res THEN node.yes ELSE node.no

(* Mutant of At: the table is indexed without a check.                         *)
AtUnchecked(r) ==
    /\ now' = r + 1
    /\ status' = "walking"

(* tree.at                                                                     *)
At(r) ==
    /\ now' = r
    /\ status' = IF r \in Row THEN "walking" ELSE "out_of_range"

(* Mutants of Successor: CONTINUE repeats the action, or skips a row.          *)
SuccessorRepeats(node, n) == IF n = CONTINUE THEN node.row_num ELSE n
SuccessorSkips(node, n) == IF n = CONTINUE THEN node.row_num + 2 ELSE n

Successor(node, n) == IF n = CONTINUE THEN node.row_num + 1 ELSE n

(* decision_tree_manager::next.                                                *)
Step(res) ==
    /\ status = "walking"
    /\ Len(walked) < MaxSteps
    /\ walked' = Append(walked, now)
    /\ LET n == get(tree[now], res) IN
       IF n = EXIT THEN now' = now /\ status' = "exited" ELSE At(Successor(tree[now], n))
    /\ UNCHANGED tree

Next == \E res \in BOOLEAN : Step(res)

Spec == Init /\ [][Next]_vars
FairSpec == Spec /\ WF_vars(Next)

------------------------------------------------------------------------------
(* A table that leads forward is left through EXIT: every walk of it ends,     *)
(* although CONTINUE and row 0 share a code.                                   *)
WalkEnds == <>(status = "exited")

(* On a table that leads forward no row is run twice, rows are run in order    *)
(* and tree.at never throws.                                                   *)
NoRowTwice ==
    /\ status # "out_of_range"
    /\ \A i, j \in 1 .. Len(walked) : i < j => walked[i] < walked[j]

(* The bidder's table answers a request once: the walk ends in NO_BID or in    *)
(* AUCTION_ASYNC, and runs only one of them.                                   *)
OneReply ==
    status = "exited" /\ tree = BidderTree =>
        walked \in {<<USER_DATA, NO_BID>>, <<USER_DATA, AUCTION_ASYNC>>}
==============================================================================
