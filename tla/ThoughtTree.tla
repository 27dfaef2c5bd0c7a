----------------------------- MODULE ThoughtTree -----------------------------
(***************************************************************************)
(* TreeOfThoughtsWorkflow: a breadth-first search over thoughts.  Every    *)
(* node of a level is expanded into at most Branching thoughts, every      *)
(* thought is scored by an activity of its own, thoughts under the         *)
(* threshold are dropped, and the answer is written from the best path.    *)
(* An activity is tried twice; Lost actions are both attempts failing.     *)
(*                                                                         *)
(* The identifier of a thought is its depth and the line of the reply it   *)
(* was on, so thoughts of different parents share identifiers.  "from" is  *)
(* the real parent, which the program does not record.                     *)
(***************************************************************************)
EXTENDS Integers, FiniteSets, Sequences, SequencesExt, FiniteSetsExt

CONSTANTS
    MaxDepth, Branching, MaxTotalNodes, TokenBudget, PruningThreshold,
    Scores,          \* scores the judge of a thought may give
    ReplyLines,      \* lines a reply may have
    ReplyTokens,     \* tokens a reply with thoughts may cost
    ScoreTokens

\* The workflow replaces limits that are not positive by its defaults.
ASSUME TreeAssumption ==
    /\ {MaxDepth, Branching, MaxTotalNodes, TokenBudget} \subseteq Nat \ {0}
    /\ ReplyLines \in Nat /\ Scores \subseteq Int /\ ScoreTokens \in Nat
    /\ ReplyTokens \subseteq Nat
    /\ \E most \in ReplyTokens : \A t \in ReplyTokens : most >= t

VARIABLES
    search,          \* what the workflow does next
    tree,            \* allNodes
    level,           \* depth of the loop
    queue,           \* nodes of the level not expanded yet, as positions of tree
    fresh,           \* thoughts generated and not scored yet, as lines
    tokens,          \* totalTokens
    bestPath,        \* BestPath, as identifiers
    leaf,            \* the node the best path was traced from
    used             \* the thoughts whose summaries the synthesis was given

treeVars == <<search, tree, level, queue, fresh, tokens, bestPath, leaf, used>>

Root == [id |-> <<0, 0>>, parent |-> <<>>, depth |-> 0, score |-> 10, from |-> 0]

TreeInit ==
    /\ search = "expand" /\ tree = <<Root>> /\ level = 0 /\ queue = <<1>>
    /\ fresh = <<>> /\ tokens = 0 /\ bestPath = <<>> /\ leaf = 0 /\ used = <<>>

\* The numbers of S in ascending order: the k-th has k - 1 below it.
Sorted(S) ==
    [k \in 1 .. Cardinality(S) |-> CHOOSE i \in S : Cardinality({j \in S : j < i}) = k - 1]

NodesAtDepth(d) == {k \in DOMAIN tree : tree[k].depth = d}
MaxNodeDepth == Max({tree[k].depth : k \in DOMAIN tree})

\* nodeMap: a later node with the same identifier replaces the earlier one.
NodeMap(id) == Max({k \in DOMAIN tree : tree[k].id = id})

\* The next level, unless the depth, the level or the budget is exhausted: the
\* budget is looked at here only.
NextLevel ==
    /\ search = "expand" /\ queue = <<>>
    /\ level' = level + 1
    /\ IF level + 1 < MaxDepth /\ NodesAtDepth(level + 1) # {} /\ tokens < TokenBudget
          THEN queue' = Sorted(NodesAtDepth(level + 1)) /\ UNCHANGED search
          ELSE search' = "path" /\ UNCHANGED queue
    /\ UNCHANGED <<tree, fresh, tokens, bestPath, leaf, used>>

\* Mutant: off by one.
TreeIsOverfull == Len(tree) > MaxTotalNodes

TreeIsFull == Len(tree) >= MaxTotalNodes

\* A full tree leaves the loop over the level.
StopLevel ==
    /\ search = "expand" /\ queue # <<>> /\ TreeIsFull
    /\ queue' = <<>>
    /\ UNCHANGED <<search, tree, level, fresh, tokens, bestPath, leaf, used>>

\* A thought keeps the number of its line; short and empty lines are skipped and
\* do not count, so the lines kept are any Branching of them.
Replies == {Sorted(L) : L \in {K \in SUBSET (1 .. ReplyLines) : Cardinality(K) \in 1 .. Branching}}

GenerateThoughts ==
    /\ search = "expand" /\ queue # <<>> /\ ~TreeIsFull
    /\ fresh' \in Replies
    /\ \E t \in ReplyTokens : tokens' = tokens + t
    /\ search' = "score"
    /\ UNCHANGED <<tree, level, queue, bestPath, leaf, used>>

GenerateLost ==
    /\ search = "expand" /\ queue # <<>> /\ ~TreeIsFull
    /\ queue' = Tail(queue)
    /\ UNCHANGED <<search, tree, level, fresh, tokens, bestPath, leaf, used>>

Thought(line, score) ==
    [id |-> <<level + 1, line>>, parent |-> tree[Head(queue)].id,
     depth |-> level + 1, score |-> score, from |-> Head(queue)]

\* The loop over the thoughts of one reply goes on, or its node is expanded.
ThoughtDone ==
    /\ fresh' = Tail(fresh)
    /\ IF Len(fresh) = 1 THEN queue' = Tail(queue) /\ search' = "expand"
                         ELSE UNCHANGED <<queue, search>>
    /\ UNCHANGED <<level, bestPath, leaf, used>>

\* A reply without a readable score is scored by its wording.
ReadScores == Scores

Survives(score) == score >= PruningThreshold

ScoreThought ==
    /\ search = "score"
    /\ \E s \in ReadScores :
          tree' = IF Survives(s) THEN Append(tree, Thought(Head(fresh), s)) ELSE tree
    /\ tokens' = tokens + ScoreTokens
    /\ ThoughtDone

ScoreLost ==
    /\ search = "score"
    /\ ThoughtDone
    /\ UNCHANGED <<tree, tokens>>

\* From a node up to the root, parents looked up by identifier.
Trace(k) ==
    LET up[d \in 0 .. tree[k].depth] ==
            IF d = tree[k].depth THEN k ELSE NodeMap(tree[up[d + 1]].parent)
    IN  up

\* The sum of the scores on a branch.
ScoreOf(branch) ==
    LET sum[d \in DOMAIN branch] ==
            tree[branch[d]].score + (IF d = 0 THEN 0 ELSE sum[d - 1])
    IN  sum[Max(DOMAIN branch)]

\* Mutant: only the node's own score counts.
BestLeafAlone ==
    LET deepest == NodesAtDepth(MaxNodeDepth) IN
    CHOOSE k \in deepest : \A j \in deepest : tree[k].score >= tree[j].score

\* Candidates are the deepest nodes, so all paths have one length and the
\* average score orders them as the sum does; the first of the best is kept.
BestLeaf ==
    LET deepest == NodesAtDepth(MaxNodeDepth) IN
    CHOOSE k \in deepest : \A j \in deepest :
        \/ ScoreOf(Trace(k)) > ScoreOf(Trace(j))
        \/ ScoreOf(Trace(k)) = ScoreOf(Trace(j)) /\ k <= j

FindBestPath ==
    /\ search = "path"
    /\ leaf' = BestLeaf
    /\ bestPath' = [i \in 1 .. MaxNodeDepth + 1 |-> tree[Trace(leaf')[i - 1]].id]
    /\ search' = "synthesize"
    /\ UNCHANGED <<tree, level, queue, fresh, tokens, used>>

\* The identifiers of the path are looked up once more for their summaries.
SynthesizeToTResult ==
    /\ search = "synthesize"
    /\ used' = [i \in DOMAIN bestPath |-> NodeMap(bestPath[i])]
    /\ search' = "done"
    /\ UNCHANGED <<tree, level, queue, fresh, tokens, bestPath, leaf>>

\* Either of the last two activities failing fails the workflow.
PathOrSynthesisLost ==
    /\ search \in {"path", "synthesize"}
    /\ search' = "error"
    /\ UNCHANGED <<tree, level, queue, fresh, tokens, bestPath, leaf, used>>

TreeNext ==
    \/ NextLevel \/ StopLevel \/ GenerateThoughts \/ GenerateLost
    \/ ScoreThought \/ ScoreLost \/ FindBestPath \/ SynthesizeToTResult
    \/ PathOrSynthesisLost

-----------------------------------------------------------------------------
TreeTypeOK ==
    /\ search \in {"expand", "score", "path", "synthesize", "done", "error"}
    /\ \A k \in DOMAIN tree : tree[k].depth \in 0 .. MaxDepth /\ tree[k].from \in 0 .. k - 1
    /\ Range(queue) \subseteq DOMAIN tree /\ Range(fresh) \subseteq 1 .. ReplyLines
    /\ Len(fresh) <= Branching
    /\ Range(used) \subseteq DOMAIN tree

\* The thoughts a full tree has at a depth.
LevelWidth[d \in 0 .. MaxDepth] == IF d = 0 THEN 1 ELSE Branching * LevelWidth[d - 1]

\* The size of the tree is looked at once per reply and the budget once per
\* level: the tree outgrows its limit by less than one reply and the tokens
\* outgrow the budget by less than one level.
SearchBounded ==
    /\ Len(tree) <= MaxTotalNodes - 1 + Branching
    /\ tokens < TokenBudget + LevelWidth[MaxDepth - 1] * (Max(ReplyTokens) + Branching * ScoreTokens)

\* The branch a node really grew on.
Branch(k) ==
    LET up[d \in 0 .. tree[k].depth] ==
            IF d = tree[k].depth THEN k ELSE tree[up[d + 1]].from
    IN  up

\* The branch reported as best is a best one: no thought of the last level lies
\* on a branch with a higher score, although parents are found by identifier.
BestBranchChosen ==
    leaf # 0 => \A k \in NodesAtDepth(MaxNodeDepth) :
        ScoreOf(Branch(leaf)) >= ScoreOf(Branch(k))
=============================================================================
