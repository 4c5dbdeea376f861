-------------------------- MODULE SemanticSnapshot --------------------------
(***************************************************************************)
(* What becomes of an observed tree: boundSnapshotResponse fits it into    *)
(* MaxTotalBytes (accessibility/snapshot.go), and ValidateSemanticSnapshot *)
(* and FilterSnapshotSelector judge whether it can answer a selector, and  *)
(* answer it.  The tree is read as readNodeWithCache does for a fresh      *)
(* observation (accessibility/node.go): any read may fail, and leaves a    *)
(* warning.                                                                *)
(*                                                                         *)
(* A size is a number of bytes, with the structure of the estimates of the *)
(* code and smaller constants; a name or a text is the words it holds.     *)
(***************************************************************************)
EXTENDS Integers, Sequences, SequencesExt, FiniteSets, FiniteSetsExt

CONSTANTS
    Questions,   \* what is asked, of which tree
    Slack,       \* what boundNodeResponse leaves beside a node
    IdBytes,     \* estimateNodeIDJSONSize
    Frame,       \* the size of a node with its identity alone
    Refused,     \* ErrResponseBudget and ErrIncompleteSnapshot
    NotFound,
    None

VARIABLES question, answer

mvars == <<question, answer>>

-----------------------------------------------------------------------------
(* Sizes.  A node has a fixed size `own', a text, the sizes of its plain     *)
(* members, and references to other nodes.                                  *)

Sum(S, size(_)) == FoldSet(LAMBDA x, n : n + size(x), 0, S)

\* estimateJSONMemberSize, of a member that may be absent
Member(present, size) == IF present THEN size + 1 ELSE 0

\* estimateNodeIDSliceJSONSize: brackets, commas and identities
IdsSize(ids) == IF ids = <<>> THEN 2 ELSE 1 + Len(ids) * (IdBytes + 1)

\* estimateRelationsJSONSize: a name, a colon and targets for each
RelationsSize(rel) ==
    LET kept == {r \in DOMAIN rel : rel[r] # <<>>}
    IN  Member(kept # {}, 1 + Cardinality(kept) + Sum(kept, LAMBDA r : 2 + IdsSize(rel[r])))

ChildrenSize(ids) == Member(ids # <<>>, IdsSize(ids))

\* estimateNodeJSONSize
NodeSize(node) ==
    Frame + node.own + Member(node.text > 0, node.text + 2) + Member(node.cut, 1)
    + Sum(DOMAIN node.plain, LAMBDA f : Member(node.plain[f] > 0, node.plain[f]))
    + ChildrenSize(node.children) + RelationsSize(node.relations)

\* Node{ID: originalRoot}
Bare(node) ==
    [node EXCEPT !.own = 0, !.text = 0, !.cut = FALSE, !.children = <<>>,
                 !.plain = [f \in DOMAIN @ |-> 0], !.relations = [r \in DOMAIN @ |-> <<>>]]

\* snapshotJSONBaseSize: the reason of a truncation and the warnings are members
BaseSize(s) == s.base + Member(s.truncated, 2) + Member(s.warnings > 0, s.warnings)

\* snapshotJSONSizeFromBase: null, or brackets, commas and nodes
SizeFromBase(base, root, nodes, count) ==
    base + root + (IF count = 0 THEN 4 ELSE 2 + count - 1 + nodes)

NodesSize(nodes) == Sum(DOMAIN nodes, LAMBDA i : NodeSize(nodes[i]))

\* snapshotJSONSize
Size(s) == SizeFromBase(BaseSize(s), NodeSize(s.root), NodesSize(s.nodes), Len(s.nodes))

-----------------------------------------------------------------------------
(* Trimming a node that cannot fit alone.                                    *)

TrimOrder == <<"attributes", "relations", "actions", "warnings", "description",
               "name", "interfaces", "states", "children">>

Present(node, f) ==
    CASE f = "relations" -> \E r \in DOMAIN node.relations : node.relations[r] # <<>>
      [] f = "children" -> node.children # <<>>
      [] OTHER -> f \in DOMAIN node.plain /\ node.plain[f] > 0

Without(node, f) ==
    CASE f = "relations" -> [node EXCEPT !.relations = [r \in DOMAIN @ |-> <<>>]]
      [] f = "children" -> [node EXCEPT !.children = <<>>]
      [] OTHER -> [node EXCEPT !.plain[f] = 0]

\* boundNodeResponse: half of the text at a time, and then member by member
RECURSIVE BoundNode(_, _)
BoundNode(node, max) ==
    LET left == SelectSeq(TrimOrder, LAMBDA f : Present(node, f))
    IN  IF NodeSize(node) + Slack <= max \/ (node.text = 0 /\ left = <<>>) THEN node
        ELSE BoundNode(IF node.text > 0 THEN [node EXCEPT !.text = @ \div 2, !.cut = TRUE]
                                        ELSE Without(node, Head(left)), max)

\* boundSnapshotNodes, and the root with them
BoundNodes(s, max) ==
    LET nodes == [i \in DOMAIN s.nodes |->
                    IF NodeSize(s.nodes[i]) + Slack <= max THEN s.nodes[i] ELSE BoundNode(s.nodes[i], max)]
    IN  [s EXCEPT !.nodes = nodes, !.root = nodes[1]]

-----------------------------------------------------------------------------
(* The longest prefix that fits, without the references that leave it.       *)

Kept(ids, retained) == SelectSeq(ids, LAMBDA id : id \in retained)
Ids(nodes) == {nodes[i].id : i \in DOMAIN nodes}

\* estimateNodeJSONSizeAfterReferencePruning
PrunedSize(node, retained) ==
    NodeSize(node)
    - ChildrenSize(node.children) + ChildrenSize(Kept(node.children, retained))
    - RelationsSize(node.relations)
    + RelationsSize([r \in DOMAIN node.relations |-> Kept(node.relations[r], retained)])

\* Mutant of MaximumPotential: references are not pruned before the prefix is judged.
MaximumUnpruned(s, base, max) ==
    LET fits(k) == SizeFromBase(base, NodeSize(s.nodes[1]), NodesSize(SubSeq(s.nodes, 1, k)), k) <= max
    IN  Max({k \in 0..Len(s.nodes) : \A j \in 1..k : fits(j)})

\* maximumPotentialSnapshotPrefix: no reference is counted
MaximumPotential(s, base, max) ==
    LET fits(k) == SizeFromBase(base, PrunedSize(s.nodes[1], {}),
                                Sum(1..k, LAMBDA i : PrunedSize(s.nodes[i], {})), k) <= max
    IN  Max({k \in 0..Len(s.nodes) : \A j \in 1..k : fits(j)})

\* snapshotJSONSizeForPrefix
PrefixSize(s, base, k) ==
    LET retained == Ids(SubSeq(s.nodes, 1, k))
    IN  SizeFromBase(base, IF k = 0 THEN NodeSize(Bare(s.root)) ELSE PrunedSize(s.nodes[1], retained),
                     Sum(1..k, LAMBDA i : PrunedSize(s.nodes[i], retained)), k)

\* The binary search of projectSnapshotPrefixWithinBudget; -1 when nothing fits
RECURSIVE Search(_, _, _, _, _, _)
Search(s, base, max, low, high, best) ==
    LET middle == low + (high - low) \div 2
    IN  IF low > high THEN best
        ELSE IF PrefixSize(s, base, middle) <= max THEN Search(s, base, max, middle + 1, high, middle)
        ELSE Search(s, base, max, low, middle - 1, best)

\* pruneSnapshotReferencesWithRetained
Pruned(nodes) ==
    LET retained == Ids(nodes)
    IN  [i \in DOMAIN nodes |->
            [nodes[i] EXCEPT !.children = Kept(@, retained),
                             !.relations = [r \in DOMAIN @ |-> Kept(@[r], retained)]]]

\* projectSnapshotPrefixWithinBudget
Project(s, best) ==
    IF best <= 0 THEN [s EXCEPT !.nodes = <<>>, !.root = Bare(@)]
    ELSE LET nodes == Pruned(SubSeq(s.nodes, 1, best)) IN [s EXCEPT !.nodes = nodes, !.root = nodes[1]]

\* minimumSnapshotResponse
Minimum(s, max) ==
    LET least == [s EXCEPT !.nodes = <<>>, !.root = Bare(@), !.warnings = 0]
    IN  IF Size(least) > max THEN Refused ELSE least

\* boundSnapshotResponse
BoundSnapshot(s, max) ==
    LET bounded == BoundNodes([s EXCEPT !.truncated = TRUE], max)
        base == BaseSize(bounded)
        projected == Project(bounded, Search(bounded, base, max, 0, MaximumPotential(bounded, base, max), -1))
    IN  IF Size(s) <= max THEN s
        ELSE IF Size(bounded) <= max THEN bounded
        ELSE IF Size(projected) > max THEN Minimum(projected, max) ELSE projected

-----------------------------------------------------------------------------
(* A fresh observation.  A tree gives each object its parent, the words of   *)
(* its name and of its role, its text as a sequence of characters, its       *)
(* states, its attributes and the targets of its two label relations.        *)

\* A wide character takes two bytes
Bytes(text) == Len(text) + Len(SelectSeq(text, LAMBDA c : c = "w"))

\* readNodeText asks for at most max characters, and truncateUTF8 cuts what it
\* gets to max bytes.
Asked(text, max) == SubSeq(text, 1, IF Len(text) > max THEN max ELSE Len(text))
Cut(text, max) == SubSeq(text, 1, Max({k \in 0..Len(text) : Bytes(SubSeq(text, 1, k)) <= max}))

\* What fails of a node, as readNodeWithCache meets it: without the interfaces
\* neither the text nor the relations are asked for.
Warnings(q, n) ==
    {p \in q.failed[n] : p \in {"Text", "GetRelationSet"} => "GetInterfaces" \notin q.failed[n]}

\* readNodeWithCache, of a fresh read
Observed(q, n) ==
    LET t == q.tree[n]
        fails(p) == p \in q.failed[n]
        blind == fails("GetInterfaces")
        text == IF blind \/ fails("Text") THEN <<>> ELSE Asked(t.text, q.max)
    IN  [parent |-> t.parent,
         name |-> IF fails("Name") THEN {} ELSE t.name,
         role |-> IF fails("GetRole") THEN {} ELSE t.role,
         text |-> Cut(text, q.max), cut |-> Bytes(text) > q.max,
         states |-> IF fails("GetState") THEN {} ELSE t.states,
         attributes |-> IF fails("GetAttributes") THEN {} ELSE t.attributes,
         by |-> IF blind \/ fails("GetRelationSet") THEN {} ELSE t.by,
         for |-> IF blind \/ fails("GetRelationSet") THEN {} ELSE t.for]

\* walkChildren passes over an object that cannot be read, with a warning of its
\* own, and over what is below it.
RECURSIVE Passed(_, _)
Passed(q, n) == n \in q.lost \/ (q.tree[n].parent # None /\ Passed(q, q.tree[n].parent))

\* walk: the nodes that a snapshot holds
Walked(q) == {n \in DOMAIN q.tree : ~Passed(q, n)}
Snapshot(q) == [n \in Walked(q) |-> Observed(q, n)]

-----------------------------------------------------------------------------
(* Whether the observation can answer a selector.                            *)

UsesRole(sel) == sel.role # None \/ \E i \in DOMAIN sel.ancestors : sel.ancestors[i].role # None
UsesText(sel) == sel.text # None \/ sel.label # None

\* Mutant of UsesName: a label is found by relations alone.
UsesOwnName(sel) == sel.name # None \/ \E i \in DOMAIN sel.ancestors : sel.ancestors[i].name # None

UsesName(sel) ==
    sel.name # None \/ sel.label # None \/ \E i \in DOMAIN sel.ancestors : sel.ancestors[i].name # None

\* semanticWarningAffectsSelector
Affects(p, sel) ==
    CASE p = "Name" -> UsesName(sel)
      [] p = "GetRole" -> UsesRole(sel)
      [] p = "GetState" -> sel.states # {}
      [] p \in {"GetInterfaces", "Text"} -> UsesText(sel)
      [] p = "GetAttributes" -> sel.attributes # {}
      [] p = "GetRelationSet" -> sel.label # None
      [] p = "Optional" -> FALSE
      [] OTHER -> TRUE

\* ValidateSemanticSnapshot: the walk's own warnings are of no node
Valid(q, sel) ==
    /\ q.lost = {}
    /\ \A n \in Walked(q) : \A p \in Warnings(q, n) : ~Affects(p, sel)
    /\ UsesText(sel) => \A n \in Walked(q) : ~Observed(q, n).cut

-----------------------------------------------------------------------------
(* Selection.  nodes is what is known of each object.                        *)

Wants(want, have) == want = None \/ want \in have
ToSetOf(text) == {text[i] : i \in DOMAIN text}

\* matchesSelectorNode
MatchesNode(node, sel) ==
    /\ Wants(sel.name, node.name) /\ Wants(sel.role, node.role) /\ Wants(sel.text, ToSetOf(node.text))
    /\ sel.states \subseteq node.states /\ sel.attributes \subseteq node.attributes

Named(node, label) == label \in node.name \cup ToSetOf(node.text)

\* matchesLabel, by either relation, and never by the node itself
MatchesLabel(nodes, n, label) ==
    \/ label = None
    \/ \E l \in DOMAIN nodes \ {n} : (l \in nodes[n].by \/ n \in nodes[l].for) /\ Named(nodes[l], label)

\* matchesAncestors: upwards from p, for what is still wanted
RECURSIVE Ascend(_, _, _, _)
Ascend(nodes, p, wanted, visited) ==
    \/ wanted = <<>>
    \/ /\ p \in DOMAIN nodes \ visited
       /\ LET found == Wants(Head(wanted).name, nodes[p].name) /\ Wants(Head(wanted).role, nodes[p].role)
          IN  Ascend(nodes, nodes[p].parent, IF found THEN Tail(wanted) ELSE wanted, visited \cup {p})

\* FilterSnapshotSelector
Filter(nodes, sel) ==
    {n \in DOMAIN nodes : /\ MatchesNode(nodes[n], sel)
                          /\ MatchesLabel(nodes, n, sel.label)
                          /\ Ascend(nodes, nodes[n].parent, sel.ancestors, {n})}

AnySelector == [name |-> None, role |-> None, text |-> None, label |-> None,
                states |-> {}, attributes |-> {}, ancestors |-> <<>>]
IsFocused == [AnySelector EXCEPT !.states = {"focused"}]

Select(q) == IF Valid(q, q.selector) THEN Filter(Snapshot(q), q.selector) ELSE Refused

\* Focused: the first node of the walk that is focused; objects are numbered as
\* they are met.
Focused(q) ==
    LET focused == {n \in Walked(q) : "focused" \in Observed(q, n).states}
    IN  IF ~Valid(q, IsFocused) THEN Refused
        ELSE IF focused = {} THEN NotFound ELSE Min(focused)

-----------------------------------------------------------------------------

Init == question \in Questions /\ answer = None

Ask(kind, value) ==
    /\ answer = None /\ question.kind = kind
    /\ answer' = value
    /\ UNCHANGED question

Bound == Ask("bound", BoundSnapshot(question.snapshot, question.max))
FindAll == Ask("select", Select(question))
\* FilterSnapshotSelector of a snapshot of any origin, whose parents may form a cycle
FilterAny == Ask("filter", Filter(question.tree, question.selector))
FindFocused == Ask("focused", Focused(question))

Next == Bound \/ FindAll \/ FilterAny \/ FindFocused

-----------------------------------------------------------------------------

\* A response that fits is given as it is.  Any other says that it is truncated
\* and stays within the budget: it holds as many nodes as could fit once the
\* references that leave the prefix are gone, which is more than the sizes of
\* whole nodes allow, it refers to no node it has dropped, and it is refused only
\* when not even the identity of the root fits (boundSnapshotResponse).
BudgetIsMet ==
    answer # None /\ question.kind = "bound" =>
        LET s == question.snapshot
            trimmed == BoundNodes([s EXCEPT !.truncated = TRUE], question.max)
            fitting == {k \in 0..Len(s.nodes) : Size(Project(trimmed, k)) <= question.max}
            least == [Project(trimmed, 0) EXCEPT !.warnings = 0]
        IN  IF Size(s) <= question.max THEN answer = s
            ELSE IF answer = Refused THEN fitting = {} /\ Size(least) > question.max
            ELSE /\ answer.truncated /\ Size(answer) <= question.max
                 /\ Ids(answer.nodes) = Ids(SubSeq(s.nodes, 1, Len(answer.nodes)))
                 /\ Len(answer.nodes) = Max(fitting \cup {0})
                 /\ \A i \in DOMAIN answer.nodes :
                        LET node == answer.nodes[i]
                            refs == ToSetOf(node.children) \cup UNION {ToSetOf(node.relations[r]) : r \in DOMAIN node.relations}
                        IN  refs \subseteq Ids(answer.nodes) \/ answer = trimmed

\* The ancestors of n, from the nearest: the chain of parents, cut where it leaves
\* the tree or meets an object again
Chain(nodes, n) ==
    LET up[k \in 0..Cardinality(DOMAIN nodes)] == IF k = 0 THEN n
            ELSE IF up[k - 1] \in DOMAIN nodes THEN nodes[up[k - 1]].parent ELSE None
        good == {k \in 0..Cardinality(DOMAIN nodes) :
                    \A j \in 0..k : up[j] \in DOMAIN nodes /\ \A i \in 0..j - 1 : up[i] # up[j]}
    IN  [k \in 1..Max(good) |-> up[k]]

\* The ancestors wanted are met in their order
Above(nodes, n, wanted) ==
    \E f \in [DOMAIN wanted -> DOMAIN Chain(nodes, n)] :
        /\ \A i, j \in DOMAIN wanted : i < j => f[i] < f[j]
        /\ \A i \in DOMAIN wanted :
               LET a == nodes[Chain(nodes, n)[f[i]]]
               IN  Wants(wanted[i].name, a.name) /\ Wants(wanted[i].role, a.role)

\* What a selector really selects
Selected(tree, sel) ==
    {n \in DOMAIN tree :
        /\ MatchesNode(tree[n], sel)
        /\ sel.label # None =>
              \E l \in DOMAIN tree : l # n /\ (l \in tree[n].by \/ n \in tree[l].for) /\ Named(tree[l], sel.label)
        /\ Above(tree, n, sel.ancestors)}

\* readNodeText cuts a text of more than max characters before it is measured, so
\* a text of narrow characters is cut without a mark.
CutUnmarked(q) == \E n \in DOMAIN q.tree : Len(q.tree[n].text) > q.max

\* An observation that is accepted selects what the tree itself selects, whatever
\* reads have failed: a failed read that the selector depends on, directly, by a
\* label or by an ancestor, makes the observation unusable
\* (ValidateSemanticSnapshot, FilterSnapshotSelector, Focused).
SelectionIsExact ==
    answer \notin {None, Refused} =>
        /\ question.kind = "select" /\ ~(UsesText(question.selector) /\ CutUnmarked(question)) =>
              answer = Selected(question.tree, question.selector)
        /\ question.kind = "filter" => answer = Selected(question.tree, question.selector)
        /\ question.kind = "focused" =>
              IF answer = NotFound THEN Selected(question.tree, IsFocused) = {}
              ELSE answer \in Selected(question.tree, IsFocused)
=============================================================================
