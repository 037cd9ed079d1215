------------------------------- MODULE FlowGraph -----------------------------
(* The graph of a flow editor in packages/flow: nodes minted by a            *)
(* NodePalette, and the algorithms of dag.ts, step by step as their loops    *)
(* run.                                                                      *)
(*                                                                           *)
(* Ids are numbers.  A call of dag.ts is synchronous: the graph does not     *)
(* change between its steps.  What the user does (connect, delete) is        *)
(* @xyflow/svelte's or the application's, which owns both arrays.            *)
EXTENDS Naturals, Sequences, FiniteSets, FiniteSetsExt

CONSTANTS
    MaxId,          \* bound: ids
    MaxEdges        \* bound: edges of the graph

VARIABLES
    nodes,          \* the canvas's nodes: ids, in array order
    edges,          \* the canvas's edges: <<source, target>>
    task,           \* the call of dag.ts under way
    indegree, ready, order,                 \* topologicalSort
    root, frames, visited, stack, cycles,   \* findCycles
    start, queue, reached, steps,           \* reachableFrom
    answer          \* of the last call, until the graph changes

canvas == <<nodes, edges>>
sorting == <<indegree, ready, order>>
searching == <<root, frames, visited, stack, cycles>>
reaching == <<start, queue, reached, steps>>
vars == <<canvas, task, sorting, searching, reaching, answer>>

Ids == 1..MaxId
Elements(s) == {s[i] : i \in DOMAIN s}
NoAnswer == [call |-> "none"]

(* The elements of s that are wanted, in their order.                        *)
Kept(s, wanted) ==
    LET upTo[i \in 0..Len(s)] ==
            IF i = 0 THEN <<>>
            ELSE IF s[i] \in wanted THEN Append(upTo[i - 1], s[i]) ELSE upTo[i - 1]
    IN upTo[Len(s)]

(* buildAdjacency(): the targets of an id's edges, in their order; an edge   *)
(* with an end that is no node is skipped.                                   *)
Known(e) == e[1] \in Elements(nodes) /\ e[2] \in Elements(nodes)
Outgoing(id) ==
    LET own == Kept(edges, {e \in {id} \X Ids : Known(e)})
    IN  [i \in DOMAIN own |-> own[i][2]]
EdgesInto(id) == {i \in DOMAIN edges : edges[i][2] = id /\ Known(edges[i])}
EdgesBetween(a, b) == {i \in EdgesInto(b) : edges[i][1] = a}

IdleWork ==
    /\ indegree = <<>> /\ ready = {} /\ order = <<>>
    /\ root = 0 /\ frames = <<>> /\ visited = {} /\ stack = <<>> /\ cycles = <<>>
    /\ start = 0 /\ queue = <<>> /\ reached = {} /\ steps = 0

Init ==
    /\ nodes = <<>> /\ edges = <<>>
    /\ task = "idle" /\ answer = NoAnswer
    /\ IdleWork

Edit == task = "idle" /\ answer' = NoAnswer /\ UNCHANGED <<task, sorting, searching, reaching>>

(* createNode(): the id is explicit or the counter's, which does not know of *)
(* the explicit ones, so an id may come twice.                               *)
CreateNode ==
    /\ Edit
    /\ Len(nodes) < MaxId
    /\ \E id \in Ids : nodes' = Append(nodes, id)
    /\ UNCHANGED edges

Connect ==
    /\ Edit
    /\ Len(edges) < MaxEdges
    /\ \E a, b \in Elements(nodes) : edges' = Append(edges, <<a, b>>)
    /\ UNCHANGED nodes

(* A node goes, with its edges or, when the application only filters its     *)
(* nodes, without them.                                                      *)
Delete ==
    /\ Edit
    /\ \E id \in Elements(nodes) :
        /\ nodes' = Kept(nodes, Ids \ {id})
        /\ \/ edges' = Kept(edges, (Ids \ {id}) \X (Ids \ {id}))
           \/ UNCHANGED edges

-------------------------------------------------------------------------------
(* topologicalSort(): Kahn's algorithm over the indegrees.                   *)
Sort ==
    /\ task = "idle"
    /\ task' = "sort"
    /\ indegree' = [id \in Elements(nodes) |-> Cardinality(EdgesInto(id))]
    /\ ready' = {id \in Elements(nodes) : EdgesInto(id) = {}}
    /\ order' = <<>>
    /\ answer' = NoAnswer
    /\ UNCHANGED <<canvas, searching, reaching>>

(* Each edge of the node taken lowers the indegree of its target.            *)
Lowered(deg, id) == [n \in DOMAIN deg |-> deg[n] - Cardinality(EdgesBetween(id, n))]

(* The queue is kept sorted: the smallest id that is ready is next.          *)
SortStep ==
    /\ task = "sort"
    /\ ready # {}
    /\ Len(order) < Len(nodes)
    /\ LET id == Min(ready)
           lower == Lowered(indegree, id)
       IN  /\ order' = Append(order, id)
           /\ indegree' = lower
           /\ ready' = (ready \ {id}) \cup
                       {n \in DOMAIN lower : lower[n] = 0 /\ indegree[n] > 0}
    /\ UNCHANGED <<canvas, task, searching, reaching, answer>>

(* findCycles() begins with an empty stack, for itself or for the            *)
(* CycleError of a sort that did not emit every node.                        *)
BeginSearch(for) ==
    /\ task' = for
    /\ root' = 1 /\ frames' = <<>> /\ visited' = {} /\ stack' = <<>> /\ cycles' = <<>>

SortEnds ==
    /\ task = "sort"
    /\ ready = {} \/ Len(order) = Len(nodes)
    /\ IF Len(order) = Len(nodes)
       THEN /\ task' = "idle"
            /\ answer' = [call |-> "sort", order |-> order]
            /\ indegree' = <<>> /\ ready' = {} /\ order' = <<>>
            /\ UNCHANGED searching
       ELSE /\ BeginSearch("explain")
            /\ indegree' = <<>> /\ ready' = {} /\ order' = <<>>
            /\ UNCHANGED answer
    /\ UNCHANGED <<canvas, reaching>>

-------------------------------------------------------------------------------
(* findCycles(): depth-first search over an explicit frame stack.            *)
FindCycles ==
    /\ task = "idle"
    /\ answer' = NoAnswer
    /\ BeginSearch("cycles")
    /\ UNCHANGED <<canvas, sorting, reaching>>

Searching == task \in {"cycles", "explain"}

Enter(id) ==
    /\ visited' = visited \cup {id}
    /\ stack' = Append(stack, id)

(* visit(node.id) for the next node, unless an earlier visit got there.      *)
Visit ==
    /\ Searching
    /\ frames = <<>>
    /\ root <= Len(nodes)
    /\ root' = root + 1
    /\ IF nodes[root] \in visited
       THEN UNCHANGED <<frames, visited, stack>>
       ELSE /\ Enter(nodes[root])
            /\ frames' = <<[id |-> nodes[root], next |-> 1]>>
    /\ UNCHANGED <<canvas, task, sorting, cycles, reaching, answer>>

(* A child that is on the stack closes a cycle.                              *)
OnStack(child) == child \in Elements(stack)

(* The ids from the child on, and the child again.                           *)
Cycle(child) ==
    Append(SubSeq(stack, Min({i \in DOMAIN stack : stack[i] = child}), Len(stack)), child)

\* mistake: a node whose children are done is left on the stack.
Unpopped(s) == s

(* leave(): the node whose children are done.                                *)
Popped(s) == SubSeq(s, 1, Len(s) - 1)

SearchStep ==
    /\ Searching
    /\ frames # <<>>
    /\ LET top == Len(frames)
           frame == frames[top]
           children == Outgoing(frame.id)
       IN  IF frame.next > Len(children)
           THEN /\ frames' = SubSeq(frames, 1, top - 1)
                /\ stack' = Popped(stack)
                /\ UNCHANGED <<visited, cycles>>
           ELSE LET child == children[frame.next]
                    moved == [frames EXCEPT ![top].next = @ + 1]
                IN  IF OnStack(child)
                    THEN /\ cycles' = Append(cycles, Cycle(child))
                         /\ frames' = moved
                         /\ UNCHANGED <<visited, stack>>
                    ELSE IF child \notin visited
                    THEN /\ Enter(child)
                         /\ frames' = Append(moved, [id |-> child, next |-> 1])
                         /\ UNCHANGED cycles
                    ELSE /\ frames' = moved
                         /\ UNCHANGED <<visited, stack, cycles>>
    /\ UNCHANGED <<canvas, task, sorting, root, reaching, answer>>

SearchEnds ==
    /\ Searching
    /\ frames = <<>>
    /\ root > Len(nodes)
    /\ answer' = [call |-> task, cycles |-> cycles]
    /\ task' = "idle"
    /\ root' = 0 /\ visited' = {} /\ cycles' = <<>>
    /\ UNCHANGED <<canvas, sorting, frames, stack, reaching>>

-------------------------------------------------------------------------------
(* reachableFrom(): breadth first, in at most edges + 1 steps.               *)
Reach ==
    /\ task = "idle"
    /\ task' = "reach"
    /\ answer' = NoAnswer
    /\ start' \in Ids
    /\ queue' = <<start'>>
    /\ reached' = {} /\ steps' = 0
    /\ UNCHANGED <<canvas, sorting, searching>>

MaxSteps == Len(edges) + 1

ReachStep ==
    /\ task = "reach"
    /\ queue # <<>> /\ steps < MaxSteps
    /\ steps' = steps + 1
    /\ reached' = reached \cup {Head(queue)}
    /\ queue' = IF Head(queue) \in reached THEN Tail(queue)
                ELSE Tail(queue) \o Outgoing(Head(queue))
    /\ UNCHANGED <<canvas, task, sorting, searching, start, answer>>

ReachEnds ==
    /\ task = "reach"
    /\ queue = <<>> \/ steps = MaxSteps
    /\ task' = "idle"
    /\ answer' = [call |-> "reach", from |-> start, set |-> reached \ {start}]
    /\ start' = 0 /\ queue' = <<>> /\ reached' = {} /\ steps' = 0
    /\ UNCHANGED <<canvas, sorting, searching>>

Next ==
    \/ CreateNode \/ Connect \/ Delete
    \/ Sort \/ SortStep \/ SortEnds
    \/ FindCycles \/ Visit \/ SearchStep \/ SearchEnds
    \/ Reach \/ ReachStep \/ ReachEnds

Spec == Init /\ [][Next]_vars

-------------------------------------------------------------------------------
Edge(a, b) == \E i \in DOMAIN edges : edges[i] = <<a, b>> /\ Known(edges[i])

(* The definition the code is compared with: b can be got to from a along    *)
(* edges between nodes of the graph.                                         *)
Closed(set) == \A a \in set, b \in Ids : Edge(a, b) => b \in set
Path(a, b) ==
    \A set \in SUBSET Ids : Closed(set) /\ (\A c \in Ids : Edge(a, c) => c \in set) => b \in set
Cyclic == \E id \in Ids : Path(id, id)
Distinct == Cardinality(Elements(nodes)) = Len(nodes)

(* Whatever was created, connected and deleted before, parallel, circular and*)
(* dangling edges included, a sort of distinct ids is an order in which      *)
(* every edge points forward, and is only refused with a cycle of the graph; *)
(* findCycles() reports real cycles, and none only for a graph    *)
(* without; reachableFrom() finds exactly what a path leads to within its    *)
(* bound of edges + 1 steps (dag.ts:55-176).                                 *)
AnswersRight ==
    /\ answer.call = "sort" =>
        /\ Elements(answer.order) = Elements(nodes)
        /\ \A i, j \in DOMAIN answer.order :
               Edge(answer.order[i], answer.order[j]) => i < j
    /\ answer.call \in {"cycles", "explain"} =>
        /\ \A c \in Elements(answer.cycles) :
               c[1] = c[Len(c)] /\ \A i \in 1..(Len(c) - 1) : Edge(c[i], c[i + 1])
        /\ answer.cycles = <<>> => ~Cyclic
        /\ answer.call = "explain" /\ Distinct => answer.cycles # <<>>
    /\ answer.call = "reach" =>
        answer.set = {b \in Ids \ {answer.from} : Path(answer.from, b)}
==============================================================================
