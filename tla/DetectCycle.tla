----------------------------- MODULE DetectCycle -----------------------------
(***************************************************************************)
(* The depth-first search of detect_cycle in src/nodes/lock_manager.py, as *)
(* it runs.  A graph gives for every client the set it waits for; a set    *)
(* has no order in Python, so a search has one outcome per order.          *)
(* LockTable states what the search decides, not how.  Of the path only    *)
(* who is on it is kept.                                                   *)
(***************************************************************************)

\* What a search came to: whether it found a cycle, and whom it visited.
Outcome(found, visited) == [found |-> found, visited |-> visited]

RECURSIVE Dfs(_, _, _, _), Neighbors(_, _, _, _)

\* The outcomes of dfs(node), given whom the search visited and its path.
Dfs(g, node, visited, path) ==
    IF node \in visited THEN {Outcome(node \in path, visited)}
    ELSE Neighbors(g, g[node], visited \cup {node}, path \cup {node})

\* Those of the loop over the neighbors that are left: it ends with the first
\* cycle.
Neighbors(g, rest, visited, path) ==
    IF rest = {} THEN {Outcome(FALSE, visited)}
    ELSE UNION {LET of_first == Dfs(g, n, visited, path) IN
                    {o \in of_first : o.found} \cup
                    UNION {Neighbors(g, rest \ {n}, o.visited, path) :
                           o \in {p \in of_first : ~p.found}}
                : n \in rest}

\* detect_cycle(start), for every order of the sets.
DetectCycle(g, start) == {o.found : o \in Dfs(g, start, {}, {})}
=============================================================================
