---------------------------- MODULE KnowledgeTree ----------------------------
(***************************************************************************)
(* The knowledge tree of a product (routers/knowledge.py): nodes are       *)
(* created, moved and deleted by requests that run in threads of their     *)
(* own.  A move reads the ancestors of the new parent one row at a time    *)
(* and only then writes, so two moves can each be right and together close *)
(* a cycle, which build_tree does not show.                                *)
(***************************************************************************)
EXTENDS Integers, FiniteSets

CONSTANTS Nodes, Moves,    \* node ids; requests to move a node
          TopLevel,        \* parent_id is null
          Uncreated, Deleted,
          MaxTreeEdits     \* bound on creations and deletions

ASSUME TreeIds ==
  /\ {TopLevel, Uncreated, Deleted} \cap Nodes = {}
  /\ TopLevel # Uncreated /\ TopLevel # Deleted /\ Uncreated # Deleted

VARIABLES
  parent,   \* parent_id of each node
  move,     \* requests to move a node
  overlap,  \* two moves have been under way at once
  treeEdits

treeVars == <<parent, move, overlap, treeEdits>>

Living(n) == parent[n] \in Nodes \cup {TopLevel}
Idle == [at |-> "idle"]
Ended == [at |-> "ended"]
Moving(m) == move[m].at \in {"walk", "save"}

(* What hangs below some nodes, they included: the least set with them and *)
(* the children of its members.                                            *)
Nested(S) == \A n \in Nodes : parent[n] \in S => n \in S
Below(R) == {n \in Nodes : \A S \in SUBSET Nodes : R \subseteq S /\ Nested(S) => n \in S}

(* build_tree nests every node under its parent and returns the roots; it  *)
(* would also return a node whose parent is gone, but the key forbids it.  *)
Roots == {n \in Nodes : parent[n] = TopLevel}
Shown(n) == n \in Below(Roots)

Subtree(n) == Below({n})

(* parent_id is a foreign key. *)
ParentsThere == \A n \in Nodes : parent[n] \in Nodes => Living(parent[n])

TreeInit ==
  /\ parent \in [Nodes -> Nodes \cup {TopLevel, Uncreated}]
  /\ ParentsThere /\ \A n \in Nodes : Living(n) => Shown(n)
  /\ move \in [Moves -> {Idle, Ended}]
  /\ overlap = FALSE
  /\ treeEdits \in 0 .. MaxTreeEdits

TreeEditing == treeEdits < MaxTreeEdits /\ treeEdits' = treeEdits + 1

CreateNode(n) ==
  /\ parent[n] = Uncreated
  /\ TreeEditing
  /\ \E up \in {m \in Nodes : Living(m)} \cup {TopLevel} : parent' = [parent EXCEPT ![n] = up]
  /\ UNCHANGED <<move, overlap>>

(* The database deletes the subtree: ON DELETE CASCADE. *)
DeleteNode(n) ==
  /\ Living(n)
  /\ TreeEditing
  /\ parent' = [m \in Nodes |-> IF m \in Subtree(n) THEN Deleted ELSE parent[m]]
  /\ UNCHANGED <<move, overlap>>

(* The node and its new parent are loaded; moving to the top needs no walk. *)
MoveStart(m) ==
  /\ move[m] = Idle
  /\ \E n \in Nodes, up \in Nodes \cup {TopLevel} :
       /\ Living(n) /\ up # n
       /\ up \in Nodes => Living(up)
       /\ move' = [move EXCEPT ![m] =
            [at |-> IF up = TopLevel THEN "save" ELSE "walk", node |-> n, to |-> up,
             cursor |-> up, next |-> IF up = TopLevel THEN up ELSE parent[up], seen |-> {}]]
  /\ overlap' = (overlap \/ \E other \in Moves \ {m} : Moving(other))
  /\ UNCHANGED <<parent, treeEdits>>

Cyclic(w) == w.cursor = w.node
CyclicDirectly(w) == w.to = w.node
Closes(w) == Cyclic(w)

WalkedOut(w) == w.next \notin Nodes \/ w.next \in w.seen \cup {w.cursor}
WalkOver(w) == WalkedOut(w)

(* One step up: refuse to move a node below itself, stop at the top or     *)
(* where the walk has been before, else read the next row.                 *)
WalkUp(m) ==
  LET w == move[m] IN
  /\ w.at = "walk"
  /\ move' = [move EXCEPT ![m] =
       IF Closes(w) THEN Ended
       ELSE IF WalkOver(w) THEN [w EXCEPT !.at = "save"]
       ELSE [w EXCEPT !.cursor = w.next, !.next = parent[w.next], !.seen = @ \cup {w.cursor}]]
  /\ UNCHANGED <<parent, overlap, treeEdits>>

(* The commit fails when the node or its new parent has been deleted. *)
MoveSave(m) ==
  LET w == move[m] IN
  /\ w.at = "save"
  /\ parent' = IF Living(w.node) /\ (w.to \in Nodes => Living(w.to))
               THEN [parent EXCEPT ![w.node] = w.to] ELSE parent
  /\ move' = [move EXCEPT ![m] = Ended]
  /\ UNCHANGED <<overlap, treeEdits>>

TreeNext ==
  \/ \E n \in Nodes : CreateNode(n) \/ DeleteNode(n)
  \/ \E m \in Moves : MoveStart(m) \/ WalkUp(m) \/ MoveSave(m)

TreeSpec == TreeInit /\ [][TreeNext]_treeVars

(***************************************************************************)
(* Properties.                                                             *)
(***************************************************************************)

(* Every node of a product is in the tree that build_tree returns, unless  *)
(* two moves overlapped (_validate_parent_move, update_node).              *)
NodesShown == overlap \/ \A n \in Nodes : Living(n) => Shown(n)

=============================================================================
