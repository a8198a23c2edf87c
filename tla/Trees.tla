------------------------------- MODULE Trees --------------------------------
(***************************************************************************)
(* The trees of include/tree.h: the red-black tree in which the Windows    *)
(* build of libuv keeps its timers (uv-win.h:311, 531), and the splay      *)
(* tree.  A node is its own key.  What the code writes out twice, with     *)
(* left and right exchanged, is written once, for a side s and the other.  *)
(*                                                                         *)
(* The macros are operators on the links of the nodes.  The state machine  *)
(* below inserts, removes and looks up in either tree, and says of what    *)
(* results what the comments of tree.h say of the macros.                  *)
(***************************************************************************)
EXTENDS Integers, Sequences, FiniteSets

CONSTANT MaxNode
ASSUME TreeAssumption == MaxNode \in Nat

Node == 1 .. MaxNode
NULL == 0
Temp == MaxNode + 1  \* __node, a local variable of SPLAY
Link == Node \cup {NULL}
Side == {"left", "right"}
Opp(s) == IF s = "left" THEN "right" ELSE "left"

NoLinks == [s \in Side |-> [n \in Node \cup {Temp} |-> NULL]]

\* The side of n where elm belongs.
SideFor(elm, n) == IF elm < n THEN "left" ELSE "right"

-----------------------------------------------------------------------------
(* Red-black trees.                                                        *)

\* RB_ENTRY, RB_HEAD and RB_INIT.
RB_INIT == [root |-> NULL, child |-> NoLinks, parent |-> [n \in Node |-> NULL],
            color |-> [n \in Node |-> "black"]]

IsRed(t, n) == n # NULL /\ t.color[n] = "red"

\* The side of its parent that n, or the missing child NULL, is on.
SideOf(t, n, parent) == IF t.child["left"][parent] = n THEN "left" ELSE "right"

SetParent(t, n, up) == IF n = NULL THEN t ELSE [t EXCEPT !.parent[n] = up]
SetColor(t, n, c)   == IF n = NULL THEN t ELSE [t EXCEPT !.color[n] = c]

\* The link to old, from its parent or from the head, becomes one to new.
Relink(t, parent, old, new) ==
  IF parent = NULL THEN [t EXCEPT !.root = new]
  ELSE [t EXCEPT !.child[SideOf(t, old, parent)][parent] = new]

RB_SET(t, elm, parent) ==
  [t EXCEPT !.parent[elm] = parent, !.color[elm] = "red",
            !.child["left"][elm] = NULL, !.child["right"][elm] = NULL]

RB_SET_BLACKRED(t, black, red) == SetColor(SetColor(t, black, "black"), red, "red")

\* Faulty variant: the inner grandchild does not learn of its new parent.
RotateKeepsParent(t, elm, s) ==
  LET tmp == t.child[Opp(s)][elm]
      t1  == [t EXCEPT !.child[Opp(s)][elm] = t.child[s][tmp],
                       !.parent[tmp] = t.parent[elm]]
      t2  == Relink(t1, t.parent[elm], elm, tmp)
  IN  [t2 EXCEPT !.child[s][tmp] = elm, !.parent[elm] = tmp]

\* RB_ROTATE_LEFT and RB_ROTATE_RIGHT: elm goes down on side s.
RB_ROTATE(t, elm, s) ==
  LET tmp == t.child[Opp(s)][elm]
      t1  == SetParent([t EXCEPT !.child[Opp(s)][elm] = t.child[s][tmp],
                                 !.parent[tmp] = t.parent[elm]], t.child[s][tmp], elm)
      t2  == Relink(t1, t.parent[elm], elm, tmp)
  IN  [t2 EXCEPT !.child[s][tmp] = elm, !.parent[elm] = tmp]

RECURSIVE RB_INSERT_COLOR(_, _)
RB_INSERT_COLOR(t, elm) ==
  LET parent  == t.parent[elm]
      gparent == t.parent[parent]
      s       == SideOf(t, parent, gparent)
      uncle   == t.child[Opp(s)][gparent]
      inner   == t.child[Opp(s)][parent] = elm
      t1      == IF inner THEN RB_ROTATE(t, parent, s) ELSE t
      upper   == IF inner THEN elm ELSE parent
      lower   == IF inner THEN parent ELSE elm
  IN CASE ~IsRed(t, parent) -> SetColor(t, t.root, "black")
       [] IsRed(t, parent) /\ IsRed(t, uncle) ->
            RB_INSERT_COLOR(RB_SET_BLACKRED(SetColor(t, uncle, "black"), parent, gparent),
                            gparent)
       [] IsRed(t, parent) /\ ~IsRed(t, uncle) ->
            RB_INSERT_COLOR(RB_ROTATE(RB_SET_BLACKRED(t1, upper, gparent), gparent, Opp(s)),
                            lower)

\* The last node on the way from n to elm, or elm.
RECURSIVE Descend(_, _, _)
Descend(t, n, elm) ==
  IF n \in {NULL, elm} \/ t.child[SideFor(elm, n)][n] = NULL THEN n
  ELSE Descend(t, t.child[SideFor(elm, n)][n], elm)

\* The links of a node outside the tree are written before they are read again.
Forget(t, elm) == [t EXCEPT !.child["left"][elm] = NULL, !.child["right"][elm] = NULL]
ForgetRB(t, elm) ==
  [Forget(t, elm) EXCEPT !.parent[elm] = NULL, !.color[elm] = "black"]

RB_FIND(t, elm) == IF Descend(t, t.root, elm) = elm THEN elm ELSE NULL

\* A node whose key is there already is not inserted.
RB_INSERT(t, elm) ==
  LET parent == Descend(t, t.root, elm)
      t1     == RB_SET(t, elm, parent)
  IN CASE parent = elm  -> t
       [] parent = NULL -> RB_INSERT_COLOR([t1 EXCEPT !.root = elm], elm)
       [] OTHER -> RB_INSERT_COLOR([t1 EXCEPT !.child[SideFor(elm, parent)][parent] = elm],
                                   elm)

\* Faulty variant: a red sibling is taken for a black one with black children.
RECURSIVE RemoveColorNoRed(_, _, _)
RemoveColorNoRed(t, parent, elm) ==
  IF IsRed(t, elm) \/ elm = t.root THEN SetColor(t, elm, "black")
  ELSE LET sibling == t.child[Opp(SideOf(t, elm, parent))][parent]
       IN  RemoveColorNoRed(SetColor(t, sibling, "red"), t.parent[parent], parent)

\* A red sibling goes up first.  With two black nephews the loop goes on above;
\* or else the outer nephew is made red, and one rotation ends the loop.
RECURSIVE RB_REMOVE_COLOR(_, _, _)
RB_REMOVE_COLOR(t, parent, elm) ==
  LET s      == SideOf(t, elm, parent)
      red    == t.child[Opp(s)][parent]
      t0     == IF IsRed(t, red) THEN RB_ROTATE(RB_SET_BLACKRED(t, red, parent), parent, s)
                ELSE t
      tmp    == t0.child[Opp(s)][parent]
      inner  == t0.child[s][tmp]
      outer  == t0.child[Opp(s)][tmp]
      t1     == IF IsRed(t0, outer) THEN t0
                ELSE RB_ROTATE(RB_SET_BLACKRED(t0, inner, tmp), tmp, Opp(s))
      upper  == t1.child[Opp(s)][parent]
      t2     == SetColor(SetColor(t1, upper, t1.color[parent]), parent, "black")
      t3     == RB_ROTATE(SetColor(t2, t2.child[Opp(s)][upper], "black"), parent, s)
  IN IF IsRed(t, elm) \/ elm = t.root THEN SetColor(t, elm, "black")
     ELSE IF ~IsRed(t0, inner) /\ ~IsRed(t0, outer)
     THEN RB_REMOVE_COLOR(SetColor(t0, tmp, "red"), t0.parent[parent], parent)
     ELSE SetColor(t3, t3.root, "black")

RECURSIVE Outermost(_, _, _)
Outermost(t, n, s) ==
  IF n = NULL \/ t.child[s][n] = NULL THEN n ELSE Outermost(t, t.child[s][n], s)

\* A node with two children leaves its place, links and color to its successor,
\* which is cut out of the tree instead.
RB_REMOVE(t, old) ==
  LET two    == \A s \in Side : t.child[s][old] # NULL
      elm    == IF two THEN Outermost(t, t.child["right"][old], "left") ELSE old
      child  == t.child[IF t.child["left"][elm] = NULL THEN "right" ELSE "left"][elm]
      up     == t.parent[elm]
      parent == IF two /\ up = old THEN elm ELSE up
      t1     == Relink(SetParent(t, child, up), up, elm, child)
      t2     == [t1 EXCEPT !.child["left"][elm] = t1.child["left"][old],
                           !.child["right"][elm] = t1.child["right"][old],
                           !.parent[elm] = t1.parent[old], !.color[elm] = t1.color[old]]
      t3     == Relink(t2, t2.parent[old], old, elm)
      t4     == SetParent(SetParent(t3, t3.child["left"][old], elm),
                          t3.child["right"][old], elm)
      cut    == IF two THEN t4 ELSE t1
  IN IF t.color[elm] = "black" THEN RB_REMOVE_COLOR(cut, parent, child) ELSE cut

\* Faulty variant: only an equal key is found.
NFindNoRes(t, n, elm, res) == RB_FIND(t, elm)

RECURSIVE NFind(_, _, _, _)
NFind(t, n, elm, res) ==
  CASE n = NULL -> res
    [] n = elm  -> n
    [] n \notin {NULL, elm} ->
         NFind(t, t.child[SideFor(elm, n)][n], elm, IF elm < n THEN n ELSE res)

RB_NFIND(t, elm) == NFind(t, t.root, elm, NULL)

RECURSIVE Climb(_, _, _)
Climb(t, n, s) ==
  LET up == t.parent[n]
  IN  IF up # NULL /\ t.child[s][up] = n THEN Climb(t, up, s) ELSE up

\* RB_NEXT for the right side, RB_PREV for the left.
RB_STEP(t, elm, s) ==
  IF t.child[s][elm] # NULL THEN Outermost(t, t.child[s][elm], Opp(s)) ELSE Climb(t, elm, s)

RB_MINMAX(t, s) == Outermost(t, t.root, s)

\* RB_FOREACH_SAFE and RB_FOREACH_REVERSE_SAFE from n on, in a loop that removes
\* the nodes of gone: the next node is looked up before the body is run.
RECURSIVE RB_FOREACH_SAFE(_, _, _, _)
RB_FOREACH_SAFE(t, n, s, gone) ==
  IF n = NULL THEN t
  ELSE RB_FOREACH_SAFE(IF n \in gone THEN ForgetRB(RB_REMOVE(t, n), n) ELSE t,
                       RB_STEP(t, n, s), s, gone)

-----------------------------------------------------------------------------
(* Splay trees.  The field end holds __left and __right, the ends of the   *)
(* two trees that SPLAY takes apart and assembles again.                   *)

SPLAY_INIT == [root |-> NULL, child |-> NoLinks, end |-> [s \in Side |-> Temp]]

\* SPLAY_ROTATE_RIGHT and SPLAY_ROTATE_LEFT: tmp comes up from side s.
SPLAY_ROTATE(t, tmp, s) ==
  [t EXCEPT !.child = [@ EXCEPT ![s][t.root] = t.child[Opp(s)][tmp],
                                ![Opp(s)][tmp] = t.root],
            !.root = tmp]

\* SPLAY_LINKLEFT and SPLAY_LINKRIGHT: the root goes to the end of the tree on
\* the other side, and its child on side s becomes the root.
SPLAY_LINK(t, s) ==
  LET t1 == [t EXCEPT !.child[s][t.end[Opp(s)]] = t.root, !.end[Opp(s)] = t.root]
  IN  [t1 EXCEPT !.root = t1.child[s][t1.root]]

SPLAY_ASSEMBLE(t) ==
  LET t1 == [t EXCEPT !.child = [@ EXCEPT
                 !["right"][t.end["left"]] = t.child["left"][t.root],
                 !["left"][t.end["right"]] = t.child["right"][t.root]]]
      t2 == [t1 EXCEPT !.child["left"][t.root] = t1.child["right"][Temp],
                       !.child["right"][t.root] = t1.child["left"][Temp]]
  IN  [t2 EXCEPT !.child = [s \in Side |-> [@[s] EXCEPT ![Temp] = NULL]],
                 !.end = [s \in Side |-> Temp]]

\* The loop of SPLAY and SPLAY_MINMAX; way[n] is where to go from node n.
RECURSIVE SplayLoop(_, _)
SplayLoop(t, way) ==
  LET s   == way[t.root]
      tmp == t.child[s][t.root]
      t1  == IF way[tmp] = s THEN SPLAY_ROTATE(t, tmp, s) ELSE t
  IN IF s = "here" THEN SPLAY_ASSEMBLE(t)
     ELSE IF tmp = NULL THEN SPLAY_ASSEMBLE(t)
     ELSE IF t1.child[s][t1.root] = NULL THEN SPLAY_ASSEMBLE(t1)
     ELSE SplayLoop(SPLAY_LINK(t1, s), way)

SPLAY(t, elm) == SplayLoop(t, [n \in Node |-> IF n = elm THEN "here" ELSE SideFor(elm, n)])

SPLAY_MINMAX(t, s) == SplayLoop(t, [n \in Node |-> s])

SPLAY_INSERT(t, elm) ==
  LET t1 == SPLAY(t, elm)
      s  == SideFor(elm, t1.root)
  IN CASE t.root = NULL -> [t EXCEPT !.root = elm, !.child["left"][elm] = NULL,
                                     !.child["right"][elm] = NULL]
       [] t.root # NULL /\ t1.root = elm -> t1
       [] t.root # NULL /\ t1.root # elm ->
            [t1 EXCEPT !.child = [@ EXCEPT ![s][elm] = t1.child[s][t1.root],
                                           ![Opp(s)][elm] = t1.root,
                                           ![s][t1.root] = NULL],
                       !.root = elm]

SPLAY_REMOVE(t, elm) ==
  LET t1 == SPLAY(t, elm)
      t2 == SPLAY([t1 EXCEPT !.root = t1.child["left"][elm]], elm)
  IN CASE t.root = NULL -> t
       [] t.root # NULL /\ t1.root # elm -> t1
       [] t.root # NULL /\ t1.root = elm ->
            IF t1.child["left"][elm] = NULL
            THEN [t1 EXCEPT !.root = t1.child["right"][elm]]
            ELSE [t2 EXCEPT !.child["right"][t2.root] = t1.child["right"][elm]]

\* The lookups return a node and leave the tree splayed.
SPLAY_FIND(t, elm) ==
  LET t1 == IF t.root = NULL THEN t ELSE SPLAY(t, elm)
  IN  [tree |-> t1, node |-> IF t1.root = elm THEN elm ELSE NULL]

SPLAY_NEXT(t, elm) ==
  LET t1 == SPLAY(t, elm)
  IN  [tree |-> t1, node |-> Outermost(t1, t1.child["right"][elm], "left")]

SPLAY_MIN_MAX(t, s) ==
  LET t1 == IF t.root = NULL THEN t ELSE SPLAY_MINMAX(t, s)
  IN  [tree |-> t1, node |-> t1.root]

\* The nodes SPLAY_FOREACH goes through, given where it is.
RECURSIVE SPLAY_FOREACH(_)
SPLAY_FOREACH(at) ==
  IF at.node = NULL THEN << >>
  ELSE <<at.node>> \o SPLAY_FOREACH(SPLAY_NEXT(at.tree, at.node))

-----------------------------------------------------------------------------
(* A tree of either kind, and the nodes its user has in it.                *)

VARIABLES kind, tree, present
vars == <<kind, tree, present>>

Init ==
  /\ kind \in {"RB", "SPLAY"}
  /\ tree = IF kind = "RB" THEN RB_INIT ELSE SPLAY_INIT
  /\ present = {}

InsertRB(elm) ==
  /\ kind = "RB"
  /\ tree' = RB_INSERT(tree, elm)
  /\ present' = present \cup {elm}
  /\ UNCHANGED kind

\* The caller of RB_REMOVE has the node in the tree; SPLAY_REMOVE looks for it.
RemoveRB(elm) ==
  /\ kind = "RB" /\ elm \in present
  /\ tree' = ForgetRB(RB_REMOVE(tree, elm), elm)
  /\ present' = present \ {elm}
  /\ UNCHANGED kind

RemoveSome(s, gone) ==
  /\ kind = "RB" /\ gone # {}
  /\ tree' = RB_FOREACH_SAFE(tree, RB_MINMAX(tree, Opp(s)), s, gone)
  /\ present' = present \ gone
  /\ UNCHANGED kind

InsertSplay(elm) ==
  /\ kind = "SPLAY"
  /\ tree' = SPLAY_INSERT(tree, elm)
  /\ present' = present \cup {elm}
  /\ UNCHANGED kind

RemoveSplay(elm) ==
  /\ kind = "SPLAY"
  /\ tree' = Forget(SPLAY_REMOVE(tree, elm), elm)
  /\ present' = present \ {elm}
  /\ UNCHANGED kind

\* Looking up in a splay tree changes it.
Splayed(result) == tree' = result.tree /\ UNCHANGED <<kind, present>>
Find(elm)   == kind = "SPLAY" /\ Splayed(SPLAY_FIND(tree, elm))
Successor(elm) == kind = "SPLAY" /\ elm \in present /\ Splayed(SPLAY_NEXT(tree, elm))
Extreme(s)  == kind = "SPLAY" /\ Splayed(SPLAY_MIN_MAX(tree, s))

Next ==
  \/ \E elm \in Node : \/ InsertRB(elm) \/ RemoveRB(elm)
                        \/ InsertSplay(elm) \/ RemoveSplay(elm)
                        \/ Find(elm) \/ Successor(elm)
  \/ \E s \in Side : Extreme(s) \/ \E gone \in SUBSET present : RemoveSome(s, gone)

Spec == Init /\ [][Next]_vars

-----------------------------------------------------------------------------
(* What a search tree is, without the code's help.                         *)

RECURSIVE InOrder(_, _)
InOrder(t, n) ==
  IF n = NULL THEN << >>
  ELSE InOrder(t, t.child["left"][n]) \o <<n>> \o InOrder(t, t.child["right"][n])

RECURSIVE Height(_, _)
Height(t, n) ==
  IF n = NULL THEN 0
  ELSE LET l == Height(t, t.child["left"][n])
           r == Height(t, t.child["right"][n])
       IN  1 + (IF l > r THEN l ELSE r)

\* The number of black nodes from n down, if all paths have the same, or -1.
RECURSIVE BlackHeight(_, _)
BlackHeight(t, n) ==
  IF n = NULL THEN 0
  ELSE LET l == BlackHeight(t, t.child["left"][n])
           r == BlackHeight(t, t.child["right"][n])
       IN  IF l = -1 \/ l # r THEN -1 ELSE l + (IF IsRed(t, n) THEN 0 ELSE 1)

Least(S)    == IF S = {} THEN NULL ELSE CHOOSE n \in S : \A o \in S : n <= o
Greatest(S) == IF S = {} THEN NULL ELSE CHOOSE n \in S : \A o \in S : n >= o
Extremum(s, S) == IF s = "left" THEN Least(S) ELSE Greatest(S)
Beyond(s, n)   == {o \in present : IF s = "right" THEN o > n ELSE o < n}

\* Read from left to right the tree shows the nodes that were inserted and not
\* removed, each once, and in a red-black tree the links to the parents are
\* those to the children turned round (tree.h:342-380, 530-626, 69-117, 164-242).
OrderKept ==
  /\ LET order == InOrder(tree, tree.root)
     IN  /\ {order[i] : i \in DOMAIN order} = present
         /\ \A i \in 1 .. Len(order) - 1 : order[i] < order[i + 1]
  /\ kind = "RB" => \A n \in present :
       IF n = tree.root THEN tree.parent[n] = NULL
       ELSE /\ tree.parent[n] \in present
            /\ \E s \in Side : tree.child[s][tree.parent[n]] = n

\* The conditions of tree.h:53-61: all paths to a leaf have the same number of
\* black nodes, the parent of a red node is black, the root is black, and the
\* height is at most 2lg(n+1), so that every operation is O(lg n).
RedBlackRules ==
  kind = "RB" =>
    /\ BlackHeight(tree, tree.root) # -1
    /\ \A n \in present : IsRed(tree, n) =>
         /\ n # tree.root
         /\ \A s \in Side : ~IsRed(tree, tree.child[s][n])
    /\ 2 ^ Height(tree, tree.root) <= (Cardinality(present) + 1) ^ 2

\* Every lookup finds what a search of the whole set would find: RB_FIND,
\* RB_NFIND ("the first node greater than or equal to the search key",
\* tree.h:646), RB_NEXT, RB_PREV, RB_MIN and RB_MAX, and their fellows of the
\* splay tree, which move the node to the root (tree.h:41-43, 160-162) and so
\* change the tree that SPLAY_FOREACH goes through.
LookupsRight ==
  IF kind = "RB"
  THEN /\ \A n \in Node : /\ RB_FIND(tree, n) = (IF n \in present THEN n ELSE NULL)
                          /\ RB_NFIND(tree, n) = Least({o \in present : o >= n})
       /\ \A n \in present, s \in Side :
            RB_STEP(tree, n, s) = Extremum(Opp(s), Beyond(s, n))
       /\ \A s \in Side : RB_MINMAX(tree, s) = Extremum(s, present)
  ELSE /\ \A n \in Node : SPLAY_FIND(tree, n).node = (IF n \in present THEN n ELSE NULL)
       /\ \A n \in present : /\ SPLAY_NEXT(tree, n).node = Least(Beyond("right", n))
                             /\ SPLAY_NEXT(tree, n).tree.root = n
       /\ \A s \in Side : SPLAY_MIN_MAX(tree, s).node = Extremum(s, present)
       /\ SPLAY_FOREACH(SPLAY_MIN_MAX(tree, "left")) = InOrder(tree, tree.root)
=============================================================================
