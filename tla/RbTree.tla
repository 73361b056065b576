---- MODULE RbTree ----
(***************************************************************************)
(* The red-black trees of the kernel (lib/rbtree.c, include/linux/rbtree.h)*)
(* that the proxy keeps its listeners and next hops in: linking a node,    *)
(* erasing one and the post-order walk.  The order of keys is not known    *)
(* here; callers walk down by themselves.                                  *)
(*                                                                         *)
(* A tree is a record: the root, and for every node its two children       *)
(* (ch[n][1] is rb_left, ch[n][2] is rb_right), its parent and its colour. *)
(***************************************************************************)
EXTENDS Naturals

CONSTANTS Nodes, NULL

Left == 1
Right == 2
Opposite(d) == 3 - d

EmptyTree ==
    [root |-> NULL,
     ch |-> [n \in Nodes |-> <<NULL, NULL>>],
     parent |-> [n \in Nodes |-> NULL],
     red |-> [n \in Nodes |-> FALSE]]

IsRed(T, n) == n # NULL /\ T.red[n]
Side(T, n) == IF T.ch[T.parent[n]][Left] = n THEN Left ELSE Right
Paint(T, n, red) == IF n = NULL THEN T ELSE [T EXCEPT !.red[n] = red]

\* Node or NULL new takes the place below p that old has.
Replace(T, old, new, p) ==
    LET T1 == IF p = NULL THEN [T EXCEPT !.root = new]
              ELSE [T EXCEPT !.ch[p][IF T.ch[p][Left] = old THEN Left ELSE Right] = new]
    IN  IF new = NULL THEN T1 ELSE [T1 EXCEPT !.parent[new] = p]

\* The rotation that lifts x above its parent.
Lift(T, x) ==
    LET p == T.parent[x]
        d == Side(T, x)
        inner == T.ch[x][Opposite(d)]
        T1 == Replace(T, p, x, T.parent[p])
        T2 == [T1 EXCEPT !.ch[p][d] = inner, !.ch[x][Opposite(d)] = p, !.parent[p] = x]
    IN  IF inner = NULL THEN T2 ELSE [T2 EXCEPT !.parent[inner] = p]

\* rb_insert_color: n is red, its parent may be red too.
RECURSIVE rb_insert_color(_, _)
rb_insert_color(T, n) ==
    LET p == T.parent[n]
    IN  IF p = NULL THEN Paint(T, n, FALSE)
        ELSE IF ~T.red[p] THEN T
        ELSE LET g == T.parent[p]
                 u == T.ch[g][Opposite(Side(T, p))]
             IN  IF IsRed(T, u)
                 THEN rb_insert_color(Paint(Paint(Paint(T, p, FALSE), u, FALSE), g, TRUE), g)
                 ELSE LET zigzag == Side(T, n) # Side(T, p)
                          top == IF zigzag THEN n ELSE p
                          T1 == IF zigzag THEN Lift(T, n) ELSE T
                      IN  Paint(Paint(Lift(T1, top), top, FALSE), g, TRUE)

\* rb_link_node and rb_insert_color: n becomes child d of p, or the root.
rb_link(T, n, p, d) ==
    LET T1 == [T EXCEPT !.ch[n] = <<NULL, NULL>>, !.parent[n] = p, !.red[n] = TRUE]
    IN  rb_insert_color(IF p = NULL THEN [T1 EXCEPT !.root = n] ELSE [T1 EXCEPT !.ch[p][d] = n], n)

\* ____rb_erase_color: child d of p has lost a black node.
RECURSIVE rb_erase_color(_, _, _)
rb_erase_color(T0, p, d) ==
    LET s0 == T0.ch[p][Opposite(d)]
        \* A red sibling is lifted first.
        T == IF IsRed(T0, s0) THEN Paint(Paint(Lift(T0, s0), s0, FALSE), p, TRUE) ELSE T0
        s == T.ch[p][Opposite(d)]
        near == T.ch[s][d]
        far == T.ch[s][Opposite(d)]
    IN  IF ~IsRed(T, near) /\ ~IsRed(T, far)
        THEN LET T1 == Paint(T, s, TRUE)
             IN  IF T.red[p] \/ T.parent[p] = NULL THEN Paint(T1, p, FALSE)
                 ELSE rb_erase_color(T1, T.parent[p], Side(T, p))
        ELSE LET top == IF IsRed(T, far) THEN s ELSE near
                 T1 == IF top = s THEN Paint(T, far, FALSE) ELSE Lift(T, near)
             IN  Paint(Paint(Lift(T1, top), top, T.red[p]), p, FALSE)

\* The last node on the way from n in direction d.
RECURSIVE Deepest(_, _, _)
Deepest(T, n, d) == IF T.ch[n][d] = NULL THEN n ELSE Deepest(T, T.ch[n][d], d)

\* A node with at most one child is replaced by it.
EraseSingle(T, n) ==
    LET p == T.parent[n]
        child == IF T.ch[n][Left] = NULL THEN T.ch[n][Right] ELSE T.ch[n][Left]
        T1 == Replace(T, n, child, p)
    IN  IF child # NULL THEN Paint(T1, child, T.red[n])
        ELSE IF T.red[n] \/ p = NULL THEN T1
        ELSE rb_erase_color(T1, p, Side(T, n))

\* A node that was erased is blank, since it is not looked at again.
Blank(T, n) == [T EXCEPT !.ch[n] = <<NULL, NULL>>, !.parent[n] = NULL, !.red[n] = FALSE]

\* rb_erase: a node with two children changes places with its successor first.
rb_erase(T, n) ==
    IF NULL \in {T.ch[n][Left], T.ch[n][Right]} THEN Blank(EraseSingle(T, n), n)
    ELSE LET s == Deepest(T, T.ch[n][Right], Left)
             swap == [k \in {n, s} |-> IF k = n THEN s ELSE n]
             Swap(k) == IF k \in {n, s} THEN swap[k] ELSE k
             T1 == [root |-> Swap(T.root),
                    ch |-> [k \in Nodes |-> [d \in {Left, Right} |-> Swap(T.ch[Swap(k)][d])]],
                    parent |-> [k \in Nodes |-> Swap(T.parent[Swap(k)])],
                    red |-> [k \in Nodes |-> T.red[Swap(k)]]]
         IN  Blank(EraseSingle(T1, n), n)

\* rb_left_deepest_node: the first leaf of a post-order walk below n.
RECURSIVE LeftDeepest(_, _)
LeftDeepest(T, n) ==
    IF T.ch[n][Left] # NULL THEN LeftDeepest(T, T.ch[n][Left])
    ELSE IF T.ch[n][Right] # NULL THEN LeftDeepest(T, T.ch[n][Right])
    ELSE n

rb_first_postorder(T) == IF T.root = NULL THEN NULL ELSE LeftDeepest(T, T.root)

rb_next_postorder(T, n) ==
    LET p == T.parent[n]
    IN  IF p # NULL /\ T.ch[p][Left] = n /\ T.ch[p][Right] # NULL
        THEN LeftDeepest(T, T.ch[p][Right])
        ELSE p

\* The nodes of a tree.
RECURSIVE Below(_, _)
Below(T, n) == IF n = NULL THEN {} ELSE {n} \cup Below(T, T.ch[n][Left]) \cup Below(T, T.ch[n][Right])
NodesOf(T) == Below(T, T.root)
====
