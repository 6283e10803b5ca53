------------------------------- MODULE RbTree -------------------------------
(***************************************************************************)
(* The red-black tree of rbtree.h, which the translation tables use to     *)
(* find the virtual address of a page table by its physical address.       *)
(* Nodes are numbered in the order of their insertion.  A tree is a record *)
(* of its root and the fields of its nodes, left and right being child;    *)
(* `ok' becomes FALSE when the code dereferences a null pointer.           *)
(***************************************************************************)
EXTENDS Integers, Sequences

Nil == 0                        \* nullptr

Sides == {"left", "right"}
Opposite(side) == IF side = "left" THEN "right" ELSE "left"

EmptyTree == [root |-> Nil, ok |-> TRUE, key |-> <<>>, val |-> <<>>,
              red |-> <<>>, up |-> <<>>, child |-> [s \in Sides |-> <<>>]]
Size(t) == Len(t.key)

\* Where a search for k goes on from node n; equal keys are to the right.
Way(t, k, n) == IF k < t.key[n] THEN "left" ELSE "right"

FindNode(t, k) ==
    LET at[i \in 0 .. Size(t)] ==
            IF i = 0 THEN t.root
            ELSE LET n == at[i - 1]
                 IN  IF n = Nil \/ t.key[n] = k THEN n
                     ELSE t.child[Way(t, k, n)][n]
    IN  at[Size(t)]

\* left_rotate is Rotate(t, x, "left"), right_rotate its mirror image.
\* Mutant: the root stays where it was.
RotateKeepsRoot(t, x, side) ==
    LET y == t.child[Opposite(side)][x]
        Child(s) == [t.child[s] EXCEPT
                        ![x] = IF s = side THEN @ ELSE t.child[side][y],
                        ![y] = IF s = side THEN x ELSE @]
    IN  [t EXCEPT !.child = [s \in Sides |-> Child(s)],
                  !.up[y] = t.up[x], !.up[x] = y]
Rotate(t, x, side) ==
    LET y == t.child[Opposite(side)][x]
        inner == t.child[side][y]
        p == t.up[x]
        Child(s) == [n \in DOMAIN t.key |->
                        CASE n = x /\ s = Opposite(side) -> inner
                          [] n = y /\ s = side -> x
                          [] n = p /\ t.child[s][p] = x -> y
                          [] OTHER -> t.child[s][n]]
    IN  [t EXCEPT !.root = IF p = Nil THEN y ELSE @,
                  !.child = [s \in Sides |-> Child(s)],
                  !.up = [n \in DOMAIN t.key |->
                             CASE n = y -> p
                               [] n = x -> y
                               [] n = inner -> x
                               [] OTHER -> @[n]]]

\* One round of the loop of insertion_fixup at node n.  On the left side the
\* uncle's colour is read before the uncle is compared with null; when both
\* children turn black it is the great-grandparent that turns red.
FixupRound(t, n) ==
    LET p == t.up[n]
        g == t.up[p]
        side == IF p = t.child["left"][g] THEN "left" ELSE "right"
        uncle == t.child[Opposite(side)][g]
        inner == n = t.child[Opposite(side)][p]
        low == IF inner THEN p ELSE n
        turned == IF inner THEN Rotate(t, p, side) ELSE t
    IN  CASE uncle = Nil /\ side = "left" ->
                 <<[t EXCEPT !.ok = FALSE], t.root>>
          [] uncle # Nil /\ t.red[uncle] ->
                 <<[t EXCEPT !.red = [m \in DOMAIN @ |->
                        IF m \in {p, uncle} THEN FALSE
                        ELSE m = t.up[g] \/ @[m]]], g>>
          [] OTHER ->
                 <<Rotate([turned EXCEPT !.red[turned.up[low]] = FALSE,
                                         !.red[g] = TRUE],
                          g, Opposite(side)), low>>

InsertionFixup(t, new) ==
    LET at[i \in 0 .. Size(t)] ==
            IF i = 0 THEN <<t, new>>
            ELSE LET now == at[i - 1][1]
                     n == at[i - 1][2]
                 IN  IF /\ n # now.root
                        /\ now.up[now.up[n]] # Nil
                        /\ now.red[now.up[n]]
                     THEN FixupRound(now, n)
                     ELSE <<now, n>>
        fixed == at[Size(t)][1]
    IN  IF t.up[new] # Nil /\ ~t.red[t.up[new]]
        THEN t
        ELSE [fixed EXCEPT !.red[fixed.root] = FALSE]

\* The leaf at which insert puts a node with key k.
InsertParent(t, k) ==
    LET at[i \in 0 .. Size(t)] ==       \* the search path and its last node
            IF i = 0 THEN <<t.root, Nil>>
            ELSE LET c == at[i - 1]
                 IN  IF c[1] = Nil THEN c
                     ELSE <<t.child[Way(t, k, c[1])][c[1]], c[1]>>
    IN  at[Size(t)][2]

\* A new red node below its parent.
AddLeaf(t, k, v, new, parent) ==
    LET Link(s) == [n \in 1 .. new |->
                       CASE n = new -> Nil
                         [] n = parent /\ s = Way(t, k, parent) -> new
                         [] OTHER -> t.child[s][n]]
    IN  [root |-> IF parent = Nil THEN new ELSE t.root, ok |-> t.ok,
         key |-> Append(t.key, k), val |-> Append(t.val, v),
         red |-> Append(t.red, TRUE), up |-> Append(t.up, parent),
         child |-> [s \in Sides |-> Link(s)]]

TreeInsert(t, k, v) ==
    LET new == Size(t) + 1
    IN  InsertionFixup(AddLeaf(t, k, v, new, InsertParent(t, k)), new)
=============================================================================
