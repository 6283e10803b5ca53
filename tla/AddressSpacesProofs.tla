------------------------ MODULE AddressSpacesProofs ------------------------
(***************************************************************************)
(* Proofs about AddressSpaces and the red-black tree it uses: for every    *)
(* set of processes and programs, every number of pages and every size of  *)
(* the tables.                                                             *)
(*                                                                         *)
(* The page tables are reached through first-level entries, a directory    *)
(* and indices; the argument is made on Map, what the hardware translates. *)
(* It has five parts: the tree keeps its nodes findable; a series of       *)
(* map_page or unmap_page changes Map at the pages it is called for and    *)
(* nowhere else; pages of RAM move between the stack and Map, one place    *)
(* for each; the pages that a process maps and unmaps are the same; every  *)
(* operation therefore keeps the invariant SpaceInv.                       *)
(***************************************************************************)
EXTENDS AddressSpaces, SetInduction

---------------------------------------------------------------------------
(* The red-black tree: rotations, fixup, search and insertion. *)

\* The trees of N nodes, and their shape: sub[n] are the nodes in and below n.
TreesOf(N) ==
    [root : 0 .. N, ok : BOOLEAN, key : [1 .. N -> Nat], val : [1 .. N -> Nat],
     red : [1 .. N -> BOOLEAN], up : [1 .. N -> 0 .. N],
     child : [Sides -> [1 .. N -> 0 .. N]]]
Before(s, a, b) == IF s = "left" THEN a <= b ELSE b <= a
Covers(t, N, sub) ==
    /\ sub \in [0 .. N -> SUBSET (1 .. N)]
    /\ sub[Nil] = {}
    /\ sub[t.root] = 1 .. N
    /\ \A n \in 1 .. N :
          /\ n \in sub[n]
          /\ \A m \in sub[n] : m = n \/ \E s \in Sides : m \in sub[t.child[s][n]]
          /\ \A s \in Sides : \A m \in sub[t.child[s][n]] :
                /\ m \in sub[n] /\ m # n
                /\ m \notin sub[t.child[Opposite(s)][n]]
                /\ Before(s, t.key[m], t.key[n])
Linked(t, N) ==
    /\ \A n \in 1 .. N : \A s \in Sides :
          t.child[s][n] # Nil => t.up[t.child[s][n]] = n
    /\ \A n \in 1 .. N :
          IF t.up[n] = Nil THEN n = t.root
          ELSE \E s \in Sides : t.child[s][t.up[n]] = n
Shape(t, N) == Linked(t, N) /\ \E sub : Covers(t, N, sub)

\* The two sides.
LEMMA SideFacts ==
    /\ \A s \in Sides : Opposite(s) \in Sides /\ Opposite(Opposite(s)) = s
                        /\ Opposite(s) # s
    /\ \A s, r \in Sides : r = s \/ r = Opposite(s)
  BY DEF Sides, Opposite

\* What is not null is a node.
LEMMA NodeOrNil ==
    ASSUME NEW N \in Nat, NEW n \in 0 .. N, n # Nil
    PROVE  n \in 1 .. N
  BY DEF Nil

\* What a rotation at x leaves, where y takes the place of x below p.
Rotated(t, N, x, side, y, p, inner, r) ==
    /\ r \in TreesOf(N)
    /\ r.ok = t.ok /\ r.key = t.key /\ r.val = t.val /\ r.red = t.red
    /\ y \in 1 .. N
    /\ p \in 0 .. N
    /\ inner \in 0 .. N
    /\ r.root = IF p = Nil THEN y ELSE t.root
    /\ \A n \in 1 .. N :
          /\ n = y /\ n \notin {x, inner} => r.up[n] = p
          /\ n = x /\ n \notin {y, inner} => r.up[n] = y
          /\ n = inner /\ n \notin {x, y} => r.up[n] = x
          /\ n \notin {x, y, inner} => r.up[n] = t.up[n]
    /\ \A s \in Sides : \A n \in 1 .. N :
          /\ n = x /\ n \notin {y, p} =>
                r.child[s][n] = IF s = side THEN t.child[s][n] ELSE inner
          /\ n = y /\ n \notin {x, p} =>
                r.child[s][n] = IF s = side THEN x ELSE t.child[s][n]
          /\ n = p /\ n \notin {x, y} =>
                r.child[s][n] = IF t.child[s][n] = x THEN y ELSE t.child[s][n]
          /\ n \notin {x, y, p} => r.child[s][n] = t.child[s][n]

\* The fields after a rotation (left_rotate, right_rotate).
LEMMA RotateFields ==
    ASSUME NEW N \in Nat, NEW t \in TreesOf(N), NEW x \in 1 .. N,
           NEW side \in Sides, NEW y, y = t.child[Opposite(side)][x], y # Nil,
           NEW p, p = t.up[x], NEW inner, inner = t.child[side][y],
           NEW r, r = Rotate(t, x, side)
    PROVE  Rotated(t, N, x, side, y, p, inner, r)
<1>1. Opposite(side) \in Sides
  BY SideFacts
<1>2. t.child[Opposite(side)] \in [1 .. N -> 0 .. N] /\ t.child[side] \in [1 .. N -> 0 .. N]
  BY <1>1 DEF TreesOf
<1>3. y \in 1 .. N /\ t.child[side][y] \in 0 .. N /\ t.up[x] \in 0 .. N
  <2>1. t.up \in [1 .. N -> 0 .. N]
    BY DEF TreesOf
  <2>2. y \in 1 .. N
    <3>1. t.child[Opposite(side)][x] \in 0 .. N
      BY <1>2
    <3> QED BY <3>1, NodeOrNil
  <2> QED BY <1>2, <2>1, <2>2
<1>4. DOMAIN t.key = 1 .. N
  BY DEF TreesOf
<1> DEFINE Child(s) == [n \in 1 .. N |->
                        CASE n = x /\ s = Opposite(side) -> inner
                          [] n = y /\ s = side -> x
                          [] n = p /\ t.child[s][p] = x -> y
                          [] OTHER -> t.child[s][n]]
           Up == [n \in 1 .. N |->
                             CASE n = y -> p
                               [] n = x -> y
                               [] n = inner -> x
                               [] OTHER -> t.up[n]]
<1>5. r = [t EXCEPT !.root = IF p = Nil THEN y ELSE @,
                    !.child = [s \in Sides |-> Child(s)], !.up = Up]
  BY <1>4 DEF Rotate
<1>6. Up \in [1 .. N -> 0 .. N]
  <2>1. t.up \in [1 .. N -> 0 .. N]
    BY DEF TreesOf
  <2> QED BY <1>3, <2>1
<1>7. ASSUME NEW s \in Sides PROVE Child(s) \in [1 .. N -> 0 .. N]
  <2>1. t.child[s] \in [1 .. N -> 0 .. N]
    BY DEF TreesOf
  <2> QED BY <1>3, <2>1
<1>8. [s \in Sides |-> Child(s)] \in [Sides -> [1 .. N -> 0 .. N]]
  BY <1>7
<1>9. (IF p = Nil THEN y ELSE t.root) \in 0 .. N
  <2>1. t.root \in 0 .. N
    BY DEF TreesOf
  <2>2. y \in 0 .. N
    BY <1>3
  <2> QED BY <2>1, <2>2
<1>10. r \in TreesOf(N)
  <2> HIDE DEF Child, Up
  <2> QED BY <1>5, <1>6, <1>8, <1>9 DEF TreesOf
<1>11. /\ r.ok = t.ok /\ r.key = t.key /\ r.val = t.val /\ r.red = t.red
       /\ r.root = IF p = Nil THEN y ELSE t.root
       /\ r.up = Up /\ r.child = [s \in Sides |-> Child(s)]
  <2> HIDE DEF Child, Up
  <2> QED BY <1>5 DEF TreesOf
<1>12. \A s \in Sides : r.child[s] = Child(s)
  <2> HIDE DEF Child, Up
  <2> QED BY <1>11
<1>13. ASSUME NEW n \in 1 .. N
       PROVE
            /\ n = y /\ n \notin {x, inner} => r.up[n] = p
            /\ n = x /\ n \notin {y, inner} => r.up[n] = y
            /\ n = inner /\ n \notin {x, y} => r.up[n] = x
            /\ n \notin {x, y, inner} => r.up[n] = t.up[n]
  <2>1. r.up[n] = CASE n = y -> p
                   [] n = x -> y
                   [] n = inner -> x
                   [] OTHER -> t.up[n]
    BY <1>11
  <2> QED BY <2>1
<1>14. ASSUME NEW s \in Sides, NEW n \in 1 .. N
       PROVE
            /\ n = x /\ n \notin {y, p} =>
                  r.child[s][n] = IF s = side THEN t.child[s][n] ELSE inner
            /\ n = y /\ n \notin {x, p} =>
                  r.child[s][n] = IF s = side THEN x ELSE t.child[s][n]
            /\ n = p /\ n \notin {x, y} =>
                  r.child[s][n] = IF t.child[s][n] = x THEN y ELSE t.child[s][n]
            /\ n \notin {x, y, p} => r.child[s][n] = t.child[s][n]
  <2>1. r.child[s][n] = Child(s)[n]
    BY <1>12
  <2>2. Child(s)[n] = CASE n = x /\ s = Opposite(side) -> inner
                   [] n = y /\ s = side -> x
                   [] n = p /\ t.child[s][p] = x -> y
                   [] OTHER -> t.child[s][n]
    OBVIOUS
  <2>3. s = side <=> s # Opposite(side)
    BY SideFacts
  <2> HIDE DEF Child
  <2> QED BY <2>1, <2>2, <2>3
<1> HIDE DEF Child, Up
<1> QED BY <1>3, <1>10, <1>11, <1>13, <1>14 DEF Rotated

\* The nodes around a rotation are different ones.
LEMMA RotateDistinct ==
    ASSUME NEW N \in Nat, NEW t \in TreesOf(N), NEW sub, Covers(t, N, sub),
           Linked(t, N), NEW x \in 1 .. N,
           NEW side \in Sides, NEW y, y = t.child[Opposite(side)][x], y # Nil,
           NEW p, p = t.up[x], NEW inner, inner = t.child[side][y]
    PROVE  /\ y \in 1 .. N /\ y # x /\ t.up[y] = x
           /\ inner \notin {x, y}
           /\ t.child[Opposite(side)][y] \notin {x, y}
           /\ t.child[side][x] \notin {x, y}
           /\ p \notin {x, y}
           /\ p # Nil => p # inner /\ p \notin sub[x]
           /\ inner # Nil =>
                 /\ t.up[inner] = y
                 /\ inner # t.child[Opposite(side)][y]
                 /\ inner # t.child[side][x]
           /\ sub[y] \subseteq sub[x] /\ x \notin sub[y]
<1>1. Opposite(side) \in Sides /\ Opposite(side) # side /\ Opposite(Opposite(side)) = side
  BY SideFacts
<1>2. /\ t.child[Opposite(side)] \in [1 .. N -> 0 .. N] /\ t.child[side] \in [1 .. N -> 0 .. N]
      /\ t.up \in [1 .. N -> 0 .. N]
  BY <1>1 DEF TreesOf
<1>3. y \in 1 .. N
  <2>1. t.child[Opposite(side)][x] \in 0 .. N
    BY <1>2
  <2> QED BY <2>1, NodeOrNil
<1>4. t.up[y] = x
  BY <1>1 DEF Linked
<1>5. \A n \in 1 .. N : n \in sub[n]
  BY DEF Covers
<1>6. \A n \in 1 .. N : \A s \in Sides :
         sub[t.child[s][n]] \subseteq sub[n] /\ n \notin sub[t.child[s][n]]
  BY DEF Covers
<1>7. sub[y] \subseteq sub[x] /\ x \notin sub[y] /\ y # x
  BY <1>1, <1>3, <1>5, <1>6
<1>8. \A s \in Sides : sub[t.child[s][y]] \subseteq sub[y] /\ y \notin sub[t.child[s][y]]
  BY <1>3, <1>6
<1>9. \A s \in Sides : t.child[s][y] \notin {x, y}
  <2>1. x \in sub[x] /\ y \in sub[y]
    BY <1>3, <1>5
  <2> QED BY <1>7, <1>8, <2>1
<1>10. t.child[side][x] \notin {x, y}
  <2>1. t.child[side][x] # x
    BY <1>5, <1>6
  <2>2. \A m \in sub[t.child[side][x]] : m \notin sub[y]
    BY <1>1 DEF Covers
  <2> QED BY <1>3, <1>5, <2>1, <2>2
<1>11. t.child[side][y] # Nil => t.up[t.child[side][y]] = y
  BY <1>3 DEF Linked
<1>12. t.child[side][y] # Nil => t.child[side][y] # t.child[side][x]
  <2>1. t.child[side][x] # Nil => t.up[t.child[side][x]] = x
    BY DEF Linked
  <2> QED BY <1>7, <1>11, <2>1
<1>13. t.child[side][y] # Nil => t.child[side][y] # t.child[Opposite(side)][y]
  <2>1. \A m \in sub[t.child[side][y]] : m \notin sub[t.child[Opposite(side)][y]]
    BY <1>3 DEF Covers
  <2>2. t.child[side][y] # Nil => t.child[side][y] \in 1 .. N
    <3>1. t.child[side][y] \in 0 .. N
      BY <1>2, <1>3
    <3> QED BY <3>1, NodeOrNil
  <2> QED BY <1>5, <2>1, <2>2
<1>14. t.up[x] # Nil => x \in sub[t.up[x]] /\ t.up[x] \in 1 .. N
                        /\ sub[x] \subseteq sub[t.up[x]] /\ t.up[x] \notin sub[x]
  <2> SUFFICES ASSUME t.up[x] # Nil
               PROVE  x \in sub[t.up[x]] /\ t.up[x] \in 1 .. N
                      /\ sub[x] \subseteq sub[t.up[x]] /\ t.up[x] \notin sub[x]
    OBVIOUS
  <2>1. PICK s \in Sides : t.child[s][t.up[x]] = x
    BY DEF Linked
  <2>2. t.up[x] \in 0 .. N
    BY <1>2
  <2>3. t.up[x] \in 1 .. N
    BY <2>2, NodeOrNil
  <2> QED BY <1>5, <1>6, <2>1, <2>3
<1>15. t.up[x] \notin {x, y}
  <2>1. x \in sub[x] /\ y \in sub[y]
    BY <1>3, <1>5
  <2> QED BY <1>3, <1>7, <1>14, <2>1 DEF Nil
<1>16. t.up[x] # Nil => t.up[x] # t.child[side][y]
  BY <1>7, <1>8, <1>14
<1> QED
  BY <1>1, <1>3, <1>4, <1>7, <1>9, <1>10, <1>11, <1>12, <1>13, <1>14, <1>15, <1>16

\* After a rotation the links up are again the inverse of the links down.
LEMMA RotateLinked ==
    ASSUME NEW N \in Nat, NEW t \in TreesOf(N), NEW sub, Covers(t, N, sub),
           Linked(t, N), NEW x \in 1 .. N,
           NEW side \in Sides, NEW y, y = t.child[Opposite(side)][x], y # Nil,
           NEW p, p = t.up[x], NEW inner, inner = t.child[side][y],
           NEW r, r = Rotate(t, x, side)
    PROVE  Linked(r, N)
<1>1. Opposite(side) \in Sides /\ Opposite(side) # side /\ Opposite(Opposite(side)) = side
  BY SideFacts
<1>2. \A s \in Sides : s = side \/ s = Opposite(side)
  BY SideFacts
<1>3. /\ y \in 1 .. N /\ p \in 0 .. N /\ inner \in 0 .. N
      /\ r.root = IF p = Nil THEN y ELSE t.root
      /\ \A n \in 1 .. N :
            /\ n = y /\ n \notin {x, inner} => r.up[n] = p
            /\ n = x /\ n \notin {y, inner} => r.up[n] = y
            /\ n = inner /\ n \notin {x, y} => r.up[n] = x
            /\ n \notin {x, y, inner} => r.up[n] = t.up[n]
      /\ \A s \in Sides : \A n \in 1 .. N :
            /\ n = x /\ n \notin {y, p} =>
                  r.child[s][n] = IF s = side THEN t.child[s][n] ELSE inner
            /\ n = y /\ n \notin {x, p} =>
                  r.child[s][n] = IF s = side THEN x ELSE t.child[s][n]
            /\ n = p /\ n \notin {x, y} =>
                  r.child[s][n] = IF t.child[s][n] = x THEN y ELSE t.child[s][n]
            /\ n \notin {x, y, p} => r.child[s][n] = t.child[s][n]
  <2>1. Rotated(t, N, x, side, y, p, inner, r)
    BY RotateFields
  <2> QED BY <2>1 DEF Rotated
<1>4. /\ y # x /\ t.up[y] = x
      /\ inner \notin {x, y}
      /\ t.child[Opposite(side)][y] \notin {x, y}
      /\ t.child[side][x] \notin {x, y}
      /\ p \notin {x, y}
      /\ p # Nil => p # inner
      /\ inner # Nil => t.up[inner] = y /\ inner # t.child[Opposite(side)][y]
                        /\ inner # t.child[side][x]
  BY RotateDistinct
<1>5. \A n \in 1 .. N : \A s \in Sides :
         t.child[s][n] \in 0 .. N /\ (t.child[s][n] # Nil => t.up[t.child[s][n]] = n)
  <2>1. \A s \in Sides : t.child[s] \in [1 .. N -> 0 .. N]
    BY DEF TreesOf
  <2> QED BY <2>1 DEF Linked
<1>6. \A n \in 1 .. N : IF t.up[n] = Nil THEN n = t.root
                        ELSE \E s \in Sides : t.child[s][t.up[n]] = n
  BY DEF Linked
<1>7. t.up \in [1 .. N -> 0 .. N]
  BY DEF TreesOf
<1>8. t.up[x] = p /\ t.child[side][y] = inner
  OBVIOUS
<1>9. ASSUME NEW n \in 1 .. N, NEW s \in Sides, r.child[s][n] # Nil
      PROVE  r.up[r.child[s][n]] = n
  <2>1. CASE n = x /\ s = Opposite(side)
    BY <2>1, <1>3, <1>4, <1>9 DEF Nil
  <2>2. CASE n = x /\ s = side
    <3>1. r.child[s][n] = t.child[s][n]
      BY <2>2, <1>3, <1>4
    <3>2. t.child[s][n] \in 1 .. N /\ t.up[t.child[s][n]] = n
      BY <3>1, <1>5, <1>9, NodeOrNil
    <3>3. t.child[s][n] \notin {x, y, inner}
      BY <2>2, <3>2, <1>4 DEF Nil
    <3> QED BY <3>1, <3>2, <3>3, <1>3
  <2>3. CASE n = y /\ s = side
    BY <2>3, <1>3, <1>4
  <2>4. CASE n = y /\ s = Opposite(side)
    <3>1. r.child[s][n] = t.child[s][n]
      BY <2>4, <1>1, <1>3, <1>4
    <3>2. t.child[s][n] \in 1 .. N /\ t.up[t.child[s][n]] = n
      BY <3>1, <1>5, <1>9, NodeOrNil
    <3>3. t.child[s][n] \notin {x, y, inner}
      BY <2>4, <3>2, <1>4 DEF Nil
    <3> QED BY <3>1, <3>2, <3>3, <1>3
  <2>5. CASE n = p /\ t.child[s][n] = x
    BY <2>5, <1>3, <1>4
  <2>6. CASE n \notin {x, y} /\ ~(n = p /\ t.child[s][n] = x)
    <3>1. r.child[s][n] = t.child[s][n]
      BY <2>6, <1>3
    <3>2. t.child[s][n] \in 1 .. N /\ t.up[t.child[s][n]] = n
      BY <3>1, <1>5, <1>9 DEF Nil
    <3>3. t.child[s][n] \notin {x, y, inner}
      BY <2>6, <3>2, <1>4, <1>8 DEF Nil
    <3> QED BY <3>1, <3>2, <3>3, <1>3
  <2> QED BY <2>1, <2>2, <2>3, <2>4, <2>5, <2>6, <1>2
<1>10. ASSUME NEW n \in 1 .. N
       PROVE  IF r.up[n] = Nil THEN n = r.root
              ELSE \E s \in Sides : r.child[s][r.up[n]] = n
  <2>1. CASE n = y
    <3>1. CASE p = Nil
      BY <2>1, <3>1, <1>3, <1>4
    <3>2. CASE p # Nil
      <4>1. p \in 1 .. N
        BY <3>2, <1>3 DEF Nil
      <4>2. PICK s \in Sides : t.child[s][p] = x
        BY <3>2, <1>6, <1>8
      <4>3. r.child[s][p] = y
        BY <4>1, <4>2, <1>3, <1>4
      <4>4. r.up[y] = p
        BY <1>3, <1>4
      <4> QED BY <2>1, <3>2, <4>3, <4>4
    <3> QED BY <3>1, <3>2
  <2>2. CASE n = x
    <3>1. r.up[n] = y /\ r.child[side][y] = x
      BY <2>2, <1>3, <1>4
    <3> QED BY <2>2, <3>1, <1>3 DEF Nil
  <2>3. CASE n = inner
    <3>1. r.up[n] = x /\ r.child[Opposite(side)][x] = inner
      BY <2>3, <1>1, <1>3, <1>4
    <3> QED BY <2>3, <3>1, <1>1 DEF Nil
  <2>4. CASE n \notin {x, y, inner}
    <3>1. r.up[n] = t.up[n]
      BY <2>4, <1>3
    <3>2. CASE t.up[n] = Nil
      <4>1. n = t.root /\ (p = Nil => x = t.root)
        BY <3>2, <1>6, <1>8
      <4> QED BY <2>4, <3>1, <3>2, <4>1, <1>3
    <3>3. CASE t.up[n] # Nil
      <4>1. t.up[n] \in 1 .. N
        BY <3>3, <1>7 DEF Nil
      <4>2. PICK s \in Sides : t.child[s][t.up[n]] = n
        BY <3>3, <1>6
      <4>3. r.child[s][t.up[n]] = n
        BY <2>4, <4>1, <4>2, <1>2, <1>3, <1>4, <1>8
      <4> QED BY <3>1, <3>3, <4>3
    <3> QED BY <3>2, <3>3
  <2> QED BY <2>1, <2>2, <2>3, <2>4
<1> QED BY <1>9, <1>10 DEF Linked

\* After a rotation every node is below the root again, and on the side
\* of each node above it that its key belongs to: the node that went down
\* loses what is below the one that came up, less the subtree between them.
LEMMA RotateCovers ==
    ASSUME NEW N \in Nat, NEW t \in TreesOf(N), NEW sub, Covers(t, N, sub),
           Linked(t, N), NEW x \in 1 .. N,
           NEW side \in Sides, NEW y, y = t.child[Opposite(side)][x], y # Nil,
           NEW r, r = Rotate(t, x, side)
    PROVE  \E sub2 : Covers(r, N, sub2)
<1>1. PICK p : p = t.up[x]
  OBVIOUS
<1>2. PICK inner : inner = t.child[side][y]
  OBVIOUS
<1>3. PICK other : other = Opposite(side)
  OBVIOUS
<1>4. PICK a : a = t.child[side][x]
  OBVIOUS
<1>5. PICK c : c = t.child[other][y]
  OBVIOUS
<1>6. other \in Sides /\ other # side /\ Opposite(other) = side
      /\ \A s \in Sides : s = side \/ s = other
  BY <1>3, SideFacts
<1>7. Rotated(t, N, x, side, y, p, inner, r)
  BY <1>1, <1>2, RotateFields
<1>8. /\ y \in 1 .. N /\ y # x /\ t.up[y] = x
      /\ inner \notin {x, y} /\ c \notin {x, y} /\ a \notin {x, y}
      /\ p \notin {x, y}
      /\ p # Nil => p # inner /\ p \notin sub[x]
      /\ sub[y] \subseteq sub[x] /\ x \notin sub[y]
  BY <1>1, <1>2, <1>3, <1>4, <1>5, RotateDistinct
<1>9. /\ r.key = t.key /\ r.root = IF p = Nil THEN y ELSE t.root
      /\ p \in 0 .. N /\ inner \in 0 .. N
      /\ r.child[side][x] = a /\ r.child[other][x] = inner
      /\ r.child[side][y] = x /\ r.child[other][y] = c
  BY <1>4, <1>5, <1>6, <1>7, <1>8 DEF Rotated
<1>10. /\ a \in 0 .. N /\ c \in 0 .. N
  <2>1. t.child[side] \in [1 .. N -> 0 .. N] /\ t.child[other] \in [1 .. N -> 0 .. N]
    BY <1>6 DEF TreesOf
  <2> QED BY <1>4, <1>5, <1>8, <2>1
<1>11. PICK sub2 : sub2 = [n \in 0 .. N |->
            IF n = y THEN sub[x]
            ELSE IF n = x THEN {x} \cup sub[a] \cup sub[inner] ELSE sub[n]]
  OBVIOUS
<1>12. sub \in [0 .. N -> SUBSET (1 .. N)]
  BY DEF Covers
<1>13. /\ sub2[y] = sub[x] /\ sub2[x] = {x} \cup sub[a] \cup sub[inner]
       /\ sub2[a] = sub[a] /\ sub2[inner] = sub[inner] /\ sub2[c] = sub[c]
       /\ sub2[Nil] = {}
       /\ \A n \in 0 .. N : n \notin {x, y} => sub2[n] = sub[n]
  <2>1. 0 \in 0 .. N /\ x # 0 /\ y # 0 /\ x \in 0 .. N /\ y \in 0 .. N
    BY <1>8
  <2>2. sub[0] = {}
    BY DEF Covers, Nil
  <2> QED BY <1>8, <1>9, <1>10, <1>11, <2>1, <2>2 DEF Nil
<1>14. sub2 \in [0 .. N -> SUBSET (1 .. N)]
  <2>1. /\ sub[x] \subseteq 1 .. N /\ sub[a] \subseteq 1 .. N
        /\ sub[inner] \subseteq 1 .. N
    BY <1>9, <1>10, <1>12
  <2>2. {x} \cup sub[a] \cup sub[inner] \subseteq 1 .. N
    BY <2>1
  <2> QED BY <1>11, <1>12, <2>1, <2>2
<1>15. sub2[r.root] = 1 .. N
  <2>1. sub[t.root] = 1 .. N
    BY DEF Covers
  <2>2. CASE p = Nil
    <3>1. x = t.root
      BY <2>2, <1>1 DEF Linked
    <3> QED BY <2>1, <2>2, <3>1, <1>9, <1>13
  <2>3. CASE p # Nil
    <3>1. p \in 1 .. N
      BY <2>3, <1>9, NodeOrNil
    <3>2. t.root \notin {x, y}
      BY <2>1, <2>3, <3>1, <1>8
    <3>3. t.root \in 0 .. N
      BY DEF TreesOf
    <3> QED BY <2>1, <2>3, <3>2, <3>3, <1>9, <1>13
  <2> QED BY <2>2, <2>3
<1>16. \A m \in sub[x] : m = x \/ m \in sub[a] \/ m \in sub[y]
  BY <1>3, <1>4, <1>6 DEF Covers
<1>17. \A m \in sub[a] : m \in sub[x] /\ m # x /\ m \notin sub[y]
                         /\ Before(side, t.key[m], t.key[x])
  BY <1>3, <1>4 DEF Covers
<1>18. \A m \in sub[y] : m \in sub[x] /\ m # x /\ m \notin sub[a]
                         /\ Before(other, t.key[m], t.key[x])
  BY <1>3, <1>4, <1>6 DEF Covers
<1>19. y \in sub[y] /\ x \in sub[x]
  BY <1>8 DEF Covers
<1>20. \A m \in sub[y] : m = y \/ m \in sub[inner] \/ m \in sub[c]
  <2>1. ASSUME NEW m \in sub[y], m # y PROVE m \in sub[inner] \/ m \in sub[c]
    <3>1. PICK s \in Sides : m \in sub[t.child[s][y]]
      BY <1>8, <2>1 DEF Covers
    <3> QED BY <3>1, <1>2, <1>5, <1>6
  <2> QED BY <2>1
<1>21. \A m \in sub[inner] : m \in sub[y] /\ m # y /\ m \notin sub[c]
                             /\ Before(side, t.key[m], t.key[y])
  BY <1>2, <1>3, <1>5, <1>8 DEF Covers
<1>22. \A m \in sub[c] : m \in sub[y] /\ m # y /\ m \notin sub[inner]
                         /\ Before(other, t.key[m], t.key[y])
  BY <1>2, <1>5, <1>6, <1>8 DEF Covers
<1>23. \A m \in 1 .. N : t.key[m] \in Nat
  BY DEF TreesOf
<1>24. \A i, j, k \in Nat : \A s \in Sides :
          /\ Before(s, i, j) <=> Before(Opposite(s), j, i)
          /\ Before(s, i, j) /\ Before(s, j, k) => Before(s, i, k)
  BY DEF Before, Opposite, Sides
<1> DEFINE Good(n) ==
          /\ n \in sub2[n]
          /\ \A m \in sub2[n] : m = n \/ \E s \in Sides : m \in sub2[r.child[s][n]]
          /\ \A s \in Sides : \A m \in sub2[r.child[s][n]] :
                /\ m \in sub2[n] /\ m # n
                /\ m \notin sub2[r.child[Opposite(s)][n]]
                /\ Before(s, r.key[m], r.key[n])
<1>25. Good(x)
  <2>1. x \in sub2[x]
    BY <1>13
  <2>2. \A m \in sub2[x] : m = x \/ \E s \in Sides : m \in sub2[r.child[s][x]]
    BY <1>6, <1>9, <1>13
  <2>3. ASSUME NEW s \in Sides, NEW m \in sub2[r.child[s][x]]
        PROVE  /\ m \in sub2[x] /\ m # x
               /\ m \notin sub2[r.child[Opposite(s)][x]]
               /\ Before(s, r.key[m], r.key[x])
    <3>1. CASE s = side
      <4>1. m \in sub[a] /\ sub2[r.child[Opposite(s)][x]] = sub[inner]
        BY <3>1, <2>3, <1>3, <1>9, <1>13
      <4> QED BY <3>1, <4>1, <1>9, <1>13, <1>17, <1>21
    <3>2. CASE s = other
      <4>1. m \in sub[inner] /\ sub2[r.child[Opposite(s)][x]] = sub[a]
        BY <3>2, <2>3, <1>6, <1>9, <1>13
      <4> QED BY <3>2, <4>1, <1>9, <1>13, <1>17, <1>18, <1>21
    <3> QED BY <3>1, <3>2, <1>6
  <2> QED BY <2>1, <2>2, <2>3
<1>26. Good(y)
  <2>1. y \in sub2[y]
    BY <1>8, <1>13, <1>19
  <2>2. \A m \in sub2[y] : m = y \/ \E s \in Sides : m \in sub2[r.child[s][y]]
    BY <1>6, <1>9, <1>13, <1>16, <1>20
  <2>3. ASSUME NEW s \in Sides, NEW m \in sub2[r.child[s][y]]
        PROVE  /\ m \in sub2[y] /\ m # y
               /\ m \notin sub2[r.child[Opposite(s)][y]]
               /\ Before(s, r.key[m], r.key[y])
    <3>1. CASE s = side
      <4>1. /\ m \in sub2[x] /\ sub2[r.child[Opposite(s)][y]] = sub[c]
            /\ m = x \/ m \in sub[a] \/ m \in sub[inner]
        BY <3>1, <2>3, <1>3, <1>9, <1>13
      <4>2. m \in sub[x] /\ m # y
        BY <4>1, <1>8, <1>17, <1>18, <1>19, <1>21
      <4>3. m \notin sub[c]
        BY <4>1, <1>17, <1>18, <1>21, <1>22
      <4>4. x \in 1 .. N /\ y \in 1 .. N /\ m \in 1 .. N
        BY <4>2, <1>8, <1>12
      <4>5. Before(side, t.key[x], t.key[y])
        BY <4>4, <1>6, <1>18, <1>19, <1>23, <1>24
      <4>6. Before(side, t.key[m], t.key[y])
        BY <4>1, <4>4, <4>5, <1>17, <1>21, <1>23, <1>24
      <4> QED BY <3>1, <4>1, <4>2, <4>3, <4>6, <1>9, <1>13
    <3>2. CASE s = other
      <4>1. m \in sub[c] /\ sub2[r.child[Opposite(s)][y]] = sub2[x]
        BY <3>2, <2>3, <1>6, <1>9, <1>13
      <4> QED BY <3>2, <4>1, <1>9, <1>13, <1>17, <1>18, <1>22
    <3> QED BY <3>1, <3>2, <1>6
  <2> QED BY <2>1, <2>2, <2>3
<1>27. ASSUME NEW n \in 1 .. N, n \notin {x, y} PROVE Good(n)
  <2>1. sub2[n] = sub[n]
    BY <1>13, <1>27
  <2>2. ASSUME NEW s \in Sides PROVE sub2[r.child[s][n]] = sub[t.child[s][n]]
    <3>1. t.child[s][n] \in 0 .. N
      <4>1. t.child[s] \in [1 .. N -> 0 .. N]
        BY DEF TreesOf
      <4> QED BY <4>1
    <3>2. t.child[s][n] # y
      BY <1>8, <1>27 DEF Linked
    <3>3. CASE t.child[s][n] = x
      <4>1. n = p
        BY <3>3, <1>1 DEF Linked, Nil
      <4>2. r.child[s][n] = y
        BY <3>3, <4>1, <1>7, <1>8 DEF Rotated
      <4> QED BY <3>3, <4>2, <1>13
    <3>4. CASE t.child[s][n] # x
      <4>1. r.child[s][n] = t.child[s][n]
        BY <3>4, <1>7, <1>8, <1>27 DEF Rotated
      <4> QED BY <3>1, <3>2, <3>4, <4>1, <1>13
    <3> QED BY <3>3, <3>4
  <2>3. \A s \in Sides : Opposite(s) \in Sides
    BY SideFacts
  <2>4. /\ n \in sub[n]
        /\ \A m \in sub[n] : m = n \/ \E s \in Sides : m \in sub[t.child[s][n]]
        /\ \A s \in Sides : \A m \in sub[t.child[s][n]] :
              /\ m \in sub[n] /\ m # n
              /\ m \notin sub[t.child[Opposite(s)][n]]
              /\ Before(s, t.key[m], t.key[n])
    BY DEF Covers
  <2>5. \A m \in sub2[n] : m = n \/ \E s \in Sides : m \in sub2[r.child[s][n]]
    BY <2>1, <2>2, <2>4
  <2>6. ASSUME NEW s \in Sides, NEW m \in sub2[r.child[s][n]]
        PROVE  /\ m \in sub2[n] /\ m # n
               /\ m \notin sub2[r.child[Opposite(s)][n]]
               /\ Before(s, r.key[m], r.key[n])
    <3>1. m \in sub[t.child[s][n]]
      BY <2>2, <2>6
    <3>2. sub2[r.child[Opposite(s)][n]] = sub[t.child[Opposite(s)][n]]
      BY <2>2, <2>3
    <3> QED BY <2>1, <2>4, <3>1, <3>2, <1>9
  <2> QED BY <2>1, <2>4, <2>5, <2>6
<1>28. \A n \in 1 .. N : Good(n)
  BY <1>25, <1>26, <1>27
<1> QED BY <1>13, <1>14, <1>15, <1>28 DEF Covers

\* A rotation keeps the shape.
LEMMA RotateShape ==
    ASSUME NEW N \in Nat, NEW t \in TreesOf(N), Shape(t, N), NEW x \in 1 .. N,
           NEW side \in Sides, t.child[Opposite(side)][x] # Nil
    PROVE  /\ Rotate(t, x, side) \in TreesOf(N)
           /\ Shape(Rotate(t, x, side), N)
           /\ Rotate(t, x, side).key = t.key /\ Rotate(t, x, side).val = t.val
<1>1. PICK y : y = t.child[Opposite(side)][x]
  OBVIOUS
<1>2. PICK r : r = Rotate(t, x, side)
  OBVIOUS
<1>3. PICK sub : Covers(t, N, sub)
  BY DEF Shape
<1>4. Linked(t, N)
  BY DEF Shape
<1>5. Linked(r, N)
  BY <1>1, <1>2, <1>3, <1>4, RotateLinked
<1>6. \E sub2 : Covers(r, N, sub2)
  BY <1>1, <1>2, <1>3, <1>4, RotateCovers
<1>7. Rotated(t, N, x, side, y, t.up[x], t.child[side][y], r)
  BY <1>1, <1>2, RotateFields
<1>8. r \in TreesOf(N) /\ r.key = t.key /\ r.val = t.val
  BY <1>7 DEF Rotated
<1> QED BY <1>2, <1>5, <1>6, <1>8 DEF Shape

\* The shape does not depend on the colours.
LEMMA ShapeOfLinks ==
    ASSUME NEW N \in Nat, NEW t \in TreesOf(N), Shape(t, N), NEW r \in TreesOf(N),
           r.root = t.root, r.key = t.key, r.up = t.up, r.child = t.child
    PROVE  Shape(r, N)
<1>1. PICK sub : Covers(t, N, sub)
  BY DEF Shape
<1>2. Covers(r, N, sub)
  BY <1>1 DEF Covers
<1>3. Linked(r, N)
  BY DEF Shape, Linked
<1> QED BY <1>2, <1>3 DEF Shape

\* A tree that is not empty has a root.
LEMMA RootIsNode ==
    ASSUME NEW N \in Nat, NEW t \in TreesOf(N), Shape(t, N), N # 0
    PROVE  t.root \in 1 .. N
<1>1. PICK sub : Covers(t, N, sub)
  BY DEF Shape
<1>2. sub[t.root] = 1 .. N /\ sub[Nil] = {}
  BY <1>1 DEF Covers
<1>3. 1 \in 1 .. N
  OBVIOUS
<1>4. t.root # Nil
  BY <1>2, <1>3
<1>5. t.root \in 0 .. N
  BY DEF TreesOf
<1> QED BY <1>4, <1>5, NodeOrNil

\* The trees with the nodes of t.
SameNodes(t, N) == {r \in TreesOf(N) : Shape(r, N) /\ r.key = t.key /\ r.val = t.val}

\* A round of insertion_fixup keeps the shape and the contents.
LEMMA FixupRoundShape ==
    ASSUME NEW N \in Nat, NEW t \in TreesOf(N), Shape(t, N), NEW n \in 1 .. N,
           t.up[n] # Nil, t.up[t.up[n]] # Nil
    PROVE  FixupRound(t, n) \in SameNodes(t, N) \X (1 .. N)
<1>1. PICK p : p = t.up[n]
  OBVIOUS
<1>2. PICK g : g = t.up[p]
  OBVIOUS
<1>3. PICK side : side = IF p = t.child["left"][g] THEN "left" ELSE "right"
  OBVIOUS
<1>4. PICK other : other = Opposite(side)
  OBVIOUS
<1>5. PICK uncle : uncle = t.child[other][g]
  OBVIOUS
<1>6. side \in Sides /\ other \in Sides /\ side # other /\ Opposite(other) = side
      /\ \A s \in Sides : s = side \/ s = other
  <2>1. side \in Sides
    BY <1>3 DEF Sides
  <2> QED BY <2>1, <1>4, SideFacts
<1>7. p \in 1 .. N /\ g \in 1 .. N
  <2>1. t.up \in [1 .. N -> 0 .. N]
    BY DEF TreesOf
  <2>2. p \in 0 .. N
    BY <2>1, <1>1
  <2>3. p \in 1 .. N
    BY <2>2, <1>1, NodeOrNil
  <2>4. g \in 0 .. N
    BY <2>1, <2>3, <1>2
  <2> QED BY <2>3, <2>4, <1>1, <1>2, NodeOrNil
<1>8. t.child[side][g] = p
  <2>1. PICK s \in Sides : t.child[s][g] = p
    BY <1>1, <1>2, <1>7 DEF Shape, Linked
  <2> QED BY <2>1, <1>3 DEF Sides
<1>9. \E s \in Sides : t.child[s][p] = n
  BY <1>1 DEF Shape, Linked
<1>10. t.red \in [1 .. N -> BOOLEAN]
  BY DEF TreesOf
<1>12. PICK low : low = IF n = t.child[other][p] THEN p ELSE n
  OBVIOUS
<1>13. low \in 1 .. N
  BY <1>7, <1>12
<1>14. PICK turned : turned = IF n = t.child[other][p] THEN Rotate(t, p, side) ELSE t
  OBVIOUS
<1>15. turned \in TreesOf(N) /\ Shape(turned, N) /\ turned.key = t.key
       /\ turned.val = t.val /\ turned.child[side][g] # Nil
  <2>1. CASE n = t.child[other][p]
    <3>1. n # Nil
      BY DEF Nil
    <3>2. /\ turned = Rotate(t, p, side)
          /\ turned \in TreesOf(N) /\ Shape(turned, N)
          /\ turned.key = t.key /\ turned.val = t.val
      BY <2>1, <3>1, <1>4, <1>6, <1>7, <1>14, RotateShape
    <3>3. Rotated(t, N, p, side, n, g, t.child[side][n], turned)
      BY <2>1, <3>1, <3>2, <1>2, <1>4, <1>6, <1>7, RotateFields
    <3>4. PICK sub : Covers(t, N, sub)
      BY DEF Shape
    <3>5. Linked(t, N)
      BY DEF Shape
    <3>6. g \notin {p, n}
      BY <2>1, <3>1, <3>4, <3>5, <1>2, <1>4, <1>6, <1>7, RotateDistinct
    <3>7. turned.child[side][g] = n
      BY <3>3, <3>6, <1>6, <1>7, <1>8 DEF Rotated
    <3> QED BY <3>1, <3>2, <3>7
  <2>2. CASE n # t.child[other][p]
    <3>1. turned = t
      BY <2>2, <1>14
    <3>2. p # Nil
      BY <1>7 DEF Nil
    <3> QED BY <3>1, <3>2, <1>8
  <2> QED BY <2>1, <2>2
<1>16. PICK painted : painted = [turned EXCEPT !.red[turned.up[low]] = FALSE,
                                               !.red[g] = TRUE]
  OBVIOUS
<1>17. /\ painted \in TreesOf(N) /\ Shape(painted, N)
       /\ painted.key = t.key /\ painted.val = t.val
       /\ painted.child[side][g] # Nil
  <2>1. /\ painted.root = turned.root /\ painted.key = turned.key
        /\ painted.val = turned.val /\ painted.up = turned.up
        /\ painted.child = turned.child
    BY <1>15, <1>16 DEF TreesOf
  <2>2. painted \in TreesOf(N)
    BY <1>15, <1>16 DEF TreesOf
  <2>3. Shape(painted, N)
    BY <2>1, <2>2, <1>15, ShapeOfLinks
  <2> QED BY <2>1, <2>2, <2>3, <1>15
<1>18. Rotate(painted, g, other) \in SameNodes(t, N)
  BY <1>6, <1>7, <1>17, RotateShape DEF SameNodes
<1>19. PICK recoloured : recoloured = [t EXCEPT !.red = [m \in DOMAIN @ |->
                        IF m \in {p, uncle} THEN FALSE
                        ELSE m = t.up[g] \/ @[m]]]
  OBVIOUS
<1>20. recoloured \in SameNodes(t, N)
  <2>1. [m \in DOMAIN t.red |-> IF m \in {p, uncle} THEN FALSE
                                ELSE m = t.up[g] \/ t.red[m]] \in [1 .. N -> BOOLEAN]
    BY <1>10
  <2>2. recoloured \in TreesOf(N)
    BY <2>1, <1>19 DEF TreesOf
  <2>3. /\ recoloured.root = t.root /\ recoloured.key = t.key
        /\ recoloured.val = t.val /\ recoloured.up = t.up
        /\ recoloured.child = t.child
    BY <1>19 DEF TreesOf
  <2> QED BY <2>2, <2>3, ShapeOfLinks DEF SameNodes
<1>21. [t EXCEPT !.ok = FALSE] \in SameNodes(t, N)
  <2>1. PICK r : r = [t EXCEPT !.ok = FALSE]
    OBVIOUS
  <2>2. r \in TreesOf(N)
    BY <2>1 DEF TreesOf
  <2>3. /\ r.root = t.root /\ r.key = t.key /\ r.val = t.val /\ r.up = t.up
        /\ r.child = t.child
    BY <2>1 DEF TreesOf
  <2> QED BY <2>1, <2>2, <2>3, ShapeOfLinks DEF SameNodes
<1>22. t.root \in 1 .. N
  BY RootIsNode
<1>23. FixupRound(t, n) =
         CASE uncle = Nil /\ side = "left" -> <<[t EXCEPT !.ok = FALSE], t.root>>
           [] uncle # Nil /\ t.red[uncle] -> <<recoloured, g>>
           [] OTHER -> <<Rotate(painted, g, other), low>>
  BY <1>1, <1>2, <1>3, <1>4, <1>5, <1>12, <1>14, <1>16, <1>19 DEF FixupRound
<1>24. PICK faulted : faulted = [t EXCEPT !.ok = FALSE]
  OBVIOUS
<1>25. PICK rotated : rotated = Rotate(painted, g, other)
  OBVIOUS
<1>26. /\ <<faulted, t.root>> \in SameNodes(t, N) \X (1 .. N)
       /\ <<recoloured, g>> \in SameNodes(t, N) \X (1 .. N)
       /\ <<rotated, low>> \in SameNodes(t, N) \X (1 .. N)
  BY <1>7, <1>13, <1>18, <1>20, <1>21, <1>22, <1>24, <1>25
<1>27. CASE uncle = Nil
  <2>1. CASE side = "left"
    BY <2>1, <1>23, <1>24, <1>26, <1>27
  <2>2. CASE side # "left"
    BY <2>2, <1>23, <1>25, <1>26, <1>27
  <2> QED BY <2>1, <2>2
<1>28. CASE uncle # Nil /\ t.red[uncle]
  BY <1>23, <1>26, <1>28
<1>29. CASE uncle # Nil /\ ~t.red[uncle]
  BY <1>23, <1>25, <1>26, <1>29
<1> QED BY <1>27, <1>28, <1>29

\* The number of the nodes.
LEMMA SizeOfTree ==
    ASSUME NEW N \in Nat, NEW t \in TreesOf(N)
    PROVE  Size(t) = N /\ t.key \in Seq(Nat)
<1>1. t.key \in [1 .. N -> Nat]
  BY DEF TreesOf
<1> QED BY <1>1, FunctionIsSeq DEF Size

\* insertion_fixup keeps the shape and the contents.
LEMMA InsertionFixupShape ==
    ASSUME NEW N \in Nat, NEW t \in TreesOf(N), Shape(t, N), NEW new \in 1 .. N
    PROVE  InsertionFixup(t, new) \in SameNodes(t, N)
<1> DEFINE Round(now, n) ==
              IF n # now.root /\ now.up[now.up[n]] # Nil /\ now.red[now.up[n]]
              THEN FixupRound(now, n) ELSE <<now, n>>
           Good == SameNodes(t, N) \X (1 .. N)
           Body(a) == [i \in 0 .. N |->
                          IF i = 0 THEN <<t, new>> ELSE Round(a[i - 1][1], a[i - 1][2])]
           F == [i \in 1 .. N |-> [s \in Good |-> Round(s[1], s[2])]]
           f == CHOOSE a : a = Body(a)
<1>1. ASSUME NEW now \in SameNodes(t, N), NEW n \in 1 .. N PROVE Round(now, n) \in Good
  <2>1. now \in TreesOf(N) /\ Shape(now, N) /\ SameNodes(now, N) = SameNodes(t, N)
    BY <1>1 DEF SameNodes
  <2>2. CASE n # now.root /\ now.up[now.up[n]] # Nil
    <3>1. now.up[n] # Nil
      BY <2>1, <2>2 DEF Shape, Linked
    <3>2. FixupRound(now, n) \in Good
      BY <2>1, <2>2, <3>1, FixupRoundShape
    <3> QED BY <3>2
  <2>3. CASE ~(n # now.root /\ now.up[now.up[n]] # Nil)
    BY <2>3
  <2> QED BY <2>2, <2>3
<1>2. <<t, new>> \in Good
  BY DEF SameNodes
<1>3. F \in [1 .. N -> [Good -> Good]]
  <2>1. \A s \in Good : Round(s[1], s[2]) \in Good
    <3> HIDE DEF Round
    <3> QED BY <1>1
  <2> HIDE DEF Round, Good
  <2> QED BY <2>1
<1>4. PICK g : /\ g \in [0 .. N -> Good] /\ g[0] = <<t, new>>
               /\ \A i \in 1 .. N : g[i] = F[i][g[i - 1]]
  <2> HIDE DEF F, Good
  <2>1. \E g : IsIteration(N, Good, <<t, new>>, F, g)
    BY <1>2, <1>3, IterationExists
  <2> QED BY <2>1 DEF IsIteration
<1>5. g = Body(g)
  <2>1. ASSUME NEW i \in 0 .. N PROVE g[i] = Body(g)[i]
    <3>1. CASE i = 0
      BY <3>1, <1>4
    <3>2. CASE i # 0
      <4>1. i \in 1 .. N /\ i - 1 \in 0 .. N
        BY <3>2
      <4>2. g[i - 1] \in Good
        BY <4>1, <1>4
      <4>3. g[i] = Round(g[i - 1][1], g[i - 1][2])
        <5> HIDE DEF Round, Good
        <5> QED BY <4>1, <4>2, <1>4
      <4> QED BY <3>2, <4>3
    <3> QED BY <3>1, <3>2
  <2>2. DOMAIN Body(g) = 0 .. N /\ DOMAIN g = 0 .. N
    BY <1>4
  <2>3. Body(g) = [i \in 0 .. N |-> Body(g)[i]]
    BY <2>2
  <2> HIDE DEF Body
  <2> QED BY <2>1, <2>2, <2>3, <1>4
<1>6. PICK h : h = f /\ h = Body(h)
  <2>1. f = Body(f)
    <3> HIDE DEF Body
    <3> QED BY <1>5
  <2> HIDE DEF f
  <2> QED BY <2>1
<1> HIDE DEF f, Round
<1> DEFINE T == {i \in Nat : i <= N => h[i] \in Good}
<1>7. 0 \in T
  <2>1. h[0] = <<t, new>>
    BY <1>6
  <2> QED BY <2>1, <1>2
<1>8. ASSUME NEW i \in Nat, i \in T PROVE i + 1 \in T
  <2>1. ASSUME i + 1 <= N PROVE h[i + 1] \in Good
    <3>1. h[i] \in Good
      BY <1>8, <2>1
    <3>2. h[i + 1] = Round(h[i][1], h[i][2])
      <4>1. i + 1 \in 0 .. N /\ i + 1 # 0 /\ (i + 1) - 1 = i
        BY <2>1
      <4>2. h[i + 1] = Round(h[(i + 1) - 1][1], h[(i + 1) - 1][2])
        BY <4>1, <1>6
      <4> QED BY <4>1, <4>2
    <3> QED BY <3>1, <3>2, <1>1
  <2> HIDE DEF Good
  <2> QED BY <2>1
<1>9. h[N] \in Good
  <2> HIDE DEF T, Good
  <2>1. \A i \in Nat : i \in T
    BY <1>7, <1>8, NatSetInduction
  <2>2. N \in T /\ N <= N
    BY <2>1
  <2> QED BY <2>2 DEF T
<1>10. Size(t) = N
  BY SizeOfTree
<1>11. PICK fixed : fixed = h[N][1]
  OBVIOUS
<1>12. fixed \in SameNodes(t, N)
  BY <1>9, <1>11
<1>13. PICK r : r = [fixed EXCEPT !.red[fixed.root] = FALSE]
  OBVIOUS
<1>14. r \in SameNodes(t, N)
  <2>1. fixed \in TreesOf(N) /\ Shape(fixed, N) /\ fixed.key = t.key /\ fixed.val = t.val
    BY <1>12 DEF SameNodes
  <2>2. r \in TreesOf(N)
    BY <2>1, <1>13 DEF TreesOf
  <2>3. /\ r.root = fixed.root /\ r.key = fixed.key
        /\ r.val = fixed.val /\ r.up = fixed.up /\ r.child = fixed.child
    BY <2>1, <1>13 DEF TreesOf
  <2> QED BY <2>1, <2>2, <2>3, ShapeOfLinks DEF SameNodes
<1>15. t \in SameNodes(t, N)
  BY DEF SameNodes
<1>16. InsertionFixup(t, new) =
         IF t.up[new] # Nil /\ ~t.red[t.up[new]] THEN t ELSE r
  <2>1. InsertionFixup(t, new) =
          LET last == f[N][1]
          IN  IF t.up[new] # Nil /\ ~t.red[t.up[new]] THEN t
              ELSE [last EXCEPT !.red[last.root] = FALSE]
    BY <1>10 DEF InsertionFixup, f, Round
  <2> QED BY <2>1, <1>6, <1>11, <1>13
<1> QED BY <1>14, <1>15, <1>16

\* A way down the tree ends, because there is less and less below it.
LEMMA SubSizes ==
    ASSUME NEW N \in Nat, NEW t \in TreesOf(N), NEW sub, Covers(t, N, sub)
    PROVE  /\ \A n \in 0 .. N : Cardinality(sub[n]) \in Nat
           /\ \A n \in 1 .. N : Cardinality(sub[n]) > 0
           /\ Cardinality(sub[t.root]) = N
           /\ \A n \in 1 .. N : \A s \in Sides :
                 Cardinality(sub[t.child[s][n]]) < Cardinality(sub[n])
<1>1. IsFiniteSet(1 .. N) /\ Cardinality(1 .. N) = N
  BY FS_Interval
<1>2. ASSUME NEW n \in 0 .. N PROVE IsFiniteSet(sub[n]) /\ Cardinality(sub[n]) \in Nat
  <2>1. sub[n] \in SUBSET (1 .. N)
    BY DEF Covers
  <2> QED BY <1>1, <2>1, FS_Subset, FS_CardinalityType
<1>3. ASSUME NEW n \in 1 .. N PROVE Cardinality(sub[n]) > 0
  <2>1. n \in sub[n]
    BY DEF Covers
  <2>2. n \in 0 .. N
    OBVIOUS
  <2>3. Cardinality(sub[n]) # 0
    BY <1>2, <2>1, <2>2, FS_EmptySet
  <2> QED BY <1>2, <2>2, <2>3
<1>4. ASSUME NEW n \in 1 .. N, NEW s \in Sides
      PROVE  Cardinality(sub[t.child[s][n]]) < Cardinality(sub[n])
  <2>1. sub[t.child[s][n]] \subseteq sub[n] /\ n \in sub[n] /\ n \notin sub[t.child[s][n]]
    BY DEF Covers
  <2>2. n \in 0 .. N /\ IsFiniteSet(sub[n])
    BY <1>2
  <2>3. t.child[s][n] \in 0 .. N
    <3>1. t.child[s] \in [1 .. N -> 0 .. N]
      BY DEF TreesOf
    <3> QED BY <3>1
  <2>4. /\ Cardinality(sub[t.child[s][n]]) <= Cardinality(sub[n])
        /\ Cardinality(sub[t.child[s][n]]) # Cardinality(sub[n])
    BY <2>1, <2>2, FS_Subset
  <2> QED BY <1>2, <2>2, <2>3, <2>4
<1>5. Cardinality(sub[t.root]) = N
  BY <1>1 DEF Covers
<1> QED BY <1>2, <1>3, <1>4, <1>5

\* A search goes to the left or to the right.
LEMMA WayIsSide ==
    ASSUME NEW t, NEW k, NEW n
    PROVE  Way(t, k, n) \in Sides
  BY DEF Way, Sides

\* find_node finds a node with the key if there is one, and no other node, in
\* every tree whose nodes are below its root on the side of their keys
\* (rbtree.h: get_value).
THEOREM FindNodeFinds ==
    ASSUME NEW N \in Nat, NEW t \in TreesOf(N), Shape(t, N), NEW k \in Nat
    PROVE  /\ FindNode(t, k) \in 0 .. N
           /\ FindNode(t, k) # Nil => t.key[FindNode(t, k)] = k
           /\ FindNode(t, k) = Nil => \A m \in 1 .. N : t.key[m] # k
<1> DEFINE Step(n) == IF n = Nil \/ t.key[n] = k THEN n ELSE t.child[Way(t, k, n)][n]
           Body(a) == [i \in 0 .. N |-> IF i = 0 THEN t.root ELSE Step(a[i - 1])]
           F == [i \in 1 .. N |-> [n \in 0 .. N |-> Step(n)]]
           f == CHOOSE a : a = Body(a)
<1>1. PICK sub : Covers(t, N, sub)
  BY DEF Shape
<1>2. ASSUME NEW n \in 1 .. N PROVE t.child[Way(t, k, n)][n] \in 0 .. N
  <2>1. t.child[Way(t, k, n)] \in [1 .. N -> 0 .. N]
    BY WayIsSide DEF TreesOf
  <2> QED BY <2>1
<1>3. \A n \in 0 .. N : Step(n) \in 0 .. N
  BY <1>2, NodeOrNil
<1>4. t.root \in 0 .. N
  BY DEF TreesOf
<1>5. F \in [1 .. N -> [0 .. N -> 0 .. N]]
  <2> HIDE DEF Step
  <2> QED BY <1>3
<1>6. PICK g : /\ g \in [0 .. N -> 0 .. N] /\ g[0] = t.root
               /\ \A i \in 1 .. N : g[i] = F[i][g[i - 1]]
  <2> HIDE DEF F
  <2>1. \E g : IsIteration(N, 0 .. N, t.root, F, g)
    BY <1>4, <1>5, IterationExists
  <2> QED BY <2>1 DEF IsIteration
<1>7. g = Body(g)
  <2>1. ASSUME NEW i \in 1 .. N PROVE g[i] = Step(g[i - 1])
    <3>1. i - 1 \in 0 .. N
      OBVIOUS
    <3>2. g[i - 1] \in 0 .. N
      BY <3>1, <1>6
    <3> HIDE DEF Step
    <3> QED BY <3>2, <1>6
  <2> HIDE DEF Step
  <2> QED BY <2>1, <1>6
<1>8. PICK h : h = f /\ h = Body(h)
  <2>1. f = Body(f)
    <3> HIDE DEF Body
    <3> QED BY <1>7
  <2> HIDE DEF f
  <2> QED BY <2>1
<1>9. FindNode(t, k) = h[N]
  <2>1. Size(t) = N
    BY SizeOfTree
  <2>2. FindNode(t, k) = f[N]
    BY <2>1 DEF FindNode
  <2> HIDE DEF f
  <2> QED BY <2>2, <1>8
<1> HIDE DEF f
<1>10. \A n \in 1 .. N : t.key[n] \in Nat
  BY DEF TreesOf
<1> DEFINE Found(n) == n # Nil /\ t.key[n] = k
           Below(n) == \A m \in 1 .. N : t.key[m] = k => m \in sub[n]
           Fits(n, i) == /\ n \in 0 .. N
                         /\ Found(n) \/ Below(n)
                         /\ Found(n) \/ n = Nil \/ Cardinality(sub[n]) <= N - i
           T == {i \in Nat : i <= N => Fits(h[i], i)}
<1>11. 0 \in T
  <2>1. h[0] = t.root
    BY <1>8
  <2>2. Cardinality(sub[t.root]) = N
    BY <1>1, SubSizes
  <2>3. Below(t.root)
    BY <1>1 DEF Covers
  <2> QED BY <2>1, <2>2, <2>3, <1>4
<1>12. ASSUME NEW i \in Nat, i \in T PROVE i + 1 \in T
  <2>1. ASSUME i + 1 <= N PROVE Fits(h[i + 1], i + 1)
    <3>1. PICK n : n = h[i]
      OBVIOUS
    <3>2. Fits(n, i)
      <4> HIDE DEF Fits
      <4> QED BY <3>1, <2>1, <1>12
    <3>3. h[i + 1] = Step(n)
      <4>1. i + 1 \in 0 .. N /\ i + 1 # 0 /\ (i + 1) - 1 = i
        BY <2>1
      <4> HIDE DEF Step
      <4>2. h[i + 1] = Step(h[(i + 1) - 1])
        BY <4>1, <1>8
      <4> QED BY <4>1, <4>2, <3>1
    <3>4. CASE n = Nil \/ t.key[n] = k
      BY <3>2, <3>3, <3>4
    <3>5. CASE n # Nil /\ t.key[n] # k
      <4>1. n \in 1 .. N
        BY <3>2, <3>5, NodeOrNil
      <4>2. PICK s \in Sides : s = Way(t, k, n)
        BY WayIsSide
      <4>3. PICK c : c = t.child[s][n]
        OBVIOUS
      <4>4. c \in 0 .. N /\ Step(n) = c
        BY <4>1, <4>2, <4>3, <1>2, <3>5
      <4>5. Cardinality(sub[c]) < Cardinality(sub[n])
        BY <4>1, <4>3, <1>1, SubSizes
      <4>6. Cardinality(sub[c]) \in Nat /\ Cardinality(sub[n]) \in Nat
        BY <4>4, <3>2, <1>1, SubSizes
      <4>7. Cardinality(sub[c]) <= N - (i + 1)
        BY <4>5, <4>6, <3>2, <3>5
      <4>8. ASSUME NEW m \in 1 .. N, t.key[m] = k PROVE m \in sub[c]
        <5>1. m \in sub[n] /\ m # n
          BY <4>8, <3>2, <3>5
        <5>2. PICK r \in Sides : m \in sub[t.child[r][n]]
          BY <5>1, <4>1, <1>1 DEF Covers
        <5>3. Before(r, k, t.key[n])
          BY <5>2, <4>1, <4>8, <1>1 DEF Covers
        <5>4. r = s
          BY <5>3, <4>1, <4>2, <3>5, <1>10 DEF Before, Way, Sides
        <5> QED BY <5>2, <5>4, <4>3
      <4> QED BY <3>3, <4>4, <4>7, <4>8
    <3> QED BY <3>4, <3>5
  <2> HIDE DEF Fits
  <2> QED BY <2>1
<1>13. Fits(h[N], N)
  <2> HIDE DEF T, Fits
  <2>1. \A i \in Nat : i \in T
    BY <1>11, <1>12, NatSetInduction
  <2>2. N \in T /\ N <= N
    BY <2>1
  <2> QED BY <2>2 DEF T
<1>14. Found(h[N]) \/ h[N] = Nil
  <2>1. SUFFICES ASSUME ~Found(h[N]), h[N] # Nil PROVE FALSE
    OBVIOUS
  <2>2. h[N] \in 1 .. N /\ Cardinality(sub[h[N]]) <= N - N
    BY <2>1, <1>13, NodeOrNil
  <2>3. Cardinality(sub[h[N]]) > 0 /\ Cardinality(sub[h[N]]) \in Nat
    <3>1. h[N] \in 0 .. N
      BY <1>13
    <3> QED BY <2>2, <3>1, <1>1, SubSizes
  <2> QED BY <2>2, <2>3
<1>15. sub[Nil] = {}
  BY <1>1 DEF Covers
<1> QED BY <1>9, <1>13, <1>14, <1>15

\* P are the nodes that a search for k has passed when it is at c, below par.
Passed(t, N, sub, k, P, c, par) ==
    /\ P \subseteq 1 .. N
    /\ c \in 0 .. N
    /\ par \in 0 .. N
    /\ IF par = Nil THEN P = {} /\ c = t.root
       ELSE par \in P /\ t.root \in P /\ c = t.child[Way(t, k, par)][par]
    /\ \A n \in P : n = par \/ t.child[Way(t, k, n)][n] \in P
    /\ \A n \in P : t.child[Opposite(Way(t, k, n))][n] \notin P
    /\ \A n \in (1 .. N) \ P : \A s \in Sides : t.child[s][n] \notin P
    /\ \A n \in P : n \notin sub[c]

\* A search that goes on from a node has passed one node more.
LEMMA PassNode ==
    ASSUME NEW N \in Nat, NEW t \in TreesOf(N), NEW sub, Covers(t, N, sub),
           Linked(t, N), NEW k \in Nat, NEW P, NEW c, NEW par,
           Passed(t, N, sub, k, P, c, par), c # Nil
    PROVE  Passed(t, N, sub, k, P \cup {c}, t.child[Way(t, k, c)][c], c)
<1>1. P \subseteq 1 .. N /\ c \in 1 .. N /\ par \in 0 .. N
  BY NodeOrNil DEF Passed
<1>2. PICK s \in Sides : s = Way(t, k, c)
  BY WayIsSide
<1>3. PICK d : d = t.child[s][c]
  OBVIOUS
<1>4. PICK Q : Q = P \cup {c}
  OBVIOUS
<1>5. Q \subseteq 1 .. N /\ d \in 0 .. N
  <2>1. t.child[s] \in [1 .. N -> 0 .. N]
    BY DEF TreesOf
  <2> QED BY <1>1, <1>3, <1>4, <2>1
<1>6. c \in Q /\ t.root \in Q
  BY <1>4 DEF Passed
<1>7. c \in sub[c] /\ c \notin P
  BY <1>1 DEF Covers, Passed
<1>8. \A r \in Sides : \A n \in 1 .. N : t.child[r][n] = c => t.up[c] = n
  BY <1>1 DEF Linked, Nil
<1>9. \A r \in Sides : \A n \in 1 .. N : t.child[r][n] = c => n = par
  <2>1. CASE par = Nil
    <3>1. c = t.root
      BY <2>1 DEF Passed
    <3>2. sub[c] = 1 .. N
      BY <3>1 DEF Covers
    <3>3. \A r \in Sides : \A n \in 1 .. N : n \notin sub[t.child[r][n]]
      BY DEF Covers
    <3> QED BY <3>2, <3>3
  <2>2. CASE par # Nil
    <3>1. par \in 1 .. N /\ t.child[Way(t, k, par)][par] = c
      BY <2>2, <1>1 DEF Passed
    <3>2. t.up[c] = par
      BY <3>1, <1>8, WayIsSide
    <3> QED BY <3>2, <1>8
  <2> QED BY <2>1, <2>2
<1>10. \A n \in Q : n = c \/ t.child[Way(t, k, n)][n] \in Q
  <2>1. ASSUME NEW n \in P PROVE t.child[Way(t, k, n)][n] \in Q
    <3>1. CASE n = par
      <4>1. par # Nil
        BY <3>1, <2>1, <1>1 DEF Nil
      <4> QED BY <3>1, <4>1, <1>4 DEF Passed
    <3>2. CASE n # par
      BY <3>2, <2>1, <1>4 DEF Passed
    <3> QED BY <3>1, <3>2
  <2> QED BY <2>1, <1>4
<1>11. ASSUME NEW n \in P PROVE t.child[Opposite(Way(t, k, n))][n] \notin Q
  <2>1. t.child[Opposite(Way(t, k, n))][n] \notin P
    BY <1>11 DEF Passed
  <2>2. ASSUME t.child[Opposite(Way(t, k, n))][n] = c PROVE FALSE
    <3>1. PICK r \in Sides : r = Way(t, k, n)
      BY WayIsSide
    <3>2. Opposite(r) \in Sides /\ n \in 1 .. N
      BY <1>1, <1>11, SideFacts
    <3>3. n = par
      BY <2>2, <3>1, <3>2, <1>9
    <3>4. t.child[r][n] = c
      <4>1. par # Nil
        BY <3>2, <3>3 DEF Nil
      <4> QED BY <3>1, <3>3, <4>1 DEF Passed
    <3>5. \A m \in sub[t.child[r][n]] : m \notin sub[t.child[Opposite(r)][n]]
      BY <3>2 DEF Covers
    <3> QED BY <2>2, <3>1, <3>4, <3>5, <1>7
  <2> QED BY <2>1, <2>2, <1>4
<1>12. ASSUME NEW r \in Sides PROVE t.child[r][c] \notin Q
  <2>1. t.child[r][c] \in 0 .. N
    <3>1. t.child[r] \in [1 .. N -> 0 .. N]
      BY DEF TreesOf
    <3> QED BY <1>1, <3>1
  <2>2. t.child[r][c] = Nil => t.child[r][c] \notin Q
    BY <1>5 DEF Nil
  <2>3. t.child[r][c] # Nil => t.child[r][c] \in sub[t.child[r][c]]
    BY <2>1, NodeOrNil DEF Covers
  <2>4. t.child[r][c] # Nil => t.child[r][c] \in sub[c] /\ t.child[r][c] # c
    BY <2>3, <1>1 DEF Covers
  <2>5. \A n \in P : n \notin sub[c]
    BY DEF Passed
  <2> QED BY <2>2, <2>4, <2>5, <1>4
<1>13. Opposite(s) \in Sides
  BY SideFacts
<1>14. \A n \in Q : t.child[Opposite(Way(t, k, n))][n] \notin Q
  BY <1>2, <1>4, <1>11, <1>12, <1>13
<1>15. ASSUME NEW n \in (1 .. N) \ Q, NEW r \in Sides PROVE t.child[r][n] \notin Q
  <2>1. t.child[r][n] \notin P
    BY <1>4, <1>15 DEF Passed
  <2>2. ASSUME t.child[r][n] = c PROVE FALSE
    <3>1. n = par
      BY <2>2, <1>9, <1>15
    <3>2. par # Nil
      BY <3>1, <1>15 DEF Nil
    <3>3. par \in P
      BY <3>2 DEF Passed
    <3> QED BY <3>1, <3>3, <1>4, <1>15
  <2> QED BY <2>1, <2>2, <1>4
<1>16. ASSUME NEW n \in Q PROVE n \notin sub[d]
  <2>1. \A m \in sub[d] : m \in sub[c] /\ m # c
    BY <1>1, <1>3 DEF Covers
  <2>2. \A m \in P : m \notin sub[c]
    BY DEF Passed
  <2> QED BY <2>1, <2>2, <1>4, <1>16
<1>17. c # Nil /\ c \in 0 .. N
  BY <1>1
<1> QED
  BY <1>2, <1>3, <1>4, <1>5, <1>6, <1>10, <1>14, <1>15, <1>16, <1>17 DEF Passed

\* insert goes down to a null pointer.
LEMMA InsertParentPassed ==
    ASSUME NEW N \in Nat, NEW t \in TreesOf(N), NEW sub, Covers(t, N, sub),
           Linked(t, N), NEW k \in Nat
    PROVE  \E P : Passed(t, N, sub, k, P, Nil, InsertParent(t, k))
<1> DEFINE Step(c) == IF c[1] = Nil THEN c
                      ELSE <<t.child[Way(t, k, c[1])][c[1]], c[1]>>
           S == (0 .. N) \X (0 .. N)
           Body(a) == [i \in 0 .. N |->
                          IF i = 0 THEN <<t.root, Nil>> ELSE Step(a[i - 1])]
           F == [i \in 1 .. N |-> [c \in S |-> Step(c)]]
           f == CHOOSE a : a = Body(a)
<1>1. ASSUME NEW n \in 1 .. N PROVE t.child[Way(t, k, n)][n] \in 0 .. N
  <2>1. t.child[Way(t, k, n)] \in [1 .. N -> 0 .. N]
    BY WayIsSide DEF TreesOf
  <2> QED BY <2>1
<1>2. \A c \in S : Step(c) \in S
  BY <1>1, NodeOrNil
<1>3. <<t.root, Nil>> \in S
  BY DEF TreesOf, Nil
<1>4. F \in [1 .. N -> [S -> S]]
  <2> HIDE DEF Step, S
  <2> QED BY <1>2
<1>5. PICK g : /\ g \in [0 .. N -> S] /\ g[0] = <<t.root, Nil>>
               /\ \A i \in 1 .. N : g[i] = F[i][g[i - 1]]
  <2> HIDE DEF F, S
  <2>1. \E g : IsIteration(N, S, <<t.root, Nil>>, F, g)
    BY <1>3, <1>4, IterationExists
  <2> QED BY <2>1 DEF IsIteration
<1>6. g = Body(g)
  <2> HIDE DEF Step, S
  <2>1. ASSUME NEW i \in 1 .. N PROVE g[i] = Step(g[i - 1])
    <3>1. i - 1 \in 0 .. N
      OBVIOUS
    <3>2. g[i - 1] \in S
      BY <3>1, <1>5
    <3> QED BY <3>2, <1>5
  <2>2. DOMAIN g = 0 .. N /\ g = [i \in 0 .. N |-> g[i]]
    BY <1>5
  <2>3. ASSUME NEW i \in 0 .. N
        PROVE  g[i] = IF i = 0 THEN <<t.root, Nil>> ELSE Step(g[i - 1])
    <3>1. CASE i = 0
      BY <3>1, <1>5
    <3>2. CASE i # 0
      <4>1. i \in 1 .. N
        BY <3>2
      <4> QED BY <3>2, <4>1, <2>1
    <3> QED BY <3>1, <3>2
  <2> QED BY <2>2, <2>3
<1>7. PICK h : h = f /\ h = Body(h)
  <2>1. f = Body(f)
    <3> HIDE DEF Body
    <3> QED BY <1>6
  <2> HIDE DEF f
  <2> QED BY <2>1
<1>8. InsertParent(t, k) = h[N][2]
  <2>1. Size(t) = N
    BY SizeOfTree
  <2>2. InsertParent(t, k) = f[N][2]
    BY <2>1 DEF InsertParent
  <2> HIDE DEF f
  <2> QED BY <2>2, <1>7
<1> HIDE DEF f
<1> DEFINE Fits(c, i) == /\ \E P : Passed(t, N, sub, k, P, c[1], c[2])
                         /\ c[1] = Nil \/ Cardinality(sub[c[1]]) <= N - i
           T == {i \in Nat : i <= N => Fits(h[i], i)}
<1>9. 0 \in T
  <2>1. h[0] = <<t.root, Nil>>
    BY <1>7
  <2>2. Cardinality(sub[t.root]) = N
    BY SubSizes
  <2>3. Passed(t, N, sub, k, {}, t.root, Nil)
    BY DEF Passed, TreesOf, Nil
  <2> QED BY <2>1, <2>2, <2>3
<1>10. ASSUME NEW i \in Nat, i \in T PROVE i + 1 \in T
  <2>1. ASSUME i + 1 <= N PROVE Fits(h[i + 1], i + 1)
    <3>1. PICK c : c = h[i]
      OBVIOUS
    <3>2. Fits(c, i)
      <4> HIDE DEF Fits
      <4> QED BY <3>1, <2>1, <1>10
    <3>3. h[i + 1] = Step(c)
      <4>1. i + 1 \in 0 .. N /\ i + 1 # 0 /\ (i + 1) - 1 = i
        BY <2>1
      <4> HIDE DEF Step
      <4>2. h[i + 1] = Step(h[(i + 1) - 1])
        BY <4>1, <1>7
      <4> QED BY <4>1, <4>2, <3>1
    <3>4. CASE c[1] = Nil
      BY <3>2, <3>3, <3>4
    <3>5. CASE c[1] # Nil
      <4>1. PICK P : Passed(t, N, sub, k, P, c[1], c[2])
        BY <3>2
      <4>2. c[1] \in 1 .. N /\ c[1] \in 0 .. N
        BY <4>1, <3>5, NodeOrNil DEF Passed
      <4>3. PICK d : d = t.child[Way(t, k, c[1])][c[1]]
        OBVIOUS
      <4>4. d \in 0 .. N /\ Step(c) = <<d, c[1]>>
        BY <4>2, <4>3, <1>1, <3>5
      <4>5. Cardinality(sub[d]) < Cardinality(sub[c[1]])
        BY <4>2, <4>3, WayIsSide, SubSizes
      <4>6. Cardinality(sub[d]) \in Nat /\ Cardinality(sub[c[1]]) \in Nat
        BY <4>2, <4>4, SubSizes
      <4>7. Cardinality(sub[d]) <= N - (i + 1)
        BY <4>5, <4>6, <3>2, <3>5
      <4>8. Passed(t, N, sub, k, P \cup {c[1]}, d, c[1])
        BY <4>1, <4>3, <3>5, PassNode
      <4> QED BY <3>3, <4>4, <4>7, <4>8
    <3> QED BY <3>4, <3>5
  <2> HIDE DEF Fits
  <2> QED BY <2>1
<1>11. Fits(h[N], N)
  <2> HIDE DEF T, Fits
  <2>1. \A i \in Nat : i \in T
    BY <1>9, <1>10, NatSetInduction
  <2>2. N \in T /\ N <= N
    BY <2>1
  <2> QED BY <2>2 DEF T
<1>12. PICK P : Passed(t, N, sub, k, P, h[N][1], h[N][2])
  BY <1>11
<1>13. h[N][1] = Nil
  <2>1. SUFFICES ASSUME h[N][1] # Nil PROVE FALSE
    OBVIOUS
  <2>2. h[N][1] \in 1 .. N /\ h[N][1] \in 0 .. N
    BY <2>1, <1>12, NodeOrNil DEF Passed
  <2>3. Cardinality(sub[h[N][1]]) <= N - N
    BY <2>1, <1>11
  <2>4. Cardinality(sub[h[N][1]]) > 0 /\ Cardinality(sub[h[N][1]]) \in Nat
    BY <2>2, SubSizes
  <2> QED BY <2>3, <2>4
<1> QED BY <1>8, <1>12, <1>13

\* Append, for sequences given as functions.
LEMMA AppendFunction ==
    ASSUME NEW N \in Nat, NEW S, NEW c \in [1 .. N -> S], NEW e \in S
    PROVE  /\ Append(c, e) \in [1 .. N + 1 -> S]
           /\ Append(c, e)[N + 1] = e
           /\ \A i \in 1 .. N : Append(c, e)[i] = c[i]
<1>1. c \in Seq(S) /\ Len(c) = N
  BY FunctionIsSeq
<1>2. /\ Append(c, e) \in Seq(S) /\ Len(Append(c, e)) = N + 1
      /\ \A i \in 1 .. N : Append(c, e)[i] = c[i]
      /\ Append(c, e)[N + 1] = e
  BY <1>1, AppendProperties
<1>3. Append(c, e) \in [1 .. Len(Append(c, e)) -> S]
  BY <1>2, LenProperties, ElementOfSeq
<1> QED BY <1>2, <1>3

\* insert, with all the recolouring and the rotations of insertion_fixup, adds
\* a node with the key, keeps every other node and its value, and leaves a tree
\* in which find_node finds them, also when fixup stopped at a null pointer.
THEOREM TreeInsertShape ==
    ASSUME NEW N \in Nat, NEW t \in TreesOf(N), Shape(t, N), NEW k \in Nat,
           NEW v \in Nat
    PROVE  /\ TreeInsert(t, k, v) \in TreesOf(N + 1)
           /\ Shape(TreeInsert(t, k, v), N + 1)
           /\ TreeInsert(t, k, v).key = Append(t.key, k)
           /\ TreeInsert(t, k, v).val = Append(t.val, v)
<1>1. PICK sub : Covers(t, N, sub)
  BY DEF Shape
<1>2. Linked(t, N)
  BY DEF Shape
<1>3. PICK par : par = InsertParent(t, k)
  OBVIOUS
<1>4. PICK P : Passed(t, N, sub, k, P, Nil, par)
  BY <1>1, <1>2, <1>3, InsertParentPassed
<1>5. PICK new : new = N + 1
  OBVIOUS
<1>6. PICK way : way = Way(t, k, par)
  OBVIOUS
<1> DEFINE Link(s) == [n \in 1 .. new |->
                       IF n = new THEN Nil
                       ELSE IF n = par /\ s = way THEN new ELSE t.child[s][n]]
<1>7. PICK r : /\ r = AddLeaf(t, k, v, new, par)
               /\ r = [root |-> IF par = Nil THEN new ELSE t.root, ok |-> t.ok,
                       key |-> Append(t.key, k), val |-> Append(t.val, v),
                       red |-> Append(t.red, TRUE), up |-> Append(t.up, par),
                       child |-> [s \in Sides |-> Link(s)]]
  <2> DEFINE Same(s) == [n \in 1 .. new |->
                       CASE n = new -> Nil
                         [] n = par /\ s = Way(t, k, par) -> new
                         [] OTHER -> t.child[s][n]]
  <2>1. ASSUME NEW s \in Sides PROVE Link(s) = Same(s)
    <3>1. par \in 0 .. N
      BY <1>4 DEF Passed
    <3>2. par # new
      BY <1>5, <3>1
    <3> QED BY <3>2, <1>6
  <2>2. AddLeaf(t, k, v, new, par) =
             [root |-> IF par = Nil THEN new ELSE t.root, ok |-> t.ok,
                       key |-> Append(t.key, k), val |-> Append(t.val, v),
                       red |-> Append(t.red, TRUE), up |-> Append(t.up, par),
                       child |-> [s \in Sides |-> Same(s)]]
    BY DEF AddLeaf
  <2> HIDE DEF Link, Same
  <2>3. [s \in Sides |-> Same(s)] = [s \in Sides |-> Link(s)]
    BY <2>1
  <2> QED BY <2>2, <2>3
<1>8. /\ t.key \in [1 .. N -> Nat] /\ t.val \in [1 .. N -> Nat]
      /\ t.red \in [1 .. N -> BOOLEAN] /\ t.up \in [1 .. N -> 0 .. N]
  BY DEF TreesOf
<1>9. par \in 0 .. N /\ (par # Nil => par \in P /\ par \in 1 .. N)
  BY <1>4 DEF Passed
<1>10. way \in Sides
  BY <1>6, WayIsSide
<1>11. ASSUME NEW s \in Sides PROVE t.child[s] \in [1 .. N -> 0 .. N]
  BY DEF TreesOf
<1>12. ASSUME NEW s \in Sides PROVE Link(s) \in [1 .. new -> 0 .. new]
  BY <1>5, <1>11 DEF Nil
<1>13. r \in TreesOf(new)
  <2>1. Append(t.key, k) \in [1 .. new -> Nat] /\ Append(t.val, v) \in [1 .. new -> Nat]
    BY <1>5, <1>8, AppendFunction
  <2>2. Append(t.red, TRUE) \in [1 .. new -> BOOLEAN]
    BY <1>5, <1>8, AppendFunction
  <2>3. Append(t.up, par) \in [1 .. new -> 0 .. new]
    <3>1. t.up \in [1 .. N -> 0 .. new] /\ par \in 0 .. new
      BY <1>5, <1>8, <1>9
    <3> QED BY <1>5, <3>1, AppendFunction
  <2>4. [s \in Sides |-> Link(s)] \in [Sides -> [1 .. new -> 0 .. new]]
    BY <1>12
  <2>5. (IF par = Nil THEN new ELSE t.root) \in 0 .. new /\ t.ok \in BOOLEAN
    BY <1>5 DEF TreesOf
  <2> HIDE DEF Link
  <2>6. t.ok \in BOOLEAN
    BY DEF TreesOf
  <2>7. r = [root |-> IF par = Nil THEN new ELSE t.root, ok |-> t.ok,
                       key |-> Append(t.key, k), val |-> Append(t.val, v),
                       red |-> Append(t.red, TRUE), up |-> Append(t.up, par),
                       child |-> [s \in Sides |-> Link(s)]]
    BY <1>7
  <2> QED BY <2>1, <2>2, <2>3, <2>4, <2>5, <2>6, <2>7 DEF TreesOf
<1>14. /\ r.root = IF par = Nil THEN new ELSE t.root
       /\ r.key = Append(t.key, k) /\ r.val = Append(t.val, v)
       /\ r.up = Append(t.up, par)
       /\ \A s \in Sides : r.child[s] = Link(s)
  <2> HIDE DEF Link
  <2> QED BY <1>7
<1>15. /\ r.key[new] = k /\ \A n \in 1 .. N : r.key[n] = t.key[n]
       /\ r.up[new] = par /\ \A n \in 1 .. N : r.up[n] = t.up[n]
  <2>1. Append(t.key, k)[N + 1] = k /\ \A n \in 1 .. N : Append(t.key, k)[n] = t.key[n]
    BY <1>8, AppendFunction
  <2>2. Append(t.up, par)[N + 1] = par /\ \A n \in 1 .. N : Append(t.up, par)[n] = t.up[n]
    BY <1>8, <1>9, AppendFunction
  <2> QED BY <2>1, <2>2, <1>5, <1>14
<1>16. \A s \in Sides : /\ r.child[s][new] = Nil
                        /\ \A n \in 1 .. N : r.child[s][n] =
                              IF n = par /\ s = way THEN new ELSE t.child[s][n]
  <2>1. ASSUME NEW s \in Sides
        PROVE  /\ r.child[s][new] = Nil
               /\ \A n \in 1 .. N : r.child[s][n] =
                     IF n = par /\ s = way THEN new ELSE t.child[s][n]
    <3>1. new \in 1 .. new /\ \A n \in 1 .. N : n \in 1 .. new /\ n # new
      BY <1>5
    <3>2. r.child[s] = Link(s)
      BY <1>14
    <3> QED BY <3>1, <3>2
  <2> QED BY <2>1
<1>17. par # Nil => t.child[way][par] = Nil
  BY <1>4, <1>6 DEF Passed
<1> HIDE DEF Link
<1>18. ASSUME NEW n \in 1 .. N, NEW s \in Sides
       PROVE  t.child[s][n] \in 0 .. N
  BY <1>11
<1>19. Linked(r, new)
  <2>1. ASSUME NEW n \in 1 .. new, NEW s \in Sides, r.child[s][n] # Nil
        PROVE  r.up[r.child[s][n]] = n
    <3>1. n \in 1 .. N
      BY <2>1, <1>5, <1>16
    <3>2. CASE n = par /\ s = way
      BY <3>1, <3>2, <1>15, <1>16
    <3>3. CASE ~(n = par /\ s = way)
      <4>1. r.child[s][n] = t.child[s][n]
        BY <3>1, <3>3, <1>16
      <4>2. t.child[s][n] \in 1 .. N
        BY <4>1, <2>1, <3>1, <1>18, NodeOrNil
      <4>3. t.up[t.child[s][n]] = n
        BY <4>1, <2>1, <3>1, <1>2 DEF Linked
      <4> QED BY <4>1, <4>2, <4>3, <1>15
    <3> QED BY <3>2, <3>3
  <2>2. ASSUME NEW n \in 1 .. new
        PROVE  IF r.up[n] = Nil THEN n = r.root
               ELSE \E s \in Sides : r.child[s][r.up[n]] = n
    <3>1. CASE n = new
      <4>1. CASE par = Nil
        BY <3>1, <4>1, <1>14, <1>15
      <4>2. CASE par # Nil
        <5>1. r.child[way][par] = new
          BY <4>2, <1>9, <1>10, <1>16
        <5> QED BY <3>1, <4>2, <5>1, <1>10, <1>15
      <4> QED BY <4>1, <4>2
    <3>2. CASE n # new
      <4>1. n \in 1 .. N /\ r.up[n] = t.up[n]
        BY <3>2, <1>5, <1>15
      <4>2. CASE t.up[n] = Nil
        <5>1. n = t.root
          BY <4>1, <4>2, <1>2 DEF Linked
        <5>2. par # Nil
          <6>1. SUFFICES ASSUME par = Nil PROVE FALSE
            OBVIOUS
          <6>2. t.root = Nil
            BY <6>1, <1>4 DEF Passed
          <6> QED BY <5>1, <6>2, <4>1 DEF Nil
        <5> QED BY <4>1, <4>2, <5>1, <5>2, <1>14
      <4>3. CASE t.up[n] # Nil
        <5>1. PICK s \in Sides : t.child[s][t.up[n]] = n
          BY <4>1, <4>3, <1>2 DEF Linked
        <5>2. t.up[n] \in 0 .. N
          BY <4>1 DEF TreesOf
        <5>3. t.up[n] \in 1 .. N
          BY <5>2, <4>3, NodeOrNil
        <5>4. ~(t.up[n] = par /\ s = way)
          BY <5>1, <5>3, <4>1, <4>3, <1>17 DEF Nil
        <5>5. r.child[s][t.up[n]] = n
          BY <5>1, <5>3, <5>4, <1>16
        <5> QED BY <4>1, <4>3, <5>5
      <4> QED BY <4>2, <4>3
    <3> QED BY <3>1, <3>2
  <2> QED BY <2>1, <2>2 DEF Linked
<1>20. PICK sub2 : sub2 = [n \in 0 .. new |->
            IF n = new THEN {new} ELSE IF n \in P THEN sub[n] \cup {new} ELSE sub[n]]
  OBVIOUS
<1>21. sub \in [0 .. N -> SUBSET (1 .. N)] /\ sub[Nil] = {} /\ P \subseteq 1 .. N
  BY <1>1, <1>4 DEF Covers, Passed
<1>22. /\ sub2[new] = {new} /\ sub2[Nil] = {}
       /\ \A n \in 0 .. N : sub2[n] = IF n \in P THEN sub[n] \cup {new} ELSE sub[n]
       /\ \A n \in 0 .. N : new \notin sub[n]
  BY <1>5, <1>20, <1>21 DEF Nil
<1>23. sub2 \in [0 .. new -> SUBSET (1 .. new)]
  <2>1. ASSUME NEW n \in 0 .. new PROVE sub2[n] \subseteq 1 .. new
    <3>1. CASE n = new
      BY <3>1, <1>5, <1>22
    <3>2. CASE n # new
      <4>1. n \in 0 .. N
        BY <3>2, <1>5
      <4>2. sub[n] \subseteq 1 .. N
        BY <4>1, <1>21
      <4>3. sub2[n] \subseteq sub[n] \cup {new}
        BY <4>1, <1>22
      <4> QED BY <4>2, <4>3, <1>5
    <3> QED BY <3>1, <3>2
  <2> QED BY <2>1, <1>20
<1>24. sub2[r.root] = 1 .. new
  <2>1. CASE par = Nil
    <3>1. t.root = Nil
      BY <2>1, <1>4 DEF Passed
    <3>2. sub[t.root] = 1 .. N
      BY <1>1 DEF Covers
    <3>3. 1 .. N = {}
      BY <3>1, <3>2, <1>21
    <3>4. N = 0
      BY <3>3
    <3> QED BY <2>1, <3>4, <1>5, <1>14, <1>22
  <2>2. CASE par # Nil
    <3>1. t.root \in P /\ t.root \in 0 .. N /\ sub[t.root] = 1 .. N
      <4>1. t.root \in P
        BY <2>2, <1>4 DEF Passed
      <4>2. sub[t.root] = 1 .. N
        BY <1>1 DEF Covers
      <4>3. t.root \in 1 .. N
        BY <4>1, <1>21
      <4> QED BY <4>1, <4>2, <4>3
    <3>2. sub2[t.root] = (1 .. N) \cup {new}
      BY <3>1, <1>22
    <3>3. (1 .. N) \cup {new} = 1 .. new
      BY <1>5
    <3> QED BY <2>2, <3>2, <3>3, <1>14
  <2> QED BY <2>1, <2>2
<1> DEFINE Good(n) ==
          /\ n \in sub2[n]
          /\ \A m \in sub2[n] : m = n \/ \E s \in Sides : m \in sub2[r.child[s][n]]
          /\ \A s \in Sides : \A m \in sub2[r.child[s][n]] :
                /\ m \in sub2[n] /\ m # n
                /\ m \notin sub2[r.child[Opposite(s)][n]]
                /\ Before(s, r.key[m], r.key[n])
<1>25. Good(new)
  BY <1>16, <1>22, SideFacts
<1>26. ASSUME NEW n \in 1 .. N PROVE Good(n)
  <2>1. /\ n \in sub[n]
        /\ \A m \in sub[n] : m = n \/ \E s \in Sides : m \in sub[t.child[s][n]]
        /\ \A s \in Sides : \A m \in sub[t.child[s][n]] :
              /\ m \in sub[n] /\ m # n
              /\ m \notin sub[t.child[Opposite(s)][n]]
              /\ Before(s, t.key[m], t.key[n])
    BY <1>1 DEF Covers
  <2>2. n \in 0 .. N /\ n # new /\ new \notin sub[n]
    BY <1>5, <1>22
  <2>3. \A s \in Sides : Opposite(s) \in Sides /\ Opposite(s) # s
    BY SideFacts
  <2>4. \A s \in Sides : \A m \in sub[t.child[s][n]] : m \in 1 .. N /\ m # new
    BY <2>1, <2>2, <1>21
  <2>5. CASE n \notin P
    <3>1. \A s \in Sides : sub2[r.child[s][n]] = sub[t.child[s][n]]
      <4>1. ASSUME NEW s \in Sides PROVE t.child[s][n] \notin P
        BY <2>5, <1>4 DEF Passed
      <4>2. n # par
        BY <2>5, <1>9 DEF Nil
      <4> QED BY <4>1, <4>2, <1>16, <1>18, <1>22
    <3>2. sub2[n] = sub[n]
      BY <2>2, <2>5, <1>22
    <3>3. \A m \in sub2[n] : m = n \/ \E s \in Sides : m \in sub2[r.child[s][n]]
      BY <3>1, <3>2, <2>1
    <3>4. ASSUME NEW s \in Sides, NEW m \in sub2[r.child[s][n]]
          PROVE  /\ m \in sub2[n] /\ m # n
                 /\ m \notin sub2[r.child[Opposite(s)][n]]
                 /\ Before(s, r.key[m], r.key[n])
      <4>1. m \in sub[t.child[s][n]] /\ sub2[r.child[Opposite(s)][n]] = sub[t.child[Opposite(s)][n]]
        BY <3>1, <3>4, <2>3
      <4> QED BY <4>1, <3>2, <2>1, <2>4, <1>15
    <3> QED BY <3>2, <3>3, <3>4, <2>1
  <2>6. CASE n \in P
    <3>1. PICK s \in Sides : s = Way(t, k, n)
      BY WayIsSide
    <3>2. PICK o \in Sides : o = Opposite(s)
      BY <2>3
    <3>3. s # o /\ Opposite(o) = s /\ \A q \in Sides : q = s \/ q = o
      BY <3>2, SideFacts
    <3>4. sub2[n] = sub[n] \cup {new}
      BY <2>2, <2>6, <1>22
    <3>5. sub2[r.child[o][n]] = sub[t.child[o][n]]
      <4>1. t.child[o][n] \notin P
        BY <3>1, <3>2, <2>6, <1>4 DEF Passed
      <4>2. r.child[o][n] = t.child[o][n]
        <5>1. ~(n = par /\ o = way)
          BY <3>1, <3>3, <1>6
        <5> QED BY <5>1, <1>16
      <4>3. t.child[o][n] \in 0 .. N
        BY <1>18
      <4>4. sub2[t.child[o][n]] = sub[t.child[o][n]]
        BY <4>1, <4>3, <1>22
      <4> QED BY <4>2, <4>4
    <3>6. sub2[r.child[s][n]] = sub[t.child[s][n]] \cup {new}
      <4>1. CASE n = par
        <5>1. r.child[s][n] = new /\ t.child[s][n] = Nil
          BY <3>1, <4>1, <1>6, <1>9, <1>16, <1>17 DEF Nil
        <5> QED BY <5>1, <1>21, <1>22
      <4>2. CASE n # par
        <5>1. t.child[s][n] \in P
          BY <3>1, <4>2, <2>6, <1>4 DEF Passed
        <5>2. r.child[s][n] = t.child[s][n]
          BY <4>2, <1>16
        <5> QED BY <5>1, <5>2, <1>18, <1>22
      <4> QED BY <4>1, <4>2
    <3>7. \A m \in sub2[n] : m = n \/ \E q \in Sides : m \in sub2[r.child[q][n]]
      <4>1. ASSUME NEW m \in sub2[n], m # n
            PROVE  \E q \in Sides : m \in sub2[r.child[q][n]]
        <5>1. CASE m = new
          BY <5>1, <3>6
        <5>2. CASE m # new
          <6>1. PICK q \in Sides : m \in sub[t.child[q][n]]
            BY <4>1, <5>2, <3>4, <2>1
          <6> QED BY <6>1, <3>3, <3>5, <3>6
        <5> QED BY <5>1, <5>2
      <4> QED BY <4>1
    <3>8. Before(s, k, t.key[n])
      <4>1. t.key[n] \in Nat
        BY DEF TreesOf
      <4> QED BY <3>1, <4>1 DEF Before, Way
    <3>9. ASSUME NEW q \in Sides, NEW m \in sub2[r.child[q][n]]
          PROVE  /\ m \in sub2[n] /\ m # n
                 /\ m \notin sub2[r.child[Opposite(q)][n]]
                 /\ Before(q, r.key[m], r.key[n])
      <4>1. CASE q = s /\ m = new
        <5>1. new \notin sub[t.child[o][n]]
          BY <1>18, <1>22
        <5> QED BY <4>1, <5>1, <3>2, <3>4, <3>5, <3>8, <2>2, <1>15
      <4>2. CASE q = s /\ m # new
        <5>1. m \in sub[t.child[s][n]]
          BY <4>2, <3>6, <3>9
        <5>2. m \notin sub2[r.child[o][n]]
          BY <5>1, <3>2, <3>5, <2>1
        <5> QED BY <4>2, <5>1, <5>2, <3>2, <3>4, <2>1, <2>4, <1>15
      <4>3. CASE q = o
        <5>1. m \in sub[t.child[o][n]]
          BY <4>3, <3>5, <3>9
        <5>2. m # new /\ m \in 1 .. N
          BY <5>1, <2>4
        <5>3. m \notin sub2[r.child[s][n]]
          BY <5>1, <5>2, <3>3, <3>6, <2>1
        <5> QED BY <4>3, <5>1, <5>2, <5>3, <3>3, <3>4, <2>1, <1>15
      <4> QED BY <4>1, <4>2, <4>3, <3>3
    <3> QED BY <3>4, <3>7, <3>9, <2>1
  <2> QED BY <2>5, <2>6
<1>27. \A n \in 1 .. new : Good(n)
  <2> HIDE DEF Good
  <2> QED BY <1>5, <1>25, <1>26
<1>28. Covers(r, new, sub2)
  BY <1>22, <1>23, <1>24, <1>27 DEF Covers
<1>29. Shape(r, new)
  BY <1>19, <1>28 DEF Shape
<1>30. InsertionFixup(r, new) \in SameNodes(r, new)
  BY <1>5, <1>13, <1>29, InsertionFixupShape
<1>31. TreeInsert(t, k, v) = InsertionFixup(r, new)
  <2>1. Size(t) + 1 = new
    BY <1>5, SizeOfTree
  <2> QED BY <2>1, <1>3, <1>7 DEF TreeInsert
<1> QED BY <1>5, <1>14, <1>30, <1>31 DEF SameNodes

---------------------------------------------------------------------------
(* Directories, and the arithmetic of sections. *)

\* A tree that maps addresses to themselves, as the directories do.
IsDirectory(d, N) == d \in TreesOf(N) /\ Shape(d, N) /\ d.key = d.val
Directories == {d \in UNION {TreesOf(N) : N \in Nat} :
                   \E N \in Nat : IsDirectory(d, N)}
Addresses(d) == {d.key[n] : n \in DOMAIN d.key}

\* The directory of a new translation table.
LEMMA EmptyDirectory ==
    EmptyTree \in Directories /\ Addresses(EmptyTree) = {} /\ EmptyTree.ok
<1>1. PICK t : t = EmptyTree
  OBVIOUS
<1>2. 1 .. 0 = {}
  OBVIOUS
<1>3. <<>> \in [1 .. 0 -> Nat] /\ <<>> \in [1 .. 0 -> BOOLEAN] /\ <<>> \in [1 .. 0 -> 0 .. 0]
  BY <1>2
<1>4. t \in TreesOf(0)
  BY <1>1, <1>3 DEF EmptyTree, TreesOf, Nil
<1>5. t.root = Nil /\ t.key = <<>> /\ t.val = <<>> /\ t.ok
  BY <1>1 DEF EmptyTree
<1>6. PICK sub : sub = [n \in 0 .. 0 |-> {}]
  OBVIOUS
<1>7. sub \in [0 .. 0 -> SUBSET (1 .. 0)] /\ sub[0] = {}
  BY <1>6
<1>8. Covers(t, 0, sub)
  BY <1>2, <1>5, <1>7 DEF Covers, Nil
<1>9. Linked(t, 0)
  BY <1>2 DEF Linked
<1>10. Shape(t, 0)
  BY <1>8, <1>9 DEF Shape
<1>11. IsDirectory(t, 0)
  BY <1>4, <1>5, <1>10 DEF IsDirectory
<1>12. t \in Directories
  BY <1>4, <1>11 DEF Directories
<1>13. Addresses(t) = {}
  BY <1>5 DEF Addresses
<1> QED BY <1>1, <1>5, <1>12, <1>13

\* insert adds the address and keeps the others.
LEMMA InsertAddress ==
    ASSUME NEW d \in Directories, NEW a \in Nat
    PROVE  /\ TreeInsert(d, a, a) \in Directories
           /\ Addresses(d) \subseteq Addresses(TreeInsert(d, a, a))
           /\ a \in Addresses(TreeInsert(d, a, a))
<1>1. PICK N \in Nat : IsDirectory(d, N)
  BY DEF Directories
<1>2. PICK r : r = TreeInsert(d, a, a)
  OBVIOUS
<1>3. /\ r \in TreesOf(N + 1) /\ Shape(r, N + 1)
      /\ r.key = Append(d.key, a) /\ r.val = Append(d.val, a)
  BY <1>1, <1>2, TreeInsertShape DEF IsDirectory
<1>4. d.key \in [1 .. N -> Nat] /\ DOMAIN d.key = 1 .. N
  BY <1>1 DEF IsDirectory, TreesOf
<1>5. /\ Append(d.key, a) \in [1 .. N + 1 -> Nat]
      /\ Append(d.key, a)[N + 1] = a
      /\ \A i \in 1 .. N : Append(d.key, a)[i] = d.key[i]
  <2>1. PICK c \in [1 .. N -> Nat] : c = d.key
    BY <1>4
  <2>2. Append(c, a) \in [1 .. N + 1 -> Nat]
    BY AppendFunction
  <2>3. Append(c, a)[N + 1] = a /\ \A i \in 1 .. N : Append(c, a)[i] = c[i]
    BY AppendFunction
  <2> QED BY <2>1, <2>2, <2>3
<1>6. IsDirectory(r, N + 1)
  BY <1>1, <1>3 DEF IsDirectory
<1>7. r \in Directories
  <2>1. N + 1 \in Nat
    OBVIOUS
  <2> QED BY <2>1, <1>3, <1>6 DEF Directories
<1>8. DOMAIN r.key = 1 .. N + 1
  BY <1>3, <1>5
<1>9. Addresses(d) \subseteq Addresses(r)
  <2>1. ASSUME NEW n \in 1 .. N PROVE d.key[n] \in Addresses(r)
    <3>1. n \in 1 .. N + 1 /\ r.key[n] = d.key[n]
      BY <1>3, <1>5
    <3> QED BY <3>1, <1>8 DEF Addresses
  <2> QED BY <2>1, <1>4 DEF Addresses
<1>10. a \in Addresses(r)
  <2>1. N + 1 \in 1 .. N + 1 /\ r.key[N + 1] = a
    BY <1>3, <1>5
  <2> QED BY <2>1, <1>8 DEF Addresses
<1> QED BY <1>2, <1>7, <1>9, <1>10

\* The lookup of an address finds that address or nothing, and finds every
\* address that was inserted.
LEMMA LookupAddress ==
    ASSUME NEW d \in Directories, NEW a \in Nat
    PROVE  /\ FindNode(d, a) # Nil => d.val[FindNode(d, a)] = a
           /\ a \in Addresses(d) => FindNode(d, a) # Nil
<1>1. PICK N \in Nat : IsDirectory(d, N)
  BY DEF Directories
<1>2. d \in TreesOf(N) /\ Shape(d, N) /\ d.key = d.val
  BY <1>1 DEF IsDirectory
<1>3. DOMAIN d.key = 1 .. N
  BY <1>2 DEF TreesOf
<1>4. /\ FindNode(d, a) # Nil => d.key[FindNode(d, a)] = a
      /\ FindNode(d, a) = Nil => \A m \in 1 .. N : d.key[m] # a
  BY <1>2, FindNodeFinds
<1> QED BY <1>2, <1>3, <1>4 DEF Addresses

\* A series of insertions keeps the addresses and adds all the new ones, unless
\* it meets a null pointer.
LEMMA InsertTablesAddresses ==
    ASSUME NEW d \in Directories, NEW n \in Nat, NEW c \in [1 .. n -> Nat]
    PROVE  /\ InsertTables(d, c) \in Directories
           /\ InsertTables(d, c).ok =>
                 /\ Addresses(d) \subseteq Addresses(InsertTables(d, c))
                 /\ \A i \in 1 .. n : c[i] # Nil => c[i] \in Addresses(InsertTables(d, c))
<1> DEFINE Step(i, s) == IF c[i] # Nil /\ s.ok THEN TreeInsert(s, c[i], c[i]) ELSE s
           Body(a) == [i \in 0 .. n |-> IF i = 0 THEN d ELSE Step(i, a[i - 1])]
           F == [i \in 1 .. n |-> [s \in Directories |-> Step(i, s)]]
           f == CHOOSE a : a = Body(a)
<1>1. ASSUME NEW i \in 1 .. n, NEW s \in Directories
      PROVE  /\ Step(i, s) \in Directories
             /\ Addresses(s) \subseteq Addresses(Step(i, s))
             /\ s.ok /\ c[i] # Nil => c[i] \in Addresses(Step(i, s))
             /\ ~s.ok => Step(i, s) = s
  <2>1. c[i] \in Nat
    OBVIOUS
  <2>2. /\ TreeInsert(s, c[i], c[i]) \in Directories
        /\ Addresses(s) \subseteq Addresses(TreeInsert(s, c[i], c[i]))
        /\ c[i] \in Addresses(TreeInsert(s, c[i], c[i]))
    BY <2>1, InsertAddress
  <2>3. CASE c[i] # Nil /\ s.ok
    BY <2>2, <2>3
  <2>4. CASE ~(c[i] # Nil /\ s.ok)
    BY <2>4
  <2> QED BY <2>3, <2>4
<1> HIDE DEF Step
<1>2. F \in [1 .. n -> [Directories -> Directories]]
  BY <1>1
<1>3. PICK g : /\ g \in [0 .. n -> Directories] /\ g[0] = d
               /\ \A i \in 1 .. n : g[i] = F[i][g[i - 1]]
  <2> HIDE DEF F
  <2>1. \E g : IsIteration(n, Directories, d, F, g)
    BY <1>2, IterationExists
  <2> QED BY <2>1 DEF IsIteration
<1>4. g = Body(g)
  <2>1. ASSUME NEW i \in 1 .. n PROVE g[i] = Step(i, g[i - 1])
    <3>1. i - 1 \in 0 .. n
      OBVIOUS
    <3>2. g[i - 1] \in Directories
      BY <3>1, <1>3
    <3> QED BY <3>2, <1>3
  <2> QED BY <2>1, <1>3
<1>5. PICK h : h = f /\ h = Body(h)
  <2>1. f = Body(f)
    <3> HIDE DEF Body
    <3> QED BY <1>4
  <2> HIDE DEF f
  <2> QED BY <2>1
<1>6. InsertTables(d, c) = h[n]
  <2>1. Len(c) = n
    BY FunctionIsSeq
  <2>2. InsertTables(d, c) = f[n]
    BY <2>1 DEF InsertTables, Step
  <2> HIDE DEF f
  <2> QED BY <2>2, <1>5
<1> HIDE DEF f
<1> DEFINE Good(i, s) == /\ s \in Directories
                         /\ s.ok => /\ Addresses(d) \subseteq Addresses(s)
                                    /\ \A j \in 1 .. i : c[j] # Nil => c[j] \in Addresses(s)
           T == {i \in Nat : i <= n => Good(i, h[i])}
<1>7. 0 \in T
  <2>1. h[0] = d
    BY <1>5
  <2>2. 1 .. 0 = {}
    OBVIOUS
  <2> QED BY <2>1, <2>2
<1>8. ASSUME NEW i \in Nat, i \in T PROVE i + 1 \in T
  <2>1. ASSUME i + 1 <= n PROVE Good(i + 1, h[i + 1])
    <3>1. PICK s : s = h[i]
      OBVIOUS
    <3>2. Good(i, s)
      <4> HIDE DEF Good
      <4> QED BY <3>1, <2>1, <1>8
    <3>3. h[i + 1] = Step(i + 1, s)
      <4>1. i + 1 \in 0 .. n /\ i + 1 # 0 /\ (i + 1) - 1 = i
        BY <2>1
      <4>2. h[i + 1] = Step(i + 1, h[(i + 1) - 1])
        BY <4>1, <1>5
      <4> QED BY <4>1, <4>2, <3>1
    <3>4. i + 1 \in 1 .. n
      BY <2>1
    <3>5. PICK r : r = Step(i + 1, s)
      OBVIOUS
    <3>6. /\ r \in Directories
          /\ Addresses(s) \subseteq Addresses(r)
          /\ s.ok /\ c[i + 1] # Nil => c[i + 1] \in Addresses(r)
          /\ ~s.ok => r = s
      BY <3>2, <3>4, <3>5, <1>1
    <3>7. ASSUME r.ok, NEW j \in 1 .. i + 1, c[j] # Nil PROVE c[j] \in Addresses(r)
      <4>1. s.ok
        BY <3>6, <3>7
      <4>2. CASE j = i + 1
        BY <4>1, <4>2, <3>6, <3>7
      <4>3. CASE j # i + 1
        <5>1. j \in 1 .. i
          BY <4>3
        <5> QED BY <5>1, <4>1, <3>2, <3>6, <3>7
      <4> QED BY <4>2, <4>3
    <3>8. r.ok => Addresses(d) \subseteq Addresses(r)
      BY <3>2, <3>6
    <3> QED BY <3>3, <3>5, <3>6, <3>7, <3>8
  <2> HIDE DEF Good
  <2> QED BY <2>1
<1>9. Good(n, h[n])
  <2> HIDE DEF T, Good
  <2>1. \A i \in Nat : i \in T
    BY <1>7, <1>8, NatSetInduction
  <2>2. n \in T /\ n <= n
    BY <2>1
  <2> QED BY <2>2 DEF T
<1> QED BY <1>6, <1>9

\* Division by the variable size of a section.
LEMMA Division ==
    ASSUME NEW n \in Nat \ {0}, NEW v \in Nat
    PROVE  /\ v = (n * (v \div n)) + (v % n)
           /\ v % n \in 0 .. n - 1
           /\ v \div n \in Nat
  OBVIOUS

\* Quotient and remainder are unique.
LEMMA Recompose ==
    ASSUME NEW n \in Nat \ {0}, NEW x \in Nat, NEW i \in 0 .. n - 1
    PROVE  (n * x + i) \div n = x /\ (n * x + i) % n = i
<1>1. PICK v : v = n * x + i
  OBVIOUS
<1>2. n * x \in Nat /\ v \in Nat
  BY <1>1
<1> QED BY <1>1, <1>2

\* The section of a page and its place in it.
LEMMA SectionIndex ==
    ASSUME NEW v \in Nat
    PROVE  /\ v = SectionPages * Section(v) + Index(v)
           /\ Index(v) \in 0 .. SectionPages - 1
           /\ Section(v) \in Nat
  BY Division, SizesAssumption DEF Section, Index

\* The page at a place of a section.
LEMMA PageOfSection ==
    ASSUME NEW x \in Nat, NEW i \in 0 .. SectionPages - 1
    PROVE  /\ SectionPages * x + i \in Nat
           /\ Section(SectionPages * x + i) = x
           /\ Index(SectionPages * x + i) = i
<1>1. SectionPages * x \in Nat
  BY SizesAssumption
<1> QED BY <1>1, Recompose, SizesAssumption DEF Section, Index

\* The pages of a section lie before those of the next one.
LEMMA MultiplyOrder ==
    ASSUME NEW n \in Nat \ {0}, NEW x \in Nat, NEW y \in Nat, NEW i \in 0 .. n - 1
    PROVE  /\ x < y => n * x + i < n * y
           /\ n * x + i < n * y => x < y
           /\ x <= y => n * x <= n * y
<1>1. ASSUME x < y PROVE n * x + i < n * y
  <2>1. PICK k \in Nat : y = x + 1 + k
    <3>1. y - x - 1 \in Nat /\ y = x + 1 + (y - x - 1)
      BY <1>1
    <3> QED BY <3>1
  <2>2. n * y = n * x + n + n * k /\ n * k \in Nat /\ n * x \in Nat
    BY <2>1
  <2> QED BY <2>2
<1>2. ASSUME n * x + i < n * y, ~(x < y) PROVE FALSE
  <2>1. PICK k \in Nat : x = y + k
    <3>1. x - y \in Nat /\ x = y + (x - y)
      BY <1>2
    <3> QED BY <3>1
  <2>2. n * x = n * y + n * k /\ n * k \in Nat /\ n * y \in Nat
    BY <2>1
  <2> QED BY <2>2, <1>2
<1>3. ASSUME x <= y PROVE n * x <= n * y
  <2>1. CASE x = y
    <3>1. n * x \in Nat
      OBVIOUS
    <3> QED BY <2>1, <3>1
  <2>2. CASE x # y
    <3>1. n * x + i < n * y /\ n * x \in Nat /\ n * y \in Nat
      BY <1>1, <1>3, <2>2
    <3> QED BY <3>1
  <2> QED BY <2>1, <2>2
<1> QED BY <1>1, <1>2, <1>3

---------------------------------------------------------------------------
(* What a series of map_page or unmap_page leaves. *)

\* The types of the entries, the pages and the layouts.
Bits == {"small", "ng", "xn", "ap0", "ap1", "ap2"}
Entries == [page : Nat, attr : SUBSET Bits]
Pages(t) == 0 .. SectionPages * SectionCount(t) - 1
NoPages == [code |-> 0, data |-> 0, stack |-> 0]
Layouts == {NoPages} \cup
    {[code |-> prog[1], data |-> prog[2], stack |-> StackPages] : prog \in Programs}

\* What the hardware makes of every table.
Map == [t \in Tables |-> [v \in Pages(t) |-> Translate(t, v)]]

\* The types of the tables.
TablesTyped ==
    /\ DOMAIN l1 = Tables
    /\ \A t \in Tables : l1[t] \in [SectionsOf(t) -> Nat]
    /\ DOMAIN pt \subseteq Nat \ {0}
    /\ \A a \in DOMAIN pt : pt[a] \in [0 .. SectionPages - 1 -> Entries]

\* The directories have all the page tables.
Listed ==
    /\ DOMAIN directory = Tables
    /\ \A t \in Tables : directory[t] \in Directories
    /\ \A t \in Tables : \A x \in SectionsOf(t) :
          l1[t][x] # Nil => l1[t][x] \in Addresses(directory[t])

\* TablesOwned, as the steps need it.
Owned ==
    /\ \A a \in DOMAIN pt : \E i \in 0 .. SectionPages - 1 : pt[a][i] # Unmapped
    /\ \A a \in DOMAIN pt : \E t \in Tables : \E x \in SectionsOf(t) : l1[t][x] = a
    /\ \A t \in Tables : \A x \in SectionsOf(t) :
          l1[t][x] # Nil => l1[t][x] \in DOMAIN pt
    /\ \A t, u \in Tables : \A x \in SectionsOf(t), y \in SectionsOf(u) :
          l1[t][x] = l1[u][y] /\ l1[t][x] # Nil => t = u /\ x = y

\* The sizes are numbers.
LEMMA SizesTyped ==
    /\ SectionPages \in Nat \ {0}
    /\ \A t \in Tables : SectionCount(t) \in Nat
    /\ \A t \in Tables : SectionPages * SectionCount(t) \in Nat
  BY SizesAssumption DEF SectionCount

\* A page of a table, its section and its place in it.
LEMMA PageSections ==
    ASSUME NEW t \in Tables
    PROVE  /\ \A v \in Pages(t) : /\ v \in Nat
                                  /\ Section(v) \in SectionsOf(t)
                                  /\ Index(v) \in 0 .. SectionPages - 1
           /\ \A v, w \in Pages(t) :
                 Section(v) = Section(w) /\ Index(v) = Index(w) => v = w
           /\ \A x \in SectionsOf(t) : \A i \in 0 .. SectionPages - 1 :
                 \E v \in Pages(t) : Section(v) = x /\ Index(v) = i
<1>1. ASSUME NEW v \in Pages(t)
      PROVE  /\ v \in Nat /\ Section(v) \in SectionsOf(t)
             /\ Index(v) \in 0 .. SectionPages - 1
             /\ v = SectionPages * Section(v) + Index(v)
  <2>1. v \in Nat /\ v < SectionPages * SectionCount(t)
    BY SizesTyped DEF Pages
  <2>2. /\ v = SectionPages * Section(v) + Index(v)
        /\ Index(v) \in 0 .. SectionPages - 1
        /\ Section(v) \in Nat
    BY <2>1, SectionIndex
  <2>3. Section(v) < SectionCount(t)
    BY <2>1, <2>2, SizesTyped, MultiplyOrder
  <2> QED BY <2>1, <2>2, <2>3, SizesTyped DEF SectionsOf
<1>2. ASSUME NEW x \in SectionsOf(t), NEW i \in 0 .. SectionPages - 1
      PROVE  \E v \in Pages(t) : Section(v) = x /\ Index(v) = i
  <2>1. x \in Nat /\ x < SectionCount(t)
    BY SizesTyped DEF SectionsOf
  <2>2. PICK v : v = SectionPages * x + i
    OBVIOUS
  <2>3. v \in Nat /\ Section(v) = x /\ Index(v) = i
    BY <2>1, <2>2, PageOfSection
  <2>4. v < SectionPages * SectionCount(t)
    BY <2>1, <2>2, SizesTyped, MultiplyOrder
  <2> QED BY <2>3, <2>4, SizesTyped DEF Pages
<1> QED BY <1>1, <1>2

\* The entry of a page that is not mapped.
LEMMA UnmappedTyped == Unmapped \in Entries /\ Unmapped.page = 0 /\ Unmapped.attr = {}
  BY DEF Unmapped, Entries, NullPage

\* Map has entries.
LEMMA MapTyped ==
    ASSUME TablesTyped, Owned
    PROVE  \A t \in Tables : \A v \in Pages(t) :
              /\ Map[t][v] = Translate(t, v)
              /\ Map[t][v] \in Entries
<1> SUFFICES ASSUME NEW t \in Tables, NEW v \in Pages(t)
             PROVE  Map[t][v] = Translate(t, v) /\ Translate(t, v) \in Entries
  BY DEF Map
<1>1. Section(v) \in SectionsOf(t) /\ Index(v) \in 0 .. SectionPages - 1
  BY PageSections
<1>2. CASE l1[t][Section(v)] = Nil
  BY <1>2, UnmappedTyped DEF Map, Translate
<1>3. CASE l1[t][Section(v)] # Nil
  <2>1. l1[t][Section(v)] \in DOMAIN pt
    BY <1>1, <1>3 DEF Owned
  <2>2. pt[l1[t][Section(v)]][Index(v)] \in Entries
    BY <1>1, <2>1 DEF TablesTyped
  <2> QED BY <1>3, <2>2 DEF Map, Translate
<1> QED BY <1>2, <1>3

\* map_page and unmap_page find the page table itself.
LEMMA TableFound ==
    ASSUME TablesTyped, Listed, NEW t \in Tables, NEW x \in SectionsOf(t)
    PROVE  PageTableAt(t, x) = l1[t][x]
<1>1. directory[t] \in Directories /\ l1[t][x] \in Nat
  BY DEF TablesTyped, Listed
<1>2. FindNode(directory[t], l1[t][x]) # Nil =>
         directory[t].val[FindNode(directory[t], l1[t][x])] = l1[t][x]
  BY <1>1, LookupAddress
<1> QED BY <1>2 DEF PageTableAt

\* What the heap gives to different sections is different.
LEMMA InjectionFacts ==
    ASSUME NEW S, NEW T, NEW f \in Injection(S, T)
    PROVE  f \in [S -> T] /\ DOMAIN f = S /\ \A x, y \in S : f[x] = f[y] => x = y
  BY DEF Injection, IsInjective

Requests(t, n) ==
    {r \in [1 .. n -> [virt : Pages(t), entry : Entries]] :
        /\ \A i \in 1 .. n : r[i].entry # Unmapped
        /\ \A i, j \in 1 .. n : r[i].virt = r[j].virt => i = j}

\* What a series of map_page leaves.
Mapping(t, n, r) ==
    /\ \A u \in Tables : \A v \in Pages(u) :
          (u # t \/ \A k \in 1 .. n : r[k].virt # v) => Map'[u][v] = Map[u][v]
    /\ \A k \in 1 .. n : Map'[t][r[k].virt] = r[k].entry

\* The tables after map_page: `at' has the new page tables.
TablesAfter(t, n, r, at) ==
    /\ DOMAIN l1' = Tables
    /\ \A u \in Tables : l1'[u] \in [SectionsOf(u) -> Nat]
    /\ \A u \in Tables : \A x \in SectionsOf(u) :
          l1'[u][x] = IF u = t /\ x \in DOMAIN at THEN at[x] ELSE l1[u][x]
    /\ DOMAIN pt' = DOMAIN pt \cup Range(at)
    /\ DOMAIN pt' \subseteq Nat \ {0}
    /\ \A x \in DOMAIN at : /\ x \in SectionsOf(t) /\ l1[t][x] = Nil
                            /\ at[x] \in Nat \ {0} /\ at[x] \notin DOMAIN pt
                            /\ \E k \in 1 .. n : Section(r[k].virt) = x
    /\ \A x, y \in DOMAIN at : at[x] = at[y] => x = y
    /\ \A k \in 1 .. n : /\ Section(r[k].virt) \in SectionsOf(t)
                         /\ Index(r[k].virt) \in 0 .. SectionPages - 1
                         /\ l1[t][Section(r[k].virt)] = Nil =>
                               Section(r[k].virt) \in DOMAIN at

\* map_page puts new page tables where there were none.
LEMMA MapTables ==
    ASSUME TablesTyped, Listed, Owned, NEW t \in Tables, NEW n \in Nat,
           NEW r \in Requests(t, n), NEW at \in Homes(t, r), MapPages(t, r, at)
    PROVE  TablesAfter(t, n, r, at)
<1>1. r \in [1 .. n -> [virt : Pages(t), entry : Entries]] /\ DOMAIN r = 1 .. n
  BY DEF Requests
<1>2. ASSUME NEW k \in 1 .. n
      PROVE  /\ r[k].virt \in Pages(t)
             /\ Section(r[k].virt) \in SectionsOf(t)
             /\ Index(r[k].virt) \in 0 .. SectionPages - 1
  BY <1>1, PageSections
<1>3. at \in Injection(NewSections(t, r), TableAddrs \ DOMAIN pt)
  BY DEF Homes
<1>4. /\ DOMAIN at = NewSections(t, r)
      /\ at \in [NewSections(t, r) -> TableAddrs \ DOMAIN pt]
      /\ \A x, y \in DOMAIN at : at[x] = at[y] => x = y
  BY <1>3, InjectionFacts
<1>5. NewSections(t, r) = {x \in {Section(r[k].virt) : k \in 1 .. n} : l1[t][x] = Nil}
  BY <1>1 DEF NewSections
<1>6. ASSUME NEW x \in DOMAIN at
      PROVE  /\ x \in SectionsOf(t) /\ l1[t][x] = Nil
             /\ at[x] \in Nat \ {0} /\ at[x] \notin DOMAIN pt
             /\ \E k \in 1 .. n : Section(r[k].virt) = x
  <2>1. at[x] \in TableAddrs \ DOMAIN pt
    BY <1>4
  <2>2. at[x] \in Nat \ {0} /\ at[x] \notin DOMAIN pt
    BY <2>1, SizesAssumption
  <2>3. l1[t][x] = Nil /\ \E k \in 1 .. n : Section(r[k].virt) = x
    BY <1>4, <1>5
  <2> QED BY <2>2, <2>3, <1>2
<1>7. l1' = [l1 EXCEPT ![t] = [x \in DOMAIN @ |-> IF x \in DOMAIN at THEN at[x] ELSE @[x]]]
  BY DEF MapPages
<1>8. /\ DOMAIN l1 = Tables /\ \A u \in Tables : l1[u] \in [SectionsOf(u) -> Nat]
      /\ DOMAIN pt \subseteq Nat \ {0}
  BY DEF TablesTyped
<1>9. /\ DOMAIN l1' = Tables
      /\ \A u \in Tables : u # t => l1'[u] = l1[u]
      /\ l1'[t] = [x \in SectionsOf(t) |-> IF x \in DOMAIN at THEN at[x] ELSE l1[t][x]]
  BY <1>7, <1>8
<1>10. \A u \in Tables : l1'[u] \in [SectionsOf(u) -> Nat]
  BY <1>6, <1>8, <1>9
<1>11. DOMAIN pt' = DOMAIN pt \cup Range(at)
  BY DEF MapPages
<1>12. DOMAIN pt' \subseteq Nat \ {0}
  BY <1>6, <1>8, <1>11 DEF Range
<1>13. \A u \in Tables : \A x \in SectionsOf(u) :
          l1'[u][x] = IF u = t /\ x \in DOMAIN at THEN at[x] ELSE l1[u][x]
  BY <1>9
<1>14. \A k \in 1 .. n : l1[t][Section(r[k].virt)] = Nil => Section(r[k].virt) \in DOMAIN at
  BY <1>4, <1>5
<1> QED BY <1>2, <1>4, <1>6, <1>9, <1>10, <1>11, <1>12, <1>13, <1>14 DEF TablesAfter

\* The page tables still have one owner each after map_page.
LEMMA MapOwner ==
    ASSUME TablesTyped, Listed, Owned, NEW t \in Tables, NEW n \in Nat,
           NEW r \in Requests(t, n), NEW at \in Homes(t, r), MapPages(t, r, at)
    PROVE  /\ \A u \in Tables : \A x \in SectionsOf(u) :
                 l1'[u][x] # Nil => l1'[u][x] \in DOMAIN pt'
           /\ \A a \in DOMAIN pt' : \E u \in Tables : \E x \in SectionsOf(u) : l1'[u][x] = a
           /\ \A u, w \in Tables : \A x \in SectionsOf(u), y \in SectionsOf(w) :
                 l1'[u][x] = l1'[w][y] /\ l1'[u][x] # Nil => u = w /\ x = y
<1>1. /\ \A u \in Tables : \A x \in SectionsOf(u) :
            l1'[u][x] = IF u = t /\ x \in DOMAIN at THEN at[x] ELSE l1[u][x]
      /\ DOMAIN pt' = DOMAIN pt \cup Range(at)
      /\ \A x \in DOMAIN at : /\ x \in SectionsOf(t) /\ l1[t][x] = Nil
                              /\ at[x] \in Nat \ {0} /\ at[x] \notin DOMAIN pt
      /\ \A x, y \in DOMAIN at : at[x] = at[y] => x = y
  <2>1. TablesAfter(t, n, r, at)
    BY MapTables
  <2> QED BY <2>1 DEF TablesAfter
<1>2. /\ \A a \in DOMAIN pt : \E u \in Tables : \E x \in SectionsOf(u) : l1[u][x] = a
      /\ \A u \in Tables : \A x \in SectionsOf(u) :
            l1[u][x] # Nil => l1[u][x] \in DOMAIN pt
      /\ \A u, w \in Tables : \A x \in SectionsOf(u), y \in SectionsOf(w) :
            l1[u][x] = l1[w][y] /\ l1[u][x] # Nil => u = w /\ x = y
      /\ \A a \in DOMAIN pt : a # Nil
  BY DEF Owned, TablesTyped, Nil
<1>3. ASSUME NEW u \in Tables, NEW x \in SectionsOf(u), l1'[u][x] # Nil
      PROVE  l1'[u][x] \in DOMAIN pt'
  BY <1>1, <1>2, <1>3 DEF Range
<1>4. ASSUME NEW a \in DOMAIN pt'
      PROVE  \E u \in Tables : \E x \in SectionsOf(u) : l1'[u][x] = a
  <2>1. CASE a \in DOMAIN pt
    <3>0. PICK u \in Tables : \E x \in SectionsOf(u) : l1[u][x] = a
      BY <2>1, <1>2
    <3>1. PICK x \in SectionsOf(u) : l1[u][x] = a
      BY <3>0
    <3>2. ~(u = t /\ x \in DOMAIN at)
      BY <3>1, <2>1, <1>1, <1>2
    <3> QED BY <3>1, <3>2, <1>1
  <2>2. CASE a \in Range(at)
    <3>1. PICK x \in DOMAIN at : at[x] = a
      BY <2>2 DEF Range
    <3>2. x \in SectionsOf(t) /\ l1'[t][x] = a
      BY <3>1, <1>1
    <3> QED BY <3>2
  <2> QED BY <2>1, <2>2, <1>1
<1>5. ASSUME NEW u \in Tables, NEW w \in Tables, NEW x \in SectionsOf(u),
             NEW y \in SectionsOf(w), l1'[u][x] = l1'[w][y], l1'[u][x] # Nil
      PROVE  u = w /\ x = y
  <2>1. CASE u = t /\ x \in DOMAIN at
    <3>1. l1'[u][x] \notin DOMAIN pt
      BY <2>1, <1>1
    <3>2. w = t /\ y \in DOMAIN at
      BY <3>1, <1>1, <1>2, <1>5
    <3> QED BY <2>1, <3>2, <1>1, <1>5
  <2>2. CASE ~(u = t /\ x \in DOMAIN at)
    <3>1. l1'[u][x] = l1[u][x]
      BY <2>2, <1>1
    <3>2. l1[u][x] \in DOMAIN pt
      BY <3>1, <1>2, <1>5
    <3>3. ~(w = t /\ y \in DOMAIN at)
      BY <3>1, <3>2, <1>1, <1>5
    <3>4. l1'[w][y] = l1[w][y]
      BY <3>3, <1>1
    <3>5. l1[u][x] = l1[w][y] /\ l1[u][x] # Nil
      BY <3>1, <3>4, <1>5
    <3> QED BY <3>5, <1>2
  <2> QED BY <2>1, <2>2
<1> QED BY <1>3, <1>4, <1>5

\* The entries of the page tables after map_page.
LEMMA MapEntries ==
    ASSUME TablesTyped, Listed, Owned, NEW t \in Tables, NEW n \in Nat,
           NEW r \in Requests(t, n), NEW at \in Homes(t, r), MapPages(t, r, at)
    PROVE  \A a \in DOMAIN pt' :
              /\ pt'[a] = [i \in 0 .. SectionPages - 1 |-> pt'[a][i]]
              /\ \A k \in 1 .. n : l1'[t][Section(r[k].virt)] = a =>
                    pt'[a][Index(r[k].virt)] = r[k].entry
              /\ \A i \in 0 .. SectionPages - 1 :
                    \/ \E k \in 1 .. n : /\ l1'[t][Section(r[k].virt)] = a
                                         /\ Index(r[k].virt) = i
                    \/ pt'[a][i] = IF a \in DOMAIN pt THEN pt[a][i] ELSE Unmapped
<1>1. /\ \A x \in SectionsOf(t) :
            l1'[t][x] = IF x \in DOMAIN at THEN at[x] ELSE l1[t][x]
      /\ DOMAIN pt' = DOMAIN pt \cup Range(at)
      /\ \A k \in 1 .. n : /\ Section(r[k].virt) \in SectionsOf(t)
                           /\ Index(r[k].virt) \in 0 .. SectionPages - 1
                           /\ l1[t][Section(r[k].virt)] = Nil =>
                                 Section(r[k].virt) \in DOMAIN at
  <2>1. TablesAfter(t, n, r, at)
    BY MapTables
  <2> QED BY <2>1 DEF TablesAfter
<1>2. /\ r \in [1 .. n -> [virt : Pages(t), entry : Entries]] /\ DOMAIN r = 1 .. n
      /\ \A i, j \in 1 .. n : r[i].virt = r[j].virt => i = j
      /\ Len(r) = n
  <2>1. r \in [1 .. n -> [virt : Pages(t), entry : Entries]]
    BY DEF Requests
  <2> QED BY <2>1, FunctionIsSeq DEF Requests
<1> DEFINE touched == [i \in 1 .. n |-> Section(r[i].virt)]
           home == [i \in 1 .. n |-> IF touched[i] \in DOMAIN at THEN at[touched[i]]
                                    ELSE PageTableAt(t, touched[i])]
           Latest(a, i) == {k \in 1 .. n :
                          /\ home[k] = a
                          /\ Index(r[k].virt) = i
                          /\ \A j \in k + 1 .. n : r[j].virt # r[k].virt}
<1>3. pt' = [a \in DOMAIN pt \cup Range(at) |->
                     [i \in 0 .. SectionPages - 1 |->
                        IF Latest(a, i) # {}
                        THEN r[CHOOSE k \in Latest(a, i) : TRUE].entry
                        ELSE IF a \in DOMAIN pt THEN pt[a][i]
                        ELSE Unmapped]]
  BY <1>2 DEF MapPages
<1>4. ASSUME NEW k \in 1 .. n PROVE home[k] = l1'[t][Section(r[k].virt)]
  BY <1>1, TableFound
<1>5. ASSUME NEW a, NEW i, NEW k \in 1 .. n
      PROVE  k \in Latest(a, i) <=> l1'[t][Section(r[k].virt)] = a /\ Index(r[k].virt) = i
  <2>1. \A j \in k + 1 .. n : j \in 1 .. n /\ j # k
    OBVIOUS
  <2>2. \A j \in k + 1 .. n : r[j].virt # r[k].virt
    BY <2>1, <1>2
  <2> HIDE DEF home
  <2> QED BY <1>4, <2>2
<1>6. \A a, i : Latest(a, i) \subseteq 1 .. n
  OBVIOUS
<1> HIDE DEF Latest, home
<1> SUFFICES ASSUME NEW a \in DOMAIN pt'
             PROVE  /\ pt'[a] = [i \in 0 .. SectionPages - 1 |-> pt'[a][i]]
                    /\ \A k \in 1 .. n : l1'[t][Section(r[k].virt)] = a =>
                          pt'[a][Index(r[k].virt)] = r[k].entry
                    /\ \A i \in 0 .. SectionPages - 1 :
                          \/ \E k \in 1 .. n : /\ l1'[t][Section(r[k].virt)] = a
                                               /\ Index(r[k].virt) = i
                          \/ pt'[a][i] = IF a \in DOMAIN pt THEN pt[a][i] ELSE Unmapped
  OBVIOUS
<1>7. pt'[a] = [i \in 0 .. SectionPages - 1 |->
                        IF Latest(a, i) # {}
                        THEN r[CHOOSE k \in Latest(a, i) : TRUE].entry
                        ELSE IF a \in DOMAIN pt THEN pt[a][i]
                        ELSE Unmapped]
  BY <1>1, <1>3
<1>8. ASSUME NEW k \in 1 .. n, l1'[t][Section(r[k].virt)] = a
      PROVE  pt'[a][Index(r[k].virt)] = r[k].entry
  <2>1. PICK i \in 0 .. SectionPages - 1 : i = Index(r[k].virt)
    BY <1>1
  <2>2. k \in Latest(a, i)
    BY <2>1, <1>5, <1>8
  <2>3. PICK m : m = CHOOSE j \in Latest(a, i) : TRUE
    OBVIOUS
  <2>4. m \in Latest(a, i) /\ m \in 1 .. n
    BY <2>2, <2>3, <1>6
  <2>5. l1'[t][Section(r[m].virt)] = a /\ Index(r[m].virt) = i
    BY <2>4, <1>5
  <2>6. Section(r[m].virt) = Section(r[k].virt)
    <3>1. Section(r[m].virt) \in SectionsOf(t) /\ Section(r[k].virt) \in SectionsOf(t)
      BY <2>4, <1>1
    <3>2. a # Nil
      BY MapTables DEF TablesAfter, Nil
    <3> QED BY <2>5, <1>8, <3>1, <3>2, MapOwner
  <2>7. r[m].virt = r[k].virt
    BY <2>1, <2>4, <2>5, <2>6, <1>2, PageSections
  <2>8. m = k
    BY <2>4, <2>7, <1>2
  <2> QED BY <2>1, <2>2, <2>3, <2>8, <1>7
<1>9. ASSUME NEW i \in 0 .. SectionPages - 1,
             ~ \E k \in 1 .. n : /\ l1'[t][Section(r[k].virt)] = a
                                 /\ Index(r[k].virt) = i
      PROVE  pt'[a][i] = IF a \in DOMAIN pt THEN pt[a][i] ELSE Unmapped
  <2>1. Latest(a, i) = {}
    BY <1>5, <1>6, <1>9
  <2> QED BY <2>1, <1>7
<1> QED BY <1>7, <1>8, <1>9

\* The directory after map_page has all the page tables.
LEMMA MapDirectory ==
    ASSUME TablesTyped, Listed, Owned, NEW t \in Tables, NEW n \in Nat,
           NEW r \in Requests(t, n), NEW at \in Homes(t, r), MapPages(t, r, at),
           mode' = "run"
    PROVE  /\ DOMAIN directory' = Tables
           /\ \A u \in Tables : directory'[u] \in Directories
           /\ \A u \in Tables : u # t => directory'[u] = directory[u]
           /\ Addresses(directory[t]) \subseteq Addresses(directory'[t])
           /\ \A x \in DOMAIN at : at[x] \in Addresses(directory'[t])
<1>1. TablesAfter(t, n, r, at)
  BY MapTables
<1>2. /\ r \in [1 .. n -> [virt : Pages(t), entry : Entries]]
      /\ DOMAIN r = 1 .. n /\ Len(r) = n
  <2>1. r \in [1 .. n -> [virt : Pages(t), entry : Entries]]
    BY DEF Requests
  <2> QED BY <2>1, FunctionIsSeq
<1> DEFINE touched == [i \in 1 .. n |-> Section(r[i].virt)]
           First(i) == /\ l1[t][touched[i]] = Nil
                       /\ \A j \in 1 .. i - 1 : touched[j] # touched[i]
           c == [i \in 1 .. n |-> IF First(i) THEN at[touched[i]] ELSE Nil]
           dir == InsertTables(directory[t], c)
<1>3. /\ directory' = [directory EXCEPT ![t] = dir]
      /\ mode' = IF dir.ok THEN mode ELSE "fault"
  BY <1>2 DEF MapPages
<1>4. dir.ok
  <2> HIDE DEF dir
  <2> QED BY <1>3
<1>5. ASSUME NEW i \in 1 .. n, First(i)
      PROVE  touched[i] \in DOMAIN at /\ at[touched[i]] \in Nat \ {0}
  BY <1>1, <1>5 DEF TablesAfter
<1>6. c \in [1 .. n -> Nat]
  <2> HIDE DEF First, touched
  <2> QED BY <1>5 DEF Nil
<1>7. directory[t] \in Directories /\ DOMAIN directory = Tables
      /\ \A u \in Tables : directory[u] \in Directories
  BY DEF Listed
<1>8. /\ dir \in Directories
      /\ Addresses(directory[t]) \subseteq Addresses(dir)
      /\ \A i \in 1 .. n : c[i] # Nil => c[i] \in Addresses(dir)
  <2> HIDE DEF c
  <2> QED BY <1>4, <1>6, <1>7, InsertTablesAddresses
<1>9. ASSUME NEW x \in DOMAIN at PROVE at[x] \in Addresses(dir)
  <2> DEFINE W == {k \in 1 .. n : touched[k] = x}
  <2>1. W \in SUBSET Nat /\ W # {} /\ l1[t][x] = Nil /\ at[x] \in Nat \ {0}
    <3>1. PICK k \in 1 .. n : Section(r[k].virt) = x
      BY <1>1 DEF TablesAfter
    <3>2. k \in W
      BY <3>1
    <3>3. l1[t][x] = Nil /\ at[x] \in Nat \ {0}
      BY <1>1 DEF TablesAfter
    <3> QED BY <3>2, <3>3
  <2>2. PICK m : m = Min(W)
    OBVIOUS
  <2>3. m \in W /\ \A k \in W : m <= k
    <3> HIDE DEF W
    <3> QED BY <2>1, <2>2, LeastNumber
  <2>4. m \in 1 .. n /\ touched[m] = x
    BY <2>3
  <2>5. ASSUME NEW j \in 1 .. m - 1 PROVE touched[j] # touched[m]
    <3>1. j \in 1 .. n /\ ~(m <= j)
      BY <2>4
    <3>2. j \notin W
      BY <3>1, <2>3
    <3> QED BY <3>1, <3>2, <2>4
  <2>6. First(m)
    BY <2>1, <2>4, <2>5
  <2>7. c[m] = at[x]
    <3> HIDE DEF First, touched
    <3> QED BY <2>4, <2>6
  <2>8. c[m] # Nil
    BY <2>1, <2>7 DEF Nil
  <2> HIDE DEF c, dir
  <2> QED BY <2>4, <2>7, <2>8, <1>8
<1> HIDE DEF dir
<1>10. DOMAIN directory' = Tables /\ directory'[t] = dir
       /\ \A u \in Tables : u # t => directory'[u] = directory[u]
  BY <1>3, <1>7
<1> QED BY <1>7, <1>8, <1>9, <1>10

\* A series of map_page has the effect that it is called for, and keeps the
\* tables, the directory and the ownership of the page tables.
LEMMA MapEffect ==
    ASSUME TablesTyped, Listed, Owned, NEW t \in Tables, NEW n \in Nat,
           NEW r \in Requests(t, n), NEW at \in Homes(t, r), MapPages(t, r, at),
           mode' = "run"
    PROVE  TablesTyped' /\ Listed' /\ Owned' /\ Mapping(t, n, r)
<1>1. TablesAfter(t, n, r, at)
  BY MapTables
<1>2. /\ \A u \in Tables : \A x \in SectionsOf(u) :
            l1'[u][x] = IF u = t /\ x \in DOMAIN at THEN at[x] ELSE l1[u][x]
      /\ DOMAIN pt' = DOMAIN pt \cup Range(at)
      /\ DOMAIN pt' \subseteq Nat \ {0}
      /\ \A x \in DOMAIN at : /\ x \in SectionsOf(t) /\ l1[t][x] = Nil
                              /\ at[x] \in Nat \ {0} /\ at[x] \notin DOMAIN pt
                              /\ \E k \in 1 .. n : Section(r[k].virt) = x
      /\ \A k \in 1 .. n : /\ Section(r[k].virt) \in SectionsOf(t)
                           /\ Index(r[k].virt) \in 0 .. SectionPages - 1
                           /\ l1[t][Section(r[k].virt)] = Nil =>
                                 Section(r[k].virt) \in DOMAIN at
      /\ DOMAIN l1' = Tables
      /\ \A u \in Tables : l1'[u] \in [SectionsOf(u) -> Nat]
  BY <1>1 DEF TablesAfter
<1>3. /\ \A u \in Tables : \A x \in SectionsOf(u) :
            l1'[u][x] # Nil => l1'[u][x] \in DOMAIN pt'
      /\ \A a \in DOMAIN pt' : \E u \in Tables : \E x \in SectionsOf(u) : l1'[u][x] = a
      /\ \A u, w \in Tables : \A x \in SectionsOf(u), y \in SectionsOf(w) :
            l1'[u][x] = l1'[w][y] /\ l1'[u][x] # Nil => u = w /\ x = y
  BY MapOwner
<1>4. ASSUME NEW a \in DOMAIN pt'
      PROVE  /\ pt'[a] = [i \in 0 .. SectionPages - 1 |-> pt'[a][i]]
             /\ \A k \in 1 .. n : l1'[t][Section(r[k].virt)] = a =>
                   pt'[a][Index(r[k].virt)] = r[k].entry
             /\ \A i \in 0 .. SectionPages - 1 :
                   \/ \E k \in 1 .. n : /\ l1'[t][Section(r[k].virt)] = a
                                        /\ Index(r[k].virt) = i
                   \/ pt'[a][i] = IF a \in DOMAIN pt THEN pt[a][i] ELSE Unmapped
  BY <1>4, MapEntries
<1>5. /\ \A k \in 1 .. n : /\ r[k].virt \in Pages(t) /\ r[k].entry \in Entries
                           /\ r[k].entry # Unmapped
      /\ \A i, j \in 1 .. n : r[i].virt = r[j].virt => i = j
  BY DEF Requests
<1>6. ASSUME NEW k \in 1 .. n
      PROVE  /\ l1'[t][Section(r[k].virt)] # Nil
             /\ l1'[t][Section(r[k].virt)] \in DOMAIN pt'
  BY <1>2, <1>3 DEF Nil
<1>7. ASSUME NEW a \in DOMAIN pt' PROVE pt'[a] \in [0 .. SectionPages - 1 -> Entries]
  <2>1. ASSUME NEW i \in 0 .. SectionPages - 1 PROVE pt'[a][i] \in Entries
    <3>1. CASE \E k \in 1 .. n : /\ l1'[t][Section(r[k].virt)] = a
                                 /\ Index(r[k].virt) = i
      BY <3>1, <1>4, <1>5
    <3>2. CASE pt'[a][i] = IF a \in DOMAIN pt THEN pt[a][i] ELSE Unmapped
      <4>1. a \in DOMAIN pt => pt[a][i] \in Entries
        BY DEF TablesTyped
      <4> QED BY <3>2, <4>1, UnmappedTyped
    <3> QED BY <3>1, <3>2, <1>4
  <2>2. pt'[a] = [i \in 0 .. SectionPages - 1 |-> pt'[a][i]]
    BY <1>4
  <2> QED BY <2>1, <2>2
<1>8. TablesTyped'
  BY <1>2, <1>7 DEF TablesTyped
<1>9. ASSUME NEW a \in DOMAIN pt'
      PROVE  \E i \in 0 .. SectionPages - 1 : pt'[a][i] # Unmapped
  <2>1. CASE a \in DOMAIN pt
    <3>1. PICK i \in 0 .. SectionPages - 1 : pt[a][i] # Unmapped
      BY <2>1 DEF Owned
    <3>2. CASE \E k \in 1 .. n : /\ l1'[t][Section(r[k].virt)] = a
                                 /\ Index(r[k].virt) = i
      BY <3>2, <1>4, <1>5
    <3>3. CASE pt'[a][i] = IF a \in DOMAIN pt THEN pt[a][i] ELSE Unmapped
      BY <3>1, <3>3, <2>1
    <3> QED BY <3>2, <3>3, <1>4
  <2>2. CASE a \in Range(at)
    <3>1. PICK x \in DOMAIN at : at[x] = a
      BY <2>2 DEF Range
    <3>2. PICK k \in 1 .. n : Section(r[k].virt) = x
      BY <1>2
    <3>3. l1'[t][x] = a
      BY <3>1, <1>2
    <3>4. pt'[a][Index(r[k].virt)] = r[k].entry
      BY <3>2, <3>3, <1>4
    <3> QED BY <3>4, <1>2, <1>5
  <2> QED BY <2>1, <2>2, <1>2
<1>10. ASSUME NEW u \in Tables, NEW x \in SectionsOf(u), l1'[u][x] # Nil
       PROVE  l1'[u][x] \in Addresses(directory'[u])
  <2>1. /\ \A w \in Tables : w # t => directory'[w] = directory[w]
        /\ Addresses(directory[t]) \subseteq Addresses(directory'[t])
        /\ \A y \in DOMAIN at : at[y] \in Addresses(directory'[t])
    BY MapDirectory
  <2>2. CASE u = t /\ x \in DOMAIN at
    BY <2>1, <2>2, <1>2
  <2>3. CASE ~(u = t /\ x \in DOMAIN at)
    <3>1. l1'[u][x] = l1[u][x]
      BY <2>3, <1>2
    <3>2. l1[u][x] \in Addresses(directory[u])
      BY <3>1, <1>10 DEF Listed
    <3> QED BY <3>1, <3>2, <2>1
  <2> QED BY <2>2, <2>3
<1>11. Owned'
  <2>1. Owned' =
          /\ \A a \in DOMAIN pt' : \E i \in 0 .. SectionPages - 1 : pt'[a][i] # Unmapped
          /\ \A a \in DOMAIN pt' : \E u \in Tables : \E x \in SectionsOf(u) : l1'[u][x] = a
          /\ \A u \in Tables : \A x \in SectionsOf(u) :
                l1'[u][x] # Nil => l1'[u][x] \in DOMAIN pt'
          /\ \A u, w \in Tables : \A x \in SectionsOf(u), y \in SectionsOf(w) :
                l1'[u][x] = l1'[w][y] /\ l1'[u][x] # Nil => u = w /\ x = y
    BY DEF Owned
  <2> QED BY <2>1, <1>3, <1>9
<1>16. Listed'
  <2>1. DOMAIN directory' = Tables /\ \A u \in Tables : directory'[u] \in Directories
    BY MapDirectory
  <2>2. Listed' = /\ DOMAIN directory' = Tables
                  /\ \A u \in Tables : directory'[u] \in Directories
                  /\ \A u \in Tables : \A x \in SectionsOf(u) :
                        l1'[u][x] # Nil => l1'[u][x] \in Addresses(directory'[u])
    BY DEF Listed
  <2> QED BY <2>1, <2>2, <1>10
<1>12. \A u \in Tables : \A v \in Pages(u) : Map'[u][v] = Translate(u, v)'
                                             /\ Map[u][v] = Translate(u, v)
  BY DEF Map
<1>13. ASSUME NEW u \in Tables, NEW v \in Pages(u),
              u # t \/ \A k \in 1 .. n : r[k].virt # v
       PROVE  Translate(u, v)' = Translate(u, v)
  <2>1. /\ Section(v) \in SectionsOf(u) /\ Index(v) \in 0 .. SectionPages - 1
    BY PageSections
  <2>2. PICK a : a = l1'[u][Section(v)]
    OBVIOUS
  <2>3. Translate(u, v)' = IF a = Nil THEN Unmapped ELSE pt'[a][Index(v)]
    BY <2>2 DEF Translate
  <2>4. CASE a = Nil
    <3>1. l1[u][Section(v)] = Nil
      BY <2>1, <2>2, <2>4, <1>2 DEF Nil
    <3> QED BY <2>3, <2>4, <3>1 DEF Translate
  <2>5. CASE a # Nil
    <3>1. a \in DOMAIN pt'
      BY <2>1, <2>2, <2>5, <1>3
    <3>2. ASSUME NEW k \in 1 .. n, l1'[t][Section(r[k].virt)] = a,
                 Index(r[k].virt) = Index(v)
          PROVE  FALSE
      <4>1. Section(r[k].virt) \in SectionsOf(t)
        BY <1>2
      <4>2. t = u /\ Section(r[k].virt) = Section(v)
        BY <4>1, <3>2, <2>1, <2>2, <2>5, <1>3
      <4>3. r[k].virt = v
        BY <4>2, <3>2, <1>5, PageSections
      <4> QED BY <4>2, <4>3, <1>13
    <3>3. pt'[a][Index(v)] = IF a \in DOMAIN pt THEN pt[a][Index(v)] ELSE Unmapped
      BY <3>1, <3>2, <2>1, <1>4
    <3>4. CASE u = t /\ Section(v) \in DOMAIN at
      <4>1. l1[u][Section(v)] = Nil /\ a \notin DOMAIN pt
        BY <3>4, <2>1, <2>2, <1>2
      <4> QED BY <4>1, <3>3, <2>3, <2>5 DEF Translate
    <3>5. CASE ~(u = t /\ Section(v) \in DOMAIN at)
      <4>1. l1[u][Section(v)] = a
        BY <3>5, <2>1, <2>2, <1>2
      <4>2. a \in DOMAIN pt
        BY <4>1, <2>1, <2>5 DEF Owned
      <4> QED BY <4>1, <4>2, <3>3, <2>3, <2>5 DEF Translate
    <3> QED BY <3>4, <3>5
  <2> QED BY <2>4, <2>5
<1>14. ASSUME NEW k \in 1 .. n PROVE Translate(t, r[k].virt)' = r[k].entry
  <2>1. PICK a : a = l1'[t][Section(r[k].virt)]
    OBVIOUS
  <2>2. a # Nil /\ a \in DOMAIN pt'
    BY <2>1, <1>6
  <2>3. pt'[a][Index(r[k].virt)] = r[k].entry
    BY <2>1, <2>2, <1>4
  <2>4. Translate(t, r[k].virt)' = IF a = Nil THEN Unmapped ELSE pt'[a][Index(r[k].virt)]
    BY <2>1 DEF Translate
  <2> QED BY <2>2, <2>3, <2>4
<1>15. Mapping(t, n, r)
  <2>1. ASSUME NEW u \in Tables, NEW v \in Pages(u),
               u # t \/ \A k \in 1 .. n : r[k].virt # v
        PROVE  Map'[u][v] = Map[u][v]
    BY <2>1, <1>12, <1>13
  <2>2. ASSUME NEW k \in 1 .. n PROVE Map'[t][r[k].virt] = r[k].entry
    BY <1>5, <1>12, <1>14
  <2> QED BY <2>1, <2>2 DEF Mapping
<1> QED BY <1>8, <1>11, <1>15, <1>16

\* What a series of unmap_page leaves.
Unmapping(t, n, c) ==
    \A u \in Tables : \A v \in Pages(u) :
       Map'[u][v] = IF u = t /\ \E k \in 1 .. n : c[k] = v THEN Unmapped ELSE Map[u][v]

\* A series of unmap_page has the effect that it is called for, and deletes
\* exactly the page tables that it leaves empty.
LEMMA UnmapEffect ==
    ASSUME TablesTyped, Listed, Owned, NEW t \in Tables, NEW n \in Nat,
           NEW c \in [1 .. n -> Pages(t)], UnmapPages(t, c)
    PROVE  /\ TablesTyped' /\ Owned' /\ Unmapping(t, n, c)
           /\ \A u \in Tables : u # t => l1'[u] = l1[u]
<1> DEFINE touched == {x \in {Section(v) : v \in Range(c)} : l1[t][x] # Nil}
           Gone(x, i) == \E v \in Range(c) : Section(v) = x /\ Index(v) = i
           Left(x) == [i \in 0 .. SectionPages - 1 |->
                          IF Gone(x, i) THEN Unmapped ELSE pt[l1[t][x]][i]]
           empty == {x \in touched : Left(x) = EmptyPageTable}
<1>1. Range(c) = {c[k] : k \in 1 .. n} /\ Range(c) \subseteq Pages(t)
  BY DEF Range
<1>2. ASSUME NEW v \in Range(c) PROVE Section(v) \in SectionsOf(t)
  BY <1>1, PageSections
<1>3. touched \subseteq SectionsOf(t) /\ empty \subseteq touched
  BY <1>2
<1>4. ASSUME NEW x \in touched PROVE PageTableAt(t, x) = l1[t][x]
  <2>1. x \in SectionsOf(t)
    BY <1>3
  <2> QED BY <2>1, TableFound
<1>6. /\ DOMAIN l1 = Tables /\ \A u \in Tables : l1[u] \in [SectionsOf(u) -> Nat]
      /\ DOMAIN pt \subseteq Nat \ {0}
      /\ \A a \in DOMAIN pt : pt[a] \in [0 .. SectionPages - 1 -> Entries]
  BY DEF TablesTyped
<1>5. /\ DOMAIN l1' = Tables
      /\ \A u \in Tables : u # t => l1'[u] = l1[u]
      /\ l1'[t] = [x \in SectionsOf(t) |-> IF x \in empty THEN Nil ELSE l1[t][x]]
      /\ DOMAIN pt' = DOMAIN pt \ {l1[t][x] : x \in empty}
      /\ \A a \in DOMAIN pt' :
            pt'[a] = IF \E x \in touched : l1[t][x] = a
                     THEN Left(CHOOSE x \in touched : l1[t][x] = a)
                     ELSE pt[a]
  <2> DEFINE Was(x) == [i \in 0 .. SectionPages - 1 |->
                       IF Gone(x, i) THEN Unmapped ELSE pt[PageTableAt(t, x)][i]]
             none == {x \in touched : Was(x) = EmptyPageTable}
             Source(a) == CHOOSE x \in touched : PageTableAt(t, x) = a
  <2>1. /\ l1' = [l1 EXCEPT ![t] = [x \in DOMAIN @ |-> IF x \in none THEN Nil ELSE @[x]]]
        /\ pt' = [a \in DOMAIN pt \ {PageTableAt(t, x) : x \in none} |->
                     IF \E x \in touched : PageTableAt(t, x) = a
                     THEN Was(CHOOSE x \in touched : PageTableAt(t, x) = a)
                     ELSE pt[a]]
    BY DEF UnmapPages
  <2>2. \A x \in touched : Was(x) = Left(x)
    <3> HIDE DEF touched, Gone
    <3> QED BY <1>4
  <2> HIDE DEF Was, Left, touched
  <2>3. none = empty
    BY <2>2
  <2>4. ASSUME NEW a
        PROVE  /\ (\E x \in touched : PageTableAt(t, x) = a)
                    <=> \E x \in touched : l1[t][x] = a
               /\ (CHOOSE x \in touched : PageTableAt(t, x) = a)
                    = CHOOSE x \in touched : l1[t][x] = a
    <3>1. \A x \in touched : PageTableAt(t, x) = a <=> l1[t][x] = a
      BY <1>4
    <3> QED BY <3>1
  <2>5. {PageTableAt(t, x) : x \in none} = {l1[t][x] : x \in empty}
    BY <2>3, <1>4
  <2>6. ASSUME NEW a, \E x \in touched : l1[t][x] = a
        PROVE  Was(CHOOSE x \in touched : l1[t][x] = a) = Left(CHOOSE x \in touched : l1[t][x] = a)
    <3>1. (CHOOSE x \in touched : l1[t][x] = a) \in touched
      BY <2>6
    <3> QED BY <3>1, <2>2
  <2> HIDE DEF none, empty
  <2>7. /\ DOMAIN l1' = Tables
        /\ \A u \in Tables : u # t => l1'[u] = l1[u]
        /\ l1'[t] = [x \in SectionsOf(t) |-> IF x \in none THEN Nil ELSE l1[t][x]]
    BY <2>1, <1>6
  <2>8. DOMAIN pt' = DOMAIN pt \ {PageTableAt(t, x) : x \in none}
    BY <2>1
  <2>9. ASSUME NEW a \in DOMAIN pt'
        PROVE  pt'[a] = IF \E x \in touched : l1[t][x] = a
                        THEN Left(CHOOSE x \in touched : l1[t][x] = a)
                        ELSE pt[a]
    <3>1. pt'[a] = IF \E x \in touched : PageTableAt(t, x) = a
                   THEN Was(CHOOSE x \in touched : PageTableAt(t, x) = a)
                   ELSE pt[a]
      BY <2>1, <2>8
    <3>2. CASE \E x \in touched : l1[t][x] = a
      <4>1. pt'[a] = Was(CHOOSE x \in touched : PageTableAt(t, x) = a)
        BY <3>1, <3>2, <2>4
      <4>2. pt'[a] = Was(CHOOSE x \in touched : l1[t][x] = a)
        BY <4>1, <2>4
      <4> QED BY <3>2, <4>2, <2>6
    <3>3. CASE ~\E x \in touched : l1[t][x] = a
      BY <3>1, <3>3, <2>4
    <3> QED BY <3>2, <3>3
  <2> QED BY <2>3, <2>5, <2>7, <2>8, <2>9
<1>7. /\ \A a \in DOMAIN pt : \E i \in 0 .. SectionPages - 1 : pt[a][i] # Unmapped
      /\ \A a \in DOMAIN pt : \E u \in Tables : \E x \in SectionsOf(u) : l1[u][x] = a
      /\ \A u \in Tables : \A x \in SectionsOf(u) :
            l1[u][x] # Nil => l1[u][x] \in DOMAIN pt
      /\ \A u, w \in Tables : \A x \in SectionsOf(u), y \in SectionsOf(w) :
            l1[u][x] = l1[w][y] /\ l1[u][x] # Nil => u = w /\ x = y
      /\ \A a \in DOMAIN pt : a # Nil
  BY <1>6 DEF Owned, Nil
<1>8. \A x \in touched : l1[t][x] # Nil /\ l1[t][x] \in DOMAIN pt
  BY <1>3, <1>7
<1>9. ASSUME NEW u \in Tables, NEW x \in SectionsOf(u), u # t \/ x \notin touched,
             NEW y \in touched
      PROVE  l1[u][x] # l1[t][y]
  <2>1. y \in SectionsOf(t) /\ l1[t][y] # Nil
    BY <1>3, <1>8
  <2> QED BY <2>1, <1>7, <1>9
<1>10. ASSUME NEW x \in touched PROVE Left(x) \in [0 .. SectionPages - 1 -> Entries]
  <2>1. pt[l1[t][x]] \in [0 .. SectionPages - 1 -> Entries]
    BY <1>6, <1>8
  <2> HIDE DEF touched, Gone
  <2> QED BY <2>1, UnmappedTyped
<1>11. ASSUME NEW x \in touched, x \notin empty
       PROVE  \E i \in 0 .. SectionPages - 1 : Left(x)[i] # Unmapped
  <2> SUFFICES ASSUME \A i \in 0 .. SectionPages - 1 : Left(x)[i] = Unmapped
               PROVE  FALSE
    OBVIOUS
  <2>1. Left(x) = EmptyPageTable
    <3> HIDE DEF Left
    <3> QED BY <1>10 DEF EmptyPageTable
  <2> HIDE DEF Left, touched
  <2> QED BY <1>11, <2>1
<1>12. ASSUME NEW x \in empty, NEW i \in 0 .. SectionPages - 1
       PROVE  Gone(x, i) \/ pt[l1[t][x]][i] = Unmapped
  <2>1. Left(x) = EmptyPageTable
    <3> HIDE DEF Left
    <3> QED BY <1>12
  <2>2. Left(x)[i] = Unmapped
    <3> HIDE DEF Left
    <3> QED BY <2>1 DEF EmptyPageTable
  <2> HIDE DEF Gone
  <2> QED BY <2>2
<1> HIDE DEF Left, empty, touched
<1>13. ASSUME NEW x \in touched, x \notin empty
       PROVE  l1[t][x] \in DOMAIN pt' /\ pt'[l1[t][x]] = Left(x)
  <2>1. \A y \in touched : l1[t][y] = l1[t][x] => y = x
    BY <1>3, <1>7, <1>8
  <2>2. l1[t][x] \in DOMAIN pt \ {l1[t][y] : y \in empty}
    BY <2>1, <1>3, <1>8, <1>13
  <2>3. (CHOOSE y \in touched : l1[t][y] = l1[t][x]) = x
    BY <2>1
  <2> QED BY <2>2, <2>3, <1>5
<1>14. ASSUME NEW a \in DOMAIN pt, \A y \in touched : l1[t][y] # a
       PROVE  a \in DOMAIN pt' /\ pt'[a] = pt[a]
  BY <1>3, <1>5, <1>14
<1>15. ASSUME NEW a \in DOMAIN pt'
       PROVE  \/ \E x \in touched : x \notin empty /\ l1[t][x] = a /\ pt'[a] = Left(x)
              \/ (\A x \in touched : l1[t][x] # a) /\ a \in DOMAIN pt /\ pt'[a] = pt[a]
  <2>1. a \in DOMAIN pt /\ \A x \in empty : l1[t][x] # a
    BY <1>5
  <2>2. CASE \E x \in touched : l1[t][x] = a
    <3>1. PICK x \in touched : l1[t][x] = a
      BY <2>2
    <3>2. x \notin empty
      BY <3>1, <2>1
    <3> QED BY <3>1, <3>2, <1>13
  <2>3. CASE \A x \in touched : l1[t][x] # a
    BY <2>1, <2>3, <1>14
  <2> QED BY <2>2, <2>3
<1>16. \A u \in Tables : \A x \in SectionsOf(u) :
          l1'[u][x] = IF u = t /\ x \in empty THEN Nil ELSE l1[u][x]
  BY <1>5
<1>17. TablesTyped'
  <2>1. \A u \in Tables : l1'[u] \in [SectionsOf(u) -> Nat]
    <3>1. l1'[t] \in [SectionsOf(t) -> Nat]
      BY <1>5, <1>6 DEF Nil
    <3>2. \A u \in Tables : u # t => l1'[u] \in [SectionsOf(u) -> Nat]
      BY <1>5, <1>6
    <3> QED BY <3>1, <3>2
  <2>2. \A a \in DOMAIN pt' : pt'[a] \in [0 .. SectionPages - 1 -> Entries]
    BY <1>6, <1>10, <1>15
  <2>3. DOMAIN pt' \subseteq Nat \ {0}
    BY <1>5, <1>6
  <2> QED BY <2>1, <2>2, <2>3, <1>5 DEF TablesTyped
<1>18. Owned'
  <2>1. ASSUME NEW a \in DOMAIN pt'
        PROVE  \E i \in 0 .. SectionPages - 1 : pt'[a][i] # Unmapped
    BY <1>7, <1>11, <1>15
  <2>2. ASSUME NEW a \in DOMAIN pt'
        PROVE  \E u \in Tables : \E x \in SectionsOf(u) : l1'[u][x] = a
    <3>1. PICK u \in Tables : \E x \in SectionsOf(u) : l1[u][x] = a
      BY <1>5, <1>7
    <3>2. PICK x \in SectionsOf(u) : l1[u][x] = a
      BY <3>1
    <3>3. ~(u = t /\ x \in empty)
      BY <3>2, <1>5
    <3> QED BY <3>2, <3>3, <1>16
  <2>3. ASSUME NEW u \in Tables, NEW x \in SectionsOf(u), l1'[u][x] # Nil
        PROVE  l1'[u][x] \in DOMAIN pt'
    <3>1. l1'[u][x] = l1[u][x] /\ ~(u = t /\ x \in empty)
      BY <2>3, <1>16
    <3>2. l1[u][x] \in DOMAIN pt
      BY <3>1, <2>3, <1>7
    <3>3. CASE u = t /\ x \in touched
      BY <3>1, <3>3, <1>13
    <3>4. CASE ~(u = t /\ x \in touched)
      <4>1. \A y \in touched : l1[t][y] # l1[u][x]
        BY <3>4, <1>9
      <4> QED BY <4>1, <3>1, <3>2, <1>14
    <3> QED BY <3>3, <3>4
  <2>4. ASSUME NEW u \in Tables, NEW w \in Tables, NEW x \in SectionsOf(u),
               NEW y \in SectionsOf(w), l1'[u][x] = l1'[w][y], l1'[u][x] # Nil
        PROVE  u = w /\ x = y
    <3>1. l1'[u][x] = l1[u][x] /\ l1'[w][y] = l1[w][y]
      BY <2>4, <1>16
    <3>2. l1[u][x] = l1[w][y] /\ l1[u][x] # Nil
      BY <3>1, <2>4
    <3> QED BY <3>2, <1>7
  <2>5. Owned' =
          /\ \A a \in DOMAIN pt' : \E i \in 0 .. SectionPages - 1 : pt'[a][i] # Unmapped
          /\ \A a \in DOMAIN pt' : \E u \in Tables : \E x \in SectionsOf(u) : l1'[u][x] = a
          /\ \A u \in Tables : \A x \in SectionsOf(u) :
                l1'[u][x] # Nil => l1'[u][x] \in DOMAIN pt'
          /\ \A u, w \in Tables : \A x \in SectionsOf(u), y \in SectionsOf(w) :
                l1'[u][x] = l1'[w][y] /\ l1'[u][x] # Nil => u = w /\ x = y
    BY DEF Owned
  <2> QED BY <2>1, <2>2, <2>3, <2>4, <2>5
<1>19. ASSUME NEW u \in Tables, NEW v \in Pages(u)
       PROVE  Translate(u, v)' = IF u = t /\ v \in Range(c) THEN Unmapped ELSE Translate(u, v)
  <2>1. /\ Section(v) \in SectionsOf(u) /\ Index(v) \in 0 .. SectionPages - 1
    BY PageSections
  <2>2. PICK x \in SectionsOf(u) : x = Section(v)
    BY <2>1
  <2>3. PICK i \in 0 .. SectionPages - 1 : i = Index(v)
    BY <2>1
  <2>4. /\ Translate(u, v)' = IF l1'[u][x] = Nil THEN Unmapped ELSE pt'[l1'[u][x]][i]
        /\ Translate(u, v) = IF l1[u][x] = Nil THEN Unmapped ELSE pt[l1[u][x]][i]
    BY <2>2, <2>3 DEF Translate
  <2>5. u = t => (Gone(x, i) <=> v \in Range(c))
    <3>1. ASSUME u = t, NEW w \in Range(c), Section(w) = x, Index(w) = i
          PROVE  w = v
      <4>1. w \in Pages(t) /\ v \in Pages(t)
        BY <3>1, <1>1
      <4> QED BY <4>1, <3>1, <2>2, <2>3, PageSections
    <3> QED BY <3>1, <2>2, <2>3
  <2>6. CASE u = t /\ x \in empty
    <3>1. l1'[u][x] = Nil /\ l1[u][x] # Nil
      BY <2>6, <1>3, <1>8, <1>16
    <3>2. Gone(x, i) \/ pt[l1[u][x]][i] = Unmapped
      BY <2>6, <1>12
    <3> HIDE DEF Gone
    <3> QED BY <3>1, <3>2, <2>4, <2>5, <2>6
  <2>7. CASE u = t /\ x \in touched /\ x \notin empty
    <3>1. l1'[u][x] = l1[u][x] /\ l1[u][x] # Nil
      BY <2>7, <1>8, <1>16
    <3>2. pt'[l1[u][x]] = Left(x)
      BY <2>7, <1>13
    <3>3. Left(x)[i] = IF Gone(x, i) THEN Unmapped ELSE pt[l1[t][x]][i]
      <4> HIDE DEF Gone
      <4> QED BY DEF Left
    <3> HIDE DEF Gone
    <3> QED BY <3>1, <3>2, <3>3, <2>4, <2>5, <2>7
  <2>8. CASE ~(u = t /\ x \in touched)
    <3>1. l1'[u][x] = l1[u][x]
      BY <2>8, <1>3, <1>16
    <3>2. CASE l1[u][x] = Nil
      BY <3>1, <3>2, <2>4
    <3>3. CASE l1[u][x] # Nil
      <4>1. l1[u][x] \in DOMAIN pt
        BY <3>3, <1>7
      <4>2. \A y \in touched : l1[t][y] # l1[u][x]
        BY <2>8, <1>9
      <4>3. pt'[l1[u][x]] = pt[l1[u][x]]
        BY <4>1, <4>2, <1>14
      <4>4. ~(u = t /\ v \in Range(c))
        BY <2>2, <2>8, <3>3 DEF touched
      <4> QED BY <4>3, <4>4, <3>1, <3>3, <2>4
    <3> QED BY <3>2, <3>3
  <2> QED BY <2>6, <2>7, <2>8, <1>3
<1>20. Unmapping(t, n, c)
  <2>1. ASSUME NEW u \in Tables, NEW v \in Pages(u)
        PROVE  Map'[u][v] = IF u = t /\ \E k \in 1 .. n : c[k] = v THEN Unmapped ELSE Map[u][v]
    <3>1. Map'[u][v] = Translate(u, v)' /\ Map[u][v] = Translate(u, v)
      BY DEF Map
    <3>2. v \in Range(c) <=> \E k \in 1 .. n : c[k] = v
      BY <1>1
    <3> QED BY <3>1, <3>2, <1>19
  <2> QED BY <2>1 DEF Unmapping
<1> QED BY <1>5, <1>17, <1>18, <1>20

---------------------------------------------------------------------------
(* Pages of RAM between the stack of free pages and the tables. *)

\* The pages of RAM.
Frames == 1 .. PageFrames

\* PagesConserved, for a stack of free pages and the tables.
OnePlace(s, m) ==
    /\ \A i, j \in 1 .. Len(s) : s[i] = s[j] => i = j
    /\ \A t, u \in Tables : \A v \in Pages(t), w \in Pages(u) :
          m[t][v].page = m[u][w].page /\ m[t][v].page \in Frames => t = u /\ v = w
    /\ \A i \in 1 .. Len(s) : \A t \in Tables : \A v \in Pages(t) : m[t][v].page # s[i]
    /\ \A f \in Frames : \/ \E i \in 1 .. Len(s) : s[i] = f
                         \/ \E t \in Tables : \E v \in Pages(t) : m[t][v].page = f

\* m2 maps the last pages of s where nothing was mapped in m.
Taken(s, m, m2, t, n, r) ==
    /\ \A k \in 1 .. n : m[t][r[k].virt].page \notin Frames
    /\ \A k \in 1 .. n : r[k].entry.page =
          IF k <= Len(s) THEN s[Len(s) + 1 - k] ELSE NullPage
    /\ \A u \in Tables : \A v \in Pages(u) :
          (u # t \/ \A k \in 1 .. n : r[k].virt # v) => m2[u][v] = m[u][v]
    /\ \A k \in 1 .. n : m2[t][r[k].virt] = r[k].entry

\* Pages that are taken from the stack and mapped are still in one place.
LEMMA TakePages ==
    ASSUME NEW s \in Seq(Frames), NEW m, NEW m2, OnePlace(s, m), NEW t \in Tables,
           NEW n \in Nat, NEW r \in Requests(t, n), Taken(s, m, m2, t, n, r),
           NEW s2, s2 = [i \in 1 .. Len(s) - n |-> s[i]]
    PROVE  s2 \in Seq(Frames) /\ OnePlace(s2, m2)
<1>1. PICK L \in Nat : L = Len(s)
  BY LenProperties
<1>2. s \in [1 .. L -> Frames]
  BY <1>1, LenProperties
<1>3. PICK K \in Nat : /\ K <= L /\ 1 .. L - n = 1 .. K
                       /\ K = L - n \/ (K = 0 /\ L < n)
  <2>1. CASE n <= L
    <3>1. L - n \in Nat
      BY <2>1
    <3> QED BY <3>1
  <2>2. CASE L < n
    <3>1. 1 .. L - n = 1 .. 0
      BY <2>2
    <3>2. 0 \in Nat /\ 0 <= L /\ 1 .. L - n = 1 .. 0 /\ 0 = 0 /\ L < n
      BY <2>2, <3>1
    <3> QED BY <3>2
  <2> QED BY <2>1, <2>2
<1>4. s2 \in [1 .. K -> Frames] /\ \A i \in 1 .. K : s2[i] = s[i]
  <2>1. \A i \in 1 .. K : i \in 1 .. L
    BY <1>3
  <2>2. s2 = [i \in 1 .. K |-> s[i]]
    BY <1>1, <1>3
  <2> QED BY <2>1, <2>2, <1>2
<1>5. s2 \in Seq(Frames) /\ Len(s2) = K
  BY <1>4, FunctionIsSeq
<1>6. /\ \A k \in 1 .. n : r[k].virt \in Pages(t)
      /\ \A i, j \in 1 .. n : r[i].virt = r[j].virt => i = j
  BY DEF Requests
<1>7. ASSUME NEW u \in Tables, NEW v \in Pages(u), m2[u][v].page \in Frames
      PROVE  \/ /\ m2[u][v] = m[u][v]
                /\ u # t \/ \A k \in 1 .. n : r[k].virt # v
             \/ \E k \in 1 .. n : /\ u = t /\ r[k].virt = v
                                  /\ L + 1 - k \in 1 .. L /\ L + 1 - k > K
                                  /\ m2[u][v].page = s[L + 1 - k]
  <2>1. CASE u = t /\ \E k \in 1 .. n : r[k].virt = v
    <3>1. PICK k \in 1 .. n : r[k].virt = v
      BY <2>1
    <3>2. m2[u][v].page = IF k <= L THEN s[L + 1 - k] ELSE 0
      BY <2>1, <3>1, <1>1 DEF NullPage, Taken
    <3>3. k <= L
      BY <3>2, <1>7 DEF Frames
    <3>4. L + 1 - k \in 1 .. L /\ L + 1 - k > K
      BY <3>3, <1>3
    <3> QED BY <2>1, <3>1, <3>2, <3>3, <3>4
  <2>2. CASE ~(u = t /\ \E k \in 1 .. n : r[k].virt = v)
    BY <2>2 DEF Taken
  <2> QED BY <2>1, <2>2
<1>8. /\ \A i, j \in 1 .. L : s[i] = s[j] => i = j
      /\ \A u, z \in Tables : \A v \in Pages(u), w \in Pages(z) :
            m[u][v].page = m[z][w].page /\ m[u][v].page \in Frames => u = z /\ v = w
      /\ \A i \in 1 .. L : \A u \in Tables : \A v \in Pages(u) : m[u][v].page # s[i]
      /\ \A f \in Frames : \/ \E i \in 1 .. L : s[i] = f
                           \/ \E u \in Tables : \E v \in Pages(u) : m[u][v].page = f
  BY <1>1 DEF OnePlace
<1>9. ASSUME NEW i \in 1 .. K, NEW j \in 1 .. K, s2[i] = s2[j] PROVE i = j
  <2>1. i \in 1 .. L /\ j \in 1 .. L
    BY <1>3
  <2> QED BY <2>1, <1>4, <1>8, <1>9
<1>10. ASSUME NEW u \in Tables, NEW z \in Tables, NEW v \in Pages(u), NEW w \in Pages(z),
              m2[u][v].page = m2[z][w].page, m2[u][v].page \in Frames
       PROVE  u = z /\ v = w
  <2>1. CASE m2[u][v] = m[u][v] /\ m2[z][w] = m[z][w]
    <3>1. m[u][v].page = m[z][w].page /\ m[u][v].page \in Frames
      BY <2>1, <1>10
    <3> QED BY <3>1, <1>8
  <2>2. CASE m2[u][v] = m[u][v] /\ \E q \in 1 .. L : m2[z][w].page = s[q]
    BY <2>2, <1>8, <1>10
  <2>3. CASE m2[z][w] = m[z][w] /\ \E q \in 1 .. L : m2[u][v].page = s[q]
    <3>1. PICK q \in 1 .. L : m[z][w].page = s[q]
      BY <2>3, <1>10
    <3> QED BY <3>1, <1>8
  <2>4. CASE /\ \E k \in 1 .. n : /\ u = t /\ r[k].virt = v /\ L + 1 - k \in 1 .. L
                                  /\ m2[u][v].page = s[L + 1 - k]
             /\ \E k \in 1 .. n : /\ z = t /\ r[k].virt = w /\ L + 1 - k \in 1 .. L
                                  /\ m2[z][w].page = s[L + 1 - k]
    <3>1. PICK k \in 1 .. n : /\ u = t /\ r[k].virt = v /\ L + 1 - k \in 1 .. L
                              /\ m2[u][v].page = s[L + 1 - k]
      BY <2>4
    <3>2. PICK j \in 1 .. n : /\ z = t /\ r[j].virt = w /\ L + 1 - j \in 1 .. L
                              /\ m2[z][w].page = s[L + 1 - j]
      BY <2>4
    <3>3. PICK p, q \in 1 .. L : p = L + 1 - k /\ q = L + 1 - j
      BY <3>1, <3>2
    <3>4. s[p] = s[q]
      BY <3>1, <3>2, <3>3, <1>10
    <3>5. p = q
      BY <3>4, <1>8
    <3>6. k = j
      BY <3>3, <3>5
    <3> QED BY <3>1, <3>2, <3>6
  <2>5. m2[z][w].page \in Frames
    BY <1>10
  <2> QED BY <2>1, <2>2, <2>3, <2>4, <2>5, <1>7, <1>10
<1>11. ASSUME NEW i \in 1 .. K, NEW u \in Tables, NEW v \in Pages(u), m2[u][v].page = s2[i]
       PROVE  FALSE
  <2>1. i \in 1 .. L /\ s2[i] = s[i] /\ s2[i] \in Frames
    BY <1>3, <1>4
  <2>2. CASE m2[u][v] = m[u][v]
    BY <2>1, <2>2, <1>8, <1>11
  <2>3. CASE \E k \in 1 .. n : L + 1 - k \in 1 .. L /\ L + 1 - k > K /\ m2[u][v].page = s[L + 1 - k]
    <3>1. PICK k \in 1 .. n : L + 1 - k \in 1 .. L /\ L + 1 - k > K /\ m2[u][v].page = s[L + 1 - k]
      BY <2>3
    <3>2. PICK q \in 1 .. L : q = L + 1 - k
      BY <3>1
    <3>3. s[i] = s[q]
      BY <3>1, <3>2, <2>1, <1>11
    <3>4. i = q
      BY <3>3, <2>1, <1>8
    <3> QED BY <3>1, <3>2, <3>4
  <2> QED BY <2>1, <2>2, <2>3, <1>7, <1>11
<1>12. ASSUME NEW f \in Frames
       PROVE  \/ \E i \in 1 .. K : s2[i] = f
              \/ \E u \in Tables : \E v \in Pages(u) : m2[u][v].page = f
  <2>1. CASE \E i \in 1 .. L : s[i] = f
    <3>1. PICK i \in 1 .. L : s[i] = f
      BY <2>1
    <3>2. CASE i <= K
      <4>1. i \in 1 .. K
        BY <3>2
      <4> QED BY <4>1, <3>1, <1>4
    <3>3. CASE i > K
      <4>1. PICK k : k = L + 1 - i
        OBVIOUS
      <4>2. k \in 1 .. n /\ k <= L /\ L + 1 - k = i
        BY <4>1, <3>3, <1>3
      <4>3. m2[t][r[k].virt].page = f
        BY <4>2, <3>1, <1>1 DEF Taken
      <4>4. r[k].virt \in Pages(t)
        BY <4>2, <1>6
      <4> QED BY <4>3, <4>4
    <3>4. i <= K \/ i > K
      OBVIOUS
    <3> QED BY <3>2, <3>3, <3>4
  <2>2. CASE \E u \in Tables : \E v \in Pages(u) : m[u][v].page = f
    <3>1. PICK u \in Tables : \E v \in Pages(u) : m[u][v].page = f
      BY <2>2
    <3>2. PICK v \in Pages(u) : m[u][v].page = f
      BY <3>1
    <3>3. u # t \/ \A k \in 1 .. n : r[k].virt # v
      BY <3>2 DEF Taken
    <3>4. m2[u][v] = m[u][v]
      BY <3>3 DEF Taken
    <3> QED BY <3>2, <3>4
  <2> QED BY <2>1, <2>2, <1>8
<1>13. OnePlace(s2, m2)
  <2>1. \A i, j \in 1 .. Len(s2) : s2[i] = s2[j] => i = j
    BY <1>5, <1>9
  <2>2. \A i \in 1 .. Len(s2) : \A u \in Tables : \A v \in Pages(u) : m2[u][v].page # s2[i]
    BY <1>5, <1>11
  <2>3. \A f \in Frames : \/ \E i \in 1 .. Len(s2) : s2[i] = f
                          \/ \E u \in Tables : \E v \in Pages(u) : m2[u][v].page = f
    BY <1>5, <1>12
  <2>4. \A u, z \in Tables : \A v \in Pages(u), w \in Pages(z) :
            m2[u][v].page = m2[z][w].page /\ m2[u][v].page \in Frames => u = z /\ v = w
    BY <1>10
  <2> QED BY <2>1, <2>2, <2>3, <2>4, Zenon DEF OnePlace
<1> QED BY <1>5, <1>13

\* Mapping what is not RAM where nothing in RAM was mapped.
LEMMA OtherPages ==
    ASSUME NEW s, NEW m, NEW m2, OnePlace(s, m), s \in Seq(Frames),
           \A u \in Tables : \A v \in Pages(u) :
              \/ m2[u][v] = m[u][v]
              \/ m[u][v].page \notin Frames /\ m2[u][v].page \notin Frames
    PROVE  OnePlace(s, m2)
<1>1. \A i \in 1 .. Len(s) : s[i] \in Frames
  BY ElementOfSeq
<1>2. \A u \in Tables : \A v \in Pages(u) : \A f \in Frames :
         m2[u][v].page = f <=> m[u][v].page = f
  OBVIOUS
<1>3. /\ \A i, j \in 1 .. Len(s) : s[i] = s[j] => i = j
      /\ \A u, z \in Tables : \A v \in Pages(u), w \in Pages(z) :
            m[u][v].page = m[z][w].page /\ m[u][v].page \in Frames => u = z /\ v = w
      /\ \A i \in 1 .. Len(s) : \A u \in Tables : \A v \in Pages(u) : m[u][v].page # s[i]
      /\ \A f \in Frames : \/ \E i \in 1 .. Len(s) : s[i] = f
                           \/ \E u \in Tables : \E v \in Pages(u) : m[u][v].page = f
  BY DEF OnePlace
<1>4. \A u, z \in Tables : \A v \in Pages(u), w \in Pages(z) :
         m2[u][v].page = m2[z][w].page /\ m2[u][v].page \in Frames => u = z /\ v = w
  BY <1>2, <1>3
<1>5. \A i \in 1 .. Len(s) : \A u \in Tables : \A v \in Pages(u) : m2[u][v].page # s[i]
  BY <1>1, <1>2, <1>3
<1>6. \A f \in Frames : \/ \E i \in 1 .. Len(s) : s[i] = f
                        \/ \E u \in Tables : \E v \in Pages(u) : m2[u][v].page = f
  BY <1>2, <1>3
<1> QED BY <1>3, <1>4, <1>5, <1>6 DEF OnePlace

\* s2 and m2 are the stack and the tables after unmap_page for page v.
Freed(s, s2, m, m2, t, v) ==
    /\ s \in Seq(Frames)
    /\ OnePlace(s, m)
    /\ t \in Tables /\ v \in Pages(t)
    /\ m[t][v].page \in 0 .. PageFrames
    /\ s2 = IF m[t][v].page # NullPage THEN Append(s, m[t][v].page) ELSE s
    /\ \A u \in Tables : \A w \in Pages(u) :
          m2[u][w] = IF u = t /\ w = v THEN Unmapped ELSE m[u][w]

\* A page that is unmapped and pushed on the stack is in one place again.
LEMMA FreePage ==
    ASSUME NEW s, NEW s2, NEW m, NEW m2, NEW t, NEW v, Freed(s, s2, m, m2, t, v)
    PROVE  s2 \in Seq(Frames) /\ OnePlace(s2, m2)
<1>a. PICK f \in 0 .. PageFrames : f = m[t][v].page
  BY DEF Freed
<1>b. /\ s \in Seq(Frames) /\ OnePlace(s, m) /\ t \in Tables /\ v \in Pages(t)
      /\ s2 = IF f # NullPage THEN Append(s, f) ELSE s
  BY <1>a DEF Freed
<1>c. \A u \in Tables : \A w \in Pages(u) :
         m2[u][w] = IF u = t /\ w = v THEN Unmapped ELSE m[u][w]
  BY DEF Freed
<1>0. Unmapped.page \notin Frames /\ PageFrames \in Nat
  BY UnmappedTyped, SizesAssumption DEF Frames
<1>1. CASE f = NullPage
  <2>1. m[t][v].page \notin Frames /\ s2 = s
    BY <1>1, <1>a, <1>b DEF NullPage, Frames
  <2>2. \A u \in Tables : \A w \in Pages(u) :
              \/ m2[u][w] = m[u][w]
              \/ m[u][w].page \notin Frames /\ m2[u][w].page \notin Frames
    BY <1>0, <1>c, <2>1
  <2> QED BY <1>b, <2>1, <2>2, OtherPages
<1>2. CASE f # NullPage
  <2>1. f \in Frames /\ s2 = Append(s, f)
    BY <1>0, <1>a, <1>b, <1>2 DEF NullPage, Frames
  <2>2. PICK L \in Nat : L = Len(s)
    BY <1>b, LenProperties
  <2>3. /\ s2 \in Seq(Frames) /\ Len(s2) = L + 1
        /\ \A i \in 1 .. L : s2[i] = s[i]
        /\ s2[L + 1] = f
    BY <1>b, <2>1, <2>2, AppendProperties
  <2>4. /\ \A i, j \in 1 .. L : s[i] = s[j] => i = j
        /\ \A u, z \in Tables : \A x \in Pages(u), w \in Pages(z) :
              m[u][x].page = m[z][w].page /\ m[u][x].page \in Frames => u = z /\ x = w
        /\ \A i \in 1 .. L : \A u \in Tables : \A x \in Pages(u) : m[u][x].page # s[i]
        /\ \A g \in Frames : \/ \E i \in 1 .. L : s[i] = g
                             \/ \E u \in Tables : \E x \in Pages(u) : m[u][x].page = g
    BY <1>b, <2>2 DEF OnePlace
  <2>5. ASSUME NEW u \in Tables, NEW w \in Pages(u), m2[u][w].page \in Frames
        PROVE  m2[u][w] = m[u][w] /\ m[u][w].page # f
    <3>1. ~(u = t /\ w = v)
      BY <2>5, <1>0, <1>c
    <3>2. m2[u][w] = m[u][w]
      BY <3>1, <1>c
    <3> QED BY <3>1, <3>2, <2>1, <2>4, <2>5, <1>a, <1>b
  <2>6. ASSUME NEW i \in 1 .. L + 1, NEW j \in 1 .. L + 1, s2[i] = s2[j]
        PROVE  i = j
    <3>1. f # s[i] \/ i = L + 1
      BY <1>a, <1>b, <2>4
    <3>2. f # s[j] \/ j = L + 1
      BY <1>a, <1>b, <2>4
    <3>3. CASE i # L + 1 /\ j # L + 1
      <4>1. i \in 1 .. L /\ j \in 1 .. L
        BY <3>3
      <4> QED BY <4>1, <2>3, <2>4, <2>6
    <3>4. CASE i = L + 1 /\ j # L + 1
      <4>1. j \in 1 .. L
        BY <3>4
      <4> QED BY <4>1, <3>2, <3>4, <2>3, <2>6
    <3>5. CASE i # L + 1 /\ j = L + 1
      <4>1. i \in 1 .. L
        BY <3>5
      <4> QED BY <4>1, <3>1, <3>5, <2>3, <2>6
    <3> QED BY <3>3, <3>4, <3>5
  <2>7. ASSUME NEW u \in Tables, NEW z \in Tables, NEW x \in Pages(u), NEW w \in Pages(z),
               m2[u][x].page = m2[z][w].page, m2[u][x].page \in Frames
        PROVE  u = z /\ x = w
    <3>1. m2[u][x] = m[u][x] /\ m2[z][w] = m[z][w]
      BY <2>5, <2>7
    <3> QED BY <3>1, <2>4, <2>7
  <2>8. ASSUME NEW i \in 1 .. L + 1, NEW u \in Tables, NEW w \in Pages(u)
        PROVE  m2[u][w].page # s2[i]
    <3>1. SUFFICES ASSUME m2[u][w].page = s2[i] PROVE FALSE
      OBVIOUS
    <3>2. s2[i] \in Frames
      BY <2>3, ElementOfSeq
    <3>3. m2[u][w] = m[u][w] /\ m[u][w].page # f
      BY <2>5, <3>1, <3>2
    <3>4. i \in 1 .. L
      BY <3>1, <3>3, <2>3
    <3> QED BY <3>1, <3>3, <3>4, <2>3, <2>4
  <2>9. ASSUME NEW g \in Frames
        PROVE  \/ \E i \in 1 .. L + 1 : s2[i] = g
               \/ \E u \in Tables : \E w \in Pages(u) : m2[u][w].page = g
    <3>1. CASE g = f
      <4>1. L + 1 \in 1 .. L + 1
        OBVIOUS
      <4> QED BY <4>1, <3>1, <2>3
    <3>2. CASE \E i \in 1 .. L : s[i] = g
      <4>1. PICK i \in 1 .. L : s[i] = g
        BY <3>2
      <4>2. i \in 1 .. L + 1 /\ s2[i] = g
        BY <4>1, <2>3
      <4> QED BY <4>2
    <3>3. CASE g # f /\ \E u \in Tables : \E w \in Pages(u) : m[u][w].page = g
      <4>1. PICK u \in Tables : \E w \in Pages(u) : m[u][w].page = g
        BY <3>3
      <4>2. PICK w \in Pages(u) : m[u][w].page = g
        BY <4>1
      <4>3. m2[u][w] = m[u][w]
        BY <4>2, <3>3, <1>a, <1>c
      <4> QED BY <4>2, <4>3
    <3> QED BY <3>1, <3>2, <3>3, <2>4
  <2> QED BY <2>3, <2>6, <2>7, <2>8, <2>9 DEF OnePlace
<1> QED BY <1>1, <1>2

\* The pages that unmap_page gives back are again in one place.
LEMMA FreedPagesPlaced ==
    ASSUME TablesTyped, Listed, Owned, pageStack \in Seq(Frames),
           OnePlace(pageStack, Map), NEW t \in Tables, NEW n \in Nat,
           NEW c \in [1 .. n -> Pages(t)], \A i, j \in 1 .. n : c[i] = c[j] => i = j,
           \A k \in 1 .. n : Map[t][c[k]].page \in 0 .. PageFrames,
           NEW m2, \A u \in Tables : \A v \in Pages(u) :
              m2[u][v] = IF u = t /\ \E k \in 1 .. n : c[k] = v THEN Unmapped
                         ELSE Map[u][v]
    PROVE  FreedPages(t, c) \in Seq(Frames) /\ OnePlace(FreedPages(t, c), m2)
<1> DEFINE EntryOf(v) == pt[PageTableAt(t, Section(v))][Index(v)]
           Step(i, s) == IF l1[t][Section(c[i])] # Nil /\ EntryOf(c[i]).page # NullPage
                         THEN Append(s, EntryOf(c[i]).page) ELSE s
           S == Seq(Frames)
           Body(a) == [i \in 0 .. n |-> IF i = 0 THEN pageStack ELSE Step(i, a[i - 1])]
           F == [i \in 1 .. n |-> [s \in S |-> Step(i, s)]]
           f == CHOOSE a : a = Body(a)
           page(i) == Map[t][c[i]].page
<1>1. ASSUME NEW i \in 1 .. n, NEW s \in S
      PROVE  /\ Step(i, s) = IF page(i) # NullPage THEN Append(s, page(i)) ELSE s
             /\ Step(i, s) \in S
  <2>1. c[i] \in Pages(t) /\ Section(c[i]) \in SectionsOf(t)
    BY PageSections
  <2>2. Map[t][c[i]] = Translate(t, c[i])
    BY <2>1, MapTyped
  <2>3. PageTableAt(t, Section(c[i])) = l1[t][Section(c[i])]
    BY <2>1, TableFound
  <2>4. Step(i, s) = IF page(i) # NullPage THEN Append(s, page(i)) ELSE s
    <3>1. CASE l1[t][Section(c[i])] = Nil
      BY <2>2, <3>1, UnmappedTyped DEF Translate, NullPage
    <3>2. CASE l1[t][Section(c[i])] # Nil
      BY <2>2, <2>3, <3>2 DEF Translate
    <3> QED BY <3>1, <3>2
  <2>5. page(i) # NullPage => page(i) \in Frames
    <3>1. page(i) \in 0 .. PageFrames
      OBVIOUS
    <3> HIDE DEF page
    <3> QED BY <3>1 DEF NullPage, Frames
  <2>6. page(i) # NullPage => Append(s, page(i)) \in S
    <3> HIDE DEF page
    <3> QED BY <2>5, AppendProperties
  <2> HIDE DEF page, Step
  <2> QED BY <2>4, <2>6
<1> HIDE DEF Step
<1>2. F \in [1 .. n -> [S -> S]]
  <2> HIDE DEF S, page
  <2> QED BY <1>1
<1>3. PICK g : /\ g \in [0 .. n -> S] /\ g[0] = pageStack
               /\ \A i \in 1 .. n : g[i] = F[i][g[i - 1]]
  <2> HIDE DEF F
  <2>1. \E g : IsIteration(n, S, pageStack, F, g)
    BY <1>2, IterationExists
  <2> QED BY <2>1 DEF IsIteration
<1>4. g = Body(g)
  <2>1. ASSUME NEW i \in 1 .. n PROVE g[i] = Step(i, g[i - 1])
    <3>1. i - 1 \in 0 .. n
      OBVIOUS
    <3>2. g[i - 1] \in S
      BY <3>1, <1>3
    <3> HIDE DEF S
    <3> QED BY <3>2, <1>3
  <2> QED BY <2>1, <1>3
<1>5. PICK h : h = f /\ h = Body(h)
  <2>1. f = Body(f)
    <3> HIDE DEF Body
    <3> QED BY <1>4
  <2> HIDE DEF f
  <2> QED BY <2>1
<1>6. FreedPages(t, c) = h[n]
  <2>1. Len(c) = n
    BY FunctionIsSeq
  <2>2. FreedPages(t, c) = f[n]
    BY <2>1 DEF FreedPages, Step
  <2> HIDE DEF f
  <2> QED BY <2>2, <1>5
<1> HIDE DEF f
<1> DEFINE After(i) == [u \in Tables |-> [v \in Pages(u) |->
                          IF u = t /\ \E k \in 1 .. i : c[k] = v THEN Unmapped
                          ELSE Map[u][v]]]
           Good(i, s) == s \in S /\ OnePlace(s, After(i))
           T == {i \in Nat : i <= n => Good(i, h[i])}
<1>7. ASSUME NEW m3, NEW m4, NEW s,
             \A u \in Tables : \A v \in Pages(u) : m3[u][v] = m4[u][v], OnePlace(s, m3)
      PROVE  OnePlace(s, m4)
  BY <1>7 DEF OnePlace
<1>8. 0 \in T
  <2>1. h[0] = pageStack
    BY <1>5
  <2>2. 1 .. 0 = {}
    OBVIOUS
  <2>3. \A u \in Tables : \A v \in Pages(u) : Map[u][v] = After(0)[u][v]
    BY <2>2
  <2>4. OnePlace(pageStack, After(0))
    <3> HIDE DEF After
    <3> QED BY <2>3, <1>7
  <2> QED BY <2>1, <2>4
<1>9. ASSUME NEW i \in Nat, i \in T PROVE i + 1 \in T
  <2>1. ASSUME i + 1 <= n PROVE Good(i + 1, h[i + 1])
    <3>1. PICK s : s = h[i]
      OBVIOUS
    <3>2. Good(i, s)
      <4> HIDE DEF Good
      <4> QED BY <3>1, <2>1, <1>9
    <3>3. h[i + 1] = Step(i + 1, s)
      <4>1. i + 1 \in 0 .. n /\ i + 1 # 0 /\ (i + 1) - 1 = i
        BY <2>1
      <4>2. h[i + 1] = Step(i + 1, h[(i + 1) - 1])
        BY <4>1, <1>5
      <4> QED BY <4>1, <4>2, <3>1
    <3>4. i + 1 \in 1 .. n /\ c[i + 1] \in Pages(t)
      BY <2>1
    <3>5. PICK q \in 0 .. PageFrames : q = Map[t][c[i + 1]].page
      BY <3>4
    <3>6. PICK v \in Pages(t) : v = c[i + 1]
      BY <3>4
    <3>7. PICK s2 : s2 = IF q # NullPage THEN Append(s, q) ELSE s
      OBVIOUS
    <3>8. h[i + 1] = s2
      BY <3>2, <3>3, <3>4, <3>5, <3>7, <1>1
    <3>9. ~ \E k \in 1 .. i : c[k] = v
      BY <3>4, <3>6
    <3>10. After(i)[t][v] = Map[t][v]
      BY <3>9
    <3>11. ASSUME NEW u \in Tables, NEW w \in Pages(u)
           PROVE  After(i + 1)[u][w] = IF u = t /\ w = v THEN Unmapped ELSE After(i)[u][w]
      <4>1. (\E k \in 1 .. i + 1 : c[k] = w) <=> (w = v \/ \E k \in 1 .. i : c[k] = w)
        <5>1. ASSUME NEW k \in 1 .. i + 1, c[k] = w PROVE w = v \/ \E j \in 1 .. i : c[j] = w
          <6>1. k = i + 1 \/ k \in 1 .. i
            OBVIOUS
          <6> QED BY <6>1, <5>1, <3>6
        <5>2. \A k \in 1 .. i : k \in 1 .. i + 1
          OBVIOUS
        <5>3. i + 1 \in 1 .. i + 1
          OBVIOUS
        <5> QED BY <5>1, <5>2, <5>3, <3>6
      <4>2. After(i + 1)[u][w] = IF u = t /\ \E k \in 1 .. i + 1 : c[k] = w THEN Unmapped ELSE Map[u][w]
        OBVIOUS
      <4>3. After(i)[u][w] = IF u = t /\ \E k \in 1 .. i : c[k] = w THEN Unmapped ELSE Map[u][w]
        OBVIOUS
      <4> HIDE DEF After
      <4> QED BY <4>1, <4>2, <4>3
    <3>12. s2 \in S /\ OnePlace(s2, After(i + 1))
      <4>1. q = After(i)[t][v].page /\ OnePlace(s, After(i)) /\ s \in Seq(Frames)
        BY <3>2, <3>5, <3>6, <3>10
      <4> HIDE DEF After
      <4>2. Freed(s, s2, After(i), After(i + 1), t, v)
        BY <3>7, <3>11, <4>1 DEF Freed
      <4> QED BY <4>2, FreePage
    <3> QED BY <3>8, <3>12
  <2> HIDE DEF Good
  <2> QED BY <2>1
<1>10. Good(n, h[n])
  <2> HIDE DEF T, Good
  <2>1. \A i \in Nat : i \in T
    BY <1>8, <1>9, NatSetInduction
  <2>2. n \in T /\ n <= n
    BY <2>1
  <2> QED BY <2>2 DEF T
<1>11. \A u \in Tables : \A v \in Pages(u) : After(n)[u][v] = m2[u][v]
  OBVIOUS
<1>12. OnePlace(h[n], m2)
  <2>1. OnePlace(h[n], After(n))
    BY <1>10
  <2> HIDE DEF After
  <2> QED BY <2>1, <1>7, <1>11
<1> QED BY <1>6, <1>10, <1>12

---------------------------------------------------------------------------
(* The inductive invariant, and the pages of a process. *)

\* The layout of a process that is not there is empty.
LayoutOf(p) == IF p \in DOMAIN layout THEN layout[p] ELSE NoPages

\* What TranslatesAsAsked says of page v of a process, its entry being e.
PageAsked(lay, v, e) ==
    CASE v \in 1 .. lay.code -> UserRights(e) = "RO" /\ "xn" \notin e.attr
      [] v \in Range(AddressSpace(lay)) \ (1 .. lay.code) ->
            UserRights(e) = "RW" /\ "xn" \in e.attr
      [] OTHER -> e = Unmapped

\* Processes have the pages that they asked for, and no others.
ProcessesAsked ==
    /\ DOMAIN layout \subseteq Procs
    /\ \A p \in DOMAIN layout : layout[p] \in Layouts
    /\ \A p \in Procs : \A v \in Pages(p) :
          /\ Map[p][v].page \in 0 .. PageFrames
          /\ PageAsked(LayoutOf(p), v, Map[p][v])

\* The device that map_device was asked for.
DeviceMapped(m, d) ==
    \A i \in 0 .. d.size - 1 :
       m[d.virt + i].page = d.base + i /\ UserRights(m[d.virt + i]) = "NA"

\* Devices lie one behind the other, and nothing behind the last.
KernelAsked ==
    /\ nextDevice \in 0 .. SectionPages * KernelSections
    /\ \A v \in Pages(Kernel) : v >= nextDevice => Map[Kernel][v] = Unmapped
    /\ devices \in Seq([base : Nat, size : Nat, virt : Nat])
    /\ \A d \in Range(devices) :
          d.virt + d.size <= nextDevice /\ DeviceMapped(Map[Kernel], d)

\* PagesConserved, as the steps need it.
FramesPlaced ==
    /\ pageStack \in Seq(Frames)
    /\ OnePlace(pageStack, Map)

\* All that holds as long as no null pointer has been used.
Sound ==
    /\ TablesTyped
    /\ Listed
    /\ Owned
    /\ ProcessesAsked
    /\ KernelAsked
    /\ FramesPlaced

\* The inductive invariant.
SpaceInv == mode = "run" => Sound

\* The descriptors that add_entry makes of the arguments used.
LEMMA EntryFacts ==
    ASSUME NEW page \in Nat
    PROVE  /\ Entry(page, "RW_RO", "CODE", FALSE) =
                 [page |-> page, attr |-> {"small", "ap1"}]
           /\ \A type \in {"DATA", "STACK", "DEVICE"} :
                 /\ Entry(page, "RW_RW", type, FALSE) =
                       [page |-> page, attr |-> {"small", "xn", "ap1", "ap0"}]
                 /\ Entry(page, "RW_NA", type, FALSE) =
                       [page |-> page, attr |-> {"small", "xn", "ap0"}]
           /\ Entry(page, "RO_NA", "CODE", FALSE) =
                 [page |-> page, attr |-> {"small", "ap2", "ap0"}]
  BY DEF Entry

\* Entries that let a process execute, and write.
CodeEntry(e) == e \in Entries /\ e # Unmapped /\ UserRights(e) = "RO" /\ "xn" \notin e.attr
DataEntry(e) == e \in Entries /\ e # Unmapped /\ UserRights(e) = "RW" /\ "xn" \in e.attr

\* The entries of code, data, stacks and devices.
LEMMA EntryKinds ==
    ASSUME NEW page \in Nat
    PROVE  /\ CodeEntry(Entry(page, "RW_RO", "CODE", FALSE))
           /\ DataEntry(Entry(page, "RW_RW", "DATA", FALSE))
           /\ DataEntry(Entry(page, "RW_RW", "STACK", FALSE))
           /\ Entry(page, "RW_NA", "DEVICE", FALSE) \in Entries
           /\ Entry(page, "RW_NA", "DEVICE", FALSE) # Unmapped
           /\ UserRights(Entry(page, "RW_NA", "DEVICE", FALSE)) = "NA"
           /\ \A perm \in {"RW_RO", "RW_RW", "RW_NA"}, type \in {"CODE", "DATA", "STACK", "DEVICE"} :
                 Entry(page, perm, type, FALSE).page = page
<1>1. \A e : e.attr # {} => e # Unmapped
  BY DEF Unmapped
<1>2. CodeEntry(Entry(page, "RW_RO", "CODE", FALSE))
  <2>1. PICK e : e = Entry(page, "RW_RO", "CODE", FALSE)
    OBVIOUS
  <2>2. e = [page |-> page, attr |-> {"small", "ap1"}]
    BY <2>1, EntryFacts
  <2>3. e.attr = {"small", "ap1"} /\ e \in Entries
    BY <2>2 DEF Entries, Bits
  <2>4. e # Unmapped /\ "ap1" \in e.attr /\ "ap0" \notin e.attr /\ "xn" \notin e.attr
    BY <1>1, <2>3
  <2>5. UserRights(e) = "RO"
    BY <2>4 DEF UserRights
  <2> QED BY <2>1, <2>3, <2>4, <2>5 DEF CodeEntry
<1>3. ASSUME NEW type \in {"DATA", "STACK"} PROVE DataEntry(Entry(page, "RW_RW", type, FALSE))
  <2>1. PICK e : e = Entry(page, "RW_RW", type, FALSE)
    OBVIOUS
  <2>2. e = [page |-> page, attr |-> {"small", "xn", "ap1", "ap0"}]
    BY <2>1, EntryFacts
  <2>3. e.attr = {"small", "xn", "ap1", "ap0"} /\ e \in Entries
    BY <2>2 DEF Entries, Bits
  <2> QED BY <1>1, <2>1, <2>3 DEF DataEntry, UserRights
<1>4. /\ Entry(page, "RW_NA", "DEVICE", FALSE) \in Entries
      /\ Entry(page, "RW_NA", "DEVICE", FALSE) # Unmapped
      /\ UserRights(Entry(page, "RW_NA", "DEVICE", FALSE)) = "NA"
  <2>1. PICK e : e = Entry(page, "RW_NA", "DEVICE", FALSE)
    OBVIOUS
  <2>2. e = [page |-> page, attr |-> {"small", "xn", "ap0"}]
    BY <2>1, EntryFacts
  <2>3. e.attr = {"small", "xn", "ap0"} /\ e \in Entries
    BY <2>2 DEF Entries, Bits
  <2> QED BY <1>1, <2>1, <2>3 DEF UserRights
<1>5. \A perm, type : Entry(page, perm, type, FALSE).page = page
  BY DEF Entry
<1> QED BY <1>2, <1>3, <1>4, <1>5

\* f puts 1 .. k into some order.
Reorders(f, k) ==
    /\ f \in [1 .. k -> 1 .. k]
    /\ \A i, j \in 1 .. k : f[i] = f[j] => i = j
    /\ \A j \in 1 .. k : \E i \in 1 .. k : f[i] = j

\* The code and the data from page 1, then the pages of the stack in some order.
Pieces(c, b, k, f) ==
    /\ Reorders(f, k)
    /\ c = [i \in 1 .. b |-> i] \o [i \in 1 .. k |-> StackPage(f[i])]
AllPages(c, b, k, p) ==
    /\ c \in [1 .. b + k -> Pages(p)]
    /\ \A i, j \in 1 .. b + k : c[i] = c[j] => i = j
    /\ \A i \in 1 .. b : c[i] = i
    /\ \A i \in 1 .. b + k : i > b => c[i] > b
    /\ {c[i] : i \in 1 .. b + k} = (1 .. b) \cup {StackPage(i) : i \in 1 .. k}

\* Program and stack do not overlap.
LEMMA TwoPieces ==
    ASSUME NEW p \in Procs, NEW b \in Nat, NEW k \in Nat,
           b + k < SectionPages * Sections, NEW f, NEW c, Pieces(c, b, k, f)
    PROVE  AllPages(c, b, k, p)
<1>a. Reorders(f, k)
  BY DEF Pieces
<1>b. c = [i \in 1 .. b |-> i] \o [i \in 1 .. k |-> StackPage(f[i])]
  BY DEF Pieces
<1>1. PICK M \in Nat : M = SectionPages * Sections
  BY SizesAssumption
<1>2. Pages(p) = 0 .. M - 1
  <2>1. p # Kernel
    BY SizesAssumption DEF Kernel
  <2> QED BY <1>1, <2>1 DEF Pages, SectionCount
<1>3. \A i : StackPage(i) = M - i
  BY <1>1 DEF StackPage
<1>4. b + k < M
  BY <1>1
<1>5. PICK x : x = [i \in 1 .. b |-> i]
  OBVIOUS
<1>6. PICK y : y = [i \in 1 .. k |-> M - f[i]]
  OBVIOUS
<1>7. x \in [1 .. b -> 0 .. M - 1] /\ y \in [1 .. k -> 0 .. M - 1]
  <2>1. \A i \in 1 .. b : i \in 0 .. M - 1
    BY <1>4
  <2>2. \A i \in 1 .. k : M - f[i] \in 0 .. M - 1
    <3>1. \A i \in 1 .. k : f[i] \in 1 .. k
      BY <1>a DEF Reorders
    <3>2. \A j \in 1 .. k : M - j \in 0 .. M - 1
      BY <1>4
    <3> QED BY <3>1, <3>2
  <2> QED BY <2>1, <2>2, <1>5, <1>6
<1>8. /\ x \in Seq(0 .. M - 1) /\ Len(x) = b
      /\ y \in Seq(0 .. M - 1) /\ Len(y) = k
  <2>1. x \in Seq(0 .. M - 1) /\ Len(x) = b
    BY <1>7, FunctionIsSeq
  <2>2. y \in Seq(0 .. M - 1) /\ Len(y) = k
    BY <1>7, FunctionIsSeq
  <2> QED BY <2>1, <2>2
<1>9. c = x \o y
  BY <1>b, <1>3, <1>5, <1>6
<1>10. /\ c \in Seq(0 .. M - 1) /\ Len(c) = b + k
       /\ \A i \in 1 .. b + k : c[i] = IF i <= b THEN x[i] ELSE y[i - b]
  <2>1. /\ x \o y \in Seq(0 .. M - 1)
        /\ Len(x \o y) = Len(x) + Len(y)
        /\ \A i \in 1 .. Len(x) + Len(y) : (x \o y)[i] =
              IF i <= Len(x) THEN x[i] ELSE y[i - Len(x)]
    BY <1>8, ConcatProperties
  <2> QED BY <2>1, <1>8, <1>9
<1>11. c \in [1 .. b + k -> Pages(p)]
  BY <1>2, <1>10, LenProperties
<1>12. \A i \in 1 .. b : c[i] = i
  BY <1>5, <1>10
<1>13. ASSUME NEW i \in 1 .. b + k, i > b
       PROVE  i - b \in 1 .. k /\ f[i - b] \in 1 .. k /\ c[i] = M - f[i - b] /\ c[i] > b
  <2>1. i - b \in 1 .. k
    BY <1>13
  <2>2. f[i - b] \in 1 .. k
    BY <1>a, <2>1 DEF Reorders
  <2>3. c[i] = M - f[i - b]
    <3>1. c[i] = y[i - b]
      BY <1>10, <1>13
    <3> QED BY <3>1, <2>1, <1>6
  <2> QED BY <2>1, <2>2, <2>3, <1>4
<1>14. ASSUME NEW i \in 1 .. b + k, NEW j \in 1 .. b + k, c[i] = c[j] PROVE i = j
  <2>1. CASE i <= b /\ j <= b
    BY <2>1, <1>12, <1>14
  <2>2. CASE i <= b /\ j > b
    <3>1. c[i] = i /\ c[j] > b
      BY <2>2, <1>12, <1>13
    <3> QED BY <3>1, <2>2, <1>14
  <2>3. CASE i > b /\ j <= b
    <3>1. c[j] = j /\ c[i] > b
      BY <2>3, <1>12, <1>13
    <3> QED BY <3>1, <2>3, <1>14
  <2>4. CASE i > b /\ j > b
    <3>1. PICK g, h \in 1 .. k : g = f[i - b] /\ h = f[j - b]
      BY <2>4, <1>13
    <3>2. M - g = M - h
      BY <3>1, <2>4, <1>13, <1>14
    <3>3. g = h
      BY <3>2
    <3>4. i - b = j - b
      BY <3>1, <3>3, <2>4, <1>13, <1>a DEF Reorders
    <3> QED BY <3>4
  <2>5. (i <= b \/ i > b) /\ (j <= b \/ j > b)
    OBVIOUS
  <2> QED BY <2>1, <2>2, <2>3, <2>4, <2>5
<1>15. {c[i] : i \in 1 .. b + k} = (1 .. b) \cup {M - i : i \in 1 .. k}
  <2>1. ASSUME NEW i \in 1 .. b + k PROVE c[i] \in (1 .. b) \cup {M - j : j \in 1 .. k}
    <3>1. CASE i <= b
      BY <3>1, <1>12
    <3>2. CASE i > b
      BY <3>2, <1>13
    <3>3. i <= b \/ i > b
      OBVIOUS
    <3> QED BY <3>1, <3>2, <3>3
  <2>2. ASSUME NEW v \in 1 .. b PROVE v \in {c[i] : i \in 1 .. b + k}
    <3>1. v \in 1 .. b + k /\ c[v] = v
      BY <1>12
    <3> QED BY <3>1
  <2>3. ASSUME NEW j \in 1 .. k PROVE M - j \in {c[i] : i \in 1 .. b + k}
    <3>1. PICK i \in 1 .. k : f[i] = j
      BY <1>a DEF Reorders
    <3>2. PICK g : g = b + i
      OBVIOUS
    <3>3. g \in 1 .. b + k /\ g > b /\ g - b = i
      BY <3>2
    <3>4. c[g] = M - j
      BY <3>1, <3>3, <1>13
    <3> QED BY <3>3, <3>4
  <2>4. {c[i] : i \in 1 .. b + k} \subseteq (1 .. b) \cup {M - j : j \in 1 .. k}
    BY <2>1
  <2>5. (1 .. b) \cup {M - j : j \in 1 .. k} \subseteq {c[i] : i \in 1 .. b + k}
    BY <2>2, <2>3
  <2> QED BY <2>4, <2>5
<1>16. {M - i : i \in 1 .. k} = {StackPage(i) : i \in 1 .. k}
  BY <1>1 DEF StackPage
<1> QED BY <1>11, <1>12, <1>13, <1>14, <1>15, <1>16 DEF AllPages

\* The pages of a process: their number, their order and which they are.
SpaceSize(lay) == lay.code + lay.data + lay.stack
PagesOf(lay) == (1 .. lay.code + lay.data) \cup {StackPage(i) : i \in 1 .. lay.stack}

\* A layout is empty or has code and a stack, and fits.
LEMMA LayoutTyped ==
    ASSUME NEW lay \in Layouts
    PROVE  /\ lay.code \in Nat /\ lay.data \in Nat /\ lay.stack \in Nat
           /\ lay = NoPages \/ (lay.code > 0 /\ lay.stack = StackPages)
           /\ lay = NoPages \/ lay.code + lay.data + lay.stack < SectionPages * Sections
<1>1. CASE lay = NoPages
  BY <1>1 DEF NoPages
<1>2. CASE lay # NoPages
  <2>1. PICK prog \in Programs :
           lay = [code |-> prog[1], data |-> prog[2], stack |-> StackPages]
    BY <1>2 DEF Layouts
  <2>2. prog[1] \in Nat \ {0} /\ prog[2] \in Nat /\ StackPages \in Nat
        /\ 1 + prog[1] + prog[2] + StackPages <= SectionPages * Sections
    BY ProgramsAssumption
  <2>3. SectionPages * Sections \in Nat
    BY SizesAssumption
  <2> QED BY <2>1, <2>2, <2>3
<1> QED BY <1>1, <1>2

\* A sequence of all the pages of a process.
Lists(c, lay, p) ==
    /\ c \in [1 .. SpaceSize(lay) -> Pages(p)]
    /\ \A i, j \in 1 .. SpaceSize(lay) : c[i] = c[j] => i = j
    /\ {c[i] : i \in 1 .. SpaceSize(lay)} = PagesOf(lay)

\* The pages of a kernel thread: none.
LEMMA EmptyLists ==
    ASSUME NEW p \in Procs
    PROVE  /\ SpaceSize(NoPages) = 0 /\ PagesOf(NoPages) = {}
           /\ Lists(<<>>, NoPages, p)
           /\ [i \in 1 .. 0 |-> i] = <<>> /\ [i \in 1 .. 0 |-> StackPage(i)] = <<>>
           /\ <<>> \o <<>> = <<>>
<1>1. 1 .. 0 = {}
  OBVIOUS
<1>2. NoPages.code = 0 /\ NoPages.data = 0 /\ NoPages.stack = 0
  BY DEF NoPages
<1>3. SpaceSize(NoPages) = 0 /\ PagesOf(NoPages) = {}
  BY <1>1, <1>2 DEF SpaceSize, PagesOf
<1>4. <<>> \in [1 .. 0 -> Pages(p)]
  BY <1>1
<1>5. Lists(<<>>, NoPages, p)
  BY <1>1, <1>3, <1>4 DEF Lists
<1>6. [i \in 1 .. 0 |-> i] = <<>> /\ [i \in 1 .. 0 |-> StackPage(i)] = <<>>
  BY <1>1
<1>7. <<>> \o <<>> = <<>>
  OBVIOUS
<1> QED BY <1>3, <1>5, <1>6, <1>7

\* setup_addrspace maps each page of the process once.
LEMMA AddressSpaceLists ==
    ASSUME NEW lay \in Layouts, NEW p \in Procs
    PROVE  /\ Lists(AddressSpace(lay), lay, p)
           /\ \A i \in 1 .. SpaceSize(lay) :
                 IF i <= lay.code + lay.data THEN AddressSpace(lay)[i] = i
                 ELSE AddressSpace(lay)[i] > lay.code + lay.data
<1>1. lay.code \in Nat /\ lay.data \in Nat /\ lay.stack \in Nat
  BY LayoutTyped
<1>2. AddressSpace(lay) =
         [i \in 1 .. lay.code + lay.data |-> i] \o [i \in 1 .. lay.stack |-> StackPage(i)]
  BY DEF AddressSpace, ProgramPages
<1>3. CASE lay = NoPages
  <2>1. lay.code = 0 /\ lay.data = 0 /\ lay.stack = 0 /\ 0 + 0 = 0
    BY <1>3 DEF NoPages
  <2>2. AddressSpace(lay) = <<>>
    BY <1>2, <2>1, EmptyLists
  <2>3. SpaceSize(lay) = 0 /\ 1 .. 0 = {}
    BY <2>1 DEF SpaceSize
  <2> QED BY <1>3, <2>2, <2>3, EmptyLists
<1>4. CASE lay # NoPages
  <2>1. PICK b \in Nat : b = lay.code + lay.data
    BY <1>1
  <2>2. PICK k \in Nat : k = lay.stack
    BY <1>1
  <2>3. b + k < SectionPages * Sections /\ SpaceSize(lay) = b + k
    BY <1>1, <1>4, <2>1, <2>2, LayoutTyped DEF SpaceSize
  <2>4. PICK f : f = [i \in 1 .. k |-> i]
    OBVIOUS
  <2>5. Reorders(f, k)
    BY <2>4 DEF Reorders
  <2>6. PICK c : c = AddressSpace(lay)
    OBVIOUS
  <2>7. c = [i \in 1 .. b |-> i] \o [i \in 1 .. k |-> StackPage(f[i])]
    BY <1>2, <2>1, <2>2, <2>4, <2>6
  <2>8. AllPages(c, b, k, p)
    BY <2>3, <2>5, <2>7, TwoPieces DEF Pieces
  <2>9. Lists(c, lay, p)
    BY <2>1, <2>2, <2>3, <2>8 DEF Lists, PagesOf, AllPages
  <2>10. ASSUME NEW i \in 1 .. b + k
         PROVE  IF i <= b THEN c[i] = i ELSE c[i] > b
    <3>1. i <= b => i \in 1 .. b
      OBVIOUS
    <3>2. ~(i <= b) => i > b
      OBVIOUS
    <3> QED BY <3>1, <3>2, <2>8 DEF AllPages
  <2> QED BY <2>1, <2>3, <2>6, <2>9, <2>10
<1> QED BY <1>3, <1>4

\* The destructor unmaps the same pages, in another order.
LEMMA DeletedPagesList ==
    ASSUME NEW lay \in Layouts, NEW p \in Procs
    PROVE  Lists(DeletedPages(lay), lay, p)
<1>1. lay.code \in Nat /\ lay.data \in Nat /\ lay.stack \in Nat
  BY LayoutTyped
<1>2. CASE lay = NoPages
  <2>1. lay.code = 0 /\ lay.stack = 0
    BY <1>2 DEF NoPages
  <2>2. DeletedPages(lay) = <<>> \o <<>>
    BY <2>1 DEF DeletedPages
  <2> QED BY <1>2, <2>2, EmptyLists
<1>3. CASE lay # NoPages
  <2>1. PICK b \in Nat : b = lay.code + lay.data
    BY <1>1
  <2>2. PICK k \in Nat : k = lay.stack
    BY <1>1
  <2>3. b + k < SectionPages * Sections /\ SpaceSize(lay) = b + k
        /\ lay.code > 0 /\ lay.stack = StackPages
    BY <1>1, <1>3, <2>1, <2>2, LayoutTyped DEF SpaceSize
  <2>4. PICK f : f = [i \in 1 .. k |-> k + 1 - i]
    OBVIOUS
  <2>5. Reorders(f, k)
    <3>1. \A i \in 1 .. k : k + 1 - i \in 1 .. k
      OBVIOUS
    <3>2. f \in [1 .. k -> 1 .. k]
      BY <3>1, <2>4
    <3>3. \A i, j \in 1 .. k : f[i] = f[j] => i = j
      BY <2>4
    <3>4. ASSUME NEW j \in 1 .. k PROVE \E i \in 1 .. k : f[i] = j
      <4>1. k + 1 - j \in 1 .. k /\ f[k + 1 - j] = j
        BY <2>4
      <4> QED BY <4>1
    <3> QED BY <3>2, <3>3, <3>4 DEF Reorders
  <2>6. PICK c : c = DeletedPages(lay)
    OBVIOUS
  <2>7. c = [i \in 1 .. b |-> i] \o [i \in 1 .. k |-> StackPage(f[i])]
    <3>1. ProgramPages(lay) = [i \in 1 .. b |-> i]
      BY <2>1 DEF ProgramPages
    <3>2. CASE k > 0
      <4>1. DeletedPages(lay) = ProgramPages(lay) \o
               [i \in 1 .. StackPages |-> StackPage(StackPages + 1 - i)]
        BY <3>2, <2>2, <2>3 DEF DeletedPages
      <4>2. [i \in 1 .. StackPages |-> StackPage(StackPages + 1 - i)]
               = [i \in 1 .. k |-> StackPage(f[i])]
        BY <2>2, <2>3, <2>4
      <4> QED BY <3>1, <4>1, <4>2, <2>6
    <3>3. CASE k = 0
      <4>1. DeletedPages(lay) = ProgramPages(lay) \o <<>>
        <5>1. ~(lay.stack > 0) /\ lay.code > 0
          BY <3>3, <2>2, <2>3
        <5> QED BY <5>1, Zenon DEF DeletedPages
      <4>2. [i \in 1 .. k |-> StackPage(f[i])] = <<>>
        <5>1. 1 .. k = {}
          BY <3>3
        <5> QED BY <5>1
      <4> QED BY <3>1, <4>1, <4>2, <2>6
    <3> QED BY <3>2, <3>3
  <2>8. AllPages(c, b, k, p)
    BY <2>3, <2>5, <2>7, TwoPieces DEF Pieces
  <2>9. Lists(c, lay, p)
    BY <2>1, <2>2, <2>3, <2>8 DEF Lists, PagesOf, AllPages
  <2> QED BY <2>6, <2>9
<1> QED BY <1>2, <1>3

\* PageAsked, with the pages of the process named.
LEMMA PageAskedCases ==
    ASSUME NEW lay \in Layouts, NEW p \in Procs, NEW v \in Pages(p), NEW e
    PROVE  PageAsked(lay, v, e) <=>
              IF v \in 1 .. lay.code THEN UserRights(e) = "RO" /\ "xn" \notin e.attr
              ELSE IF v \in PagesOf(lay) THEN UserRights(e) = "RW" /\ "xn" \in e.attr
              ELSE e = Unmapped
<1>1. PICK c : c = AddressSpace(lay)
  OBVIOUS
<1>2. Lists(c, lay, p)
  BY <1>1, AddressSpaceLists
<1>3. Range(c) = PagesOf(lay)
  BY <1>2 DEF Lists, Range
<1> QED BY <1>1, <1>3 DEF PageAsked

\* The tables of the processes and the kernel's.
LEMMA TablesOfKinds ==
    /\ Kernel \in Tables /\ \A p \in Procs : p \in Tables /\ p # Kernel
    /\ PageFrames \in Nat /\ Frames = 1 .. PageFrames
  BY SizesAssumption DEF Tables, Kernel, Frames

\* The n-th page allocated is the n-th from the top of the stack, or none.
LEMMA AllocatedPages ==
    ASSUME pageStack \in Seq(Frames), NEW k \in Nat, k > 0
    PROVE  /\ AllocatedPage(k) = IF k <= Len(pageStack)
                                 THEN pageStack[Len(pageStack) + 1 - k] ELSE NullPage
           /\ AllocatedPage(k) \in 0 .. PageFrames
           /\ AllocatedPage(k) \in Nat
<1>1. Len(pageStack) \in Nat
  BY LenProperties
<1>2. CASE k <= Len(pageStack)
  <2>1. Len(pageStack) + 1 - k \in 1 .. Len(pageStack)
    BY <1>1, <1>2
  <2>2. pageStack[Len(pageStack) + 1 - k] \in Frames
    BY <2>1, ElementOfSeq
  <2> QED BY <1>2, <2>2, TablesOfKinds DEF AllocatedPage
<1>3. CASE ~(k <= Len(pageStack))
  BY <1>3, TablesOfKinds DEF AllocatedPage, NullPage
<1> QED BY <1>2, <1>3

\* The requests of setup_addrspace.
SetupRequest(lay, i) ==
    IF i <= lay.code THEN Entry(AllocatedPage(i), "RW_RO", "CODE", FALSE)
    ELSE IF i <= lay.code + lay.data THEN Entry(AllocatedPage(i), "RW_RW", "DATA", FALSE)
    ELSE Entry(AllocatedPage(i), "RW_RW", "STACK", FALSE)
SetupRequests(lay) ==
    [i \in 1 .. SpaceSize(lay) |->
        [virt |-> AddressSpace(lay)[i], entry |-> SetupRequest(lay, i)]]

\* setup_addrspace in terms of its requests.
LEMMA SetupMeaning ==
    ASSUME NEW p \in Procs, NEW lay \in Layouts, SetupAddrspace(p, lay)
    PROVE  /\ \E at \in Homes(p, SetupRequests(lay)) : MapPages(p, SetupRequests(lay), at)
           /\ pageStack' = [i \in 1 .. Len(pageStack) - SpaceSize(lay) |-> pageStack[i]]
           /\ layout' = [q \in DOMAIN layout \cup {p} |-> IF q = p THEN lay ELSE layout[q]]
<1> DEFINE virts == AddressSpace(lay)
           requests == [i \in DOMAIN virts |->
            [virt |-> virts[i],
             entry |-> CASE i <= lay.code ->
                              Entry(AllocatedPage(i), "RW_RO", "CODE", FALSE)
                         [] i \in lay.code + 1 .. lay.code + lay.data ->
                              Entry(AllocatedPage(i), "RW_RW", "DATA", FALSE)
                         [] OTHER ->
                              Entry(AllocatedPage(i), "RW_RW", "STACK", FALSE)]]
<1>1. lay.code \in Nat /\ lay.data \in Nat /\ lay.stack \in Nat /\ SpaceSize(lay) \in Nat
  BY LayoutTyped DEF SpaceSize
<1>2. virts \in [1 .. SpaceSize(lay) -> Pages(p)]
  BY AddressSpaceLists DEF Lists
<1>3. DOMAIN virts = 1 .. SpaceSize(lay) /\ Len(virts) = SpaceSize(lay)
  <2> HIDE DEF virts
  <2> QED BY <1>1, <1>2, FunctionIsSeq
<1>4. ASSUME NEW i \in 1 .. SpaceSize(lay)
      PROVE  (CASE i <= lay.code -> Entry(AllocatedPage(i), "RW_RO", "CODE", FALSE)
                [] i \in lay.code + 1 .. lay.code + lay.data ->
                      Entry(AllocatedPage(i), "RW_RW", "DATA", FALSE)
                [] OTHER -> Entry(AllocatedPage(i), "RW_RW", "STACK", FALSE))
             = SetupRequest(lay, i)
  <2>1. /\ i \in lay.code + 1 .. lay.code + lay.data <=>
               ~(i <= lay.code) /\ i <= lay.code + lay.data
        /\ i \in Int
    BY <1>1
  <2>2. CASE i <= lay.code
    BY <2>1, <2>2 DEF SetupRequest
  <2>3. CASE ~(i <= lay.code) /\ i <= lay.code + lay.data
    BY <2>1, <2>3 DEF SetupRequest
  <2>4. CASE ~(i <= lay.code) /\ ~(i <= lay.code + lay.data)
    BY <2>1, <2>4 DEF SetupRequest
  <2> QED BY <2>2, <2>3, <2>4
<1>5. requests = SetupRequests(lay)
  <2> HIDE DEF virts
  <2>1. requests = [i \in 1 .. SpaceSize(lay) |-> requests[i]]
    BY <1>3
  <2>2. ASSUME NEW i \in 1 .. SpaceSize(lay)
        PROVE  requests[i] = [virt |-> virts[i], entry |-> SetupRequest(lay, i)]
    BY <1>3, <1>4
  <2> HIDE DEF requests
  <2> QED BY <2>1, <2>2 DEF SetupRequests, virts
<1>6. \E at \in Homes(p, requests) : MapPages(p, requests, at)
  BY DEF SetupAddrspace
<1>7. pageStack' = [i \in 1 .. Len(pageStack) - Len(virts) |-> pageStack[i]]
  BY DEF SetupAddrspace
<1>8. layout' = [q \in DOMAIN layout \cup {p} |-> IF q = p THEN lay ELSE layout[q]]
  BY DEF SetupAddrspace
<1> HIDE DEF requests, virts
<1> QED BY <1>3, <1>5, <1>6, <1>7, <1>8

\* The requests of setup_addrspace: the pages that allocate_page returns, or
\* null once there are none, with the rights that the process asked for.
LEMMA SetupRequestsTyped ==
    ASSUME NEW p \in Procs, NEW lay \in Layouts, pageStack \in Seq(Frames)
    PROVE  /\ SpaceSize(lay) \in Nat
           /\ SetupRequests(lay) \in Requests(p, SpaceSize(lay))
           /\ \A k \in 1 .. SpaceSize(lay) :
                 /\ SetupRequests(lay)[k].entry.page =
                       IF k <= Len(pageStack)
                       THEN pageStack[Len(pageStack) + 1 - k] ELSE NullPage
                 /\ SetupRequests(lay)[k].entry.page \in 0 .. PageFrames
                 /\ SetupRequests(lay)[k].virt \in PagesOf(lay)
                 /\ PageAsked(lay, SetupRequests(lay)[k].virt, SetupRequests(lay)[k].entry)
           /\ \A v \in PagesOf(lay) : \E k \in 1 .. SpaceSize(lay) :
                 SetupRequests(lay)[k].virt = v
<1>1. lay.code \in Nat /\ lay.data \in Nat /\ lay.stack \in Nat
  BY LayoutTyped
<1>2. PICK n \in Nat : n = SpaceSize(lay)
  BY <1>1 DEF SpaceSize
<1>3. PICK c : c = AddressSpace(lay)
  OBVIOUS
<1>4. PICK r : r = SetupRequests(lay)
  OBVIOUS
<1>5. /\ c \in [1 .. n -> Pages(p)]
      /\ \A i, j \in 1 .. n : c[i] = c[j] => i = j
      /\ {c[i] : i \in 1 .. n} = PagesOf(lay)
      /\ \A i \in 1 .. n : IF i <= lay.code + lay.data THEN c[i] = i
                           ELSE c[i] > lay.code + lay.data
  BY <1>2, <1>3, AddressSpaceLists DEF Lists
<1>6. r = [i \in 1 .. n |-> [virt |-> c[i], entry |-> SetupRequest(lay, i)]]
  BY <1>2, <1>3, <1>4 DEF SetupRequests
<1>7. ASSUME NEW i \in 1 .. n
      PROVE  /\ IF i <= lay.code THEN CodeEntry(SetupRequest(lay, i))
                ELSE DataEntry(SetupRequest(lay, i))
             /\ SetupRequest(lay, i).page = AllocatedPage(i)
  <2>1. AllocatedPage(i) \in Nat
    BY AllocatedPages
  <2> QED BY <2>1, EntryKinds DEF SetupRequest
<1>8. \A i \in 1 .. n : SetupRequest(lay, i) \in Entries /\ SetupRequest(lay, i) # Unmapped
  BY <1>7 DEF CodeEntry, DataEntry
<1>9. r \in [1 .. n -> [virt : Pages(p), entry : Entries]]
  BY <1>5, <1>6, <1>8
<1>10. \A i \in 1 .. n : r[i].virt = c[i] /\ r[i].entry = SetupRequest(lay, i)
  BY <1>6
<1>11. r \in Requests(p, n)
  <2>1. \A i \in 1 .. n : r[i].entry # Unmapped
    BY <1>8, <1>10
  <2>2. \A i, j \in 1 .. n : r[i].virt = r[j].virt => i = j
    BY <1>5, <1>10
  <2> QED BY <2>1, <2>2, <1>9 DEF Requests
<1>12. ASSUME NEW k \in 1 .. n
       PROVE  /\ r[k].entry.page = IF k <= Len(pageStack)
                                   THEN pageStack[Len(pageStack) + 1 - k] ELSE NullPage
              /\ r[k].entry.page \in 0 .. PageFrames
  <2>1. r[k].entry.page = AllocatedPage(k)
    BY <1>7, <1>10
  <2> QED BY <2>1, AllocatedPages
<1>13. ASSUME NEW k \in 1 .. n
       PROVE  r[k].virt \in PagesOf(lay) /\ PageAsked(lay, r[k].virt, r[k].entry)
  <2>1. PICK v \in Pages(p) : v = c[k]
    BY <1>5
  <2>2. PICK e : e = SetupRequest(lay, k)
    OBVIOUS
  <2>3. v \in PagesOf(lay)
    BY <2>1, <1>5
  <2>4. v \in 1 .. lay.code <=> k <= lay.code
    BY <2>1, <1>1, <1>5
  <2>5. IF v \in 1 .. lay.code THEN UserRights(e) = "RO" /\ "xn" \notin e.attr
        ELSE UserRights(e) = "RW" /\ "xn" \in e.attr
    BY <2>2, <2>4, <1>7 DEF CodeEntry, DataEntry
  <2>6. PageAsked(lay, v, e)
    BY <2>3, <2>5, PageAskedCases
  <2> QED BY <2>1, <2>2, <2>3, <2>6, <1>10
<1>14. \A v \in PagesOf(lay) : \E k \in 1 .. n : r[k].virt = v
  BY <1>5, <1>10
<1> QED BY <1>2, <1>4, <1>11, <1>12, <1>13, <1>14

---------------------------------------------------------------------------
(* Every operation keeps the invariant. *)

\* The pages of a device are pages of the kernel's table.
LEMMA DevicePages ==
    ASSUME KernelAsked, NEW d \in Range(devices), NEW i \in 0 .. d.size - 1
    PROVE  d.virt + i \in Pages(Kernel)
<1>1. /\ devices \in Seq([base : Nat, size : Nat, virt : Nat])
      /\ d.virt + d.size <= nextDevice /\ nextDevice \in 0 .. SectionPages * KernelSections
  BY DEF KernelAsked
<1>2. d \in [base : Nat, size : Nat, virt : Nat]
  <2>1. PICK j \in DOMAIN devices : d = devices[j]
    BY DEF Range
  <2>2. j \in 1 .. Len(devices)
    BY <1>1, LenProperties
  <2> QED BY <2>1, <2>2, <1>1, ElementOfSeq
<1>3. Pages(Kernel) = 0 .. SectionPages * KernelSections - 1
  BY DEF Pages, SectionCount
<1>4. SectionPages * KernelSections \in Nat
  BY SizesAssumption
<1> QED BY <1>1, <1>2, <1>3, <1>4

\* KernelAsked depends on no table but the kernel's.
LEMMA KernelKept ==
    ASSUME Sound, UNCHANGED <<devices, nextDevice>>,
           \A v \in Pages(Kernel) : Map'[Kernel][v] = Map[Kernel][v]
    PROVE  KernelAsked'
<1>1. KernelAsked
  BY DEF Sound
<1>2. \A d \in Range(devices) : \A i \in 0 .. d.size - 1 : d.virt + i \in Pages(Kernel)
  BY <1>1, DevicePages
<1>3. \A d \in Range(devices) : DeviceMapped(Map[Kernel], d) => DeviceMapped(Map'[Kernel], d)
  BY <1>2 DEF DeviceMapped
<1>4. /\ nextDevice' \in 0 .. SectionPages * KernelSections
      /\ \A v \in Pages(Kernel) : v >= nextDevice' => Map'[Kernel][v] = Unmapped
      /\ devices' \in Seq([base : Nat, size : Nat, virt : Nat])
      /\ \A d \in Range(devices') :
            d.virt + d.size <= nextDevice' /\ DeviceMapped(Map'[Kernel], d)
  BY <1>1, <1>3 DEF KernelAsked
<1> QED BY <1>4 DEF KernelAsked

\* The pages of a process that is not there are not mapped.
LEMMA NothingMapped ==
    ASSUME ProcessesAsked, NEW p \in Procs, p \notin DOMAIN layout, NEW v \in Pages(p)
    PROVE  Map[p][v] = Unmapped
<1>1. LayoutOf(p) = NoPages /\ NoPages \in Layouts
  BY DEF LayoutOf, Layouts
<1>2. PageAsked(NoPages, v, Map[p][v])
  BY <1>1 DEF ProcessesAsked
<1>3. v \notin 1 .. NoPages.code /\ v \notin PagesOf(NoPages)
  <2>1. NoPages.code = 0 /\ 1 .. 0 = {}
    BY DEF NoPages
  <2> QED BY <2>1, EmptyLists
<1> QED BY <1>1, <1>2, <1>3, PageAskedCases

\* ProcessesAsked after a step that changes the pages of one process.
LEMMA ProcessesKept ==
    ASSUME ProcessesAsked, NEW p \in Procs,
           DOMAIN layout' \subseteq Procs,
           \A q \in Procs : q # p => LayoutOf(q)' = LayoutOf(q),
           \A q \in DOMAIN layout' : layout'[q] \in Layouts,
           \A q \in Procs : q # p => \A v \in Pages(q) : Map'[q][v] = Map[q][v],
           \A v \in Pages(p) : /\ Map'[p][v].page \in 0 .. PageFrames
                               /\ PageAsked(LayoutOf(p)', v, Map'[p][v])
    PROVE  ProcessesAsked'
<1>1. ASSUME NEW q \in Procs, NEW v \in Pages(q)
      PROVE  Map'[q][v].page \in 0 .. PageFrames /\ PageAsked(LayoutOf(q)', v, Map'[q][v])
  <2>1. CASE q = p
    BY <2>1
  <2>2. CASE q # p
    BY <2>2 DEF ProcessesAsked
  <2> QED BY <2>1, <2>2
<1>2. ProcessesAsked' =
         /\ DOMAIN layout' \subseteq Procs
         /\ \A q \in DOMAIN layout' : layout'[q] \in Layouts
         /\ \A q \in Procs : \A v \in Pages(q) :
               /\ Map'[q][v].page \in 0 .. PageFrames
               /\ PageAsked(LayoutOf(q)', v, Map'[q][v])
  BY DEF ProcessesAsked
<1> QED BY <1>1, <1>2

\* setup_addrspace keeps the invariant.
LEMMA SetupStep ==
    ASSUME Sound, NEW p \in Procs, p \notin DOMAIN layout, NEW lay \in Layouts,
           SetupAddrspace(p, lay), mode' = "run", UNCHANGED <<devices, nextDevice>>
    PROVE  Sound'
<1>1. /\ TablesTyped /\ Listed /\ Owned /\ ProcessesAsked /\ FramesPlaced
      /\ pageStack \in Seq(Frames) /\ OnePlace(pageStack, Map)
  BY DEF Sound, FramesPlaced
<1>2. p \in Tables /\ p # Kernel
  BY TablesOfKinds
<1>3. PICK n \in Nat : n = SpaceSize(lay)
  BY <1>1, SetupRequestsTyped
<1>4. PICK r \in Requests(p, n) : r = SetupRequests(lay)
  BY <1>1, <1>3, SetupRequestsTyped
<1>5. /\ \E at \in Homes(p, r) : MapPages(p, r, at)
      /\ pageStack' = [i \in 1 .. Len(pageStack) - n |-> pageStack[i]]
      /\ layout' = [q \in DOMAIN layout \cup {p} |-> IF q = p THEN lay ELSE layout[q]]
  BY <1>3, <1>4, SetupMeaning
<1>6. TablesTyped' /\ Listed' /\ Owned' /\ Mapping(p, n, r)
  <2>1. PICK at \in Homes(p, r) : MapPages(p, r, at)
    BY <1>5
  <2> QED BY <1>1, <1>2, <2>1, MapEffect
<1>7. /\ \A k \in 1 .. n :
            /\ r[k].entry.page = IF k <= Len(pageStack)
                                 THEN pageStack[Len(pageStack) + 1 - k] ELSE NullPage
            /\ r[k].entry.page \in 0 .. PageFrames
            /\ r[k].virt \in PagesOf(lay)
            /\ PageAsked(lay, r[k].virt, r[k].entry)
      /\ \A v \in PagesOf(lay) : \E k \in 1 .. n : r[k].virt = v
  BY <1>1, <1>3, <1>4, SetupRequestsTyped
<1>8. \A k \in 1 .. n : r[k].virt \in Pages(p)
  BY DEF Requests
<1>9. /\ \A u \in Tables : \A v \in Pages(u) :
            (u # p \/ \A k \in 1 .. n : r[k].virt # v) => Map'[u][v] = Map[u][v]
      /\ \A k \in 1 .. n : Map'[p][r[k].virt] = r[k].entry
  BY <1>6 DEF Mapping
<1>10. FramesPlaced'
  <2>1. \A k \in 1 .. n : Map[p][r[k].virt].page \notin Frames
    <3>1. \A k \in 1 .. n : Map[p][r[k].virt] = Unmapped
      BY <1>1, <1>8, NothingMapped
    <3> QED BY <3>1, UnmappedTyped DEF Frames
  <2>2. Taken(pageStack, Map, Map', p, n, r)
    BY <2>1, <1>7, <1>9 DEF Taken
  <2>3. pageStack' \in Seq(Frames) /\ OnePlace(pageStack', Map')
    BY <2>2, <1>1, <1>2, <1>5, TakePages
  <2> QED BY <2>3 DEF FramesPlaced
<1>11. KernelAsked'
  BY <1>2, <1>9, KernelKept, TablesOfKinds
<1>12. /\ DOMAIN layout' = DOMAIN layout \cup {p} /\ layout'[p] = lay
       /\ \A q \in DOMAIN layout : q # p => layout'[q] = layout[q]
  BY <1>5
<1>13. /\ LayoutOf(p)' = lay
       /\ \A q \in Procs : q # p => LayoutOf(q)' = LayoutOf(q)
  BY <1>12 DEF LayoutOf
<1>14. ASSUME NEW v \in Pages(p)
       PROVE  Map'[p][v].page \in 0 .. PageFrames /\ PageAsked(lay, v, Map'[p][v])
  <2>1. CASE \E k \in 1 .. n : r[k].virt = v
    BY <2>1, <1>7, <1>9
  <2>2. CASE \A k \in 1 .. n : r[k].virt # v
    <3>1. Map'[p][v] = Unmapped
      BY <2>2, <1>1, <1>2, <1>9, NothingMapped
    <3>2. v \notin PagesOf(lay)
      BY <2>2, <1>7
    <3>3. v \notin 1 .. lay.code
      BY <3>2, LayoutTyped DEF PagesOf
    <3>4. PageAsked(lay, v, Unmapped)
      BY <3>2, <3>3, PageAskedCases
    <3> QED BY <3>1, <3>4, UnmappedTyped, TablesOfKinds
  <2> QED BY <2>1, <2>2
<1>15. ProcessesAsked'
  <2>1. DOMAIN layout' \subseteq Procs /\ \A q \in DOMAIN layout' : layout'[q] \in Layouts
    BY <1>1, <1>12 DEF ProcessesAsked
  <2>2. \A q \in Procs : q # p => \A v \in Pages(q) : Map'[q][v] = Map[q][v]
    BY <1>9, TablesOfKinds
  <2> QED BY <2>1, <2>2, <1>1, <1>13, <1>14, ProcessesKept
<1> QED BY <1>6, <1>10, <1>11, <1>15 DEF Sound

\* The destructor of a process keeps the invariant.
LEMMA DeleteStep ==
    ASSUME Sound, NEW p \in Procs, Delete(p)
    PROVE  Sound'
<1>1. /\ TablesTyped /\ Listed /\ Owned /\ ProcessesAsked /\ FramesPlaced
      /\ pageStack \in Seq(Frames) /\ OnePlace(pageStack, Map)
  BY DEF Sound, FramesPlaced
<1>2. p \in Tables /\ p # Kernel
  BY TablesOfKinds
<1>3. p \in DOMAIN layout /\ layout[p] \in Layouts /\ LayoutOf(p) = layout[p]
  BY <1>1 DEF Delete, ProcessesAsked, LayoutOf
<1>4. PICK lay \in Layouts : lay = layout[p]
  BY <1>3
<1>5. PICK n \in Nat : n = SpaceSize(lay)
  BY LayoutTyped DEF SpaceSize
<1>6. PICK c : c = DeletedPages(lay)
  OBVIOUS
<1>7. /\ c \in [1 .. n -> Pages(p)]
      /\ \A i, j \in 1 .. n : c[i] = c[j] => i = j
      /\ {c[i] : i \in 1 .. n} = PagesOf(lay)
  BY <1>5, <1>6, DeletedPagesList DEF Lists
<1>8. /\ UnmapPages(p, c)
      /\ directory' = [directory EXCEPT ![p] = EmptyTree]
      /\ layout' = [q \in DOMAIN layout \ {p} |-> layout[q]]
      /\ UNCHANGED <<selected, devices, nextDevice, mode>>
  BY <1>4, <1>6 DEF Delete
<1>9. /\ TablesTyped' /\ Owned' /\ Unmapping(p, n, c)
      /\ \A u \in Tables : u # p => l1'[u] = l1[u]
  BY <1>1, <1>2, <1>7, <1>8, UnmapEffect
<1>10. \A u \in Tables : \A v \in Pages(u) :
          Map'[u][v] = IF u = p /\ \E k \in 1 .. n : c[k] = v THEN Unmapped ELSE Map[u][v]
  BY <1>9 DEF Unmapping
<1>11. FramesPlaced'
  <2>1. \A k \in 1 .. n : Map[p][c[k]].page \in 0 .. PageFrames
    BY <1>1, <1>7 DEF ProcessesAsked
  <2>2. FreedPages(p, c) \in Seq(Frames) /\ OnePlace(FreedPages(p, c), Map')
    BY <2>1, <1>1, <1>2, <1>7, <1>10, FreedPagesPlaced
  <2>3. pageStack' = FreedPages(p, c)
    BY <1>8 DEF UnmapPages
  <2> QED BY <2>2, <2>3 DEF FramesPlaced
<1>12. ASSUME NEW v \in Pages(p) PROVE Map'[p][v] = Unmapped
  <2>1. CASE \E k \in 1 .. n : c[k] = v
    BY <2>1, <1>2, <1>10
  <2>2. CASE ~\E k \in 1 .. n : c[k] = v
    <3>1. v \notin PagesOf(lay)
      BY <2>2, <1>7
    <3>2. v \notin 1 .. lay.code
      BY <3>1, LayoutTyped DEF PagesOf
    <3>3. PageAsked(lay, v, Map[p][v])
      BY <1>1, <1>3, <1>4 DEF ProcessesAsked
    <3>4. Map[p][v] = Unmapped
      BY <3>1, <3>2, <3>3, PageAskedCases
    <3> QED BY <2>2, <3>4, <1>2, <1>10
  <2> QED BY <2>1, <2>2
<1>13. ASSUME NEW x \in SectionsOf(p) PROVE l1'[p][x] = Nil
  <2>1. SUFFICES ASSUME l1'[p][x] # Nil PROVE FALSE
    OBVIOUS
  <2>2. PICK a \in DOMAIN pt' : a = l1'[p][x]
    BY <2>1, <1>2, <1>9 DEF Owned
  <2>3. PICK i \in 0 .. SectionPages - 1 : pt'[a][i] # Unmapped
    BY <1>9 DEF Owned
  <2>4. PICK v \in Pages(p) : Section(v) = x /\ Index(v) = i
    BY <1>2, PageSections
  <2>5. Map'[p][v] = Translate(p, v)'
    BY <1>2 DEF Map
  <2>6. Translate(p, v)' = pt'[a][i]
    BY <2>1, <2>2, <2>4 DEF Translate
  <2> QED BY <2>3, <2>5, <2>6, <1>12
<1>14. Listed'
  <2>1. DOMAIN directory' = Tables /\ directory'[p] = EmptyTree
        /\ \A u \in Tables : u # p => directory'[u] = directory[u]
    BY <1>1, <1>2, <1>8 DEF Listed
  <2>2. \A u \in Tables : directory'[u] \in Directories
    BY <2>1, <1>1, EmptyDirectory DEF Listed
  <2>3. ASSUME NEW u \in Tables, NEW x \in SectionsOf(u), l1'[u][x] # Nil
        PROVE  l1'[u][x] \in Addresses(directory'[u])
    <3>1. u # p
      BY <2>3, <1>13
    <3> QED BY <3>1, <2>1, <2>3, <1>1, <1>9 DEF Listed
  <2>4. Listed' = /\ DOMAIN directory' = Tables
                  /\ \A u \in Tables : directory'[u] \in Directories
                  /\ \A u \in Tables : \A x \in SectionsOf(u) :
                        l1'[u][x] # Nil => l1'[u][x] \in Addresses(directory'[u])
    BY DEF Listed
  <2> QED BY <2>1, <2>2, <2>3, <2>4
<1>15. KernelAsked'
  BY <1>2, <1>8, <1>10, KernelKept, TablesOfKinds
<1>16. /\ DOMAIN layout' = DOMAIN layout \ {p}
       /\ \A q \in DOMAIN layout' : layout'[q] = layout[q]
  BY <1>8
<1>17. /\ LayoutOf(p)' = NoPages
       /\ \A q \in Procs : q # p => LayoutOf(q)' = LayoutOf(q)
  BY <1>16 DEF LayoutOf
<1>18. ASSUME NEW v \in Pages(p)
       PROVE  Map'[p][v].page \in 0 .. PageFrames /\ PageAsked(NoPages, v, Map'[p][v])
  <2>1. v \notin 1 .. NoPages.code /\ v \notin PagesOf(NoPages) /\ NoPages \in Layouts
    <3>1. NoPages.code = 0 /\ 1 .. 0 = {}
      BY DEF NoPages
    <3> QED BY <3>1, EmptyLists DEF Layouts
  <2>2. PageAsked(NoPages, v, Unmapped)
    BY <2>1, PageAskedCases
  <2> QED BY <2>2, <1>12, UnmappedTyped, TablesOfKinds
<1>19. ProcessesAsked'
  <2>1. DOMAIN layout' \subseteq Procs /\ \A q \in DOMAIN layout' : layout'[q] \in Layouts
    BY <1>1, <1>16 DEF ProcessesAsked
  <2>2. \A q \in Procs : q # p => \A v \in Pages(q) : Map'[q][v] = Map[q][v]
    BY <1>10, TablesOfKinds
  <2> QED BY <2>1, <2>2, <1>1, <1>17, <1>18, ProcessesKept
<1> QED BY <1>9, <1>11, <1>14, <1>15, <1>19 DEF Sound

\* map_device keeps the invariant.
LEMMA MapDeviceStep ==
    ASSUME Sound, NEW size \in DeviceSizes, MapDevice(size), mode' = "run"
    PROVE  Sound'
<1>1. /\ TablesTyped /\ Listed /\ Owned /\ ProcessesAsked /\ FramesPlaced
      /\ pageStack \in Seq(Frames) /\ OnePlace(pageStack, Map) /\ KernelAsked
  BY DEF Sound, FramesPlaced
<1>2. Kernel \in Tables /\ size \in Nat /\ PageFrames \in Nat
  BY TablesOfKinds, SizesAssumption
<1>3. PICK M \in Nat : M = SectionPages * KernelSections
  BY SizesAssumption
<1>4. Pages(Kernel) = 0 .. M - 1
  BY <1>3 DEF Pages, SectionCount
<1>5. PICK first \in Nat : first = nextDevice
  BY <1>1, <1>3 DEF KernelAsked
<1>6. PICK base \in Nat : base = PageFrames + 4 + first
  BY <1>2
<1>7. PICK r : r = [i \in 1 .. size |->
            [virt |-> first + i - 1,
             entry |-> Entry(base + i - 1, "RW_NA", "DEVICE", FALSE)]]
  OBVIOUS
<1>8. Len(KernelImage) = 4
  BY DEF KernelImage
<1>9. /\ first + size <= M
      /\ \E at \in Homes(Kernel, r) : MapPages(Kernel, r, at)
      /\ devices' = Append(devices, [base |-> base, size |-> size, virt |-> first])
      /\ nextDevice' = first + size
      /\ UNCHANGED <<pageStack, layout, selected>>
  BY <1>3, <1>5, <1>6, <1>7, <1>8 DEF MapDevice
<1>10. ASSUME NEW i \in 1 .. size
       PROVE  /\ first + i - 1 \in Pages(Kernel) /\ first + i - 1 >= first
              /\ base + i - 1 \in Nat /\ base + i - 1 \notin Frames
  BY <1>2, <1>4, <1>6, <1>9, TablesOfKinds
<1>11. ASSUME NEW i \in 1 .. size
       PROVE  /\ r[i].virt = first + i - 1
              /\ r[i].virt \in Pages(Kernel)
              /\ r[i].entry \in Entries /\ r[i].entry # Unmapped
              /\ r[i].entry.page = base + i - 1
              /\ UserRights(r[i].entry) = "NA"
  <2>1. r[i].virt = first + i - 1 /\ r[i].entry = Entry(base + i - 1, "RW_NA", "DEVICE", FALSE)
    BY <1>7
  <2> QED BY <2>1, <1>10, EntryKinds
<1>12. r \in Requests(Kernel, size)
  <2>1. r \in [1 .. size -> [virt : Pages(Kernel), entry : Entries]]
    <3>1. \A i \in 1 .. size :
             /\ Entry(base + i - 1, "RW_NA", "DEVICE", FALSE) \in Entries
             /\ first + i - 1 \in Pages(Kernel)
      BY <1>10, EntryKinds
    <3> QED BY <3>1, <1>7
  <2>2. \A i, j \in 1 .. size : r[i].virt = r[j].virt => i = j
    BY <1>11
  <2>3. \A i \in 1 .. size : r[i].entry # Unmapped
    BY <1>11
  <2> QED BY <2>1, <2>2, <2>3 DEF Requests
<1>13. TablesTyped' /\ Listed' /\ Owned' /\ Mapping(Kernel, size, r)
  <2>1. PICK at \in Homes(Kernel, r) : MapPages(Kernel, r, at)
    BY <1>9
  <2> QED BY <1>1, <1>2, <1>12, <2>1, MapEffect
<1>14. /\ \A u \in Tables : \A v \in Pages(u) :
            (u # Kernel \/ \A k \in 1 .. size : r[k].virt # v) => Map'[u][v] = Map[u][v]
      /\ \A k \in 1 .. size : Map'[Kernel][r[k].virt] = r[k].entry
  BY <1>13 DEF Mapping
<1>15. \A k \in 1 .. size : Map[Kernel][r[k].virt] = Unmapped
  BY <1>1, <1>5, <1>10, <1>11 DEF KernelAsked
<1>16. FramesPlaced'
  <2>1. ASSUME NEW u \in Tables, NEW v \in Pages(u)
        PROVE  \/ Map'[u][v] = Map[u][v]
               \/ Map[u][v].page \notin Frames /\ Map'[u][v].page \notin Frames
    <3>1. CASE u = Kernel /\ \E k \in 1 .. size : r[k].virt = v
      <4>1. PICK k \in 1 .. size : r[k].virt = v
        BY <3>1
      <4>2. Map[u][v] = Unmapped /\ Map'[u][v] = r[k].entry
        BY <3>1, <4>1, <1>14, <1>15
      <4> QED BY <4>2, <1>10, <1>11, UnmappedTyped DEF Frames
    <3>2. CASE u # Kernel \/ \A k \in 1 .. size : r[k].virt # v
      BY <3>2, <1>14
    <3> QED BY <3>1, <3>2
  <2>2. OnePlace(pageStack, Map')
    BY <2>1, <1>1, OtherPages
  <2> QED BY <2>2, <1>1, <1>9 DEF FramesPlaced
<1>17. ProcessesAsked'
  <2>1. \A q \in Procs : q \in Tables /\ q # Kernel
    BY TablesOfKinds
  <2>2. \A q \in Procs : \A v \in Pages(q) : Map'[q][v] = Map[q][v]
    BY <2>1, <1>14
  <2>3. \A q \in Procs : LayoutOf(q)' = LayoutOf(q)
    BY <1>9 DEF LayoutOf
  <2>4. ProcessesAsked' =
         /\ DOMAIN layout' \subseteq Procs
         /\ \A q \in DOMAIN layout' : layout'[q] \in Layouts
         /\ \A q \in Procs : \A v \in Pages(q) :
               /\ Map'[q][v].page \in 0 .. PageFrames
               /\ PageAsked(LayoutOf(q)', v, Map'[q][v])
    BY DEF ProcessesAsked
  <2> QED BY <2>2, <2>3, <2>4, <1>1, <1>9 DEF ProcessesAsked
<1>18. ASSUME NEW d \in Range(devices)
       PROVE  d.virt + d.size <= first /\ DeviceMapped(Map'[Kernel], d)
  <2>1. /\ devices \in Seq([base : Nat, size : Nat, virt : Nat])
        /\ d.virt + d.size <= first /\ DeviceMapped(Map[Kernel], d)
    BY <1>1, <1>5 DEF KernelAsked
  <2>2. d \in [base : Nat, size : Nat, virt : Nat]
    <3>1. PICK j \in DOMAIN devices : d = devices[j]
      BY DEF Range
    <3>2. j \in 1 .. Len(devices)
      BY <2>1, LenProperties
    <3> QED BY <3>1, <3>2, <2>1, ElementOfSeq
  <2>3. ASSUME NEW i \in 0 .. d.size - 1 PROVE Map'[Kernel][d.virt + i] = Map[Kernel][d.virt + i]
    <3>1. PICK v : v = d.virt + i
      OBVIOUS
    <3>2. v \in Nat /\ v < first /\ v \in Pages(Kernel)
      BY <3>1, <2>1, <2>2, <1>2, <1>4, <1>9
    <3>3. \A k \in 1 .. size : r[k].virt # v
      BY <3>2, <1>10, <1>11
    <3> QED BY <3>1, <3>2, <3>3, <1>2, <1>14
  <2> QED BY <2>1, <2>3 DEF DeviceMapped
<1>19. PICK new : new = [base |-> base, size |-> size, virt |-> first]
  OBVIOUS
<1>20. DeviceMapped(Map'[Kernel], new)
  <2>1. ASSUME NEW i \in 0 .. size - 1
        PROVE  /\ Map'[Kernel][first + i].page = base + i
               /\ UserRights(Map'[Kernel][first + i]) = "NA"
    <3>1. PICK k : k = i + 1
      OBVIOUS
    <3>2. k \in 1 .. size /\ first + i = first + k - 1 /\ base + i = base + k - 1
      BY <3>1, <1>2
    <3> QED BY <3>2, <1>11, <1>14
  <2> QED BY <2>1, <1>19 DEF DeviceMapped
<1>21. /\ devices' \in Seq([base : Nat, size : Nat, virt : Nat])
       /\ \A d \in Range(devices') : d \in Range(devices) \/ d = new
  <2>1. devices \in Seq([base : Nat, size : Nat, virt : Nat])
    BY <1>1 DEF KernelAsked
  <2>2. new \in [base : Nat, size : Nat, virt : Nat] /\ devices' = Append(devices, new)
    BY <1>2, <1>9, <1>19
  <2>3. /\ devices' \in Seq([base : Nat, size : Nat, virt : Nat])
        /\ Len(devices') = Len(devices) + 1 /\ Len(devices) \in Nat
        /\ \A i \in 1 .. Len(devices) : devices'[i] = devices[i]
        /\ devices'[Len(devices) + 1] = new
    BY <2>1, <2>2, AppendProperties, LenProperties
  <2>4. DOMAIN devices' = 1 .. Len(devices) + 1 /\ DOMAIN devices = 1 .. Len(devices)
    BY <2>1, <2>3, LenProperties
  <2>5. ASSUME NEW j \in 1 .. Len(devices) + 1 PROVE devices'[j] \in Range(devices) \/ devices'[j] = new
    <3>1. CASE j = Len(devices) + 1
      BY <3>1, <2>3
    <3>2. CASE j # Len(devices) + 1
      <4>1. j \in 1 .. Len(devices)
        BY <3>2, <2>3
      <4> QED BY <4>1, <2>3, <2>4 DEF Range
    <3> QED BY <3>1, <3>2
  <2> QED BY <2>3, <2>4, <2>5 DEF Range
<1>22. KernelAsked'
  <2>1. nextDevice' \in 0 .. M
    BY <1>2, <1>9
  <2>2. ASSUME NEW v \in Pages(Kernel), v >= nextDevice'
        PROVE  Map'[Kernel][v] = Unmapped
    <3>1. v >= first /\ v \in Nat
      BY <2>2, <1>2, <1>4, <1>9
    <3>2. \A k \in 1 .. size : r[k].virt # v
      BY <2>2, <3>1, <1>2, <1>9, <1>11
    <3>3. Map[Kernel][v] = Unmapped
      BY <3>1, <1>1, <1>5 DEF KernelAsked
    <3> QED BY <3>2, <3>3, <1>2, <1>14
  <2>3. ASSUME NEW d \in Range(devices')
        PROVE  d.virt + d.size <= nextDevice' /\ DeviceMapped(Map'[Kernel], d)
    <3>1. CASE d = new
      BY <3>1, <1>2, <1>9, <1>19, <1>20
    <3>2. CASE d \in Range(devices)
      <4>1. d.virt + d.size <= first /\ DeviceMapped(Map'[Kernel], d)
        BY <3>2, <1>18
      <4>2. d.virt + d.size \in Nat
        <5>1. devices \in Seq([base : Nat, size : Nat, virt : Nat])
          BY <1>1 DEF KernelAsked
        <5>2. PICK j \in DOMAIN devices : d = devices[j]
          BY <3>2 DEF Range
        <5>3. j \in 1 .. Len(devices)
          BY <5>1, LenProperties
        <5>4. d \in [base : Nat, size : Nat, virt : Nat]
          BY <5>1, <5>2, <5>3, ElementOfSeq
        <5> QED BY <5>4
      <4> QED BY <4>1, <4>2, <1>2, <1>9
    <3> QED BY <3>1, <3>2, <1>21
  <2>4. KernelAsked' =
          /\ nextDevice' \in 0 .. SectionPages * KernelSections
          /\ \A v \in Pages(Kernel) : v >= nextDevice' => Map'[Kernel][v] = Unmapped
          /\ devices' \in Seq([base : Nat, size : Nat, virt : Nat])
          /\ \A d \in Range(devices') :
                d.virt + d.size <= nextDevice' /\ DeviceMapped(Map'[Kernel], d)
    BY DEF KernelAsked
  <2> QED BY <2>1, <2>2, <2>3, <2>4, <1>3, <1>21
<1> QED BY <1>13, <1>16, <1>17, <1>22 DEF Sound

\* The entries of the kernel's image.
KernelEntry(e, page) == e \in Entries /\ e.attr # {} /\ e.page = page

\* An entry of the kernel's image.
LEMMA KernelEntries ==
    ASSUME NEW page \in Nat
    PROVE  /\ KernelEntry(Entry(page, "RO_NA", "CODE", FALSE), page)
           /\ KernelEntry(Entry(page, "RW_NA", "DATA", FALSE), page)
           /\ KernelEntry(Entry(page, "RW_NA", "STACK", FALSE), page)
<1>1. ASSUME NEW bits \in SUBSET Bits, bits # {}, NEW e, e = [page |-> page, attr |-> bits]
      PROVE  KernelEntry(e, page)
  BY <1>1 DEF KernelEntry, Entries
<1>2. {"small", "ap2", "ap0"} \in SUBSET Bits /\ {"small", "xn", "ap0"} \in SUBSET Bits
      /\ {"small", "ap2", "ap0"} # {} /\ {"small", "xn", "ap0"} # {}
  BY DEF Bits
<1>3. /\ Entry(page, "RO_NA", "CODE", FALSE) = [page |-> page, attr |-> {"small", "ap2", "ap0"}]
      /\ Entry(page, "RW_NA", "DATA", FALSE) = [page |-> page, attr |-> {"small", "xn", "ap0"}]
      /\ Entry(page, "RW_NA", "STACK", FALSE) = [page |-> page, attr |-> {"small", "xn", "ap0"}]
  BY EntryFacts
<1> QED BY <1>1, <1>2, <1>3

\* The kernel's image: one page of RAM, the stack's, and three others.
LEMMA ImageFacts ==
    /\ ImageSize \in Nat /\ ImageSize = Section(3) + 1 /\ ImageSize <= KernelSections
    /\ \A v \in 0 .. 3 : Section(v) < ImageSize
    /\ \A x \in 0 .. ImageSize - 1 : SectionPages * x + 1 \in 1 .. 4
    /\ DOMAIN KernelImage = 1 .. 4
    /\ \A v \in 1 .. 4 : KernelImage[v] \in Entries /\ KernelImage[v] # Unmapped
    /\ KernelImage[3].page = PageFrames
    /\ \A v \in 1 .. 4 : v # 3 => KernelImage[v].page \notin Frames
<1>1. KernelImage = <<KernelImage[1], KernelImage[2], KernelImage[3], KernelImage[4]>>
      /\ KernelImage[1] = Entry(PageFrames + 1, "RO_NA", "CODE", FALSE)
      /\ KernelImage[2] = Entry(PageFrames + 2, "RW_NA", "DATA", FALSE)
      /\ KernelImage[3] = Entry(PageFrames, "RW_NA", "STACK", FALSE)
      /\ KernelImage[4] = Entry(PageFrames + 3, "RW_NA", "STACK", FALSE)
      /\ Len(KernelImage) = 4 /\ DOMAIN KernelImage = 1 .. 4
  BY DEF KernelImage
<1>2. PageFrames \in Nat /\ Frames = 1 .. PageFrames
  BY TablesOfKinds
<1>4. \A v \in 1 .. 4 : v = 1 \/ v = 2 \/ v = 3 \/ v = 4
  OBVIOUS
<1>e. /\ KernelImage[1] \in Entries /\ KernelImage[1].attr # {} /\ KernelImage[1].page = PageFrames + 1
      /\ KernelImage[2] \in Entries /\ KernelImage[2].attr # {} /\ KernelImage[2].page = PageFrames + 2
      /\ KernelImage[3] \in Entries /\ KernelImage[3].attr # {} /\ KernelImage[3].page = PageFrames
      /\ KernelImage[4] \in Entries /\ KernelImage[4].attr # {} /\ KernelImage[4].page = PageFrames + 3
  <2>1. PICK a \in Nat : a = PageFrames + 1
    BY <1>2
  <2>2. PICK b \in Nat : b = PageFrames + 2
    BY <1>2
  <2>3. PICK d \in Nat : d = PageFrames + 3
    BY <1>2
  <2>4. KernelEntry(KernelImage[1], a)
    BY <1>1, <2>1, KernelEntries
  <2>5. KernelEntry(KernelImage[2], b)
    BY <1>1, <2>2, KernelEntries
  <2>6. KernelEntry(KernelImage[3], PageFrames)
    BY <1>1, <1>2, KernelEntries
  <2>7. KernelEntry(KernelImage[4], d)
    BY <1>1, <2>3, KernelEntries
  <2> QED BY <2>1, <2>2, <2>3, <2>4, <2>5, <2>6, <2>7 DEF KernelEntry
<1>5. \A v \in 1 .. 4 : KernelImage[v] \in Entries /\ KernelImage[v].attr # {}
  BY <1>4, <1>e
<1>6. \A v \in 1 .. 4 : KernelImage[v] # Unmapped
  BY <1>5, UnmappedTyped
<1>7. /\ KernelImage[1].page = PageFrames + 1 /\ KernelImage[2].page = PageFrames + 2
      /\ KernelImage[3].page = PageFrames /\ KernelImage[4].page = PageFrames + 3
  BY <1>e
<1>8. \A v \in 1 .. 4 : v # 3 => KernelImage[v].page \notin Frames
  BY <1>2, <1>4, <1>7
<1>9. ImageSize = Section(3) + 1 /\ Section(3) \in Nat
  BY <1>1, SectionIndex DEF ImageSize
<1>10. ASSUME NEW v \in 0 .. 3 PROVE Section(v) < ImageSize
  <2>1. /\ v = SectionPages * Section(v) + Index(v) /\ Section(v) \in Nat
        /\ Index(v) \in 0 .. SectionPages - 1
    BY SectionIndex
  <2>2. /\ 3 = SectionPages * Section(3) + Index(3) /\ Section(3) \in Nat
        /\ Index(3) \in 0 .. SectionPages - 1
    BY SectionIndex
  <2>3. SUFFICES ASSUME Section(3) < Section(v) PROVE FALSE
    BY <1>9, <2>1
  <2>4. SectionPages * Section(3) + Index(3) < SectionPages * Section(v)
    BY <2>1, <2>2, <2>3, MultiplyOrder, SizesTyped
  <2>5. SectionPages * Section(v) \in Nat
    BY <2>1, SizesTyped
  <2> QED BY <2>1, <2>2, <2>4, <2>5, SizesTyped
<1>11. ASSUME NEW x \in 0 .. ImageSize - 1 PROVE SectionPages * x + 1 \in 1 .. 4
  <2>1. x \in Nat /\ x <= Section(3) /\ 0 \in 0 .. SectionPages - 1
    BY <1>9, SizesTyped
  <2>2. SectionPages * x <= SectionPages * Section(3)
    BY <2>1, <1>9, MultiplyOrder, SizesTyped
  <2>3. SectionPages * x \in Nat /\ SectionPages * Section(3) \in Nat
    BY <2>1, <1>9, SizesTyped
  <2>4. SectionPages * Section(3) <= 3
    <3>1. 3 = SectionPages * Section(3) + Index(3) /\ Index(3) \in 0 .. SectionPages - 1
      BY SectionIndex
    <3> QED BY <3>1, <2>3, SizesTyped
  <2> QED BY <2>2, <2>3, <2>4
<1>12. ImageSize \in Nat /\ ImageSize = Section(3) + 1 /\ ImageSize <= KernelSections
  BY <1>9, ImageAssumption
<1> QED BY <1>1, <1>5, <1>6, <1>7, <1>8, <1>10, <1>11, <1>12

\* The invariant holds when the processes are created.
LEMMA InitSound ==
    ASSUME Init, mode = "run"
    PROVE  Sound
<1>1. PICK K \in Nat : K = ImageSize
  BY ImageFacts
<1>2. PICK H \in Nat \ {0} : H = Min(TableAddrs)
  <2>1. TableAddrs \in SUBSET Nat /\ TableAddrs # {}
    BY SizesAssumption
  <2>2. Min(TableAddrs) \in TableAddrs
    BY <2>1, LeastNumber
  <2> QED BY <2>2, SizesAssumption
<1>3. K > 0 /\ K <= KernelSections /\ Kernel \in Tables
      /\ SectionsOf(Kernel) = 0 .. KernelSections - 1 /\ KernelSections \in Nat
  <2>1. Section(3) \in Nat
    BY SectionIndex
  <2>2. K > 0 /\ K <= KernelSections
    BY <1>1, <2>1, ImageFacts
  <2>3. SectionsOf(Kernel) = 0 .. KernelSections - 1 /\ KernelSections \in Nat
    BY SizesAssumption DEF SectionsOf, SectionCount
  <2> QED BY <2>2, <2>3, TablesOfKinds
<1>4. \A x \in Nat : Home(x) = H + x
  BY <1>2 DEF Home
<1>5. /\ DOMAIN l1 = Tables
      /\ \A t \in Tables : l1[t] \in [SectionsOf(t) -> Nat]
      /\ \A t \in Tables : \A x \in SectionsOf(t) :
            l1[t][x] = IF t = Kernel /\ x < K THEN H + x ELSE Nil
      /\ \A t \in Tables : \A x \in SectionsOf(t) : x \in Nat
  <2>1. l1 = [t \in Tables |-> [x \in SectionsOf(t) |->
                IF t = Kernel /\ x < K THEN Home(x) ELSE Nil]]
    BY <1>1 DEF Init
  <2>2. \A t \in Tables : \A x \in SectionsOf(t) : x \in Nat
    BY DEF SectionsOf
  <2>3. \A t \in Tables : \A x \in SectionsOf(t) :
            /\ l1[t][x] = IF t = Kernel /\ x < K THEN H + x ELSE Nil
            /\ l1[t][x] \in Nat
    BY <2>1, <2>2, <1>4 DEF Nil
  <2>4. \A t \in Tables : l1[t] = [x \in SectionsOf(t) |-> l1[t][x]]
    BY <2>1
  <2>5. \A t \in Tables : l1[t] \in [SectionsOf(t) -> Nat]
    BY <2>3, <2>4
  <2> QED BY <2>1, <2>2, <2>3, <2>5
<1>6. PICK c : c = [i \in 1 .. K |-> Home(i - 1)]
  OBVIOUS
<1>7. c \in [1 .. K -> Nat] /\ \A i \in 1 .. K : c[i] = H + (i - 1)
  <2>1. \A i \in 1 .. K : Home(i - 1) = H + (i - 1)
    BY <1>4
  <2> QED BY <2>1, <1>6
<1>8. PICK dir : dir = InsertTables(EmptyTree, c)
  OBVIOUS
<1>9. directory = [t \in Tables |-> IF t # Kernel THEN EmptyTree ELSE dir]
  BY <1>1, <1>6, <1>8 DEF Init
<1>10. dir.ok
  BY <1>3, <1>9 DEF Init
<1>11. /\ dir \in Directories
       /\ \A i \in 1 .. K : c[i] # Nil => c[i] \in Addresses(dir)
  BY <1>7, <1>8, <1>10, EmptyDirectory, InsertTablesAddresses
<1>12. Listed
  <2>1. DOMAIN directory = Tables /\ \A t \in Tables : directory[t] \in Directories
    BY <1>9, <1>11, EmptyDirectory
  <2>2. ASSUME NEW t \in Tables, NEW x \in SectionsOf(t), l1[t][x] # Nil
        PROVE  l1[t][x] \in Addresses(directory[t])
    <3>1. t = Kernel /\ x < K /\ l1[t][x] = H + x /\ x \in Nat
      BY <2>2, <1>5
    <3>2. x + 1 \in 1 .. K /\ c[x + 1] = H + x
      BY <3>1, <1>7
    <3>3. H + x # Nil
      BY <3>1 DEF Nil
    <3>4. H + x \in Addresses(dir)
      BY <3>2, <3>3, <1>11
    <3> QED BY <3>1, <3>4, <1>3, <1>9
  <2> QED BY <2>1, <2>2 DEF Listed
<1>13. /\ DOMAIN pt = {H + x : x \in 0 .. K - 1}
       /\ \A x \in 0 .. K - 1 : pt[H + x] = [i \in 0 .. SectionPages - 1 |->
             IF SectionPages * x + i + 1 \in 1 .. 4 THEN KernelImage[SectionPages * x + i + 1]
             ELSE Unmapped]
  <2>1. pt = [a \in {Home(x) : x \in 0 .. K - 1} |->
                [i \in 0 .. SectionPages - 1 |->
                    IF SectionPages * (a - Home(0)) + i + 1 \in 1 .. 4
                    THEN KernelImage[SectionPages * (a - Home(0)) + i + 1]
                    ELSE Unmapped]]
    BY <1>1, ImageFacts DEF Init
  <2>2. {Home(x) : x \in 0 .. K - 1} = {H + x : x \in 0 .. K - 1} /\ Home(0) = H
    BY <1>4
  <2>3. \A x \in 0 .. K - 1 : (H + x) - H = x
    OBVIOUS
  <2> QED BY <2>1, <2>2, <2>3
<1>14. ASSUME NEW a \in DOMAIN pt
       PROVE  /\ pt[a] \in [0 .. SectionPages - 1 -> Entries]
              /\ a \in Nat \ {0}
              /\ \E i \in 0 .. SectionPages - 1 : pt[a][i] # Unmapped
              /\ \E x \in SectionsOf(Kernel) : l1[Kernel][x] = a
  <2>1. PICK x \in 0 .. K - 1 : a = H + x
    BY <1>13
  <2>2. pt[a] = [i \in 0 .. SectionPages - 1 |->
             IF SectionPages * x + i + 1 \in 1 .. 4 THEN KernelImage[SectionPages * x + i + 1]
             ELSE Unmapped]
    BY <2>1, <1>13
  <2>3. pt[a] \in [0 .. SectionPages - 1 -> Entries]
    BY <2>2, ImageFacts, UnmappedTyped
  <2>4. 0 \in 0 .. SectionPages - 1 /\ SectionPages * x + 0 + 1 = SectionPages * x + 1
        /\ SectionPages * x + 1 \in 1 .. 4
    BY <1>1, ImageFacts, SizesTyped
  <2>5. pt[a][0] # Unmapped
    BY <2>2, <2>4, ImageFacts
  <2>6. x \in SectionsOf(Kernel) /\ l1[Kernel][x] = a
    BY <2>1, <1>3, <1>5
  <2> QED BY <2>1, <2>3, <2>4, <2>5, <2>6
<1>15. TablesTyped
  BY <1>5, <1>14 DEF TablesTyped
<1>16. Owned
  <2>1. ASSUME NEW t \in Tables, NEW x \in SectionsOf(t), l1[t][x] # Nil
        PROVE  t = Kernel /\ x \in 0 .. K - 1 /\ l1[t][x] = H + x /\ H + x \in DOMAIN pt
    <3>1. t = Kernel /\ x < K /\ l1[t][x] = H + x /\ x \in Nat
      BY <2>1, <1>5
    <3> QED BY <3>1, <1>13
  <2>2. ASSUME NEW t \in Tables, NEW u \in Tables, NEW x \in SectionsOf(t),
               NEW y \in SectionsOf(u), l1[t][x] = l1[u][y], l1[t][x] # Nil
        PROVE  t = u /\ x = y
    <3>1. t = Kernel /\ x \in 0 .. K - 1 /\ l1[t][x] = H + x
      BY <2>1, <2>2
    <3>2. u = Kernel /\ y \in 0 .. K - 1 /\ l1[u][y] = H + y
      BY <2>1, <2>2
    <3> QED BY <3>1, <3>2, <2>2
  <2> QED BY <2>1, <2>2, <1>3, <1>14 DEF Owned
<1>17. ASSUME NEW t \in Tables, NEW v \in Pages(t)
       PROVE  Map[t][v] = IF t = Kernel /\ v \in 0 .. 3 THEN KernelImage[v + 1] ELSE Unmapped
  <2>1. /\ Section(v) \in SectionsOf(t) /\ v \in Nat
        /\ Index(v) \in 0 .. SectionPages - 1 /\ Section(v) \in Nat
    BY PageSections, SectionIndex
  <2>2. v = SectionPages * Section(v) + Index(v)
    BY <2>1, SectionIndex
  <2>3. Map[t][v] = IF l1[t][Section(v)] = Nil THEN Unmapped ELSE pt[l1[t][Section(v)]][Index(v)]
    BY DEF Map, Translate
  <2>4. CASE t = Kernel /\ Section(v) < K
    <3>1. PICK x \in 0 .. K - 1 : x = Section(v)
      BY <2>1, <2>4
    <3>2. l1[t][Section(v)] = H + x /\ H + x # Nil
      BY <2>1, <2>4, <3>1, <1>5 DEF Nil
    <3>3. PICK i \in 0 .. SectionPages - 1 : i = Index(v)
      BY <2>1
    <3>4. pt[H + x][i] = IF SectionPages * x + i + 1 \in 1 .. 4
                         THEN KernelImage[SectionPages * x + i + 1] ELSE Unmapped
      BY <1>13
    <3>5. SectionPages * x + i + 1 = v + 1
      BY <2>2, <3>1, <3>3
    <3>6. Map[t][v] = IF v + 1 \in 1 .. 4 THEN KernelImage[v + 1] ELSE Unmapped
      BY <2>3, <3>2, <3>3, <3>4, <3>5
    <3>7. v + 1 \in 1 .. 4 <=> v \in 0 .. 3
      BY <2>1
    <3> QED BY <2>4, <3>6, <3>7
  <2>5. CASE ~(t = Kernel /\ Section(v) < K)
    <3>1. l1[t][Section(v)] = Nil
      BY <2>1, <2>5, <1>5
    <3>2. ~(t = Kernel /\ v \in 0 .. 3)
      BY <2>5, <1>1, ImageFacts
    <3> QED BY <2>3, <3>1, <3>2
  <2> QED BY <2>4, <2>5
<1>18. ProcessesAsked
  <2>1. layout = <<>> /\ DOMAIN layout = {}
    BY DEF Init
  <2>2. ASSUME NEW p \in Procs, NEW v \in Pages(p)
        PROVE  Map[p][v].page \in 0 .. PageFrames /\ PageAsked(LayoutOf(p), v, Map[p][v])
    <3>1. Map[p][v] = Unmapped /\ LayoutOf(p) = NoPages /\ NoPages \in Layouts
      BY <2>1, <1>17, TablesOfKinds DEF LayoutOf, Layouts
    <3>2. v \notin 1 .. NoPages.code /\ v \notin PagesOf(NoPages)
      <4>1. NoPages.code = 0 /\ 1 .. 0 = {}
        BY DEF NoPages
      <4> QED BY <4>1, EmptyLists
    <3>3. PageAsked(NoPages, v, Unmapped)
      BY <3>1, <3>2, PageAskedCases
    <3> QED BY <3>1, <3>3, UnmappedTyped, TablesOfKinds
  <2> QED BY <2>1, <2>2 DEF ProcessesAsked
<1>19. KernelAsked
  <2>1. nextDevice = SectionPages * K /\ devices = <<>>
    BY <1>1 DEF Init
  <2>2. SectionPages * K \in Nat /\ SectionPages * KernelSections \in Nat
        /\ SectionPages * K <= SectionPages * KernelSections
    <3>1. 0 \in 0 .. SectionPages - 1
      BY SizesTyped
    <3> QED BY <3>1, <1>3, SizesTyped, MultiplyOrder
  <2>3. ASSUME NEW v \in Pages(Kernel), v >= nextDevice PROVE Map[Kernel][v] = Unmapped
    <3>1. SUFFICES ASSUME v \in 0 .. 3 PROVE FALSE
      BY <1>3, <1>17
    <3>2. Section(v) < K /\ Section(v) \in Nat
      BY <3>1, <1>1, ImageFacts, SectionIndex
    <3>3. v = SectionPages * Section(v) + Index(v) /\ Index(v) \in 0 .. SectionPages - 1
      BY <3>1, SectionIndex
    <3>4. v < SectionPages * K
      <4>1. PICK y \in Nat, i \in 0 .. SectionPages - 1 : y = Section(v) /\ i = Index(v)
        BY <3>2, <3>3
      <4>2. y < K => SectionPages * y + i < SectionPages * K
        BY SizesTyped, MultiplyOrder
      <4> QED BY <3>2, <3>3, <4>1, <4>2
    <3> QED BY <3>1, <3>4, <2>1, <2>2, <2>3
  <2>4. devices \in Seq([base : Nat, size : Nat, virt : Nat]) /\ Range(devices) = {}
    BY <2>1 DEF Range
  <2> QED BY <2>1, <2>2, <2>3, <2>4 DEF KernelAsked
<1>20. FramesPlaced
  <2>1. pageStack = [i \in 1 .. PageFrames - 1 |-> i] /\ PageFrames \in Nat \ {0}
    BY SizesAssumption DEF Init
  <2>2. pageStack \in [1 .. PageFrames - 1 -> Frames] /\ PageFrames - 1 \in Nat
    BY <2>1 DEF Frames
  <2>3. pageStack \in Seq(Frames) /\ Len(pageStack) = PageFrames - 1
    BY <2>2, FunctionIsSeq
  <2>4. ASSUME NEW t \in Tables, NEW v \in Pages(t), Map[t][v].page \in Frames
        PROVE  t = Kernel /\ v = 2 /\ Map[t][v].page = PageFrames
    <3>1. t = Kernel /\ v \in 0 .. 3 /\ Map[t][v] = KernelImage[v + 1]
      BY <2>4, <1>17, UnmappedTyped DEF Frames
    <3>2. v + 1 = 3
      BY <3>1, <2>4, ImageFacts
    <3> QED BY <3>1, <3>2, ImageFacts
  <2>5. 2 \in Pages(Kernel) /\ Map[Kernel][2].page = PageFrames
    <3>1. 2 \in 0 .. 3 /\ Section(2) < K /\ Section(2) \in Nat
      BY <1>1, ImageFacts, SectionIndex
    <3>2. 2 = SectionPages * Section(2) + Index(2) /\ Index(2) \in 0 .. SectionPages - 1
      BY SectionIndex
    <3>3. Section(2) < KernelSections
      BY <3>1, <1>3
    <3>4. 2 < SectionPages * KernelSections
      <4>1. PICK y \in Nat, i \in 0 .. SectionPages - 1 : y = Section(2) /\ i = Index(2)
        BY <3>1, <3>2
      <4>2. y < KernelSections => SectionPages * y + i < SectionPages * KernelSections
        BY <1>3, SizesTyped, MultiplyOrder
      <4> QED BY <3>2, <3>3, <4>1, <4>2
    <3>5. 2 \in Pages(Kernel)
      BY <3>4, SizesAssumption DEF Pages, SectionCount
    <3> QED BY <3>1, <3>5, <1>3, <1>17, ImageFacts
  <2>6. ASSUME NEW f \in Frames
        PROVE  \/ \E i \in 1 .. Len(pageStack) : pageStack[i] = f
               \/ \E t \in Tables : \E v \in Pages(t) : Map[t][v].page = f
    <3>1. CASE f = PageFrames
      BY <3>1, <2>5, <1>3
    <3>2. CASE f # PageFrames
      <4>1. f \in 1 .. Len(pageStack) /\ pageStack[f] = f
        BY <3>2, <2>1, <2>3 DEF Frames
      <4> QED BY <4>1
    <3> QED BY <3>1, <3>2
  <2>7. \A i, j \in 1 .. Len(pageStack) : pageStack[i] = pageStack[j] => i = j
    BY <2>1, <2>3
  <2>8. ASSUME NEW i \in 1 .. Len(pageStack), NEW t \in Tables, NEW v \in Pages(t)
        PROVE  Map[t][v].page # pageStack[i]
    <3>1. pageStack[i] = i /\ i \in Frames /\ i # PageFrames
      BY <2>1, <2>3 DEF Frames
    <3> QED BY <3>1, <2>4
  <2>9. \A t, u \in Tables : \A v \in Pages(t), w \in Pages(u) :
          Map[t][v].page = Map[u][w].page /\ Map[t][v].page \in Frames => t = u /\ v = w
    BY <2>4
  <2>10. OnePlace(pageStack, Map)
    BY <2>6, <2>7, <2>8, <2>9, Zenon DEF OnePlace
  <2> QED BY <2>3, <2>10 DEF FramesPlaced
<1> QED BY <1>12, <1>15, <1>16, <1>18, <1>19, <1>20 DEF Sound

\* The invariant does not depend on the table that is selected.
LEMMA SoundKept ==
    ASSUME Sound, UNCHANGED <<pageStack, l1, directory, pt, layout, devices, nextDevice>>
    PROVE  Sound'
<1>1. Map' = Map
  BY DEF Map, Translate
<1>2. TablesTyped' = TablesTyped
  BY DEF TablesTyped
<1>3. Listed' = Listed
  BY DEF Listed
<1>4. Owned' = Owned
  BY DEF Owned
<1>5. ProcessesAsked' = ProcessesAsked
  BY <1>1 DEF ProcessesAsked, LayoutOf
<1>6. KernelAsked' = KernelAsked
  BY <1>1 DEF KernelAsked
<1>7. FramesPlaced' = FramesPlaced
  BY <1>1 DEF FramesPlaced
<1> QED BY <1>2, <1>3, <1>4, <1>5, <1>6, <1>7 DEF Sound

\* Every operation keeps the invariant.
LEMMA SpaceStep ==
    ASSUME SpaceInv, [Next]_vars
    PROVE  SpaceInv'
<1> SUFFICES ASSUME mode' = "run" PROVE Sound'
  BY DEF SpaceInv
<1>1. CASE UNCHANGED vars
  <2>1. Sound /\ UNCHANGED <<pageStack, l1, directory, pt, layout, devices, nextDevice>>
    BY <1>1 DEF vars, SpaceInv
  <2> QED BY <2>1, SoundKept
<1>2. CASE Next
  <2>0. Sound
    BY <1>2 DEF Next, SpaceInv
  <2>1. ASSUME NEW p \in Procs, NewThread(p) PROVE Sound'
    <3>1. /\ p \notin DOMAIN layout /\ SetupAddrspace(p, NoPages)
          /\ UNCHANGED <<devices, nextDevice>>
      BY <2>1 DEF NewThread, NoPages
    <3>2. NoPages \in Layouts
      BY DEF Layouts
    <3> QED BY <2>0, <3>1, <3>2, SetupStep
  <2>2. ASSUME NEW p \in Procs, NEW prog \in Programs, Load(p, prog) PROVE Sound'
    <3>1. PICK lay : lay = [code |-> prog[1], data |-> prog[2], stack |-> StackPages]
      OBVIOUS
    <3>2. /\ p \notin DOMAIN layout /\ SetupAddrspace(p, lay)
          /\ UNCHANGED <<devices, nextDevice>>
      BY <2>2, <3>1 DEF Load
    <3>3. lay \in Layouts
      BY <3>1 DEF Layouts
    <3> QED BY <2>0, <3>2, <3>3, SetupStep
  <2>3. ASSUME NEW p \in Procs, NEW q \in Procs, Copy(p, q) PROVE Sound'
    <3>1. /\ p \in DOMAIN layout /\ q \notin DOMAIN layout /\ SetupAddrspace(q, layout[p])
          /\ UNCHANGED <<devices, nextDevice>>
      BY <2>3 DEF Copy
    <3>2. layout[p] \in Layouts
      BY <2>0, <3>1 DEF Sound, ProcessesAsked
    <3> QED BY <2>0, <3>1, <3>2, SetupStep
  <2>4. ASSUME NEW p \in Procs, Delete(p) PROVE Sound'
    BY <2>0, <2>4, DeleteStep
  <2>5. ASSUME NEW p \in Procs, EnableAddrspace(p) PROVE Sound'
    <3>1. UNCHANGED <<pageStack, l1, directory, pt, layout, devices, nextDevice>>
      BY <2>5 DEF EnableAddrspace
    <3> QED BY <2>0, <3>1, SoundKept
  <2>6. ASSUME NEW size \in DeviceSizes, MapDevice(size) PROVE Sound'
    BY <2>0, <2>6, MapDeviceStep
  <2> QED BY <1>2, <2>1, <2>2, <2>3, <2>4, <2>5, <2>6 DEF Next
<1> QED BY <1>1, <1>2

---------------------------------------------------------------------------
(* The theorems. *)

\* The inductive invariant holds in every reachable state: as long as no null
\* pointer has been used, the tables, the directories, the layouts of the
\* processes and the stack of free pages agree (mmu.h, process.cpp, mm.cpp).
THEOREM SpaceInvariant == Spec => []SpaceInv
<1>1. Init => SpaceInv
  BY InitSound DEF SpaceInv
<1>2. SpaceInv /\ [Next]_vars => SpaceInv'
  BY SpaceStep
<1> QED BY <1>1, <1>2, PTL DEF Spec

\* A page table is never lost, shared or left empty (new in map_page, delete
\* in unmap_page).
THEOREM TablesAreOwned == Spec => []TablesOwned
<1>1. ASSUME SpaceInv PROVE TablesOwned
  <2>1. SUFFICES ASSUME mode = "run"
                 PROVE  /\ \A a \in DOMAIN pt : pt[a] # EmptyPageTable
                        /\ DOMAIN pt = (UNION {Range(l1[t]) : t \in Tables}) \ {Nil}
                        /\ \A t, u \in Tables : \A x \in SectionsOf(t), y \in SectionsOf(u) :
                              l1[t][x] = l1[u][y] /\ l1[t][x] # Nil => t = u /\ x = y
    BY DEF TablesOwned
  <2>2. TablesTyped /\ Owned
    BY <1>1, <2>1 DEF SpaceInv, Sound
  <2>3. \A a \in DOMAIN pt : pt[a] # EmptyPageTable
    BY <2>2 DEF Owned, EmptyPageTable
  <2>4. \A t \in Tables : \A a : a \in Range(l1[t]) <=> \E x \in SectionsOf(t) : a = l1[t][x]
    BY <2>2 DEF TablesTyped, Range
  <2>5. \A a : a \in UNION {Range(l1[t]) : t \in Tables} <=>
               \E t \in Tables : \E x \in SectionsOf(t) : a = l1[t][x]
    BY <2>4
  <2>6. \A a \in DOMAIN pt : a # Nil
    BY <2>2 DEF TablesTyped, Nil
  <2>7. DOMAIN pt = (UNION {Range(l1[t]) : t \in Tables}) \ {Nil}
    <3>1. PICK S : S = UNION {Range(l1[t]) : t \in Tables}
      OBVIOUS
    <3>2. \A a \in DOMAIN pt : a \in S \ {Nil}
      BY <2>2, <2>5, <2>6, <3>1 DEF Owned
    <3>3. ASSUME NEW a \in S \ {Nil} PROVE a \in DOMAIN pt
      <4>1. PICK t \in Tables : \E x \in SectionsOf(t) : a = l1[t][x]
        BY <2>5, <3>1
      <4> QED BY <4>1, <2>2 DEF Owned
    <3> QED BY <3>1, <3>2, <3>3
  <2> QED BY <2>2, <2>3, <2>7 DEF Owned
<1> QED BY <1>1, SpaceInvariant, PTL

\* The directory of a table finds every page table in use, whatever the order
\* of insertion and the rotations it caused (rbtree.h: insert, get_value).
THEOREM DirectoryFindsTables == Spec => []DirectoryFinds
<1>1. ASSUME SpaceInv PROVE DirectoryFinds
  <2>1. SUFFICES ASSUME mode = "run", NEW t \in Tables, NEW x \in SectionsOf(t), l1[t][x] # Nil
                 PROVE  FindNode(directory[t], l1[t][x]) # Nil
    BY DEF DirectoryFinds
  <2>2. TablesTyped /\ Listed
    BY <1>1, <2>1 DEF SpaceInv, Sound
  <2>3. /\ directory[t] \in Directories /\ l1[t][x] \in Nat
        /\ l1[t][x] \in Addresses(directory[t])
    BY <2>1, <2>2 DEF TablesTyped, Listed
  <2> QED BY <2>3, LookupAddress
<1> QED BY <1>1, SpaceInvariant, PTL

\* A process reaches its own pages, with the rights it was given, and nothing
\* else; a device is found where map_device said, and no user reaches it.
THEOREM TablesTranslate == Spec => []TranslatesAsAsked
<1>1. ASSUME SpaceInv PROVE TranslatesAsAsked
  <2>1. SUFFICES ASSUME mode = "run" PROVE TranslatesAsAsked
    BY DEF TranslatesAsAsked
  <2>2. TablesTyped /\ Owned /\ ProcessesAsked /\ KernelAsked
    BY <1>1, <2>1 DEF SpaceInv, Sound
  <2>3. ASSUME NEW p \in Procs, NEW v \in 0 .. SectionPages * Sections - 1
        PROVE  PageAsked(LayoutOf(p), v, Translate(p, v))
    <3>1. p \in Tables /\ p # Kernel
      BY TablesOfKinds
    <3>2. v \in Pages(p)
      BY <3>1 DEF Pages, SectionCount
    <3>3. Map[p][v] = Translate(p, v)
      BY <3>1, <3>2, <2>2, MapTyped
    <3> QED BY <3>2, <3>3, <2>2 DEF ProcessesAsked
  <2>4. ASSUME NEW d \in Range(devices), NEW i \in 0 .. d.size - 1
        PROVE  /\ Translate(Kernel, d.virt + i).page = d.base + i
               /\ UserRights(Translate(Kernel, d.virt + i)) = "NA"
    <3>1. d.virt + i \in Pages(Kernel)
      BY <2>2, DevicePages
    <3>2. Map[Kernel][d.virt + i] = Translate(Kernel, d.virt + i)
      BY <3>1, <2>2, MapTyped, TablesOfKinds
    <3>3. DeviceMapped(Map[Kernel], d)
      BY <2>2 DEF KernelAsked
    <3> QED BY <3>2, <3>3 DEF DeviceMapped
  <2> QED BY <2>3, <2>4 DEF TranslatesAsAsked, PageAsked, LayoutOf, NoPages
<1> QED BY <1>1, SpaceInvariant, PTL

\* The number of elements of a set that has exactly one.
LEMMA OneElement ==
    ASSUME NEW S, NEW a, a \in S, \A b \in S : b = a
    PROVE  Cardinality(S) = 1
<1>1. S = {a}
  OBVIOUS
<1> QED BY <1>1, FS_Singleton

\* The number of elements of a set that has none.
LEMMA NoElement ==
    ASSUME NEW S, \A b \in S : FALSE
    PROVE  Cardinality(S) = 0
<1>1. S = {}
  OBVIOUS
<1> QED BY <1>1, FS_EmptySet

\* An entry of a page table is what one page of one table translates to.
LEMMA EntryIsPage ==
    ASSUME TablesTyped, Owned, NEW a \in DOMAIN pt, NEW i \in 0 .. SectionPages - 1
    PROVE  \E t \in Tables : \E v \in Pages(t) :
              l1[t][Section(v)] = a /\ Index(v) = i /\ Map[t][v] = pt[a][i]
<1>1. PICK t \in Tables : \E x \in SectionsOf(t) : l1[t][x] = a
  BY DEF Owned
<1>2. PICK x \in SectionsOf(t) : l1[t][x] = a
  BY <1>1
<1>3. PICK v \in Pages(t) : Section(v) = x /\ Index(v) = i
  BY PageSections
<1>4. a # Nil
  BY DEF TablesTyped, Nil
<1>5. Map[t][v] = pt[a][i]
  BY <1>2, <1>3, <1>4, MapTyped DEF Translate
<1> QED BY <1>2, <1>3, <1>5

\* A page that is mapped is an entry of a page table.
LEMMA PageIsEntry ==
    ASSUME TablesTyped, Owned, NEW t \in Tables, NEW v \in Pages(t), Map[t][v].page # 0
    PROVE  \E a \in DOMAIN pt : \E i \in 0 .. SectionPages - 1 :
              a = l1[t][Section(v)] /\ i = Index(v) /\ pt[a][i] = Map[t][v]
<1>1. Section(v) \in SectionsOf(t) /\ Index(v) \in 0 .. SectionPages - 1
  BY PageSections
<1>2. Map[t][v] = Translate(t, v)
  BY MapTyped
<1>3. l1[t][Section(v)] # Nil
  BY <1>2, UnmappedTyped DEF Translate
<1>4. l1[t][Section(v)] \in DOMAIN pt
  BY <1>1, <1>3 DEF Owned
<1> QED BY <1>1, <1>2, <1>3, <1>4 DEF Translate

\* Every page of RAM is on the stack of free pages or mapped, and in one place
\* only: no page is lost and none has two owners (process.cpp, mmu.h, mm.cpp).
THEOREM PagesAreConserved == Spec => []PagesConserved
<1>1. ASSUME SpaceInv PROVE PagesConserved
  <2>1. SUFFICES ASSUME mode = "run", NEW f \in 1 .. PageFrames
                 PROVE  Cardinality({i \in DOMAIN pageStack : pageStack[i] = f})
                      + Cardinality({e \in (DOMAIN pt) \X (0 .. SectionPages - 1) :
                                        pt[e[1]][e[2]].page = f}) = 1
    BY DEF PagesConserved
  <2>2. TablesTyped /\ Owned /\ FramesPlaced
    BY <1>1, <2>1 DEF SpaceInv, Sound
  <2>3. f \in Frames /\ f # 0
    BY TablesOfKinds
  <2>4. pageStack \in Seq(Frames) /\ OnePlace(pageStack, Map)
    BY <2>2 DEF FramesPlaced
  <2>5. DOMAIN pageStack = 1 .. Len(pageStack)
    BY <2>4, LenProperties
  <2>6. PICK S : S = {i \in DOMAIN pageStack : pageStack[i] = f}
    OBVIOUS
  <2>7. PICK E : E = {e \in (DOMAIN pt) \X (0 .. SectionPages - 1) : pt[e[1]][e[2]].page = f}
    OBVIOUS
  <2>8. ASSUME NEW e \in E
        PROVE  \E t \in Tables : \E v \in Pages(t) :
                  /\ Map[t][v].page = f /\ e = <<l1[t][Section(v)], Index(v)>>
    <3>1. PICK a \in DOMAIN pt, i \in 0 .. SectionPages - 1 : e = <<a, i>> /\ pt[a][i].page = f
      BY <2>7
    <3>2. PICK t \in Tables : \E v \in Pages(t) :
              l1[t][Section(v)] = a /\ Index(v) = i /\ Map[t][v] = pt[a][i]
      BY <2>2, EntryIsPage
    <3> QED BY <3>1, <3>2
  <2>9. CASE \E i \in 1 .. Len(pageStack) : pageStack[i] = f
    <3>1. PICK i \in 1 .. Len(pageStack) : pageStack[i] = f
      BY <2>9
    <3>2. Cardinality(S) = 1
      <4>1. i \in S
        BY <2>5, <2>6, <3>1
      <4>2. \A j \in S : j = i
        BY <2>4, <2>5, <2>6, <3>1 DEF OnePlace
      <4> QED BY <4>1, <4>2, OneElement
    <3>3. Cardinality(E) = 0
      <4>1. \A e \in E : FALSE
        BY <2>4, <2>8, <3>1 DEF OnePlace
      <4> QED BY <4>1, NoElement
    <3> QED BY <3>2, <3>3, <2>6, <2>7
  <2>10. CASE ~\E i \in 1 .. Len(pageStack) : pageStack[i] = f
    <3>1. Cardinality(S) = 0
      <4>1. \A i \in S : FALSE
        BY <2>5, <2>6, <2>10
      <4> QED BY <4>1, NoElement
    <3>2. PICK t \in Tables : \E v \in Pages(t) : Map[t][v].page = f
      BY <2>3, <2>4, <2>10 DEF OnePlace
    <3>3. PICK v \in Pages(t) : Map[t][v].page = f
      BY <3>2
    <3>4. PICK a \in DOMAIN pt : \E i \in 0 .. SectionPages - 1 :
              a = l1[t][Section(v)] /\ i = Index(v) /\ pt[a][i] = Map[t][v]
      BY <2>2, <2>3, <3>3, PageIsEntry
    <3>5. PICK i \in 0 .. SectionPages - 1 :
              a = l1[t][Section(v)] /\ i = Index(v) /\ pt[a][i] = Map[t][v]
      BY <3>4
    <3>6. PICK e : e = <<a, i>>
      OBVIOUS
    <3>7. e \in E
      BY <2>7, <3>3, <3>5, <3>6
    <3>8. ASSUME NEW g \in E PROVE g = e
      <4>1. PICK u \in Tables : \E w \in Pages(u) :
                /\ Map[u][w].page = f /\ g = <<l1[u][Section(w)], Index(w)>>
        BY <2>8
      <4>2. PICK w \in Pages(u) : Map[u][w].page = f /\ g = <<l1[u][Section(w)], Index(w)>>
        BY <4>1
      <4>3. u = t /\ w = v
        BY <2>3, <2>4, <3>3, <4>2 DEF OnePlace
      <4> QED BY <3>5, <3>6, <4>2, <4>3
    <3>9. Cardinality(E) = 1
      BY <3>7, <3>8, OneElement
    <3> QED BY <3>1, <3>9, <2>6, <2>7
  <2> QED BY <2>9, <2>10
<1> QED BY <1>1, SpaceInvariant, PTL
=============================================================================
