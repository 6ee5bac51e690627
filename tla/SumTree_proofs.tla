--------------------------- MODULE SumTree_proofs ---------------------------
(***************************************************************************)
(* Proof that summarization and quadMoments leave in every cell exactly    *)
(* the bodies under it, each of them once, for any number of bodies,       *)
(* cells, work groups and lanes, with consistent memory or without.        *)
(*                                                                         *)
(* buildTree has left a tree: a level lv[c] for each cell and the bodies   *)
(* U[c] under it, which are the disjoint union of those under its          *)
(* children.  While a kernel climbs, what a work item has added up for its *)
(* cell is U of the children it has looked at and found ready: those it    *)
(* has still to scan and those on its stack of missing ones are left out.  *)
(* A cell is either not ready, and then still ahead of the one item that   *)
(* owns it, or it holds the sum of U[c] in full.                           *)
(*                                                                         *)
(* With consistent memory an item polls until its children are ready, and  *)
(* one launch is enough.  Without it an item leaves its cell when a child  *)
(* is missing; the host launches the kernel hostDepth times, and launch p, *)
(* counted from 0, finishes the cells of level hostDepth - p and deeper,   *)
(* those that are Due.                                                     *)
(*                                                                         *)
(* Second, that forceCalculation then lets every mass act on every body    *)
(* exactly once.  It takes three arguments.                                *)
(*   - summarization moves the children of a cell to the front (Packed),   *)
(*     so a walk that stops at the first null child has seen them all.     *)
(*   - sort hands a cell's place in the array down to its children.  The   *)
(*     tree alone fixes the places: InOrder(at, U), where at[n] counts the *)
(*     bodies before n; a launch finishes a level more (Sorts), and after  *)
(*     the last one every body has a slot of its own (Placed).             *)
(*   - The entries of a wavefront's stack stand for disjoint parts of the  *)
(*     tree that are still to be added, and what it has added is all other *)
(*     bodies (Walking), whatever cells it accepts.  The wavefronts of a   *)
(*     launch come to every slot of its chunk (Walkers, Serves).           *)
(***************************************************************************)
EXTENDS BuildTree_proofs, SequenceTheorems

Word == IF phase = "sum" THEN mass ELSE quad
Kids(m) == {n \in Node : \E s \in Sub : child[m][s] = n}
Sum(U, N) == UNION {U[n] : n \in N}
Base == ts.bottom - (ts.bottom % Warp)

\* The tree as the host has left it: a level for each cell, and the bodies
\* under it.
TreeOf(lv, U) ==
  /\ ts.bottom \in NBody + 1 .. NNode
  /\ lv \in [Node -> Nat] /\ \A c \in Cells : 1 <= lv[c] /\ lv[c] <= hostDepth
  /\ \A m \in Cells, s \in Sub : child[m][s] \in Node \cup {NULL_BODY}
  /\ \A n \in Node, s \in Sub : isCell(n) /\ n < ts.bottom => child[n][s] = NULL_BODY
  /\ \A m \in Cells : child[m][0] = child[m][1] => child[m][0] = NULL_BODY
  /\ \A m \in Cells : \A n \in Kids(m) : isBody(n) \/ (n \in Cells /\ n < m /\ lv[n] = lv[m] + 1)
  /\ \A b \in Body : U[b] = {b}
  /\ \A m \in Cells : U[m] \subseteq Body /\ U[m] = Sum(U, Kids(m))
  /\ \A m \in Cells : \A a, b \in Kids(m) : a # b => U[a] \cap U[b] = {}

\* The words of a cell that are stored before the one that says it is ready.
Stored(c, U) ==
  /\ c \in written[phase]
  /\ phase = "sum" => count[c] = Cardinality(U[c]) /\ (mode.quad => quad[c] = NotReady)
Exact(c, U) == Word[c] = AllOnce(U[c]) /\ Stored(c, U)

\* Whether this launch finishes the cell.
Due(c, lv) == mode.consistent \/ lv[c] >= hostDepth - pass

\* An item with registers R: the children it has not looked at, those it has
\* found not ready, and the bodies it has added up.
Left(R) == {n \in Kids(R.k) : R.pc = "scan" /\ \E s \in Sub : s >= R.i /\ child[R.k][s] = n}
Missing(R) == {R.missing[x] : x \in 1 .. Len(R.missing)}
Got(R, U) == U[R.k] \ Sum(U, Left(R) \cup Missing(R))
Adding == {"scan", "poll", "store", "ready"}

Adds(R, lv, U) ==
  /\ R.missing \in Seq(Kids(R.k)) /\ Missing(R) \cap Left(R) = {}
  /\ \A x, y \in 1 .. Len(R.missing) : R.missing[x] = R.missing[y] => x = y
  /\ R.total = AllOnce(Got(R, U))
  /\ phase = "sum" =>
       R.cnt = Cardinality(Got(R, U)) + Len(R.missing) - (IF R.pc = "scan" THEN R.j ELSE 0)
  /\ R.pc = "scan" /\ R.i = 1 /\ R.j = 0 => child[R.k][0] = NULL_BODY
  /\ R.pc = "poll" => R.missing # <<>>
  /\ R.pc \in {"store", "ready"} => R.missing = <<>>
  /\ ~mode.consistent /\ R.missing # <<>> => ~Due(R.k, lv)

\* Item w: what it has passed is ready, if it is due.
Climbs(w, R, lv, U) ==
  /\ R.k \in Nat /\ R.k >= ts.bottom /\ Mine(w, R.k - Base)
  /\ R.pc \in Adding \cup {"next", "exit"} /\ (R.pc = "exit" <=> R.k > NNode)
  /\ \A c \in Cells : Mine(w, c - Base) /\ Due(c, lv) /\ (c < R.k \/ (c = R.k /\ R.pc = "next"))
       => Word[c] # NotReady
  /\ R.pc \in Adding => Adds(R, lv, U)
  /\ R.pc = "ready" => Stored(R.k, U)

Climb(lv, U) ==
  /\ \A c \in Cells : Word[c] # NotReady => Exact(c, U)
  /\ ~mode.consistent => \A c \in Cells : lv[c] > hostDepth - pass => Word[c] # NotReady
  /\ \A w \in Item : Climbs(w, sm[w], lv, U)

Sums(lv, U) ==
  /\ TreeOf(lv, U)
  /\ phase \in {"sum", "quad"} => Climb(lv, U)
  /\ phase # "sum" => \A c \in Cells : mass[c] = AllOnce(U[c]) /\ count[c] = Cardinality(U[c])
  /\ phase = "sort" /\ mode.quad => \A c \in Cells : quad[c] = NotReady
  /\ phase \in {"tree", "force", "integrate"} /\ mode.quad => \A c \in Cells : quad[c] = AllOnce(U[c])

Words ==
  /\ mass = [n \in Node |-> mass[n]] /\ quad = [n \in Node |-> quad[n]] /\ count = [n \in Node |-> count[n]]
  /\ IsRecord(written, {"sum", "quad"})
  /\ \A b \in Body : mass[b] = Unit(b)

-----------------------------------------------------------------------------
(* Bags of bodies, each once.                                               *)

LEMMA OnceIsReady ==
    ASSUME NEW A
    PROVE  AllOnce(A) # NotReady
  <1>1. AllOnce(A) \in [Body -> Nat]
    BY DEF AllOnce
  <1>2. QED
    BY <1>1, ReadyAssumption

LEMMA UnitOnce ==
    ASSUME NEW b
    PROVE  Unit(b) = AllOnce({b})
  BY DEF Unit, AllOnce

LEMMA PlusOnce ==
    ASSUME NEW A, NEW B, A \cap B = {}
    PROVE  Plus(AllOnce(A), AllOnce(B)) = AllOnce(A \cup B)
  BY DEF Plus, AllOnce

LEMMA OnceNone == NoMass = AllOnce({})
  BY DEF NoMass, AllOnce

LEMMA BodyCount ==
    ASSUME NEW A \in SUBSET Body, NEW B \in SUBSET Body, A \cap B = {}
    PROVE  /\ Cardinality(A) \in Nat /\ Cardinality(B) \in Nat
           /\ Cardinality(A \cup B) = Cardinality(A) + Cardinality(B)
  <1>1. IsFiniteSet(Body)
    BY NodeAssumption, FS_Interval DEF Body
  <1>2. IsFiniteSet(A) /\ IsFiniteSet(B)
    BY <1>1, FS_Subset
  <1>3. Cardinality(A) \in Nat /\ Cardinality(B) \in Nat /\ Cardinality(A \cap B) = 0
    BY <1>2, FS_CardinalityType, FS_EmptySet
  <1>4. Cardinality(A \cup B) = Cardinality(A) + Cardinality(B) - Cardinality(A \cap B)
    BY <1>2, FS_Union
  <1>5. QED
    BY <1>3, <1>4

-----------------------------------------------------------------------------
(* Sequences without repetition.                                            *)

Once(s) == \A x, y \in 1 .. Len(s) : s[x] = s[y] => x = y
Entries(s) == {s[x] : x \in 1 .. Len(s)}

\* t is s with c added.
Longer(t, s, c, S) ==
  /\ t \in Seq(S) /\ Once(t) /\ Entries(t) = Entries(s) \cup {c} /\ Len(t) = Len(s) + 1
  /\ t # <<>> /\ Len(s) \in Nat

LEMMA AppendOnce ==
    ASSUME NEW S, NEW s \in Seq(S), NEW c \in S, c \notin Entries(s), Once(s)
    PROVE  Longer(Append(s, c), s, c, S)
  <1> DEFINE t == Append(s, c)
  <1>1. t \in Seq(S) /\ Len(t) = Len(s) + 1 /\ Len(s) \in Nat
    OBVIOUS
  <1>2. \A x \in 1 .. Len(s) : t[x] = s[x]
    OBVIOUS
  <1>3. t[Len(s) + 1] = c
    OBVIOUS
  <1> HIDE DEF t
  <1>4. \A x \in 1 .. Len(t) : x \in 1 .. Len(s) \/ x = Len(s) + 1
    BY <1>1
  <1>5. \A x \in 1 .. Len(s) : x \in 1 .. Len(t)
    BY <1>1
  <1>6. Len(s) + 1 \in 1 .. Len(t)
    BY <1>1
  <1>7. Entries(t) = Entries(s) \cup {c}
    BY <1>2, <1>3, <1>4, <1>5, <1>6 DEF Entries
  <1>8. Once(t)
    <2> SUFFICES ASSUME NEW x \in 1 .. Len(t), NEW y \in 1 .. Len(t), t[x] = t[y]
                 PROVE  x = y
      BY DEF Once
    <2>1. CASE x \in 1 .. Len(s) /\ y \in 1 .. Len(s)
      BY <1>2, <2>1 DEF Once
    <2>2. CASE x = Len(s) + 1 /\ y \in 1 .. Len(s)
      BY <1>2, <1>3, <2>2 DEF Entries
    <2>3. CASE y = Len(s) + 1 /\ x \in 1 .. Len(s)
      BY <1>2, <1>3, <2>3 DEF Entries
    <2>4. QED
      BY <1>4, <2>1, <2>2, <2>3
  <1>9. t # <<>>
    BY <1>1
  <1>10. QED
    BY <1>1, <1>7, <1>8, <1>9 DEF t, Longer

\* t is s less its last element c.
Shorter(t, s, c, S) ==
  /\ t \in Seq(S) /\ Once(t) /\ Entries(t) = Entries(s) \ {c} /\ Len(t) = Len(s) - 1
  /\ c \in Entries(s) /\ c \in S /\ Len(s) \in Nat

LEMMA FrontOnce ==
    ASSUME NEW S, NEW s \in Seq(S), s # <<>>, Once(s), NEW c, c = s[Len(s)], NEW t, t = SubSeq(s, 1, Len(s) - 1)
    PROVE  Shorter(t, s, c, S)
  <1>1. Len(s) \in Nat /\ Len(s) >= 1
    OBVIOUS
  <1>2. t \in Seq(S) /\ Len(t) = Len(s) - 1
    <2>1. 1 \in 1 .. Len(s) + 1 /\ Len(s) - 1 \in 1 - 1 .. Len(s)
      BY <1>1
    <2>2. Len(t) = IF 1 <= Len(s) - 1 THEN Len(s) - 1 - 1 + 1 ELSE 0
      BY <2>1, SubSeqProperties
    <2>3. t \in Seq(S)
      BY <2>1, SubSeqProperties
    <2>4. PICK n, l : n = Len(s) /\ l = Len(t)
      OBVIOUS
    <2>5. n \in Nat /\ n >= 1 /\ l = IF 1 <= n - 1 THEN n - 1 - 1 + 1 ELSE 0
      BY <1>1, <2>2, <2>4
    <2>6. l = n - 1
      BY <2>5, SMT
    <2>7. QED
      BY <2>3, <2>4, <2>6
  <1>3. \A x \in 1 .. Len(s) - 1 : t[x] = s[x]
    BY <1>1
  <1>4. Len(s) \in 1 .. Len(s) /\ \A x \in 1 .. Len(s) : x \in 1 .. Len(s) - 1 \/ x = Len(s)
    BY <1>1
  <1>5. \A x \in 1 .. Len(t) : x \in 1 .. Len(s) /\ x # Len(s) /\ t[x] = s[x]
    BY <1>1, <1>2, <1>3
  <1>6. \A x \in 1 .. Len(s) : x # Len(s) => x \in 1 .. Len(t)
    BY <1>2, <1>4
  <1>7. Once(t)
    BY <1>5 DEF Once
  <1>8. Entries(t) = Entries(s) \ {c}
    <2>1. ASSUME NEW x \in 1 .. Len(t)
          PROVE  t[x] \in Entries(s) \ {c}
      BY <1>4, <1>5 DEF Entries, Once
    <2>2. ASSUME NEW x \in 1 .. Len(s), s[x] # c
          PROVE  s[x] \in Entries(t)
      <3>1. x \in 1 .. Len(t)
        BY <1>6, <2>2
      <3>2. QED
        BY <1>5, <3>1 DEF Entries
    <2>3. QED
      BY <2>1, <2>2 DEF Entries
  <1>9. c \in Entries(s) /\ c \in S
    BY <1>1, <1>4 DEF Entries
  <1>10. QED
    BY <1>1, <1>2, <1>7, <1>8, <1>9 DEF Shorter

-----------------------------------------------------------------------------
(* The children of a cell.                                                  *)

LEMMA KidFacts ==
    ASSUME NEW lv, NEW U, TreeOf(lv, U)
    PROVE  /\ \A c \in Cells : c \in Node /\ c \in Nat /\ isCell(c) /\ ~isBody(c) /\ c <= NNode /\ c >= ts.bottom
           /\ \A n \in Node : (isBody(n) => n \in Body) /\ (n \in Body => isBody(n))
           /\ \A m \in Cells : \A n \in Kids(m) : n \in Node /\ (n \in Body \/ n \in Cells) /\ U[n] \subseteq U[m] /\ U[n] \subseteq Body
           /\ \A m \in Cells, s \in Sub : child[m][s] >= 0 <=> child[m][s] \in Kids(m)
           /\ \A m \in Cells, s \in Sub : child[m][s] \notin Kids(m) <=> child[m][s] = NULL_BODY
           /\ ts.bottom \in Nat /\ NNode \in Nat /\ NBody \in Nat
  <1>1. ts.bottom \in NBody + 1 .. NNode /\ NNode \in Nat /\ NBody \in Nat
    BY NodeAssumption DEF TreeOf
  <1>2. \A c \in Cells : c \in Node /\ c \in Nat /\ isCell(c) /\ ~isBody(c) /\ c <= NNode /\ c >= ts.bottom
    BY <1>1 DEF Cells, Node, isCell, isBody
  <1>3. \A n \in Node : (isBody(n) => n \in Body) /\ (n \in Body => isBody(n))
    BY <1>1 DEF Node, isBody, Body
  <1>4. ASSUME NEW m \in Cells, NEW n \in Kids(m)
        PROVE  n \in Node /\ (n \in Body \/ n \in Cells) /\ U[n] \subseteq U[m] /\ U[n] \subseteq Body
    <2>1. n \in Node
      BY DEF Kids
    <2>2. n \in Body \/ n \in Cells
      BY <1>3, <2>1 DEF TreeOf
    <2>3. U[m] = Sum(U, Kids(m)) /\ U[m] \subseteq Body
      BY DEF TreeOf
    <2>4. U[n] \subseteq Sum(U, Kids(m))
      BY DEF Sum
    <2>5. QED
      BY <2>1, <2>2, <2>3, <2>4
  <1>5. ASSUME NEW m \in Cells, NEW s \in Sub
        PROVE  /\ child[m][s] >= 0 <=> child[m][s] \in Kids(m)
               /\ child[m][s] \notin Kids(m) <=> child[m][s] = NULL_BODY
    <2>1. child[m][s] \in Node \cup {NULL_BODY}
      BY DEF TreeOf
    <2>2. child[m][s] \in Kids(m) <=> child[m][s] \in Node
      BY DEF Kids
    <2>3. QED
      BY <1>1, <2>1, <2>2 DEF Node, NULL_BODY
  <1>6. QED
    BY <1>1, <1>2, <1>3, <1>4, <1>5

\* H is G and A.
More(H, G, A) ==
  /\ AllOnce(H) = Plus(AllOnce(G), AllOnce(A))
  /\ Cardinality(H) = Cardinality(G) + Cardinality(A)
  /\ Cardinality(G) \in Nat /\ Cardinality(A) \in Nat

\* One child less is owed: its bodies are added.
LEMMA GotMore ==
    ASSUME NEW lv, NEW U, TreeOf(lv, U), NEW k \in Cells, NEW O \in SUBSET Kids(k), NEW c \in O
    PROVE  More(U[k] \ Sum(U, O \ {c}), U[k] \ Sum(U, O), U[c])
  <1>a. PICK P, G, H : P = O \ {c} /\ G = U[k] \ Sum(U, O) /\ H = U[k] \ Sum(U, P)
    OBVIOUS
  <1>1. c \in Kids(k)
    OBVIOUS
  <1>2. U[c] \subseteq U[k] /\ U[c] \subseteq Body /\ U[k] \subseteq Body
    BY <1>1, KidFacts DEF TreeOf
  <1>3. \A a \in P : U[a] \cap U[c] = {}
    BY <1>1, <1>a DEF TreeOf
  <1>4. U[c] \cap Sum(U, P) = {}
    BY <1>3 DEF Sum
  <1>5. Sum(U, O) = Sum(U, P) \cup U[c]
    BY <1>a DEF Sum
  <1>6. H = G \cup U[c] /\ G \cap U[c] = {}
    BY <1>2, <1>4, <1>5, <1>a
  <1>7. G \in SUBSET Body /\ U[c] \in SUBSET Body
    BY <1>2, <1>a
  <1>8. More(H, G, U[c])
    BY <1>6, <1>7, PlusOnce, BodyCount DEF More
  <1>9. QED
    BY <1>8, <1>a

\* Nothing is owed: all bodies are added.
LEMMA GotAll ==
    ASSUME NEW lv, NEW U, TreeOf(lv, U), NEW k \in Cells
    PROVE  U[k] \ Sum(U, {}) = U[k] /\ U[k] \ Sum(U, Kids(k)) = {} /\ Cardinality(U[k]) \in Nat
  <1>1. U[k] \in SUBSET Body /\ U[k] = Sum(U, Kids(k)) /\ Sum(U, {}) = {}
    BY DEF TreeOf, Sum
  <1>2. {} \in SUBSET Body /\ U[k] \cap {} = {}
    OBVIOUS
  <1>3. Cardinality(U[k]) \in Nat
    BY <1>1, <1>2, BodyCount
  <1>4. QED
    BY <1>1, <1>3

\* What a child that is ready adds.
LEMMA KidReady ==
    ASSUME NEW lv, NEW U, TreeOf(lv, U), Climb(lv, U), Words, phase \in {"sum", "quad"}, NEW k \in Cells,
           NEW c \in Kids(k), IsReady(c)
    PROVE  Contribution(c) = AllOnce(U[c]) /\ (phase = "sum" => Extra(c) = Cardinality(U[c]) - 1)
  <1>1. c \in Node /\ (c \in Body \/ c \in Cells)
    BY KidFacts
  <1>2. CASE c \in Body
    <2>1. isBody(c) /\ ~isCell(c)
      BY <1>1, <1>2, NodeAssumption, KidFacts DEF isCell, isBody, Body
    <2>2. mass[c] = Unit(c) /\ U[c] = {c}
      BY <1>2 DEF Words, TreeOf
    <2>3. Contribution(c) = AllOnce(U[c])
      BY <2>1, <2>2, UnitOnce DEF Contribution
    <2>4. Cardinality({c}) = 1
      BY FS_Singleton
    <2>5. Extra(c) = 0
      BY <2>1 DEF Extra
    <2>6. QED
      BY <2>2, <2>3, <2>4, <2>5
  <1>3. CASE c \in Cells
    <2>1. ~isBody(c) /\ isCell(c)
      BY <1>3, KidFacts
    <2>2. Word[c] # NotReady
      BY <2>1 DEF IsReady, Word
    <2>3. Exact(c, U)
      BY <1>3, <2>2 DEF Climb
    <2>4. Contribution(c) = Word[c]
      BY <2>1, <2>3 DEF Contribution, Exact, Stored, Word
    <2>5. phase = "sum" => Extra(c) = count[c] - 1 /\ count[c] = Cardinality(U[c])
      BY <2>1, <2>3 DEF Extra, Exact, Stored
    <2>6. QED
      BY <2>3, <2>4, <2>5 DEF Exact
  <1>4. QED
    BY <1>1, <1>2, <1>3

\* A child that is not ready shows that this launch cannot finish the cell.
LEMMA KidMissing ==
    ASSUME NEW lv, NEW U, TreeOf(lv, U), Climb(lv, U), Words, phase \in {"sum", "quad"}, NEW k \in Cells,
           NEW c \in Kids(k), ~IsReady(c), ~mode.consistent, NumInv, hostDepth \in Nat, pass \in Nat
    PROVE  ~Due(k, lv)
  <1>1. c \in Node /\ (c \in Body \/ c \in Cells)
    BY KidFacts
  <1>2. c \notin Body
    <2> SUFFICES ASSUME c \in Body
                 PROVE  FALSE
      OBVIOUS
    <2>1. isBody(c) /\ mass[c] = Unit(c)
      BY <1>1, KidFacts DEF Words
    <2>2. QED
      BY <2>1, UnitOnce, OnceIsReady DEF IsReady
  <1>3. c \in Cells /\ ~isBody(c)
    BY <1>1, <1>2, KidFacts
  <1>4. Word[c] = NotReady
    BY <1>3 DEF IsReady, Word
  <1>5. ~(lv[c] > hostDepth - pass)
    BY <1>3, <1>4 DEF Climb
  <1>6. lv[c] = lv[k] + 1 /\ lv[k] \in Nat
    BY <1>3, KidFacts DEF TreeOf
  <1>7. QED
    BY <1>5, <1>6 DEF Due

-----------------------------------------------------------------------------
(* Children move to the front of a cell.                                    *)

LEMMA SameKids ==
    ASSUME NEW lv, NEW U, TreeOf(lv, U), UNCHANGED <<child, hostDepth>>, ts'.bottom = ts.bottom
    PROVE  TreeOf(lv, U)' /\ Cells' = Cells /\ \A m : Kids(m)' = Kids(m)
  <1>1. Cells' = Cells /\ \A m : Kids(m)' = Kids(m)
    BY DEF Cells, Kids
  <1>2. QED
    BY <1>1 DEF TreeOf

LEMMA MovedKids ==
    ASSUME NEW lv, NEW U, TreeOf(lv, U), Types, UNCHANGED <<ts, hostDepth>>, NEW k \in Cells, child[k][0] = NULL_BODY,
           child' = [child EXCEPT ![k][1] = NULL_BODY, ![k][0] = child[k][1]]
    PROVE  /\ TreeOf(lv, U)' /\ Cells' = Cells /\ (\A m \in Cells : Kids(m)' = Kids(m))
           /\ \A m \in Node : m # k => child'[m] = child[m]
  <1>1. Cells' = Cells /\ k \in Node /\ 0 \in Sub /\ 1 \in Sub /\ (\A s \in Sub : s = 0 \/ s = 1)
    BY KidFacts DEF Cells, Sub
  <1>2. child'[k][0] = child[k][1] /\ child'[k][1] = NULL_BODY
    BY <1>1 DEF Types
  <1>3. (\A m \in Node : m # k => child'[m] = child[m]) /\ \A m \in Cells : m \in Node
    BY KidFacts DEF Types
  <1>4. NULL_BODY \notin Node
    BY DEF NULL_BODY, Node
  <1>5. ASSUME NEW m \in Cells
        PROVE  Kids(m)' = Kids(m)
    <2>1. CASE m # k
      BY <1>3, <2>1 DEF Kids
    <2>2. CASE m = k
      <3>1. \A n \in Node : (\E s \in Sub : child'[k][s] = n) <=> (\E s \in Sub : child[k][s] = n)
        BY <1>1, <1>2, <1>4
      <3>2. Kids(k)' = Kids(k)
        BY <3>1 DEF Kids
      <3>3. QED
        BY <2>2, <3>2
    <2>3. QED
      BY <2>1, <2>2
  <1>6. \A m \in Cells, s \in Sub : child'[m][s] \in Node \cup {NULL_BODY}
    <2>1. \A m \in Cells, s \in Sub : child[m][s] \in Node \cup {NULL_BODY}
      BY DEF TreeOf
    <2>2. QED
      BY <1>1, <1>2, <1>3, <2>1
  <1>7. \A m \in Cells : child'[m][0] = child'[m][1] => child'[m][0] = NULL_BODY
    BY <1>2, <1>3 DEF TreeOf
  <1>8. \A n \in Node, s \in Sub : isCell(n) /\ n < ts.bottom => child'[n][s] = NULL_BODY
    <2>1. \A n \in Node : n < ts.bottom => n # k
      BY KidFacts DEF Node
    <2>2. \A n \in Node, s \in Sub : isCell(n) /\ n < ts.bottom => child[n][s] = NULL_BODY
      BY DEF TreeOf
    <2>3. QED
      BY <1>3, <2>1, <2>2
  <1>9. TreeOf(lv, U)'
    <2>1. \A m \in Cells : \A n \in Kids(m)' : isBody(n) \/ (n \in Cells /\ n < m /\ lv[n] = lv[m] + 1)
      BY <1>5 DEF TreeOf
    <2>2. \A m \in Cells : U[m] \subseteq Body /\ U[m] = Sum(U, Kids(m)')
      BY <1>5 DEF TreeOf
    <2>3. \A m \in Cells : \A a, b \in Kids(m)' : a # b => U[a] \cap U[b] = {}
      BY <1>5 DEF TreeOf
    <2>4. QED
      BY <1>1, <1>6, <1>7, <1>8, <2>1, <2>2, <2>3 DEF TreeOf, Sum
  <1>10. QED
    BY <1>1, <1>3, <1>5, <1>9

-----------------------------------------------------------------------------
(* The items divide the cells among them.                                   *)

LEMMA Quotient ==
    ASSUME NEW p \in Nat, NEW q \in Nat, NEW r \in Nat, NEW t \in Nat, NEW d \in Nat, r < d, t < d,
           r + p * d = t + q * d
    PROVE  p = q /\ r = t
  <1>1. p * d \in Nat /\ q * d \in Nat
    OBVIOUS
  <1>2. ~(p + 1 <= q)
    <2> SUFFICES ASSUME p + 1 <= q
                 PROVE  FALSE
      OBVIOUS
    <2>1. (p + 1) * d <= q * d /\ (p + 1) * d = p * d + d
      BY Product
    <2>2. QED
      BY <1>1, <2>1
  <1>3. ~(q + 1 <= p)
    <2> SUFFICES ASSUME q + 1 <= p
                 PROVE  FALSE
      OBVIOUS
    <2>1. (q + 1) * d <= p * d /\ (q + 1) * d = q * d + d
      BY Product
    <2>2. QED
      BY <1>1, <2>1
  <1>4. p = q
    BY <1>2, <1>3
  <1>5. QED
    BY <1>1, <1>4

LEMMA MineAlone ==
    ASSUME ShapeInv, NEW v \in Item, NEW w \in Item, NEW b, Mine(v, b), Mine(w, b)
    PROVE  v = w
  <1>1. /\ Gid(v) \in Nat /\ Gid(v) < Inc /\ Gid(w) \in Nat /\ Gid(w) < Inc /\ Inc \in Nat
        /\ mode.lanes \in Nat /\ mode.groups \in Nat
    BY GidRange, IncNat
  <1>2. PICK p \in Nat : b = Gid(v) + p * Inc
    BY DEF Mine
  <1>3. PICK q \in Nat : b = Gid(w) + q * Inc
    BY DEF Mine
  <1>4. Gid(v) = Gid(w)
    BY <1>1, <1>2, <1>3, Quotient
  <1>5. /\ v[1] \in Nat /\ v[2] \in Nat /\ v[2] < mode.lanes /\ w[1] \in Nat /\ w[2] \in Nat /\ w[2] < mode.lanes
        /\ v = <<v[1], v[2]>> /\ w = <<w[1], w[2]>>
    BY <1>1 DEF Item, Group, Lane
  <1>6. v[2] + v[1] * mode.lanes = w[2] + w[1] * mode.lanes
    BY <1>1, <1>4, <1>5 DEF Gid
  <1>7. v[1] = w[1] /\ v[2] = w[2]
    BY <1>1, <1>5, <1>6, Quotient
  <1>8. QED
    BY <1>5, <1>7

LEMMA BaseFacts ==
    ASSUME ShapeInv, ts.bottom \in Nat
    PROVE  Base \in Nat /\ Base <= ts.bottom /\ ts.bottom < Base + Inc /\ Inc \in Nat /\ Inc >= 1
  <1>1. /\ Inc \in Nat /\ Inc >= 1 /\ mode.groups \in Nat /\ mode.groups >= 1
        /\ mode.lanes \in Nat /\ mode.lanes >= 1 /\ Inc = mode.groups * mode.lanes
    BY IncNat DEF Inc
  <1>2. Warp \in Nat /\ Warp >= 1 /\ Warp <= Inc
    <2>1. 1 * mode.lanes <= mode.groups * mode.lanes /\ 1 * mode.lanes = mode.lanes
      BY <1>1, Product
    <2>2. QED
      BY <1>1, <2>1 DEF Warp
  <1>3. PICK n, d : n = ts.bottom /\ d = Warp
    OBVIOUS
  <1>4. n % d \in 0 .. d - 1 /\ n % d <= n
    BY <1>2, <1>3
  <1>5. QED
    BY <1>1, <1>2, <1>3, <1>4 DEF Base

\* The first cell of an item.
LEMMA FirstFacts ==
    ASSUME ShapeInv, ts.bottom \in Nat, NEW w \in Item
    PROVE  /\ FirstCell(w) \in Nat /\ FirstCell(w) >= ts.bottom /\ Mine(w, FirstCell(w) - Base)
           /\ \A c \in Nat : c >= ts.bottom /\ Mine(w, c - Base) => c >= FirstCell(w)
  <1>1. Base \in Nat /\ Base <= ts.bottom /\ ts.bottom < Base + Inc /\ Inc \in Nat /\ Inc >= 1
    BY BaseFacts
  <1>2. Gid(w) \in Nat /\ Gid(w) < Inc
    BY GidRange
  <1> DEFINE k == FirstCell(w)
  <1>3. k = IF Base + Gid(w) < ts.bottom THEN Base + Gid(w) + Inc ELSE Base + Gid(w)
    BY DEF FirstCell, Base
  <1> HIDE DEF k
  <1>4. k \in Nat /\ k >= ts.bottom
    BY <1>1, <1>2, <1>3
  <1>5. Mine(w, k - Base)
    <2>1. CASE Base + Gid(w) < ts.bottom
      <3>1. k - Base = Gid(w) + 1 * Inc
        BY <1>1, <1>2, <1>3, <2>1
      <3>2. QED
        BY <3>1 DEF Mine
    <2>2. CASE ~(Base + Gid(w) < ts.bottom)
      <3>1. k - Base = Gid(w) + 0 * Inc
        BY <1>1, <1>2, <1>3, <2>2
      <3>2. QED
        BY <3>1 DEF Mine
    <2>3. QED
      BY <2>1, <2>2
  <1>6. ASSUME NEW c \in Nat, c >= ts.bottom, Mine(w, c - Base)
        PROVE  c >= k
    <2>1. PICK q \in Nat : c - Base = Gid(w) + q * Inc
      BY <1>6 DEF Mine
    <2>2. q * Inc \in Nat
      BY <1>1
    <2>3. CASE Base + Gid(w) < ts.bottom
      <3>1. q # 0
        <4> SUFFICES ASSUME q = 0
                     PROVE  FALSE
          OBVIOUS
        <4>1. q * Inc = 0
          BY <1>1
        <4>2. QED
          BY <1>1, <1>2, <1>6, <2>1, <2>3, <4>1
      <3>2. 1 * Inc <= q * Inc /\ 1 * Inc = Inc
        BY <1>1, <3>1, Product
      <3>3. QED
        BY <1>1, <1>2, <1>3, <2>1, <2>2, <2>3, <3>2
    <2>4. CASE ~(Base + Gid(w) < ts.bottom)
      BY <1>1, <1>2, <1>3, <2>1, <2>2, <2>4
    <2>5. QED
      BY <2>3, <2>4
  <1>7. QED
    BY <1>4, <1>5, <1>6 DEF k

\* The next one.
LEMMA NextFacts ==
    ASSUME ShapeInv, ts.bottom \in Nat, NEW w \in Item, NEW k \in Nat, k >= ts.bottom, Mine(w, k - Base)
    PROVE  /\ k + Inc \in Nat /\ k + Inc >= ts.bottom /\ Mine(w, k + Inc - Base)
           /\ \A c \in Nat : Mine(w, c - Base) /\ c < k + Inc => c <= k
  <1>1. Base \in Nat /\ Inc \in Nat /\ Inc >= 1
    BY BaseFacts
  <1>2. Mine(w, (k - Base) + Inc) /\ (k - Base) + Inc = k + Inc - Base
    BY <1>1, MineNext
  <1>3. ASSUME NEW c \in Nat, Mine(w, c - Base), c < k + Inc
        PROVE  c <= k
    <2>1. c - Base < (k - Base) + Inc
      BY <1>1, <1>3
    <2>2. c - Base <= k - Base
      BY <1>3, <2>1, MineOrder
    <2>3. QED
      BY <1>1, <2>2
  <1>4. QED
    BY <1>1, <1>2, <1>3

LEMMA CellOwner ==
    ASSUME ShapeInv, ts.bottom \in Nat, NEW c \in Nat, c >= ts.bottom
    PROVE  \E w \in Item : Mine(w, c - Base)
  <1>1. c - Base \in Nat
    BY BaseFacts
  <1>2. QED
    BY <1>1, Owner

-----------------------------------------------------------------------------
(* An item that comes to a cell.                                            *)

LEMMA FromCellClimbs ==
    ASSUME NEW lv, NEW U, TreeOf(lv, U), NEW w, NEW k \in Nat, k >= ts.bottom, Mine(w, k - Base),
           NEW ready, \A c \in Cells : ready[c] # NotReady => Word[c] # NotReady,
           \A c \in Cells : Mine(w, c - Base) /\ Due(c, lv) /\ c < k => Word[c] # NotReady,
           NEW N, N = FromCell(k, ready)
    PROVE  Climbs(w, N, lv, U)
  <1>1. /\ N.k = k /\ N.i = 0 /\ N.j = 0 /\ N.cnt = 0 /\ N.missing = <<>> /\ N.total = NoMass
        /\ N.pc = IF k > NNode THEN "exit" ELSE IF ready[k] # NotReady THEN "next" ELSE "scan"
    BY DEF FromCell
  <1>2. NNode \in Nat /\ ts.bottom \in Nat
    BY KidFacts
  <1>3. k <= NNode => k \in Cells
    BY <1>2 DEF Cells
  <1>4. N.pc \in {"scan", "next", "exit"} /\ (N.pc = "exit" <=> k > NNode)
    BY <1>1
  <1>5. ASSUME NEW c \in Cells, Mine(w, c - Base), Due(c, lv), c < k \/ (c = k /\ N.pc = "next")
        PROVE  Word[c] # NotReady
    BY <1>1, <1>5
  <1>6. ASSUME N.pc = "scan"
        PROVE  Adds(N, lv, U)
    <2>1. k \in Cells
      BY <1>1, <1>2, <1>3, <1>6
    <2>2. Missing(N) = {} /\ N.missing \in Seq(Kids(k)) /\ Len(N.missing) = 0
      BY <1>1 DEF Missing
    <2>3. Left(N) = Kids(k)
      BY <1>1, <1>6 DEF Left, Kids, Sub
    <2>4. Got(N, U) = {}
      BY <1>1, <2>1, <2>2, <2>3, GotAll DEF Got
    <2>5. N.total = AllOnce(Got(N, U)) /\ Cardinality(Got(N, U)) = 0
      BY <1>1, <2>4, OnceNone, FS_EmptySet
    <2>6. N.cnt = Cardinality(Got(N, U)) + Len(N.missing) - (IF N.pc = "scan" THEN N.j ELSE 0)
      BY <1>1, <2>2, <2>5
    <2>7. QED
      BY <1>1, <1>6, <2>2, <2>5, <2>6 DEF Adds
  <1>7. QED
    BY <1>1, <1>4, <1>5, <1>6 DEF Climbs, Adding

Launches ==
  \A lv, U, ready :
    /\ ShapeInv /\ TreeOf(lv, U) /\ \A c \in Cells : ready[c] # NotReady => Word[c] # NotReady
    /\ \A w \in Item : sm[w] = FromCell(FirstCell(w), ready)
    => \A w \in Item : Climbs(w, sm[w], lv, U)

LEMMA Launched == Launches
  <1> SUFFICES ASSUME NEW lv, NEW U, NEW ready, ShapeInv, TreeOf(lv, U),
                      \A c \in Cells : ready[c] # NotReady => Word[c] # NotReady, NEW w \in Item,
                      sm[w] = FromCell(FirstCell(w), ready)
               PROVE  Climbs(w, sm[w], lv, U)
    BY DEF Launches
  <1>1. ts.bottom \in Nat
    BY KidFacts
  <1> DEFINE k == FirstCell(w)
  <1>2. k \in Nat /\ k >= ts.bottom /\ Mine(w, k - Base) /\ \A c \in Nat : c >= ts.bottom /\ Mine(w, c - Base) => c >= k
    BY <1>1, FirstFacts
  <1> HIDE DEF k
  <1>3. \A c \in Cells : c \in Nat /\ c >= ts.bottom
    BY KidFacts
  <1>4. \A c \in Cells : Mine(w, c - Base) => ~(c < k)
    BY <1>2, <1>3
  <1>5. QED
    BY <1>2, <1>4, FromCellClimbs DEF k

-----------------------------------------------------------------------------
(* A step of one item.                                                      *)

LEMMA SameBase ==
    ASSUME UNCHANGED mode, ts'.bottom = ts.bottom
    PROVE  Base' = Base /\ Cells' = Cells /\ Item' = Item /\ \A w, b : Mine(w, b)' <=> Mine(w, b)
  BY DEF Base, Cells, Item, Group, Lane, Mine, Gid, Inc, Warp

\* An item that is not part of it.
LEMMA ClimbsKept ==
    ASSUME NEW lv, NEW U, NEW w, NEW R, Climbs(w, R, lv, U), UNCHANGED <<mode, phase, hostDepth, pass>>,
           ts'.bottom = ts.bottom, R.pc # "exit" => child'[R.k] = child[R.k],
           \A c \in Cells : Word[c] # NotReady => Word'[c] # NotReady,
           R.pc = "ready" /\ Stored(R.k, U) => Stored(R.k, U)'
    PROVE  Climbs(w, R, lv, U)'
  <1>1. Base' = Base /\ Cells' = Cells /\ \A b : Mine(w, b)' <=> Mine(w, b)
    BY SameBase
  <1>2. \A c : Due(c, lv)' <=> Due(c, lv)
    BY DEF Due
  <1>3. R.pc \in Adding => Adds(R, lv, U)'
    <2> SUFFICES ASSUME R.pc \in Adding
                 PROVE  Adds(R, lv, U)'
      OBVIOUS
    <2>1. Adds(R, lv, U) /\ child'[R.k] = child[R.k]
      BY DEF Climbs, Adding
    <2>2. Kids(R.k)' = Kids(R.k)
      BY <2>1 DEF Kids
    <2>3. Left(R)' = Left(R) /\ Missing(R)' = Missing(R)
      BY <2>1, <2>2 DEF Left, Missing
    <2>4. Got(R, U)' = Got(R, U)
      BY <2>3 DEF Got, Sum
    <2>5. QED
      BY <1>2, <2>1, <2>2, <2>3, <2>4 DEF Adds
  <1>4. \A c \in Cells : Mine(w, c - Base) /\ Due(c, lv) /\ (c < R.k \/ (c = R.k /\ R.pc = "next")) => Word'[c] # NotReady
    BY DEF Climbs
  <1>5. QED
    BY <1>1, <1>2, <1>3, <1>4 DEF Climbs

LEMMA OneClimbs ==
    ASSUME NEW lv, NEW U, ShapeInv, SumInv, TreeOf(lv, U), Climb(lv, U), NEW w \in Item, NEW N, NEW k,
           sm[w].k = k, sm[w].pc # "exit", sm' = [sm EXCEPT ![w] = N], UNCHANGED <<mode, phase, hostDepth, pass>>,
           ts'.bottom = ts.bottom, \A m \in Node : m # k => child'[m] = child[m],
           \A c \in Cells : c # k => Word'[c] = Word[c] /\ (Stored(c, U) => Stored(c, U)'),
           Word[k] # NotReady => Word'[k] # NotReady, Word'[k] # NotReady => Exact(k, U)',
           Climbs(w, N, lv, U)'
    PROVE  Climb(lv, U)'
  <1>1. Base' = Base /\ Cells' = Cells /\ Item' = Item /\ \A v, b : Mine(v, b)' <=> Mine(v, b)
    BY SameBase
  <1>2. \A c \in Cells : Word[c] # NotReady => Word'[c] # NotReady
    OBVIOUS
  <1>3. ASSUME NEW c \in Cells, Word'[c] # NotReady
        PROVE  Exact(c, U)'
    <2>1. CASE c = k
      BY <1>3, <2>1
    <2>2. CASE c # k
      <3>1. Exact(c, U)
        BY <1>3, <2>2 DEF Climb
      <3>2. Word'[c] = Word[c] /\ Stored(c, U)'
        BY <2>2, <3>1 DEF Exact
      <3>3. QED
        BY <3>1, <3>2 DEF Exact, AllOnce
    <2>3. QED
      BY <2>1, <2>2
  <1>4. ASSUME NEW v \in Item
        PROVE  Climbs(v, sm[v], lv, U)'
    <2>1. CASE v = w
      <3>1. sm'[w] = N
        BY DEF SumInv
      <3>2. QED
        BY <2>1, <3>1
    <2>2. CASE v # w
      <3>1. sm'[v] = sm[v]
        BY <2>2 DEF SumInv
      <3>a. PICK R : R = sm[v]
        OBVIOUS
      <3>2. Climbs(v, R, lv, U) /\ Climbs(w, sm[w], lv, U)
        BY <3>a DEF Climb
      <3>3. R.k # k
        <4>1. Mine(v, R.k - Base) /\ Mine(w, k - Base)
          BY <3>2 DEF Climbs
        <4>2. QED
          BY <2>2, <4>1, MineAlone
      <3>4. R.pc # "exit" => R.k \in Node /\ R.k \in Cells
        <4>1. R.k \in Nat /\ R.k >= ts.bottom /\ (R.pc = "exit" <=> R.k > NNode)
          BY <3>2 DEF Climbs
        <4>2. QED
          BY <4>1, KidFacts DEF Cells, Node
      <3>5. R.pc # "exit" => child'[R.k] = child[R.k]
        BY <3>3, <3>4
      <3>6. R.pc = "ready" /\ Stored(R.k, U) => Stored(R.k, U)'
        BY <3>3, <3>4
      <3>7. Climbs(v, R, lv, U)'
        BY <1>2, <3>2, <3>5, <3>6, ClimbsKept
      <3>8. sm'[v] = R
        BY <3>1, <3>a
      <3>9. QED
        BY <3>7, <3>8
    <2>3. QED
      BY <2>1, <2>2
  <1>5. ~mode.consistent => \A c \in Cells : lv[c] > hostDepth - pass => Word'[c] # NotReady
    BY <1>2 DEF Climb
  <1>6. QED
    BY <1>1, <1>3, <1>4, <1>5 DEF Climb

LEMMA AtCell ==
    ASSUME NEW lv, NEW U, TreeOf(lv, U), Climb(lv, U), NEW w \in Item, sm[w].pc # "exit"
    PROVE  sm[w].k \in Cells /\ sm[w].k \in Node /\ Climbs(w, sm[w], lv, U)
  <1>1. Climbs(w, sm[w], lv, U)
    BY DEF Climb
  <1>2. sm[w].k \in Nat /\ sm[w].k >= ts.bottom /\ ~(sm[w].k > NNode)
    BY <1>1 DEF Climbs
  <1>3. QED
    BY <1>1, <1>2, KidFacts DEF Cells, Node

LEMMA Relabelled ==
    ASSUME SumInv, NEW w \in Item, NEW x, sm' = [sm EXCEPT ![w].pc = x], NEW N, N = [sm[w] EXCEPT !.pc = x]
    PROVE  /\ sm' = [sm EXCEPT ![w] = N] /\ N.pc = x /\ N.k = sm[w].k /\ N.i = sm[w].i /\ N.j = sm[w].j
           /\ N.cnt = sm[w].cnt /\ N.missing = sm[w].missing /\ N.total = sm[w].total
  BY DEF SumInv, IsRecord, SumRegisters

\* Nothing but the registers of the item changes.
LEMMA RegistersClimb ==
    ASSUME NEW lv, NEW U, ShapeInv, SumInv, TreeOf(lv, U), Climb(lv, U), NEW w \in Item, sm[w].pc # "exit",
           NEW N, sm' = [sm EXCEPT ![w] = N], Climbs(w, N, lv, U),
           UNCHANGED <<mode, child, mass, quad, count, written, ts, phase, hostDepth, pass>>
    PROVE  TreeOf(lv, U)' /\ Climb(lv, U)'
  <1>1. TreeOf(lv, U)'
    BY SameKids
  <1>2. Word' = Word /\ \A c : Stored(c, U) => Stored(c, U)'
    BY DEF Word, Stored
  <1>3. Climbs(w, N, lv, U)'
    BY <1>2, ClimbsKept
  <1>4. sm[w].k \in Cells
    BY AtCell
  <1>5. Word[sm[w].k] # NotReady => Exact(sm[w].k, U)
    BY <1>4 DEF Climb
  <1>a. PICK k : k = sm[w].k
    OBVIOUS
  <1>6. Word'[k] # NotReady => Exact(k, U)'
    BY <1>2, <1>5, <1>a DEF Exact, AllOnce
  <1>7. Climb(lv, U)'
    BY <1>a, <1>2, <1>3, <1>6, OneClimbs
  <1>8. QED
    BY <1>1, <1>7

LEMMA NextClimbs ==
    ASSUME NEW lv, NEW U, ShapeInv, SumInv, TreeOf(lv, U), Climb(lv, U), NEW w \in Item, NextCell(w)
    PROVE  TreeOf(lv, U)' /\ Climb(lv, U)'
  <1>1. /\ sm[w].pc = "next" /\ phase \in {"sum", "quad"}
        /\ UNCHANGED <<mode, child, mass, quad, count, written, ts, phase, hostDepth, pass>>
    BY DEF NextCell, AtSum, buffers, host
  <1>2. sm[w].k \in Cells /\ Climbs(w, sm[w], lv, U) /\ ts.bottom \in Nat
    BY <1>1, AtCell, KidFacts
  <1>a. PICK k, ready : k = sm[w].k /\ ready = ReadyWords(phase)
    OBVIOUS
  <1>3. k \in Nat /\ k >= ts.bottom /\ Mine(w, k - Base)
    BY <1>2, <1>a DEF Climbs
  <1>4. /\ k + Inc \in Nat /\ k + Inc >= ts.bottom /\ Mine(w, k + Inc - Base)
        /\ \A c \in Nat : Mine(w, c - Base) /\ c < k + Inc => c <= k
    BY <1>2, <1>3, NextFacts
  <1>5. \A c \in Cells : ready[c] # NotReady => Word[c] # NotReady
    <2>1. \A c \in Cells : c \in Node
      BY KidFacts
    <2>2. QED
      BY <1>1, <1>a, <2>1 DEF ReadyWords, Unfinished, Word
  <1>6. ASSUME NEW c \in Cells, Mine(w, c - Base), Due(c, lv), c < k + Inc
        PROVE  Word[c] # NotReady
    <2>1. c \in Nat /\ c <= k
      BY <1>4, <1>6, KidFacts
    <2>2. c < k \/ c = k
      BY <1>3, <2>1
    <2>3. QED
      BY <1>1, <1>2, <1>6, <1>a, <2>2 DEF Climbs
  <1>b. PICK N, h : h = k + Inc /\ N = FromCell(h, ready)
    OBVIOUS
  <1>7. Climbs(w, N, lv, U)
    <2>1. h \in Nat /\ h >= ts.bottom /\ Mine(w, h - Base)
      <3>1. Base \in Nat /\ Inc \in Nat
        BY <1>2, BaseFacts
      <3>2. h - Base = k + Inc - Base
        BY <1>3, <1>b, <3>1
      <3>3. QED
        BY <1>4, <1>b, <3>2
    <2>2. \A c \in Cells : Mine(w, c - Base) /\ Due(c, lv) /\ c < h => Word[c] # NotReady
      BY <1>6, <1>b
    <2>3. QED
      BY <1>5, <1>b, <2>1, <2>2, FromCellClimbs
  <1>8. sm' = [sm EXCEPT ![w] = N]
    BY <1>a, <1>b DEF NextCell
  <1>9. QED
    BY <1>1, <1>7, <1>8, RegistersClimb

LEMMA PollClimbs ==
    ASSUME NEW lv, NEW U, ShapeInv, SumInv, TreeOf(lv, U), Climb(lv, U), Words, NumInv, hostDepth \in Nat, pass \in Nat,
           NEW w \in Item, Poll(w)
    PROVE  TreeOf(lv, U)' /\ Climb(lv, U)'
  <1>1. /\ sm[w].pc = "poll" /\ phase \in {"sum", "quad"}
        /\ UNCHANGED <<mode, child, mass, quad, count, written, ts, phase, hostDepth, pass>>
    BY DEF Poll, AtSum, buffers, host
  <1>2. sm[w].k \in Cells /\ Climbs(w, sm[w], lv, U)
    BY <1>1, AtCell
  <1>a. PICK R : R = sm[w]
    OBVIOUS
  <1>b. PICK c : c = R.missing[Len(R.missing)]
    OBVIOUS
  <1>c. PICK left : left = SubSeq(R.missing, 1, Len(R.missing) - 1)
    OBVIOUS
  <1>3. Climbs(w, R, lv, U) /\ Adds(R, lv, U) /\ R.pc = "poll" /\ R.k \in Cells /\ IsRecord(R, SumRegisters)
    BY <1>1, <1>2, <1>a DEF Climbs, Adding, SumInv
  <1> DEFINE K == Kids(R.k)
  <1>4. R.missing \in Seq(K) /\ R.missing # <<>> /\ Once(R.missing) /\ Entries(R.missing) = Missing(R) /\ Left(R) = {}
    BY <1>3 DEF Adds, Once, Entries, Missing, Left
  <1> HIDE DEF K
  <1>5. /\ left \in Seq(K) /\ Once(left) /\ Entries(left) = Missing(R) \ {c} /\ Len(left) = Len(R.missing) - 1
        /\ c \in Missing(R) /\ c \in K /\ Len(R.missing) \in Nat
    <2>1. PICK s, S : s = R.missing /\ S = K
      OBVIOUS
    <2>2. s \in Seq(S) /\ s # <<>> /\ Once(s) /\ c = s[Len(s)] /\ left = SubSeq(s, 1, Len(s) - 1)
      BY <1>4, <1>b, <1>c, <2>1
    <2>3. Shorter(left, s, c, S)
      BY ONLY <2>2, FrontOnce, Zenon
    <2>4. QED
      BY <1>4, <2>1, <2>3 DEF Shorter
  <1>6. Missing(R) \subseteq K
    BY <1>4 DEF Missing
  <1>7. CASE ~IsReady(c) /\ ~mode.consistent /\ sm' = [sm EXCEPT ![w].pc = "next"]
    <2>1. ~Due(R.k, lv)
      BY <1>1, <1>3, <1>5, <1>7, KidMissing DEF K
    <2>2. PICK N : N = [sm[w] EXCEPT !.pc = "next"]
      OBVIOUS
    <2>3. sm' = [sm EXCEPT ![w] = N] /\ N.pc = "next" /\ N.k = R.k
      BY <1>7, <1>a, <2>2, Relabelled
    <2>4. Climbs(w, N, lv, U)
      BY <1>3, <2>1, <2>3 DEF Climbs, Adding
    <2>5. QED
      BY <1>1, <2>3, <2>4, RegistersClimb
  <1>8. CASE IsReady(c) /\ sm' = [sm EXCEPT ![w] = [R EXCEPT
                 !.missing = left, !.total = Plus(@, Contribution(c)), !.cnt = @ + Extra(c),
                 !.pc = IF left = <<>> THEN "store" ELSE "poll"]]
    <2>1. PICK total, cnt, label : /\ total = Plus(R.total, Contribution(c)) /\ cnt = R.cnt + Extra(c)
                                   /\ label = IF left = <<>> THEN "store" ELSE "poll"
      OBVIOUS
    <2>2. PICK N : N = [R EXCEPT !.missing = left, !.total = total, !.cnt = cnt, !.pc = label]
      OBVIOUS
    <2>3. sm' = [sm EXCEPT ![w] = N]
      BY <1>8, <2>1, <2>2
    <2>4. N.k = R.k /\ N.pc = label /\ N.missing = left /\ N.total = total /\ N.cnt = cnt
      BY <1>3, <2>2 DEF IsRecord, SumRegisters
    <2>5. label \in {"store", "poll"} /\ (label = "store" <=> left = <<>>)
      BY <2>1
    <2>6. Contribution(c) = AllOnce(U[c]) /\ (phase = "sum" => Extra(c) = Cardinality(U[c]) - 1)
      BY <1>1, <1>3, <1>5, <1>8, KidReady DEF K
    <2>7. Left(N) = {} /\ Missing(N) = Missing(R) \ {c}
      BY <1>5, <2>4, <2>5 DEF Left, Missing, Entries
    <2>8. Got(R, U) = U[R.k] \ Sum(U, Missing(R)) /\ Got(N, U) = U[R.k] \ Sum(U, Missing(R) \ {c})
      BY <1>4, <2>4, <2>7 DEF Got
    <2>9. /\ AllOnce(Got(N, U)) = Plus(AllOnce(Got(R, U)), AllOnce(U[c]))
          /\ Cardinality(Got(N, U)) = Cardinality(Got(R, U)) + Cardinality(U[c])
          /\ Cardinality(Got(R, U)) \in Nat /\ Cardinality(U[c]) \in Nat
      <3>1. PICK k, O, P, G, H : k = R.k /\ O = Missing(R) /\ P = O \ {c} /\ G = Got(R, U) /\ H = Got(N, U)
        OBVIOUS
      <3>2. /\ k \in Cells /\ O \in SUBSET Kids(k) /\ c \in O /\ P = O \ {c}
            /\ G = U[k] \ Sum(U, O) /\ H = U[k] \ Sum(U, P)
        BY <1>3, <1>5, <1>6, <2>8, <3>1 DEF K
      <3>3. More(U[k] \ Sum(U, O \ {c}), U[k] \ Sum(U, O), U[c])
        BY <3>2, GotMore
      <3>4. QED
        BY <3>1, <3>2, <3>3 DEF More
    <2>10. N.total = AllOnce(Got(N, U))
      BY <1>3, <2>1, <2>4, <2>6, <2>9 DEF Adds
    <2>11. phase = "sum" => N.cnt = Cardinality(Got(N, U)) + Len(N.missing) - 0
      <3>1. phase = "sum" => R.cnt = Cardinality(Got(R, U)) + Len(R.missing) - 0
        BY <1>3 DEF Adds
      <3>2. PICK a, b, d, e, l, m, x : /\ a = R.cnt /\ b = Cardinality(Got(R, U)) /\ d = Cardinality(U[c])
                                      /\ e = Extra(c) /\ l = Len(R.missing) /\ m = Len(left) /\ x = N.cnt
        OBVIOUS
      <3>3. x = a + e /\ m = l - 1 /\ l \in Nat /\ b \in Nat /\ d \in Nat /\ Cardinality(Got(N, U)) = b + d
        BY <1>5, <2>1, <2>4, <2>9, <3>2
      <3>4. SUFFICES ASSUME phase = "sum"
                     PROVE  x = (b + d) + m - 0
        BY <2>4, <3>2, <3>3
      <3>5. a = b + l - 0 /\ e = d - 1
        BY <2>6, <3>1, <3>2, <3>4
      <3>6. QED
        BY ONLY <3>3, <3>5
    <2>12. left # <<>> => R.missing # <<>>
      BY <1>4
    <2>13. Adds(N, lv, U)
      BY <1>3, <1>4, <1>5, <2>4, <2>5, <2>7, <2>10, <2>11 DEF Adds, Once, K
    <2>14. Climbs(w, N, lv, U)
      BY <1>3, <2>4, <2>5, <2>13 DEF Climbs, Adding
    <2>15. QED
      BY <1>1, <2>3, <2>14, RegistersClimb
  <1>9. QED
    BY <1>7, <1>8, <1>a, <1>b, <1>c DEF Poll

\* An item that has added up all children has the words of the cell.
LEMMA AddedUp ==
    ASSUME NEW lv, NEW U, TreeOf(lv, U), NEW R, R.k \in Cells, R.pc \in {"store", "ready"}, Adds(R, lv, U)
    PROVE  R.total = AllOnce(U[R.k]) /\ (phase = "sum" => R.cnt = Cardinality(U[R.k]))
  <1>1. R.missing = <<>> /\ Left(R) = {}
    BY DEF Adds, Left
  <1>2. Missing(R) = {} /\ Len(R.missing) = 0
    BY <1>1 DEF Missing
  <1>3. Got(R, U) = U[R.k] /\ Cardinality(U[R.k]) \in Nat
    <2>1. Got(R, U) = U[R.k] \ Sum(U, {})
      BY <1>1, <1>2 DEF Got
    <2>2. QED
      BY <2>1, GotAll
  <1>4. phase = "sum" => R.cnt = Cardinality(U[R.k]) + 0 - 0
    BY <1>2, <1>3 DEF Adds
  <1>5. QED
    BY <1>3, <1>4 DEF Adds

LEMMA StoreClimbs ==
    ASSUME NEW lv, NEW U, ShapeInv, SumInv, TreeOf(lv, U), Climb(lv, U), Words, NEW w \in Item, Store(w)
    PROVE  TreeOf(lv, U)' /\ Climb(lv, U)'
  <1>1. /\ sm[w].pc = "store" /\ phase \in {"sum", "quad"} /\ UNCHANGED <<mode, child, mass, phase, hostDepth, pass>>
        /\ UNCHANGED ts \/ ts' = [ts EXCEPT !.errorCode = "structure"]
    BY DEF Store, AtSum, host
  <1>2. ts'.bottom = ts.bottom
    BY <1>1, StatusStored
  <1>3. TreeOf(lv, U)'
    BY <1>1, <1>2, SameKids
  <1>4. sm[w].k \in Cells /\ sm[w].k \in Node /\ Climbs(w, sm[w], lv, U)
    BY <1>1, AtCell
  <1>5. PICK R, k : R = sm[w] /\ k = R.k
    OBVIOUS
  <1>6. k \in Cells /\ k \in Node /\ Climbs(w, R, lv, U) /\ Adds(R, lv, U) /\ R.pc = "store"
    BY <1>1, <1>4, <1>5 DEF Climbs, Adding
  <1>7. R.total = AllOnce(U[k]) /\ (phase = "sum" => R.cnt = Cardinality(U[k]))
    BY <1>5, <1>6, AddedUp
  <1>8. /\ written' = [written EXCEPT ![phase] = @ \cup {k}]
        /\ phase = "sum" => count' = [count EXCEPT ![k] = R.cnt]
        /\ phase = "sum" => quad' = IF mode.quad THEN [quad EXCEPT ![k] = NotReady] ELSE quad
        /\ phase # "sum" => UNCHANGED <<count, quad>>
    BY <1>5 DEF Store
  <1>9. written'[phase] = written[phase] \cup {k}
    BY <1>1, <1>8 DEF Words, IsRecord
  <1>10. phase = "sum" => /\ count'[k] = R.cnt /\ (mode.quad => quad'[k] = NotReady)
                          /\ \A c \in Node : c # k => count'[c] = count[c] /\ quad'[c] = quad[c]
    BY <1>6, <1>8 DEF Words
  <1>11. Word' = Word
    BY <1>1, <1>8 DEF Word
  <1>12. Stored(k, U)'
    BY <1>1, <1>7, <1>9, <1>10 DEF Stored
  <1>13. \A c \in Cells : c # k => Word'[c] = Word[c] /\ (Stored(c, U) => Stored(c, U)')
    <2>1. \A c \in Cells : c \in Node
      BY KidFacts
    <2>2. QED
      BY <1>1, <1>9, <1>10, <1>11, <2>1 DEF Stored
  <1>14. Word'[k] # NotReady => Exact(k, U)'
    <2> SUFFICES ASSUME Word'[k] # NotReady
                 PROVE  Exact(k, U)'
      OBVIOUS
    <2>1. Word'[k] = AllOnce(U[k])
      BY <1>6, <1>11 DEF Climb, Exact
    <2>2. QED
      BY <1>12, <2>1 DEF Exact, AllOnce
  <1>15. PICK N : N = [sm[w] EXCEPT !.pc = "ready"]
    OBVIOUS
  <1>16. /\ sm' = [sm EXCEPT ![w] = N] /\ N.pc = "ready" /\ N.k = k /\ N.i = R.i /\ N.j = R.j
         /\ N.cnt = R.cnt /\ N.missing = R.missing /\ N.total = R.total
    BY <1>5, <1>15, Relabelled DEF Store
  <1>17. Climbs(w, N, lv, U)'
    <2>1. Base' = Base /\ Cells' = Cells /\ \A b : Mine(w, b)' <=> Mine(w, b)
      BY <1>1, <1>2, SameBase
    <2>2. \A c : Due(c, lv)' <=> Due(c, lv)
      BY <1>1 DEF Due
    <2>3. Kids(k)' = Kids(k)
      BY <1>1 DEF Kids
    <2>4. Left(N)' = {} /\ Left(R) = {} /\ Missing(N)' = Missing(R)
      BY <1>6, <1>16 DEF Left, Missing
    <2>5. Got(N, U)' = Got(R, U)
      BY <1>5, <1>16, <2>4 DEF Got, Sum
    <2>6. Adds(N, lv, U)'
      BY <1>1, <1>5, <1>6, <1>16, <2>2, <2>3, <2>4, <2>5 DEF Adds
    <2>7. \A c \in Cells : Mine(w, c - Base) /\ Due(c, lv) /\ c < k => Word'[c] # NotReady
      BY <1>5, <1>6, <1>11 DEF Climbs
    <2>8. k \in Nat /\ k >= ts.bottom /\ Mine(w, k - Base) /\ ~(k > NNode)
      BY <1>5, <1>6 DEF Climbs
    <2>9. QED
      BY <1>2, <1>12, <1>16, <2>1, <2>2, <2>6, <2>7, <2>8 DEF Climbs, Adding
  <1>18. Climb(lv, U)'
    <2>1. sm[w].k = k /\ sm[w].pc # "exit" /\ \A m \in Node : m # k => child'[m] = child[m]
      BY <1>1, <1>5
    <2>2. Word[k] # NotReady => Word'[k] # NotReady
      BY <1>11
    <2>3. QED
      BY <1>1, <1>2, <1>13, <1>14, <1>16, <1>17, <2>1, <2>2, OneClimbs
  <1>19. QED
    BY <1>3, <1>18

LEMMA ReadyClimbs ==
    ASSUME NEW lv, NEW U, ShapeInv, SumInv, TreeOf(lv, U), Climb(lv, U), Words, NEW w \in Item, SetReady(w)
    PROVE  TreeOf(lv, U)' /\ Climb(lv, U)'
  <1>1. /\ sm[w].pc = "ready" /\ phase \in {"sum", "quad"}
        /\ UNCHANGED <<mode, child, count, written, ts, phase, hostDepth, pass>>
    BY DEF SetReady, AtSum, host
  <1>2. ts'.bottom = ts.bottom
    BY <1>1
  <1>3. TreeOf(lv, U)'
    BY <1>1, <1>2, SameKids
  <1>4. sm[w].k \in Cells /\ sm[w].k \in Node /\ Climbs(w, sm[w], lv, U)
    BY <1>1, AtCell
  <1>5. PICK R, k : R = sm[w] /\ k = R.k
    OBVIOUS
  <1>6. k \in Cells /\ k \in Node /\ Climbs(w, R, lv, U) /\ Adds(R, lv, U) /\ R.pc = "ready" /\ Stored(k, U)
    BY <1>1, <1>4, <1>5 DEF Climbs, Adding
  <1>7. R.total = AllOnce(U[k])
    BY <1>5, <1>6, AddedUp
  <1>8. IF phase = "sum" THEN mass' = [mass EXCEPT ![k] = R.total] /\ UNCHANGED quad
                         ELSE quad' = [quad EXCEPT ![k] = R.total] /\ UNCHANGED mass
    BY <1>5 DEF SetReady
  <1>9. Word'[k] = R.total /\ \A c \in Node : c # k => Word'[c] = Word[c]
    BY <1>1, <1>6, <1>8 DEF Word, Words
  <1>10. \A c : Stored(c, U) => Stored(c, U)'
    BY <1>1, <1>8 DEF Stored
  <1>11. Word'[k] # NotReady
    BY <1>7, <1>9, OnceIsReady
  <1>12. Exact(k, U)'
    <2>1. Word'[k] = AllOnce(U[k])
      BY <1>7, <1>9
    <2>2. QED
      BY <1>6, <1>10, <2>1 DEF Exact, AllOnce
  <1>13. PICK N : N = [sm[w] EXCEPT !.pc = "next"]
    OBVIOUS
  <1>14. sm' = [sm EXCEPT ![w] = N] /\ N.pc = "next" /\ N.k = k
    BY <1>5, <1>13, Relabelled DEF SetReady
  <1>15. \A c \in Cells : c # k => Word'[c] = Word[c] /\ (Stored(c, U) => Stored(c, U)')
    BY <1>9, <1>10, KidFacts
  <1>16. Climbs(w, N, lv, U)'
    <2>1. Base' = Base /\ Cells' = Cells /\ \A b : Mine(w, b)' <=> Mine(w, b)
      BY <1>1, <1>2, SameBase
    <2>2. \A c : Due(c, lv)' <=> Due(c, lv)
      BY <1>1 DEF Due
    <2>3. \A c \in Cells : Mine(w, c - Base) /\ Due(c, lv) /\ c < k => Word[c] # NotReady
      BY <1>5, <1>6 DEF Climbs
    <2>4. \A c \in Cells : Mine(w, c - Base) /\ Due(c, lv) /\ (c < k \/ c = k) => Word'[c] # NotReady
      BY <1>11, <1>15, <2>3
    <2>5. k \in Nat /\ k >= ts.bottom /\ Mine(w, k - Base) /\ ~(k > NNode)
      BY <1>5, <1>6 DEF Climbs
    <2>6. QED
      BY <1>2, <1>14, <2>1, <2>2, <2>4, <2>5 DEF Climbs, Adding
  <1>17. Climb(lv, U)'
    <2>1. sm[w].k = k /\ sm[w].pc # "exit" /\ \A m \in Node : m # k => child'[m] = child[m]
      BY <1>1, <1>5
    <2>2. QED
      BY <1>1, <1>2, <1>11, <1>12, <1>14, <1>15, <1>16, <2>1, OneClimbs
  <1>18. QED
    BY <1>3, <1>17

\* One octant more is looked at.
Turn(R, N) ==
  LET c == child[R.k][R.i]
      left == IF c >= 0 /\ ~IsReady(c) THEN Append(R.missing, c) ELSE R.missing
      seen == IF c >= 0 THEN R.j + 1 ELSE R.j
      add  == c >= 0 /\ IsReady(c)
  IN  /\ N.k = R.k /\ N.i = R.i + 1 /\ N.j = seen /\ N.missing = left
      /\ N.total = IF add THEN Plus(R.total, Contribution(c)) ELSE R.total
      /\ N.cnt = R.cnt + (IF add THEN Extra(c) ELSE 0) + (IF R.i = 1 THEN seen ELSE 0)
      /\ N.pc = IF R.i = 1 THEN AfterScan(left) ELSE "scan"

Scans(R) == R.k \in Cells /\ R.pc = "scan" /\ R.i \in Sub /\ R.j \in 0 .. R.i

\* The children that are still to be looked at.
LEMMA LeftLess ==
    ASSUME NEW lv, NEW U, TreeOf(lv, U), NEW R, NEW N, Scans(R), Turn(R, N), NEW c, c = child[R.k][R.i]
    PROVE  /\ c < 0 => c = NULL_BODY /\ Left(N) = Left(R)
           /\ c >= 0 => c \in Kids(R.k) /\ c \in Left(R) /\ Left(N) = Left(R) \ {c}
           /\ ~(c < 0 /\ c >= 0) /\ (c < 0 \/ c >= 0) /\ Left(R) \subseteq Kids(R.k)
           /\ N.pc = "scan" <=> R.i = 0
  <1>1. /\ R.k \in Cells /\ (R.i = 0 \/ R.i = 1) /\ R.i \in Sub /\ 0 \in Sub /\ 1 \in Sub /\ \A s \in Sub : s = 0 \/ s = 1
        /\ R.pc = "scan" /\ NULL_BODY \notin Node /\ NULL_BODY < 0
    BY DEF Scans, Sub, NULL_BODY, Node
  <1>2. \A s \in Sub : /\ child[R.k][s] >= 0 <=> child[R.k][s] \in Kids(R.k)
                       /\ child[R.k][s] \notin Kids(R.k) <=> child[R.k][s] = NULL_BODY
    BY <1>1, KidFacts
  <1>3. /\ ~(c < 0 /\ c >= 0) /\ (c < 0 \/ c >= 0) /\ (c < 0 => c = NULL_BODY) /\ (c >= 0 => c \in Kids(R.k))
    <2>1. c \in Int
      <3>1. c \in Node \cup {NULL_BODY}
        BY <1>1 DEF TreeOf
      <3>2. QED
        BY <3>1 DEF Node, NULL_BODY
    <2>2. QED
      BY <1>1, <1>2, <2>1
  <1>4. N.pc = "scan" <=> R.i = 0
    BY <1>1 DEF Turn, AfterScan
  <1>5. N.k = R.k /\ N.i = R.i + 1
    BY DEF Turn
  <1>6. PICK a, b : a = child[R.k][0] /\ b = child[R.k][1]
    OBVIOUS
  <1>7. \A n \in Node : n \in Kids(R.k) <=> n = a \/ n = b
    BY <1>1, <1>6 DEF Kids
  <1>8. a = b => a = NULL_BODY
    BY <1>1, <1>6 DEF TreeOf
  <1>9. \A n \in Kids(R.k) : n \in Node
    BY DEF Kids
  <1>10. CASE R.i = 0
    <2>1. Left(R) = Kids(R.k) /\ c = a
      BY <1>1, <1>6, <1>10 DEF Left, Kids, Sub
    <2>2. \A n : n \in Left(N) <=> n \in Kids(R.k) /\ n = b
      <3>1. N.pc = "scan" /\ N.i = 1
        BY <1>4, <1>5, <1>10
      <3>2. \A n : (\E s \in Sub : s >= 1 /\ child[R.k][s] = n) <=> n = b
        BY <1>1, <1>6
      <3>3. QED
        BY <1>5, <3>1, <3>2 DEF Left
    <2>3. c < 0 => Left(N) = Left(R)
      BY <1>1, <1>3, <1>7, <1>9, <2>1, <2>2
    <2>4. c >= 0 => c \in Left(R) /\ Left(N) = Left(R) \ {c}
      BY <1>1, <1>3, <1>7, <1>8, <1>9, <2>1, <2>2
    <2>5. QED
      BY <1>3, <1>4, <2>1, <2>3, <2>4
  <1>11. CASE R.i = 1
    <2>1. Left(N) = {} /\ c = b
      BY <1>4, <1>6, <1>11 DEF Left
    <2>2. \A n : n \in Left(R) <=> n \in Kids(R.k) /\ n = b
      <3>1. \A n : (\E s \in Sub : s >= 1 /\ child[R.k][s] = n) <=> n = b
        BY <1>1, <1>6
      <3>2. QED
        BY <1>1, <1>11, <3>1 DEF Left
    <2>3. c < 0 => Left(N) = Left(R)
      BY <1>1, <1>3, <1>9, <2>1, <2>2
    <2>4. c >= 0 => c \in Left(R) /\ Left(N) = Left(R) \ {c}
      BY <1>3, <2>1, <2>2
    <2>5. QED
      BY <1>3, <1>4, <2>2, <2>3, <2>4
  <1>12. QED
    BY <1>1, <1>10, <1>11

\* What the item knows after it.
LEMMA TurnAdds ==
    ASSUME NEW lv, NEW U, TreeOf(lv, U), Climb(lv, U), Words, phase \in {"sum", "quad"}, NumInv, hostDepth \in Nat,
           pass \in Nat, NEW R, NEW N, Scans(R), Adds(R, lv, U), Turn(R, N)
    PROVE  /\ Adds(N, lv, U) /\ N.k = R.k /\ N.pc \in {"scan", "poll", "store", "next"}
           /\ N.pc = "next" => ~Due(R.k, lv)
  <1>1. PICK k, c, i, j : k = R.k /\ c = child[k][R.i] /\ i = R.i /\ j = R.j
    OBVIOUS
  <1>2. PICK x, y, s, t, G, H : x = R.cnt /\ y = N.cnt /\ s = R.missing /\ t = N.missing /\ G = Got(R, U) /\ H = Got(N, U)
    OBVIOUS
  <1>3. PICK seen : seen = IF c >= 0 THEN j + 1 ELSE j
    OBVIOUS
  <1>4. k \in Cells /\ (i = 0 \/ i = 1) /\ j \in 0 .. i /\ j \in Nat /\ seen \in Nat
    BY <1>1, <1>3 DEF Scans, Sub
  <1>5. /\ N.k = k /\ N.i = i + 1 /\ N.j = seen
        /\ t = IF c >= 0 /\ ~IsReady(c) THEN Append(s, c) ELSE s
        /\ N.total = IF c >= 0 /\ IsReady(c) THEN Plus(R.total, Contribution(c)) ELSE R.total
        /\ y = x + (IF c >= 0 /\ IsReady(c) THEN Extra(c) ELSE 0) + (IF i = 1 THEN seen ELSE 0)
        /\ N.pc = IF i = 1 THEN AfterScan(t) ELSE "scan"
    BY <1>1, <1>2, <1>3 DEF Turn
  <1>6. /\ c < 0 => c = NULL_BODY /\ Left(N) = Left(R)
        /\ c >= 0 => c \in Kids(k) /\ c \in Left(R) /\ Left(N) = Left(R) \ {c}
        /\ ~(c < 0 /\ c >= 0) /\ (c < 0 \/ c >= 0) /\ Left(R) \subseteq Kids(k)
        /\ N.pc = "scan" <=> i = 0
    BY <1>1, LeftLess
  <1>7. /\ s \in Seq(Kids(k)) /\ Missing(R) \cap Left(R) = {} /\ Once(s) /\ Entries(s) = Missing(R) /\ Entries(t) = Missing(N)
        /\ R.total = AllOnce(G) /\ (phase = "sum" => x = Cardinality(G) + Len(s) - j)
        /\ ~mode.consistent /\ s # <<>> => ~Due(k, lv)
        /\ Missing(R) \subseteq Kids(k)
    <2>1. /\ s \in Seq(Kids(k)) /\ Missing(R) \cap Left(R) = {} /\ Once(s)
          /\ R.total = AllOnce(G) /\ (phase = "sum" => x = Cardinality(G) + Len(s) - j)
          /\ ~mode.consistent /\ s # <<>> => ~Due(k, lv)
      BY <1>1, <1>2 DEF Adds, Once, Scans
    <2>2. Entries(s) = Missing(R) /\ Entries(t) = Missing(N)
      BY <1>2 DEF Missing, Entries
    <2>3. Missing(R) \subseteq Kids(k)
      BY <2>1, <2>2 DEF Entries
    <2>4. QED
      BY <2>1, <2>2, <2>3
  <1>8. G = U[k] \ Sum(U, Left(R) \cup Missing(R)) /\ H = U[k] \ Sum(U, Left(N) \cup Missing(N))
    BY <1>1, <1>2, <1>5 DEF Got
  <1>9. /\ t \in Seq(Kids(k)) /\ Missing(N) \cap Left(N) = {} /\ Once(t) /\ N.total = AllOnce(H)
        /\ ~mode.consistent /\ t # <<>> => ~Due(k, lv)
        /\ phase = "sum" => y = Cardinality(H) + Len(t) - (IF i = 1 THEN 0 ELSE seen)
    <2>a. Len(s) \in Nat
      BY <1>7
    <2>1. CASE c < 0
      <3>1. t = s /\ seen = j /\ N.total = R.total /\ y = x + 0 + (IF i = 1 THEN seen ELSE 0) /\ H = G
        BY <1>3, <1>5, <1>6, <1>7, <1>8, <2>1
      <3>2. Cardinality(G) \in Nat
        <4>1. G \in SUBSET Body /\ {} \in SUBSET Body /\ G \cap {} = {}
          BY <1>4, <1>8 DEF TreeOf
        <4>2. QED
          BY <4>1, BodyCount
      <3>3. phase = "sum" => y = Cardinality(H) + Len(t) - (IF i = 1 THEN 0 ELSE seen)
        BY <1>4, <1>7, <2>a, <3>1, <3>2
      <3>4. QED
        BY <1>5, <1>6, <1>7, <2>1, <3>1, <3>3
    <2>2. CASE c >= 0 /\ IsReady(c)
      <3>1. /\ t = s /\ seen = j + 1 /\ N.total = Plus(R.total, Contribution(c))
            /\ y = x + Extra(c) + (IF i = 1 THEN seen ELSE 0)
        BY <1>3, <1>5, <2>2
      <3>2. Contribution(c) = AllOnce(U[c]) /\ (phase = "sum" => Extra(c) = Cardinality(U[c]) - 1)
        BY <1>4, <1>6, <2>2, KidReady
      <3>3. PICK O, P : O = Left(R) \cup Missing(R) /\ P = O \ {c}
        OBVIOUS
      <3>4. Missing(N) = Missing(R) /\ Left(N) \cup Missing(N) = P /\ c \in O /\ O \in SUBSET Kids(k)
        BY <1>6, <1>7, <2>2, <3>1, <3>3
      <3>5. /\ AllOnce(H) = Plus(AllOnce(G), AllOnce(U[c]))
            /\ Cardinality(H) = Cardinality(G) + Cardinality(U[c])
            /\ Cardinality(G) \in Nat /\ Cardinality(U[c]) \in Nat
        <4>1. /\ k \in Cells /\ O \in SUBSET Kids(k) /\ c \in O /\ P = O \ {c}
              /\ G = U[k] \ Sum(U, O) /\ H = U[k] \ Sum(U, P)
          BY <1>4, <1>8, <3>3, <3>4
        <4>2. More(U[k] \ Sum(U, O \ {c}), U[k] \ Sum(U, O), U[c])
          BY <4>1, GotMore
        <4>3. QED
          BY <4>1, <4>2 DEF More
      <3>6. phase = "sum" => y = Cardinality(H) + Len(t) - (IF i = 1 THEN 0 ELSE seen)
        BY <1>4, <1>7, <2>a, <3>1, <3>2, <3>5
      <3>7. N.total = AllOnce(H)
        BY <1>7, <3>1, <3>2, <3>5
      <3>8. Missing(N) \cap Left(N) = {}
        BY <1>6, <1>7, <2>2, <3>4
      <3>9. QED
        BY <1>7, <3>1, <3>6, <3>7, <3>8
    <2>3. CASE c >= 0 /\ ~IsReady(c)
      <3>1. /\ t = Append(s, c) /\ seen = j + 1 /\ N.total = R.total /\ y = x + 0 + (IF i = 1 THEN seen ELSE 0)
        BY <1>3, <1>5, <2>3
      <3>2. c \notin Entries(s) /\ c \in Kids(k)
        BY <1>6, <1>7, <2>3
      <3>3. Longer(t, s, c, Kids(k))
        <4>1. PICK K : K = Kids(k)
          OBVIOUS
        <4>2. s \in Seq(K) /\ c \in K /\ c \notin Entries(s) /\ Once(s)
          BY <1>7, <3>2, <4>1
        <4>3. Longer(Append(s, c), s, c, K)
          BY <4>2, AppendOnce, Zenon
        <4>4. QED
          BY <3>1, <4>1, <4>3
      <3>4. Missing(N) = Missing(R) \cup {c} /\ Len(t) = Len(s) + 1 /\ Once(t) /\ t \in Seq(Kids(k)) /\ t # <<>>
        BY <1>7, <3>3 DEF Longer
      <3>5. Left(N) \cup Missing(N) = Left(R) \cup Missing(R) /\ Missing(N) \cap Left(N) = {}
        BY <1>6, <1>7, <2>3, <3>4
      <3>6. H = G
        BY <1>8, <3>5
      <3>7. Cardinality(G) \in Nat
        <4>1. G \in SUBSET Body /\ {} \in SUBSET Body /\ G \cap {} = {}
          BY <1>4, <1>8 DEF TreeOf
        <4>2. QED
          BY <4>1, BodyCount
      <3>8. phase = "sum" => y = Cardinality(H) + Len(t) - (IF i = 1 THEN 0 ELSE seen)
        <4>1. PICK g, l, m : g = Cardinality(G) /\ l = Len(s) /\ m = Len(t)
          OBVIOUS
        <4>2. g \in Nat /\ l \in Nat /\ m = l + 1 /\ Cardinality(H) = g /\ (phase = "sum" => x = g + l - j)
          BY <1>7, <2>a, <3>4, <3>6, <3>7, <4>1
        <4>3. ASSUME phase = "sum"
              PROVE  y = g + m - (IF i = 1 THEN 0 ELSE seen)
          <5>1. x = g + l - j /\ x \in Int
            BY <1>4, <4>2, <4>3
          <5>2. seen = j + 1 /\ y = x + 0 + (IF i = 1 THEN seen ELSE 0)
            BY <3>1
          <5>3. QED
            BY <1>4, <4>2, <5>1, <5>2
        <4>4. QED
          BY <4>1, <4>2, <4>3
      <3>9. ~mode.consistent => ~Due(k, lv)
        BY <1>4, <2>3, <3>2, KidMissing
      <3>10. QED
        BY <1>7, <3>1, <3>4, <3>5, <3>6, <3>8, <3>9
    <2>4. QED
      BY <1>6, <2>1, <2>2, <2>3
  <1>10. /\ N.pc \in {"scan", "poll", "store", "next"} /\ (N.pc = "poll" => t # <<>>) /\ (N.pc = "store" => t = <<>>)
         /\ N.pc = "next" => t # <<>> /\ ~mode.consistent
    BY <1>5 DEF AfterScan, Polls
  <1>11. N.pc = "scan" /\ N.i = 1 /\ N.j = 0 => child[k][0] = NULL_BODY
    <2> SUFFICES ASSUME N.pc = "scan", N.j = 0
                 PROVE  child[k][0] = NULL_BODY
      OBVIOUS
    <2>1. i = 0 /\ seen = 0
      BY <1>5, <1>6
    <2>2. ~(c >= 0)
      BY <1>3, <1>4, <2>1
    <2>3. QED
      BY <1>1, <1>6, <2>1, <2>2
  <1>12. phase = "sum" => N.cnt = Cardinality(Got(N, U)) + Len(N.missing) - (IF N.pc = "scan" THEN N.j ELSE 0)
    <2>1. (IF N.pc = "scan" THEN N.j ELSE 0) = IF i = 1 THEN 0 ELSE seen
      BY <1>4, <1>5, <1>6
    <2>2. QED
      BY <1>2, <1>9, <2>1
  <1>13. Adds(N, lv, U)
    BY <1>2, <1>5, <1>9, <1>10, <1>11, <1>12 DEF Adds, Once
  <1>14. QED
    BY <1>1, <1>5, <1>9, <1>10, <1>13

LEMMA ScanTurns ==
    ASSUME SumInv, NEW w \in Item, Scan(w), NEW R, R = sm[w]
    PROVE  /\ \E N : Turn(R, N) /\ sm' = [sm EXCEPT ![w] = N]
           /\ R.pc = "scan" /\ R.i \in Sub /\ R.j \in 0 .. R.i /\ phase \in {"sum", "quad"}
           /\ UNCHANGED <<mode, mass, quad, count, written, ts, phase, hostDepth, pass>>
           /\ \/ UNCHANGED child
              \/ /\ child[R.k][R.i] >= 0 /\ R.i # R.j
                 /\ child' = [child EXCEPT ![R.k][R.i] = NULL_BODY, ![R.k][R.j] = child[R.k][R.i]]
  <1> DEFINE c == child[R.k][R.i]
             left == IF c >= 0 /\ ~IsReady(c) THEN Append(R.missing, c) ELSE R.missing
             seen == IF c >= 0 THEN R.j + 1 ELSE R.j
             add == c >= 0 /\ IsReady(c)
             total == IF add THEN Plus(R.total, Contribution(c)) ELSE R.total
             cnt == R.cnt + (IF add THEN Extra(c) ELSE 0) + (IF R.i = 1 THEN seen ELSE 0)
             label == IF R.i = 1 THEN AfterScan(left) ELSE "scan"
             new == [R EXCEPT !.i = @ + 1, !.j = seen, !.missing = left, !.total = total, !.cnt = cnt,
                              !.pc = label]
  <1>1. /\ R.pc = "scan" /\ R.i \in Sub /\ R.j \in 0 .. R.i /\ IsRecord(R, SumRegisters) /\ phase \in {"sum", "quad"}
        /\ UNCHANGED <<mode, mass, quad, count, written, ts, phase, hostDepth, pass>>
    BY DEF Scan, AtSum, SumInv, host
  <1>2. \/ UNCHANGED child
        \/ c >= 0 /\ R.i # R.j /\ child' = [child EXCEPT ![R.k][R.i] = NULL_BODY, ![R.k][R.j] = c]
    BY DEF Scan
  <1>3. sm' = [sm EXCEPT ![w] = [R EXCEPT
              !.i = @ + 1, !.j = seen, !.missing = left,
              !.total = IF add THEN Plus(@, Contribution(c)) ELSE @,
              !.cnt = @ + (IF add THEN Extra(c) ELSE 0) + (IF R.i = 1 THEN seen ELSE 0),
              !.pc = IF R.i = 1 THEN AfterScan(left) ELSE "scan"]]
    BY DEF Scan
  <1>4. sm' = [sm EXCEPT ![w] = new]
    BY <1>3
  <1> HIDE DEF left, seen, add, total, cnt, label, c
  <1>5. /\ new.k = R.k /\ new.i = R.i + 1 /\ new.j = seen /\ new.missing = left /\ new.total = total
        /\ new.cnt = cnt /\ new.pc = label
    BY <1>1 DEF IsRecord, SumRegisters
  <1>6. PICK N : N = new
    OBVIOUS
  <1> HIDE DEF new
  <1>7. Turn(R, N)
    BY <1>5, <1>6 DEF Turn, c, left, seen, add, total, cnt, label
  <1>8. QED
    BY <1>1, <1>2, <1>4, <1>6, <1>7 DEF c

LEMMA ScanClimbs ==
    ASSUME NEW lv, NEW U, ShapeInv, SumInv, TreeOf(lv, U), Climb(lv, U), Words, Types, NumInv, hostDepth \in Nat,
           pass \in Nat, NEW w \in Item, Scan(w)
    PROVE  TreeOf(lv, U)' /\ Climb(lv, U)'
  <1>1. PICK R, k : R = sm[w] /\ k = R.k
    OBVIOUS
  <1>2. /\ R.pc = "scan" /\ R.i \in Sub /\ R.j \in 0 .. R.i /\ phase \in {"sum", "quad"}
        /\ UNCHANGED <<mode, mass, quad, count, written, ts, phase, hostDepth, pass>>
        /\ \/ UNCHANGED child
           \/ /\ child[R.k][R.i] >= 0 /\ R.i # R.j
              /\ child' = [child EXCEPT ![R.k][R.i] = NULL_BODY, ![R.k][R.j] = child[R.k][R.i]]
    BY <1>1, ScanTurns
  <1>3. PICK N : Turn(R, N) /\ sm' = [sm EXCEPT ![w] = N]
    BY <1>1, ScanTurns
  <1>4. k \in Cells /\ k \in Node /\ Climbs(w, R, lv, U) /\ sm[w].pc # "exit"
    BY <1>1, <1>2, AtCell
  <1>5. Adds(R, lv, U) /\ Scans(R)
    BY <1>1, <1>2, <1>4 DEF Climbs, Adding, Scans
  <1>6. /\ Adds(N, lv, U) /\ N.k = k /\ N.pc \in {"scan", "poll", "store", "next"}
        /\ N.pc = "next" => ~Due(k, lv)
    BY <1>1, <1>2, <1>3, <1>5, TurnAdds
  <1>7. Climbs(w, N, lv, U)
    <2>1. /\ k \in Nat /\ k >= ts.bottom /\ Mine(w, k - Base) /\ ~(k > NNode)
          /\ \A c \in Cells : Mine(w, c - Base) /\ Due(c, lv) /\ c < k => Word[c] # NotReady
      BY <1>1, <1>2, <1>4 DEF Climbs
    <2>2. QED
      BY <1>6, <2>1 DEF Climbs, Adding
  <1>8. CASE UNCHANGED child
    BY <1>2, <1>3, <1>4, <1>7, <1>8, RegistersClimb
  <1>9. CASE /\ child[R.k][R.i] >= 0 /\ R.i # R.j
             /\ child' = [child EXCEPT ![R.k][R.i] = NULL_BODY, ![R.k][R.j] = child[R.k][R.i]]
    <2>1. R.i = 1 /\ R.j = 0
      BY <1>2, <1>9 DEF Sub
    <2>2. child[k][0] = NULL_BODY /\ child' = [child EXCEPT ![k][1] = NULL_BODY, ![k][0] = child[k][1]]
      BY <1>1, <1>2, <1>5, <1>9, <2>1 DEF Adds
    <2>3. /\ TreeOf(lv, U)' /\ Cells' = Cells /\ (\A m \in Cells : Kids(m)' = Kids(m))
          /\ \A m \in Node : m # k => child'[m] = child[m]
      BY <1>2, <1>4, <2>2, MovedKids
    <2>4. N.pc # "scan"
      BY <1>3, <2>1 DEF Turn, AfterScan
    <2>5. Word' = Word /\ ts'.bottom = ts.bottom /\ \A c : Stored(c, U) => Stored(c, U)'
      BY <1>2 DEF Word, Stored
    <2>6. Base' = Base /\ \A b : Mine(w, b)' <=> Mine(w, b)
      BY <1>2, <2>5, SameBase
    <2>7. \A c : Due(c, lv)' <=> Due(c, lv)
      BY <1>2 DEF Due
    <2>8. Kids(k)' = Kids(k) /\ Left(N)' = {} /\ Left(N) = {} /\ Missing(N)' = Missing(N)
      BY <1>4, <2>3, <2>4 DEF Left, Missing
    <2>9. Got(N, U)' = Got(N, U)
      BY <2>8 DEF Got, Sum
    <2>10. Adds(N, lv, U)'
      BY <1>2, <1>6, <2>4, <2>7, <2>8, <2>9 DEF Adds
    <2>11. Climbs(w, N, lv, U)'
      BY <1>2, <1>6, <1>7, <2>3, <2>5, <2>6, <2>7, <2>10 DEF Climbs, Adding
    <2>12. Word'[k] # NotReady => Exact(k, U)'
      <3> SUFFICES ASSUME Word'[k] # NotReady
                   PROVE  Exact(k, U)'
        OBVIOUS
      <3>1. Word[k] = AllOnce(U[k]) /\ Stored(k, U)
        BY <1>4, <2>5 DEF Climb, Exact
      <3>2. QED
        BY <2>5, <3>1 DEF Exact, AllOnce
    <2>13. Climb(lv, U)'
      <3>1. sm[w].k = k /\ (Word[k] # NotReady => Word'[k] # NotReady)
        BY <1>1, <2>5
      <3>2. \A c \in Cells : c # k => Word'[c] = Word[c] /\ (Stored(c, U) => Stored(c, U)')
        BY <2>5
      <3>3. QED
        BY <1>2, <1>3, <1>4, <2>3, <2>5, <2>11, <2>12, <3>1, <3>2, OneClimbs
    <2>14. QED
      BY <2>3, <2>13
  <1>10. QED
    BY <1>2, <1>8, <1>9

LEMMA ItemClimbs ==
    ASSUME NEW lv, NEW U, ShapeInv, SumInv, TreeOf(lv, U), Climb(lv, U), Words, Types, NumInv, hostDepth \in Nat,
           pass \in Nat, NEW w \in Item, SumItem(w)
    PROVE  TreeOf(lv, U)' /\ Climb(lv, U)'
  BY ScanClimbs, PollClimbs, StoreClimbs, ReadyClimbs, NextClimbs DEF SumItem

-----------------------------------------------------------------------------
(* The tree that buildTree leaves, for the kernels that follow.             *)

\* A cell has under it bodies of its region only.
LEMMA UnderRegion ==
    ASSUME NEW up, NEW lv, NEW reg, NEW own, Finished(up, lv, reg, own), NEW U, \A n \in Node : U[n] = UnderOf(U, n)
    PROVE  /\ \A m \in Cells : U[m] \subseteq reg[m]
           /\ \A m \in Cells, s \in Sub : child[m][s] >= 0 =>
                \A x \in U[child[m][s]] : x \in reg[m] /\ Oct(m, x) = s
  <1>1. /\ NNode \in Nat /\ NBody \in Nat
        /\ \A c \in Cells : c \in Node /\ c \in Nat /\ isCell(c) /\ ~isBody(c)
    BY FinishedFacts
  <1>2. \A n \in Node : isBody(n) => U[n] = {n} /\ n \in Body
    <2>1. \A n \in Node : isBody(n) => n \in Body
      BY <1>1 DEF isBody, Node, Body
    <2>2. QED
      BY <2>1 DEF UnderOf
  <1>3. ASSUME NEW m \in Cells, NEW s \in Sub, child[m][s] >= 0, ~isBody(child[m][s]) => U[child[m][s]] \subseteq reg[child[m][s]]
        PROVE  \A x \in U[child[m][s]] : x \in reg[m] /\ Oct(m, x) = s
    <2>1. PICK c : c = child[m][s]
      OBVIOUS
    <2>2. c \in Node
      BY <1>3, <2>1, FinishedFacts DEF NULL_BODY
    <2>3. CASE isBody(c)
      <3>1. c \in Body /\ U[c] = {c}
        BY <1>2, <2>2, <2>3
      <3>2. Oct(m, c) = s /\ c \in reg[m]
        BY <2>1, <3>1 DEF Finished, TreeInv, BodyInv
      <3>3. QED
        BY <2>1, <3>1, <3>2
    <2>4. CASE ~isBody(c)
      <3>1. isCell(c)
        BY <1>1, <2>2, <2>4 DEF isCell, isBody, Node
      <3>2. c \in Cells /\ c # NNode /\ up[c] = <<m, s>>
        BY <2>1, <3>1, FinishedFacts
      <3>3. \A x : x \in reg[c] <=> x \in reg[up[c][1]] /\ Oct(up[c][1], x) = up[c][2]
        BY <3>2 DEF Finished, TreeInv, CellInv
      <3>4. up[c][1] = m /\ up[c][2] = s
        BY <3>2
      <3>5. \A x \in reg[c] : x \in reg[m] /\ Oct(m, x) = s
        BY <3>3, <3>4
      <3>6. QED
        BY <1>3, <2>1, <2>4, <3>5
    <2>5. QED
      BY <2>3, <2>4
  <1>4. \A m \in Cells : U[m] \subseteq reg[m]
    <2> DEFINE T == {k \in Nat : k \in Cells /\ ~(U[k] \subseteq reg[k])}
    <2>1. SUFFICES ASSUME T # {}
                   PROVE  FALSE
      BY <1>1
    <2>2. PICK m \in T : \A k \in T : m <= k
      BY <2>1, Least
    <2>3. m \in Nat /\ m \in Cells /\ m \in Node /\ ~(U[m] \subseteq reg[m]) /\ ~isBody(m)
      BY <1>1, <2>2
    <2>4. ASSUME NEW s \in Sub, child[m][s] >= 0
          PROVE  U[child[m][s]] \subseteq reg[m]
      <3>1. PICK c : c = child[m][s]
        OBVIOUS
      <3>2. c \in Node
        BY <2>3, <2>4, <3>1, FinishedFacts DEF NULL_BODY
      <3>3. ASSUME ~isBody(c)
            PROVE  U[c] \subseteq reg[c]
        <4>1. isCell(c)
          BY <1>1, <3>2, <3>3 DEF isCell, isBody, Node
        <4>2. c \in Cells /\ c < m
          BY <2>3, <3>1, <4>1, FinishedFacts
        <4>a. c \in Nat /\ m \in Nat
          BY <1>1, <2>3, <4>2
        <4>3. c \in Nat /\ ~(m <= c)
          BY <4>2, <4>a
        <4>4. c \notin T
          BY <2>2, <4>3
        <4>5. QED
          BY <4>2, <4>3, <4>4
      <3>4. QED
        BY <1>3, <2>3, <2>4, <3>1, <3>3
    <2>5. U[m] = UNION {U[child[m][j]] : j \in {i \in Sub : child[m][i] >= 0}}
      BY <2>3 DEF UnderOf
    <2>6. QED
      BY <2>3, <2>4, <2>5
  <1>5. ASSUME NEW m \in Cells, NEW s \in Sub, child[m][s] >= 0
        PROVE  \A x \in U[child[m][s]] : x \in reg[m] /\ Oct(m, x) = s
    <2>1. PICK c : c = child[m][s]
      OBVIOUS
    <2>2. c \in Node
      BY <1>5, <2>1, FinishedFacts DEF NULL_BODY
    <2>3. ~isBody(c) => c \in Cells
      <3>1. ~isBody(c) => isCell(c)
        BY <1>1, <2>2 DEF isCell, isBody, Node
      <3>2. QED
        BY <2>1, <3>1, FinishedFacts
    <2>4. QED
      BY <1>3, <1>4, <1>5, <2>1, <2>3
  <1>6. QED
    BY <1>4, <1>5

LEMMA FinishedTree ==
    ASSUME NEW up, NEW lv, NEW reg, NEW own, Finished(up, lv, reg, own), hostDepth = ts.maxDepth
    PROVE  \E U : TreeOf(lv, U)
  <1>1. Down /\ NNode \in Nat /\ NBody \in Nat /\ NBody >= 1
    BY FinishedDown, FinishedFacts
  <1>2. \A n \in Node : Under[n] = UnderOf(Under, n)
    BY <1>1, UnderIs
  <1>3. PICK U : U = Under
    OBVIOUS
  <1>4. \A n \in Node : U[n] = UnderOf(U, n)
    BY <1>2, <1>3
  <1>5. \A n \in Node : U[n] \in SUBSET Body
    BY <1>3, FinishedUnder
  <1>6. TreeInv(up, lv, reg, own) /\ MemoryInv /\ CellInv(up, lv, reg)
    BY DEF Finished, TreeInv
  <1>7. ts.bottom \in NBody + 1 .. NNode /\ lv \in [Node -> Nat]
    BY <1>6 DEF MemoryInv, CellInv
  <1>8. \A c \in Cells : c \in Node /\ c \in Nat /\ isCell(c) /\ ~isBody(c) /\ own[c] = NoItem
    BY FinishedFacts
  <1>9. ASSUME NEW c \in Cells
        PROVE  1 <= lv[c] /\ lv[c] <= hostDepth
    <2>1. lv[c] <= ts.maxDepth
      BY <1>6, <1>8 DEF TreeInv, CoverInv, Finished
    <2>2. CASE c = NNode
      BY <1>6, <2>1, <2>2 DEF CellInv
    <2>3. CASE c # NNode
      <3>1. up[c] \in Cells \X Sub /\ lv[c] = lv[up[c][1]] + 1
        BY <1>6, <2>3 DEF CellInv
      <3>2. PICK m \in Cells : lv[c] = lv[m] + 1
        BY <3>1
      <3>3. lv[m] \in Nat
        BY <1>7, <1>8
      <3>4. QED
        BY <2>1, <3>2, <3>3
    <2>4. QED
      BY <2>2, <2>3
  <1>10. ASSUME NEW m \in Cells, NEW s \in Sub
         PROVE  /\ child[m][s] \in Node \cup {NULL_BODY} /\ (child[m][s] >= 0 <=> child[m][s] \in Node)
                /\ isCell(child[m][s]) => /\ child[m][s] \in Cells /\ child[m][s] < m /\ up[child[m][s]] = <<m, s>>
                                          /\ lv[child[m][s]] = lv[m] + 1
    <2>1. PICK c : c = child[m][s]
      OBVIOUS
    <2>2. c \in Node \cup {NULL_BODY} /\ (isCell(c) => c \in Cells \ {NNode} /\ c < m /\ up[c] = <<m, s>>)
      BY <2>1, FinishedFacts
    <2>3. c >= 0 <=> c \in Node
      BY <1>1, <2>2 DEF Node, NULL_BODY
    <2>4. ASSUME isCell(c)
          PROVE  lv[c] = lv[m] + 1
      <3>1. c \in Cells /\ c # NNode /\ up[c][1] = m
        BY <2>2, <2>4
      <3>2. lv[c] = lv[up[c][1]] + 1
        BY <1>6, <3>1 DEF CellInv
      <3>3. QED
        BY <3>1, <3>2
    <2>5. QED
      BY <2>1, <2>2, <2>3, <2>4
  <1>11. \A n \in Node, s \in Sub : isCell(n) /\ n < ts.bottom => child[n][s] = NULL_BODY
    BY <1>6 DEF TreeInv, LinkInv
  <1>12. \A m \in Cells, s \in Sub : child[m][s] >= 0 => \A x \in U[child[m][s]] : Oct(m, x) = s
    BY <1>4, UnderRegion
  <1>13. 0 \in Sub /\ 1 \in Sub /\ (\A s \in Sub : s = 0 \/ s = 1)
    BY DEF Sub
  <1>14. ASSUME NEW m \in Cells, child[m][0] = child[m][1], child[m][0] # NULL_BODY
         PROVE  FALSE
    <2>1. PICK c : c = child[m][0]
      OBVIOUS
    <2>2. c \in Node
      BY <1>10, <1>13, <1>14, <2>1
    <2>3. CASE isCell(c)
      <3>1. up[c] = <<m, 0>> /\ up[c] = <<m, 1>>
        BY <1>10, <1>13, <1>14, <2>1, <2>3
      <3>2. QED
        BY <3>1
    <2>4. CASE ~isCell(c)
      <3>1. c \in Body
        BY <1>1, <2>2, <2>4 DEF isCell, Node, Body
      <3>2. Oct(m, c) = 0 /\ Oct(m, c) = 1
        BY <1>6, <1>13, <1>14, <2>1, <3>1 DEF TreeInv, BodyInv
      <3>3. QED
        BY <3>2
    <2>5. QED
      BY <2>3, <2>4
  <1>15. \A n \in Node : isBody(n) \/ isCell(n)
    BY <1>1 DEF Node, isBody, isCell
  <1>16. ASSUME NEW m \in Cells, NEW n \in Kids(m)
         PROVE  isBody(n) \/ (n \in Cells /\ n < m /\ lv[n] = lv[m] + 1)
    <2>1. PICK s \in Sub : child[m][s] = n /\ n \in Node
      BY DEF Kids
    <2>2. QED
      BY <1>10, <1>15, <2>1
  <1>17. \A b \in Body : U[b] = {b}
    <2>1. \A b \in Body : b \in Node /\ isBody(b)
      BY NodeAssumption DEF Body, Node, isBody
    <2>2. QED
      BY <1>4, <2>1 DEF UnderOf
  <1>18. ASSUME NEW m \in Cells
         PROVE  U[m] \subseteq Body /\ U[m] = Sum(U, Kids(m))
    <2>1. U[m] = UNION {U[child[m][j]] : j \in {i \in Sub : child[m][i] >= 0}} /\ m \in Node
      BY <1>4, <1>8 DEF UnderOf
    <2>2. \A n : n \in Kids(m) <=> \E j \in Sub : child[m][j] >= 0 /\ n = child[m][j]
      BY <1>10 DEF Kids
    <2>3. \A x : x \in U[m] <=> \E j \in Sub : child[m][j] >= 0 /\ x \in U[child[m][j]]
      BY <2>1
    <2>4. \A x : x \in Sum(U, Kids(m)) <=> \E n \in Kids(m) : x \in U[n]
      BY DEF Sum
    <2>5. U[m] = Sum(U, Kids(m))
      <3>1. \A x : x \in U[m] <=> x \in Sum(U, Kids(m))
        BY <2>2, <2>3, <2>4
      <3>2. PICK A, B : A = U[m] /\ B = Sum(U, Kids(m))
        OBVIOUS
      <3>3. \A x : x \in A <=> x \in B
        BY <3>1, <3>2
      <3>4. A = B
        BY <3>3
      <3>5. QED
        BY <3>2, <3>4
    <2>6. QED
      BY <1>5, <2>1, <2>5
  <1>19. ASSUME NEW m \in Cells, NEW a \in Kids(m), NEW b \in Kids(m), a # b
         PROVE  U[a] \cap U[b] = {}
    <2>1. PICK s \in Sub : child[m][s] = a /\ a \in Node
      BY DEF Kids
    <2>2. PICK t \in Sub : child[m][t] = b /\ b \in Node
      BY DEF Kids
    <2>3. s # t
      BY <1>19, <2>1, <2>2
    <2>4. (\A x \in U[a] : Oct(m, x) = s) /\ (\A x \in U[b] : Oct(m, x) = t)
      BY <1>10, <1>12, <2>1, <2>2
    <2>5. QED
      BY <2>3, <2>4
  <1>20. TreeOf(lv, U)
    BY <1>7, <1>9, <1>10, <1>11, <1>14, <1>16, <1>17, <1>18, <1>19 DEF TreeOf
  <1>21. QED
    BY <1>20

\* Under is the function that the levels and the children determine.
LEMMA TreeUnder ==
    ASSUME NEW lv, NEW U, TreeOf(lv, U)
    PROVE  \A c \in Cells : Under[c] = U[c]
  <1>1. /\ NNode \in Nat /\ NBody \in Nat
        /\ \A c \in Cells : c \in Node /\ c \in Nat /\ isCell(c) /\ ~isBody(c)
        /\ \A n \in Node : (isBody(n) => n \in Body) /\ (n \in Body => isBody(n))
    BY KidFacts
  <1>2. ASSUME NEW m \in Cells, NEW n \in Kids(m)
        PROVE  n \in Nat /\ n < m /\ (n \in Body \/ n \in Cells) /\ n \in Node
    <2>1. n \in Node /\ (isBody(n) \/ (n \in Cells /\ n < m))
      BY DEF TreeOf, Kids
    <2>2. m \in Nat /\ ~(m < NBody)
      BY <1>1 DEF isBody
    <2>3. QED
      BY <1>1, <2>1, <2>2 DEF isBody, Node
  <1>3. Down
    <2> SUFFICES ASSUME NEW k \in Node, NEW j \in Sub, isCell(k), child[k][j] >= 0
                 PROVE  child[k][j] \in Nat /\ child[k][j] < k
      BY DEF Down
    <2>1. k \in Cells
      <3>1. ~(k < ts.bottom)
        <4> SUFFICES ASSUME k < ts.bottom
                     PROVE  FALSE
          OBVIOUS
        <4>1. child[k][j] = NULL_BODY
          BY DEF TreeOf
        <4>2. QED
          BY <4>1 DEF NULL_BODY
      <3>2. QED
        BY <1>1, <3>1, KidFacts DEF Cells, Node
    <2>2. child[k][j] \in Kids(k)
      BY <2>1, KidFacts
    <2>3. QED
      BY <1>2, <2>1, <2>2
  <1>4. \A n \in Node : Under[n] = UnderOf(Under, n)
    BY <1>3, UnderIs
  <1>5. PICK V : V = Under
    OBVIOUS
  <1>6. \A n \in Node : V[n] = UnderOf(V, n)
    BY <1>4, <1>5
  <1> DEFINE T == {k \in Nat : k \in Cells /\ V[k] # U[k]}
  <1>7. SUFFICES ASSUME T # {}
                 PROVE  FALSE
    BY <1>1, <1>5
  <1>8. PICK m \in T : \A k \in T : m <= k
    BY <1>7, Least
  <1>9. m \in Nat /\ m \in Cells /\ m \in Node /\ V[m] # U[m] /\ ~isBody(m)
    BY <1>1, <1>8
  <1>10. ASSUME NEW n \in Kids(m)
         PROVE  V[n] = U[n]
    <2>1. n \in Nat /\ n < m /\ (n \in Body \/ n \in Cells) /\ n \in Node
      BY <1>2, <1>9
    <2>2. CASE n \in Body
      BY <1>1, <1>6, <2>1, <2>2 DEF UnderOf, TreeOf
    <2>3. CASE n \in Cells
      <3>1. n \notin T
        BY <1>8, <1>9, <2>1
      <3>2. QED
        BY <2>1, <2>3, <3>1
    <2>4. QED
      BY <2>1, <2>2, <2>3
  <1>11. V[m] = UNION {V[child[m][j]] : j \in {i \in Sub : child[m][i] >= 0}}
    BY <1>6, <1>9 DEF UnderOf
  <1>12. U[m] = Sum(U, Kids(m))
    BY <1>9 DEF TreeOf
  <1>13. \A n : n \in Kids(m) <=> \E j \in Sub : child[m][j] >= 0 /\ n = child[m][j]
    BY <1>9, KidFacts DEF Kids
  <1>14. \A x : x \in V[m] <=> \E j \in Sub : child[m][j] >= 0 /\ x \in V[child[m][j]]
    BY <1>11
  <1>15. \A x : x \in Sum(U, Kids(m)) <=> \E n \in Kids(m) : x \in U[n]
    BY DEF Sum
  <1>16. V[m] = U[m]
    <2>1. \A x : x \in V[m] <=> \E n \in Kids(m) : x \in V[n]
      BY <1>13, <1>14
    <2>2. \A x : x \in V[m] <=> x \in Sum(U, Kids(m))
      BY <1>10, <1>15, <2>1
    <2>3. PICK A, B : A = V[m] /\ B = Sum(U, Kids(m))
      OBVIOUS
    <2>4. \A x : x \in A <=> x \in B
      BY <2>2, <2>3
    <2>5. A = B
      BY <2>4
    <2>6. QED
      BY <1>12, <2>3, <2>5
  <1>17. QED
    BY <1>9, <1>16

-----------------------------------------------------------------------------
(* The launches.                                                            *)

LEMMA LaunchClimbs ==
    ASSUME NEW lv, NEW U, NEW ready, ShapeInv', TreeOf(lv, U)', UNCHANGED mode, ts'.bottom = ts.bottom,
           sm' = [w \in Item |-> FromCell(FirstCell(w), ready)],
           \A c \in Cells : ready[c] # NotReady => Word'[c] # NotReady
    PROVE  \A w \in Item' : Climbs(w, sm[w], lv, U)'
  <1>1. Launches'
    BY Launched, PTL
  <1>2. Item' = Item /\ Cells' = Cells
    BY SameBase
  <1>3. \A w : FirstCell(w)' = FirstCell(w)
    BY DEF FirstCell, Warp, Gid, Inc
  <1>4. \A w \in Item' : sm'[w] = FromCell(FirstCell(w)', ready)
    BY <1>2, <1>3
  <1>5. \A w \in Item' : sm'[w] = FromCell(FirstCell(w), ready)'
    BY <1>4 DEF FromCell, NoMass
  <1>6. \A c \in Cells' : ready[c] # NotReady => Word'[c] # NotReady
    BY <1>2
  <1>7. QED
    BY <1>1, <1>5, <1>6 DEF Launches

\* All items have left: the cells that were due are ready.
LEMMA EndedReady ==
    ASSUME NEW lv, NEW U, ShapeInv, TreeOf(lv, U), Climb(lv, U), SumEnded, NEW c \in Cells, Due(c, lv)
    PROVE  Word[c] # NotReady /\ Exact(c, U)
  <1>1. c \in Nat /\ c >= ts.bottom /\ c <= NNode /\ ts.bottom \in Nat /\ NNode \in Nat
    BY KidFacts
  <1>2. PICK w \in Item : Mine(w, c - Base)
    BY <1>1, CellOwner
  <1>3. PICK R : R = sm[w]
    OBVIOUS
  <1>4. Climbs(w, R, lv, U) /\ R.pc = "exit"
    BY <1>3 DEF Climb, SumEnded
  <1>5. R.k \in Nat /\ R.k > NNode
    BY <1>4 DEF Climbs
  <1>6. c < R.k
    BY <1>1, <1>5
  <1>7. Word[c] # NotReady
    BY <1>2, <1>4, <1>6 DEF Climbs
  <1>8. QED
    BY <1>7 DEF Climb

\* After the last launch all are.
LEMMA LastReady ==
    ASSUME NEW lv, NEW U, ShapeInv, TreeOf(lv, U), Climb(lv, U), SumEnded, pass \in Nat, hostDepth \in Nat,
           ~(pass + 1 < Passes), NEW c \in Cells
    PROVE  Exact(c, U)
  <1>1. Due(c, lv)
    <2>1. CASE mode.consistent
      BY <2>1 DEF Due
    <2>2. CASE ~mode.consistent
      <3>1. ~(pass + 1 < hostDepth)
        BY <2>2 DEF Passes
      <3>2. lv[c] \in Nat /\ 1 <= lv[c]
        BY KidFacts DEF TreeOf
      <3>3. lv[c] >= hostDepth - pass
        BY <3>1, <3>2
      <3>4. QED
        BY <3>3 DEF Due
    <2>3. QED
      BY <2>1, <2>2
  <1>2. QED
    BY <1>1, EndedReady

LEMMA NextPass ==
    ASSUME NEW lv, NEW U, ShapeInv, ShapeInv', TreeOf(lv, U), Climb(lv, U), SumEnded, pass \in Nat, hostDepth \in Nat,
           phase \in {"sum", "quad"}, pass + 1 < Passes, pass' = pass + 1, LaunchSum(phase),
           UNCHANGED <<mode, child, mass, quad, count, written, ts, phase, hostDepth>>
    PROVE  TreeOf(lv, U)' /\ Climb(lv, U)'
  <1>1. TreeOf(lv, U)' /\ Cells' = Cells
    BY SameKids
  <1>2. ~mode.consistent
    BY DEF Passes
  <1>3. Word' = Word /\ ts'.bottom = ts.bottom
    BY DEF Word
  <1>4. ReadyWords(phase) = Word
    BY <1>2 DEF ReadyWords, Word
  <1>5. PICK ready : ready = Word
    OBVIOUS
  <1>6. sm' = [w \in Item |-> FromCell(FirstCell(w), ready)]
    BY <1>4, <1>5 DEF LaunchSum
  <1>7. \A c \in Cells : ready[c] # NotReady => Word'[c] # NotReady
    BY <1>3, <1>5
  <1>8. \A w \in Item' : Climbs(w, sm[w], lv, U)'
    BY <1>1, <1>3, <1>6, <1>7, LaunchClimbs
  <1>9. ASSUME NEW c \in Cells, Word'[c] # NotReady
        PROVE  Exact(c, U)'
    <2>1. Word[c] = AllOnce(U[c]) /\ Stored(c, U)
      BY <1>3, <1>9 DEF Climb, Exact
    <2>2. Stored(c, U)'
      BY <2>1 DEF Stored
    <2>3. QED
      BY <1>3, <2>1, <2>2 DEF Exact, AllOnce
  <1>10. ASSUME NEW c \in Cells, lv[c] > hostDepth - pass'
         PROVE  Word'[c] # NotReady
    <2>1. lv[c] \in Nat
      BY KidFacts DEF TreeOf
    <2>2. lv[c] >= hostDepth - pass
      BY <1>10, <2>1
    <2>3. QED
      BY <1>3, <2>2, EndedReady DEF Due
  <1>11. Climb(lv, U)'
    BY <1>1, <1>8, <1>9, <1>10 DEF Climb
  <1>12. QED
    BY <1>1, <1>11

\* The first launch of a kernel: no cell is ready.
LEMMA FirstPass ==
    ASSUME NEW lv, NEW U, NEW ready, ShapeInv', TreeOf(lv, U)', pass' = 0, hostDepth' \in Nat,
           UNCHANGED mode, ts'.bottom = ts.bottom, sm' = [w \in Item |-> FromCell(FirstCell(w), ready)],
           \A c \in Cells : ready[c] = NotReady /\ Word'[c] = NotReady
    PROVE  Climb(lv, U)'
  <1>1. \A w \in Item' : Climbs(w, sm[w], lv, U)'
    BY LaunchClimbs
  <1>2. Cells' = Cells
    BY SameBase
  <1>3. \A c \in Cells' : lv[c] <= hostDepth' /\ lv[c] \in Nat
    <2>1. \A c \in Cells' : c \in Node
      BY NodeAssumption DEF TreeOf, Cells, Node
    <2>2. QED
      BY <2>1 DEF TreeOf
  <1>4. \A c \in Cells' : ~(lv[c] > hostDepth' - pass')
    BY <1>3
  <1>5. QED
    BY <1>1, <1>2, <1>4 DEF Climb

-----------------------------------------------------------------------------
(* The steps of the items.                                                  *)

LEMMA SumItemWords ==
    ASSUME NEW lv, NEW U, TreeOf(lv, U), Climb(lv, U), Words, NEW w \in Item, SumItem(w)
    PROVE  Words'
  <1>1. CASE Scan(w) \/ Poll(w) \/ NextCell(w)
    <2>1. UNCHANGED <<mass, quad, count, written>>
      BY <1>1 DEF Scan, Poll, NextCell, buffers
    <2>2. QED
      BY <2>1 DEF Words
  <1>2. CASE Store(w)
    <2>1. /\ phase \in {"sum", "quad"} /\ UNCHANGED mass
          /\ written' = [written EXCEPT ![phase] = @ \cup {sm[w].k}]
          /\ UNCHANGED count \/ count' = [count EXCEPT ![sm[w].k] = sm[w].cnt]
          /\ UNCHANGED quad \/ quad' = [quad EXCEPT ![sm[w].k] = NotReady]
      BY <1>2 DEF Store, AtSum
    <2>2. count' = [n \in Node |-> count'[n]] /\ quad' = [n \in Node |-> quad'[n]]
      BY <2>1 DEF Words
    <2>3. IsRecord(written', {"sum", "quad"})
      BY <2>1 DEF Words, IsRecord
    <2>4. QED
      BY <2>1, <2>2, <2>3 DEF Words, IsRecord
  <1>3. CASE SetReady(w)
    <2>1. /\ sm[w].pc = "ready" /\ UNCHANGED <<count, written>>
          /\ UNCHANGED mass \/ mass' = [mass EXCEPT ![sm[w].k] = sm[w].total]
          /\ UNCHANGED quad \/ quad' = [quad EXCEPT ![sm[w].k] = sm[w].total]
      BY <1>3 DEF SetReady, AtSum
    <2>2. sm[w].k \in Cells
      BY <2>1, AtCell
    <2>3. \A b \in Body : b # sm[w].k /\ b \in Node
      BY <2>2, KidFacts, NodeAssumption DEF Body, Node, isBody
    <2>4. mass' = [n \in Node |-> mass'[n]] /\ quad' = [n \in Node |-> quad'[n]]
      BY <2>1 DEF Words
    <2>5. \A b \in Body : mass'[b] = Unit(b)
      BY <2>1, <2>3 DEF Words
    <2>6. QED
      BY <2>1, <2>4, <2>5 DEF Words, Unit
  <1>4. QED
    BY <1>1, <1>2, <1>3 DEF SumItem

LEMMA SumItemSums ==
    ASSUME NEW lv, NEW U, ShapeInv, SumInv, Sums(lv, U), Words, Types, NumInv, hostDepth \in Nat, pass \in Nat,
           NEW w \in Item, SumItem(w)
    PROVE  Sums(lv, U)' /\ Words'
  <1>1. /\ phase \in {"sum", "quad"} /\ UNCHANGED <<phase, mode>>
        /\ UNCHANGED ts \/ ts' = [ts EXCEPT !.errorCode = "structure"]
        /\ phase # "sum" => UNCHANGED <<mass, count>>
    BY DEF SumItem, Scan, Poll, Store, SetReady, NextCell, AtSum, host, buffers
  <1>2. TreeOf(lv, U) /\ Climb(lv, U)
    BY <1>1 DEF Sums
  <1>3. TreeOf(lv, U)' /\ Climb(lv, U)'
    BY <1>2, ItemClimbs
  <1>4. Words'
    BY <1>2, SumItemWords
  <1>5. Cells' = Cells
    BY <1>1, StatusStored DEF Cells
  <1>6. phase # "sum" => \A c \in Cells : mass'[c] = AllOnce(U[c]) /\ count'[c] = Cardinality(U[c])
    BY <1>1 DEF Sums
  <1>7. QED
    BY <1>1, <1>3, <1>4, <1>5, <1>6 DEF Sums, AllOnce

\* Steps that leave the tree and its words alone.
LEMMA RestSums ==
    ASSUME NEW lv, NEW U, Sums(lv, U), ts'.bottom = ts.bottom, UNCHANGED <<mode, child, mass, quad, count, hostDepth>>,
           \/ phase = "sort" /\ phase' \in {"sort", "tree"} /\ (phase' = "tree" => ~mode.quad)
           \/ phase \in {"tree", "force", "integrate"} /\ phase' \in {"tree", "force", "integrate"}
    PROVE  Sums(lv, U)'
  <1>1. TreeOf(lv, U) /\ TreeOf(lv, U)' /\ Cells' = Cells
    BY SameKids DEF Sums
  <1>2. phase # "sum" /\ phase' \notin {"sum", "quad"}
    OBVIOUS
  <1>3. \A c \in Cells : mass'[c] = AllOnce(U[c]) /\ count'[c] = Cardinality(U[c])
    BY <1>2 DEF Sums
  <1>4. phase' = "sort" /\ mode.quad => \A c \in Cells : quad'[c] = NotReady
    BY DEF Sums
  <1>5. phase' \in {"tree", "force", "integrate"} /\ mode.quad => \A c \in Cells : quad'[c] = AllOnce(U[c])
    BY DEF Sums
  <1>6. QED
    BY <1>1, <1>2, <1>3, <1>4, <1>5 DEF Sums, AllOnce

-----------------------------------------------------------------------------
(* The steps of the host.                                                   *)

LEMMA ClearSums ==
    ASSUME NEW up, NEW lv, NEW reg, NEW own, Finished(up, lv, reg, own), ShapeInv', hostDepth = ts.maxDepth, NumInv,
           Words, pass = 0, mass[NNode] = NotReady, summarizationClear
    PROVE  (\E U : Sums(lv, U)') /\ Words'
  <1>1. PICK U : TreeOf(lv, U)
    BY FinishedTree
  <1>2. UNCHANGED <<mode, child, count, ts, pass, hostDepth>> /\ phase' = "sum"
    BY DEF summarizationClear
  <1>3. TreeOf(lv, U)' /\ Cells' = Cells
    BY <1>1, <1>2, SameKids
  <1>4. PICK C : C = ts.bottom .. NNode - 1
    OBVIOUS
  <1>5. /\ mass' = [n \in Node |-> IF n \in C THEN NotReady ELSE mass[n]]
        /\ UNCHANGED quad \/ quad' = [n \in Node |-> IF n \in C THEN NotReady ELSE quad[n]]
        /\ UNCHANGED written \/ written' = [written EXCEPT !.quad = @ \ C]
        /\ sm' = [w \in Item |-> FromCell(FirstCell(w), Unfinished)]
    BY <1>4 DEF summarizationClear
  <1>6. /\ NNode \in Nat /\ ts.bottom \in Nat /\ \A c \in Cells : c \in Node /\ c \in Nat /\ c <= NNode /\ c >= ts.bottom
        /\ ts.bottom \in NBody + 1 .. NNode
    BY <1>1, KidFacts DEF TreeOf
  <1>7. \A c \in Cells : mass'[c] = NotReady
    <2>1. \A c \in Cells : c \in C \/ c = NNode
      BY <1>4, <1>6
    <2>2. QED
      BY <1>5, <1>6, <2>1
  <1>8. \A c \in Cells : Unfinished[c] = NotReady /\ Word'[c] = NotReady
    BY <1>2, <1>6, <1>7 DEF Unfinished, Word
  <1>9. PICK ready : ready = Unfinished
    OBVIOUS
  <1>10. Climb(lv, U)'
    <2>1. pass' = 0 /\ hostDepth' \in Nat /\ ts'.bottom = ts.bottom
      BY <1>2 DEF NumInv
    <2>2. sm' = [w \in Item |-> FromCell(FirstCell(w), ready)] /\ \A c \in Cells : ready[c] = NotReady /\ Word'[c] = NotReady
      BY <1>5, <1>8, <1>9
    <2>3. QED
      BY <1>2, <1>3, <2>1, <2>2, FirstPass
  <1>11. Sums(lv, U)'
    BY <1>2, <1>3, <1>10 DEF Sums
  <1>12. Words'
    <2>1. \A b \in Body : b \in Node /\ b \notin C
      BY <1>4, <1>6, NodeAssumption DEF Body, Node
    <2>2. mass' = [n \in Node |-> mass'[n]] /\ quad' = [n \in Node |-> quad'[n]] /\ count' = [n \in Node |-> count'[n]]
      BY <1>2, <1>5 DEF Words
    <2>3. \A b \in Body : mass'[b] = Unit(b)
      BY <1>5, <2>1 DEF Words
    <2>4. IsRecord(written', {"sum", "quad"})
      BY <1>5 DEF Words, IsRecord
    <2>5. QED
      BY <2>2, <2>3, <2>4 DEF Words, IsRecord, Unit
  <1>13. QED
    BY <1>11, <1>12

LEMMA SumAgainSums ==
    ASSUME NEW lv, NEW U, ShapeInv, ShapeInv', Sums(lv, U), hostDepth \in Nat, pass \in Nat, SumAgain
    PROVE  Sums(lv, U)'
  <1>1. phase = "sum" /\ SumEnded /\ UNCHANGED <<mode, child, mass, quad, count, written, ts, hostDepth>>
    BY DEF SumAgain, buffers
  <1>2. TreeOf(lv, U) /\ Climb(lv, U)
    BY <1>1 DEF Sums
  <1>3. TreeOf(lv, U)' /\ Cells' = Cells
    BY <1>1, <1>2, SameKids
  <1>4. CASE pass + 1 < Passes
    <2>1. pass' = pass + 1 /\ LaunchSum(phase) /\ UNCHANGED phase
      BY <1>1, <1>4 DEF SumAgain
    <2>2. TreeOf(lv, U)' /\ Climb(lv, U)'
      BY <1>1, <1>2, <1>4, <2>1, NextPass
    <2>3. QED
      BY <1>1, <2>1, <2>2 DEF Sums
  <1>5. CASE ~(pass + 1 < Passes)
    <2>1. phase' = "sort"
      BY <1>5 DEF SumAgain
    <2>2. \A c \in Cells : Exact(c, U)
      BY <1>1, <1>2, <1>5, LastReady
    <2>3. \A c \in Cells : mass'[c] = AllOnce(U[c]) /\ count'[c] = Cardinality(U[c]) /\ (mode.quad => quad'[c] = NotReady)
      BY <1>1, <2>2 DEF Exact, Stored, Word
    <2>4. QED
      BY <1>1, <1>3, <2>1, <2>3 DEF Sums, AllOnce
  <1>6. QED
    BY <1>4, <1>5

LEMMA SortAgainSums ==
    ASSUME NEW lv, NEW U, ShapeInv, ShapeInv', Sums(lv, U), hostDepth \in Nat, pass \in Nat, NumInv, Fit, SortAgain
    PROVE  Sums(lv, U)'
  <1>1. /\ phase = "sort" /\ UNCHANGED <<mode, child, mass, quad, count, written, hostDepth>>
        /\ UNCHANGED ts \/ ts' = [ts EXCEPT !.errorCode = "depth"]
    BY DEF SortAgain, buffers
  <1>2. TreeOf(lv, U) /\ ts'.bottom = ts.bottom
    BY <1>1, StatusStored DEF Sums
  <1>3. ts.maxDepth <= MaxDepth
    BY DEF Fit
  <1>4. CASE phase' = "quad"
    <2>1. pass' = 0 /\ LaunchSum("quad") /\ mode.quad
      BY <1>1, <1>4 DEF SortAgain
    <2>2. TreeOf(lv, U)' /\ Cells' = Cells
      BY <1>1, <1>2, SameKids
    <2>3. \A c \in Cells : quad[c] = NotReady /\ mass[c] = AllOnce(U[c]) /\ count[c] = Cardinality(U[c])
      BY <1>1, <2>1 DEF Sums
    <2>4. PICK ready : ready = ReadyWords("quad")
      OBVIOUS
    <2>5. \A c \in Cells : ready[c] = NotReady /\ Word'[c] = NotReady
      <3>1. \A c \in Cells : c \in Node
        BY <1>2, KidFacts
      <3>2. QED
        BY <1>1, <1>4, <2>3, <2>4, <3>1 DEF ReadyWords, Unfinished, Word
    <2>6. sm' = [w \in Item |-> FromCell(FirstCell(w), ready)]
      BY <2>1, <2>4 DEF LaunchSum
    <2>7. hostDepth' \in Nat
      BY <1>1
    <2>8. Climb(lv, U)'
      BY <1>1, <1>2, <2>1, <2>2, <2>5, <2>6, <2>7, FirstPass
    <2>9. QED
      BY <1>1, <1>4, <2>2, <2>3, <2>8 DEF Sums, AllOnce
  <1>5. CASE phase' # "quad"
    <2>1. phase' \in {"sort", "tree"} /\ (phase' = "tree" => ~mode.quad)
      BY <1>1, <1>3, <1>5 DEF SortAgain
    <2>2. QED
      BY <1>1, <1>2, <2>1, RestSums
  <1>6. QED
    BY <1>4, <1>5

LEMMA QuadAgainSums ==
    ASSUME NEW lv, NEW U, ShapeInv, ShapeInv', Sums(lv, U), hostDepth \in Nat, pass \in Nat, QuadAgain
    PROVE  Sums(lv, U)'
  <1>1. phase = "quad" /\ SumEnded /\ UNCHANGED <<mode, child, mass, quad, count, written, ts, hostDepth>>
    BY DEF QuadAgain, buffers
  <1>2. TreeOf(lv, U) /\ Climb(lv, U)
    BY <1>1 DEF Sums
  <1>3. TreeOf(lv, U)' /\ Cells' = Cells
    BY <1>1, <1>2, SameKids
  <1>4. \A c \in Cells : mass'[c] = AllOnce(U[c]) /\ count'[c] = Cardinality(U[c])
    BY <1>1 DEF Sums
  <1>5. CASE pass + 1 < Passes
    <2>1. pass' = pass + 1 /\ LaunchSum(phase) /\ UNCHANGED phase
      BY <1>1, <1>5 DEF QuadAgain
    <2>2. TreeOf(lv, U)' /\ Climb(lv, U)'
      BY <1>1, <1>2, <1>5, <2>1, NextPass
    <2>3. QED
      BY <1>1, <1>3, <1>4, <2>1, <2>2 DEF Sums, AllOnce
  <1>6. CASE ~(pass + 1 < Passes)
    <2>1. phase' = "tree"
      BY <1>6 DEF QuadAgain
    <2>2. \A c \in Cells : Exact(c, U)
      BY <1>1, <1>2, <1>6, LastReady
    <2>3. \A c \in Cells : quad'[c] = AllOnce(U[c])
      BY <1>1, <2>2 DEF Exact, Word
    <2>4. QED
      BY <1>1, <1>3, <1>4, <2>1, <2>3 DEF Sums, AllOnce
  <1>7. QED
    BY <1>5, <1>6

-----------------------------------------------------------------------------
(* The words of the cells in every phase of a time step.                    *)

SumState ==
  Fit => /\ Words
         /\ phase = "box" /\ BoxDone = Group => mass[NNode] = NotReady
         /\ phase \in {"build", "sumclear"} => mass[NNode] = NotReady
         /\ phase = "build" /\ ~mode.consistent => pass = 0
         /\ phase = "sumclear" => pass = 0 /\ hostDepth = ts.maxDepth
         /\ phase \in After => hostDepth = ts.maxDepth /\ \E lv, U : Sums(lv, U)
Summed == Loads /\ SumState

LEMMA StateBuild ==
    ASSUME SumState, Fit, NEW w \in Item, BuildItem(w)
    PROVE  SumState'
  <1>1. phase = "build" /\ UNCHANGED <<mode, mass, quad, count, phase, pass>>
    BY DEF BuildItem, WhileDead, WhileMore, Read, TryLock, Insert, Alloc, Overflow, Fill, Link,
           Publish, Skip, Leave, Loaded, keep, host, At
  <1>2. UNCHANGED written \/ written' = [written EXCEPT !.sum = @ \ {bt[w].cell}]
    BY DEF BuildItem, WhileDead, WhileMore, Read, TryLock, Insert, Alloc, Overflow, Fill, Link,
           Publish, Skip, Leave, Loaded
  <1>3. IsRecord(written', {"sum", "quad"})
    BY <1>2 DEF SumState, Words, IsRecord
  <1>4. Words'
    BY <1>1, <1>3 DEF SumState, Words, IsRecord
  <1>5. QED
    BY <1>1, <1>4 DEF SumState, After

LEMMA StateGroup ==
    ASSUME SumState, Fit, NEW g \in Group, GroupStart(g) \/ Barrier(g) \/ Sync(g), phase = "build"
    PROVE  SumState'
  <1>1. UNCHANGED <<mode, mass, quad, count, written, phase, pass>>
    BY DEF GroupStart, Barrier, Sync, keep, host
  <1>2. Words'
    BY <1>1 DEF SumState, Words
  <1>3. QED
    BY <1>1, <1>2 DEF SumState, After

LEMMA StateBox ==
    ASSUME SumState, Fit, Device, Device', Fit', NEW g \in Group, BoxReduce(g) \/ BoxCount(g)
    PROVE  SumState'
  <1>1. phase = "box" /\ UNCHANGED <<mode, quad, count, phase>>
    BY DEF BoxReduce, BoxCount, host, buffers
  <1>2. BoxInv /\ BoxInv' /\ Words
    BY <1>1 DEF Device, DeviceInv, SumState
  <1>3. BoxDone # Group
    BY DEF BoxReduce, BoxCount, BoxDone
  <1>4. Group' = Group /\ ShapeInv
    BY <1>1 DEF Group, Device, FaultInv
  <1>5. CASE BoxReduce(g)
    <2>1. UNCHANGED <<mass, written>> /\ box' = [box EXCEPT ![g] = [pc |-> "count", ext |-> Extent({pos[b] : b \in Scanned(g)})]]
      BY <1>5 DEF BoxReduce, buffers
    <2>2. box'[g].pc = "count"
      BY <1>2, <2>1 DEF BoxInv
    <2>3. BoxDone' # Group'
      BY <1>4, <2>2 DEF BoxDone
    <2>4. Words'
      BY <1>1, <1>2, <2>1 DEF Words
    <2>5. QED
      BY <1>1, <2>3, <2>4 DEF SumState, After
  <1>6. CASE BoxCount(g)
    <2>1. CASE ts.blkCnt = mode.groups - 1
      <3>1. mass' = [mass EXCEPT ![NNode] = NotReady] /\ written' = [written EXCEPT !.sum = @ \ {NNode}]
        BY <1>6, <2>1 DEF BoxCount
      <3>2. NNode \in Node /\ \A b \in Body : b # NNode /\ b \in Node
        BY NodeAssumption DEF Body, Node
      <3>3. mass'[NNode] = NotReady /\ mass' = [n \in Node |-> mass'[n]] /\ \A b \in Body : mass'[b] = Unit(b)
        BY <1>2, <3>1, <3>2 DEF Words
      <3>4. IsRecord(written', {"sum", "quad"})
        BY <1>2, <3>1 DEF Words, IsRecord
      <3>5. Words'
        BY <1>1, <1>2, <3>3, <3>4 DEF Words, IsRecord, Unit
      <3>6. QED
        BY <1>1, <3>3, <3>5 DEF SumState, After
    <2>2. CASE ts.blkCnt # mode.groups - 1
      <3>1. UNCHANGED <<mass, written>> /\ ts' = [ts EXCEPT !.blkCnt = @ + 1]
        BY <1>6, <2>2 DEF BoxCount
      <3>2. ts.blkCnt = Cardinality(BoxDone)
        BY <1>2, <1>3 DEF BoxInv
      <3>3. IsFiniteSet(BoxDone)
        BY <1>4, GroupCount, FS_Subset DEF BoxDone
      <3>4. ts.blkCnt \in Nat
        BY <3>2, <3>3, FS_CardinalityType
      <3>5. ts'.blkCnt = ts.blkCnt + 1
        BY <1>4, <3>1 DEF ShapeInv, IsRecord, StatusFields
      <3>6. BoxDone' # Group'
        BY <1>2, <3>4, <3>5 DEF BoxInv
      <3>7. Words'
        BY <1>1, <1>2, <3>1 DEF Words
      <3>8. QED
        BY <1>1, <3>6, <3>7 DEF SumState, After
    <2>3. QED
      BY <2>1, <2>2
  <1>7. QED
    BY <1>5, <1>6

LEMMA StateBuildHost ==
    ASSUME SumState, Fit, BuildHost
    PROVE  SumState'
  <1>1. UNCHANGED <<mode, mass, quad, count, written, ts>>
    BY DEF BuildHost, buildTreeClear, NextChunk, Repeat, buffers
  <1>2. Words'
    BY <1>1 DEF SumState, Words
  <1>3. CASE buildTreeClear
    <2>1. phase = "box" /\ phase' = "build" /\ pass' = 0 /\ BoxDone = Group
      BY <1>3 DEF buildTreeClear, BoxDone
    <2>2. QED
      BY <1>1, <1>2, <2>1 DEF SumState, After
  <1>4. CASE NextChunk
    <2>1. /\ phase = "build" /\ mode.consistent /\ hostDepth' = ts.maxDepth
          /\ phase' \in {"build", "sumclear"} /\ (phase' = "sumclear" => pass' = 0)
      BY <1>4 DEF NextChunk, BuildEnded
    <2>2. QED
      BY <1>1, <1>2, <2>1 DEF SumState, After
  <1>5. CASE Repeat
    <2>1. /\ phase = "build" /\ ~mode.consistent /\ hostDepth' = ts.maxDepth /\ UNCHANGED pass
          /\ phase' \in {"build", "sumclear", "error", "stuck"}
      BY <1>5 DEF Repeat, BuildEnded
    <2>2. QED
      BY <1>1, <1>2, <2>1 DEF SumState, After
  <1>6. QED
    BY <1>3, <1>4, <1>5 DEF BuildHost

LEMMA StateSum ==
    ASSUME Summed, Fit, ShapeInv, ShapeInv', (\E w \in Item : SumItem(w) \/ SortCell(w)) \/ SumHost
    PROVE  SumState'
  <1>1. Words /\ Types /\ NumInv /\ SumInv /\ pass \in Nat /\ ts.maxDepth \in Nat
    BY DEF Summed, Loads, SumState, Device, DeviceInv, NumInv
  <1>2. CASE \E w \in Item : SumItem(w) \/ SortCell(w)
    <2>1. PICK w \in Item : SumItem(w) \/ SortCell(w)
      BY <1>2
    <2>2. /\ phase \in {"sum", "quad", "sort"} /\ UNCHANGED <<mode, phase, hostDepth>>
          /\ UNCHANGED ts \/ ts' = [ts EXCEPT !.errorCode = "structure"]
      BY <2>1 DEF SumItem, Scan, Poll, Store, SetReady, NextCell, SortCell, AtSum, host, buffers
    <2>3. ts'.bottom = ts.bottom /\ ts'.maxDepth = ts.maxDepth
      BY <2>2, StatusStored
    <2>4. hostDepth = ts.maxDepth /\ \E lv, U : Sums(lv, U)
      BY <2>2 DEF Summed, SumState, After
    <2>5. PICK lv, U : Sums(lv, U)
      BY <2>4
    <2>6. hostDepth \in Nat
      BY <1>1, <2>4
    <2>7. Sums(lv, U)' /\ Words'
      <3>1. CASE SumItem(w)
        BY <1>1, <2>5, <2>6, <3>1, SumItemSums
      <3>2. CASE SortCell(w)
        <4>1. UNCHANGED <<child, mass, quad, count, written>> /\ phase = "sort"
          BY <3>2 DEF SortCell
        <4>2. Words'
          BY <1>1, <4>1 DEF Words
        <4>3. QED
          BY <2>2, <2>3, <2>5, <4>1, <4>2, RestSums
      <3>3. QED
        BY <2>1, <3>1, <3>2
    <2>8. \E l, V : Sums(l, V)'
      BY <2>7
    <2>9. QED
      BY <2>2, <2>3, <2>4, <2>7, <2>8 DEF SumState, After
  <1>3. CASE summarizationClear
    <2>1. phase = "sumclear" /\ phase' = "sum" /\ UNCHANGED <<ts, hostDepth>>
      BY <1>3 DEF summarizationClear
    <2>2. IsTree /\ loaded = Body /\ \A w \in Item : bt[w].pc = "exit"
      BY <2>1 DEF Summed, Loads, Device, DeviceInv, LoadInv
    <2>3. PICK up, lv, reg, own : Finished(up, lv, reg, own)
      BY <2>2 DEF IsTree, Finished
    <2>4. pass = 0 /\ hostDepth = ts.maxDepth /\ mass[NNode] = NotReady
      BY <2>1 DEF Summed, SumState
    <2>5. (\E U : Sums(lv, U)') /\ Words'
      BY <1>1, <1>3, <2>3, <2>4, ClearSums
    <2>6. \E l, V : Sums(l, V)'
      BY <2>5
    <2>7. QED
      BY <2>1, <2>4, <2>5, <2>6 DEF SumState, After
  <1>4. CASE SumAgain \/ SortAgain \/ QuadAgain
    <2>1. /\ phase \in {"sum", "quad", "sort"} /\ phase' \in {"sum", "sort", "quad", "tree"}
          /\ UNCHANGED <<mass, quad, count, written, hostDepth>>
          /\ UNCHANGED ts \/ ts' = [ts EXCEPT !.errorCode = "depth"]
      BY <1>4 DEF SumAgain, SortAgain, QuadAgain, buffers
    <2>2. ts'.maxDepth = ts.maxDepth
      BY <2>1, StatusStored
    <2>3. hostDepth = ts.maxDepth /\ \E lv, U : Sums(lv, U)
      BY <2>1 DEF Summed, SumState, After
    <2>4. PICK lv, U : Sums(lv, U)
      BY <2>3
    <2>5. hostDepth \in Nat
      BY <1>1, <2>3
    <2>6. Sums(lv, U)'
      BY <1>1, <1>4, <2>4, <2>5, SumAgainSums, SortAgainSums, QuadAgainSums
    <2>7. Words'
      BY <1>1, <2>1 DEF Words
    <2>8. \E l, V : Sums(l, V)'
      BY <2>6
    <2>9. QED
      BY <2>1, <2>2, <2>3, <2>7, <2>8 DEF SumState, After
  <1>5. QED
    BY <1>2, <1>3, <1>4 DEF SumHost

LEMMA StateForce ==
    ASSUME SumState, Fit, ShapeInv, (\E u : Visit(u) \/ Save(u)) \/ ForceHost
    PROVE  SumState'
  <1>1. /\ phase \in {"tree", "force"} /\ phase' \in {"force", "integrate"}
        /\ UNCHANGED <<mode, child, mass, quad, count, written, hostDepth>>
        /\ \E e : UNCHANGED ts \/ ts' = [ts EXCEPT !.errorCode = e]
    BY DEF Visit, Save, AtForce, ForceHost, BeginForce, ForceAgain, host, buffers
  <1>2. ts'.bottom = ts.bottom /\ ts'.maxDepth = ts.maxDepth
    BY <1>1, StatusStored
  <1>3. hostDepth = ts.maxDepth /\ Words /\ \E lv, U : Sums(lv, U)
    BY <1>1 DEF SumState, After
  <1>4. PICK lv, U : Sums(lv, U)
    BY <1>3
  <1>5. Sums(lv, U)'
    BY <1>1, <1>2, <1>4, RestSums
  <1>6. Words'
    BY <1>1, <1>3 DEF Words
  <1>7. \E l, V : Sums(l, V)'
    BY <1>5
  <1>8. QED
    BY <1>1, <1>2, <1>3, <1>6, <1>7 DEF SumState, After

LEMMA StateIntegration ==
    ASSUME SumState, Fit, ShapeInv', integration
    PROVE  SumState'
  <1>1. phase = "integrate" /\ phase' \in {"done", "box", "error"} /\ UNCHANGED <<mode, mass, quad, count, written>> /\ box' = Idle[1]
    BY DEF integration
  <1>2. Words'
    BY <1>1 DEF SumState, Words
  <1>3. BoxDone' # Group'
    <2>1. Idle[1] = [g \in Group |-> [pc |-> "scan", ext |-> <<0, 0>>]]
      BY DEF Idle
    <2>2. Group' = Group
      BY <1>1 DEF Group
    <2>3. 0 \in Group'
      BY ModeAssumption DEF ShapeInv, Group
    <2>4. box'[0].pc = "scan"
      BY <1>1, <2>1, <2>2, <2>3
    <2>5. QED
      BY <2>3, <2>4 DEF BoxDone
  <1>4. QED
    BY <1>1, <1>2, <1>3 DEF SumState, After

LEMMA StutterSums ==
    ASSUME UNCHANGED vars, NEW lv, NEW U, Sums(lv, U)
    PROVE  Sums(lv, U)'
  <1>1. UNCHANGED <<mode, child, mass, quad, count, written, ts, phase, pass, hostDepth, sm>>
    BY DEF vars, host, work, buffers
  <1>2. TreeOf(lv, U)' /\ Cells' = Cells /\ ts'.bottom = ts.bottom
    BY <1>1, SameKids DEF Sums
  <1>3. Word' = Word /\ \A c : Stored(c, U) => Stored(c, U)'
    BY <1>1 DEF Word, Stored
  <1>4. Climb(lv, U) => Climb(lv, U)'
    <2> SUFFICES ASSUME Climb(lv, U)
                 PROVE  Climb(lv, U)'
      OBVIOUS
    <2>1. Item' = Item
      BY <1>1, SameItems
    <2>2. ASSUME NEW v \in Item
          PROVE  Climbs(v, sm[v], lv, U)'
      <3>1. PICK R : R = sm[v]
        OBVIOUS
      <3>2. Climbs(v, R, lv, U) /\ sm'[v] = R
        BY <1>1, <3>1 DEF Climb
      <3>3. Climbs(v, R, lv, U)'
        BY <1>1, <1>2, <1>3, <3>2, ClimbsKept
      <3>4. QED
        BY <3>2, <3>3
    <2>3. ASSUME NEW c \in Cells, Word'[c] # NotReady
          PROVE  Exact(c, U)'
      <3>1. Word[c] = AllOnce(U[c]) /\ Stored(c, U)
        BY <1>3, <2>3 DEF Climb, Exact
      <3>2. QED
        BY <1>3, <3>1 DEF Exact, AllOnce
    <2>4. ~mode.consistent => \A c \in Cells : lv[c] > hostDepth - pass => Word'[c] # NotReady
      BY <1>3 DEF Climb
    <2>5. QED
      BY <1>1, <1>2, <2>1, <2>2, <2>3, <2>4 DEF Climb
  <1>5. QED
    BY <1>1, <1>2, <1>4 DEF Sums, AllOnce

LEMMA StateStutter ==
    ASSUME SumState, Fit, UNCHANGED vars
    PROVE  SumState'
  <1>1. UNCHANGED <<mode, child, mass, quad, count, written, ts, phase, pass, hostDepth, box, sm>>
    BY DEF vars, host, work, buffers
  <1>2. Words'
    BY <1>1 DEF SumState, Words
  <1>3. BoxDone' = BoxDone /\ Group' = Group
    BY <1>1 DEF BoxDone, Group
  <1>4. \A lv, U : Sums(lv, U) => Sums(lv, U)'
    BY StutterSums
  <1>5. phase \in After => hostDepth = ts.maxDepth /\ \E lv, U : Sums(lv, U)'
    <2> SUFFICES ASSUME phase \in After
                 PROVE  hostDepth = ts.maxDepth /\ \E lv, U : Sums(lv, U)'
      OBVIOUS
    <2>1. hostDepth = ts.maxDepth /\ \E lv, U : Sums(lv, U)
      BY DEF SumState
    <2>2. PICK lv, U : Sums(lv, U)
      BY <2>1
    <2>3. QED
      BY <1>4, <2>1, <2>2
  <1>6. QED
    BY <1>1, <1>2, <1>3, <1>5 DEF SumState, After

LEMMA SummedNext == Summed /\ [Next]_vars => Summed'
  <1> SUFFICES ASSUME Summed, [Next]_vars
               PROVE  Summed'
    OBVIOUS
  <1>1. Loads /\ Loads' /\ Device /\ Device' /\ SumState
    BY LoadNext DEF Summed, Loads
  <1>2. ShapeInv /\ ShapeInv' /\ (Fit' => Fit)
    BY <1>1, DeviceStep
  <1>3. SUFFICES ASSUME Fit', Fit
                 PROVE  SumState'
    BY <1>1, <1>2 DEF Summed, SumState
  <1>4. ASSUME NEW w \in Item, ItemStep(w)
        PROVE  SumState'
    <2>1. w[1] \in Group
      BY DEF Item
    <2>2. \/ BuildItem(w) \/ SumItem(w) \/ SortCell(w) \/ BuildGroup(w[1])
          \/ \E u : Visit(u) \/ Save(u)
      BY <1>4 DEF ItemStep
    <2>3. BuildGroup(w[1]) => \/ BoxReduce(w[1]) \/ BoxCount(w[1])
                              \/ GroupStart(w[1]) \/ Barrier(w[1]) \/ Sync(w[1])
      BY DEF BuildGroup
    <2>4. CASE BuildItem(w)
      BY <1>1, <1>3, <2>4, StateBuild
    <2>5. CASE SumItem(w) \/ SortCell(w)
      BY <1>2, <1>3, <2>5, StateSum
    <2>6. CASE BoxReduce(w[1]) \/ BoxCount(w[1])
      BY <1>1, <1>3, <2>1, <2>6, StateBox
    <2>7. CASE GroupStart(w[1]) \/ Barrier(w[1]) \/ Sync(w[1])
      <3>1. phase = "build"
        BY <1>2, <2>1, <2>7, GroupStartDoes, BarrierDoes, SyncDoes
      <3>2. QED
        BY <1>1, <1>3, <2>1, <2>7, <3>1, StateGroup
    <2>8. CASE \E u : Visit(u) \/ Save(u)
      BY <1>1, <1>2, <1>3, <2>8, StateForce
    <2>9. QED
      BY <2>2, <2>3, <2>4, <2>5, <2>6, <2>7, <2>8
  <1>5. CASE HostStep
    BY <1>1, <1>2, <1>3, <1>5, StateBuildHost, StateSum, StateForce, StateIntegration DEF HostStep
  <1>6. CASE UNCHANGED vars
    BY <1>1, <1>3, <1>6, StateStutter
  <1>7. QED
    BY <1>4, <1>5, <1>6 DEF Next

LEMMA SummedFirst == Init => Summed
  <1> SUFFICES ASSUME Init
               PROVE  Summed
    OBVIOUS
  <1>1. Loads
    BY DeviceFirst DEF Init, Loads, LoadInv
  <1>2. ShapeInv
    BY <1>1, DeviceShape DEF Loads
  <1>3. phase = "box" /\ box = Idle[1] /\ mass = [n \in Node |-> IF isBody(n) THEN Unit(n) ELSE NoMass]
    BY DEF Init
  <1>4. BoxDone # Group
    <2>1. Idle[1] = [g \in Group |-> [pc |-> "scan", ext |-> <<0, 0>>]]
      BY DEF Idle
    <2>2. 0 \in Group
      BY <1>2, ModeAssumption DEF ShapeInv, Group
    <2>3. QED
      BY <1>3, <2>1, <2>2 DEF BoxDone
  <1>5. Words
    <2>1. \A b \in Body : b \in Node /\ isBody(b)
      BY NodeAssumption DEF Body, Node, isBody
    <2>2. \A b \in Body : mass[b] = Unit(b)
      BY <1>3, <2>1
    <2>3. mass = [n \in Node |-> mass[n]] /\ quad = [n \in Node |-> quad[n]] /\ count = [n \in Node |-> count[n]]
      BY DEF Init
    <2>4. IsRecord(written, {"sum", "quad"})
      BY DEF Init, IsRecord
    <2>5. QED
      BY <2>2, <2>3, <2>4 DEF Words
  <1>6. QED
    BY <1>1, <1>3, <1>4, <1>5 DEF Summed, SumState, After

(* Invariant: what an item of summarization or quadMoments has added up is  *)
(* the bodies under the children it has looked at, each once; the cells it  *)
(* has passed are ready, if this launch is to finish them.                  *)
THEOREM SummedInvariant == Spec => []Summed
  <1>1. QED
    BY SummedFirst, SummedNext, PTL DEF Spec

(* A cell that is ready holds the mass and the number of the bodies under   *)
(* it, each once; after the launches of the host every cell is ready, with  *)
(* or without consistent memory; the same for the moments of quadMoments.   *)
THEOREM SumsAreExact == Spec => []SummedExactly
  <1>1. Summed => SummedExactly
    <2> SUFFICES ASSUME Summed, Sound, phase \in After, NEW c \in Cells
                 PROVE  /\ mass[c] # NotReady => mass[c] = AllOnce(Under[c]) /\ count[c] = Cardinality(Under[c])
                        /\ phase # "sum" => mass[c] # NotReady
                        /\ mode.quad /\ phase \in {"tree", "force", "integrate"} => quad[c] = AllOnce(Under[c])
      BY DEF SummedExactly, After
    <2>1. Fit
      BY SoundFits DEF Summed, Loads
    <2>2. PICK lv, U : Sums(lv, U)
      BY <2>1 DEF Summed, SumState
    <2>3. Under[c] = U[c]
      BY <2>2, TreeUnder DEF Sums
    <2>4. CASE phase = "sum"
      <3>1. mass[c] # NotReady => Exact(c, U)
        BY <2>2, <2>4 DEF Sums, Climb, Word
      <3>2. QED
        BY <2>3, <2>4, <3>1 DEF Exact, Stored, Word
    <2>5. CASE phase # "sum"
      <3>1. mass[c] = AllOnce(U[c]) /\ count[c] = Cardinality(U[c])
        BY <2>2, <2>5 DEF Sums
      <3>2. mode.quad /\ phase \in {"tree", "force", "integrate"} => quad[c] = AllOnce(U[c])
        BY <2>2 DEF Sums
      <3>3. mass[c] # NotReady
        BY <3>1, OnceIsReady
      <3>4. QED
        BY <2>3, <3>1, <3>2, <3>3
    <2>6. QED
      BY <2>4, <2>5
  <1>2. QED
    BY <1>1, SummedInvariant, PTL

-----------------------------------------------------------------------------
(* The order of the bodies, which sort establishes.                         *)

\* Every node but the root has one cell above it.
Family ==
  /\ \A m, l \in Cells : \A n : n \in Kids(m) /\ n \in Kids(l) => m = l
  /\ \A n \in Body \cup Cells : n # NNode => \E m \in Cells : n \in Kids(m)

\* The place of a cell's first body in the sorted array.
Ahead(m, U) == IF child[m][0] \in Node THEN Cardinality(U[child[m][0]]) ELSE 0
Divides(m, at, U) ==
  /\ child[m][0] \in Node => at[child[m][0]] = at[m]
  /\ child[m][1] \in Node => at[child[m][1]] = at[m] + Ahead(m, U)
Places(at, U, n) == at \in [Node -> Nat] /\ at[NNode] = 0 /\ \A m \in Cells : m >= n => Divides(m, at, U)
InOrder(at, U) == at \in [Node -> Nat] /\ at[NNode] = 0 /\ \A m \in Cells : Divides(m, at, U)

LEMMA FinishedFamily ==
    ASSUME NEW up, NEW lv, NEW reg, NEW own, Finished(up, lv, reg, own)
    PROVE  Family
  <1>1. /\ NNode \in Nat /\ NBody \in Nat /\ NBody >= 1
        /\ \A c \in Cells : c \in Node /\ c \in NBody .. NNode
    <2>1. NNode \in Nat /\ NBody \in Nat /\ NBody >= 1
      BY FinishedFacts
    <2>2. \A c \in Cells : c \in Node /\ c \in Nat /\ c >= NBody + 1
      BY FinishedFacts
    <2>3. QED
      BY <2>1, <2>2 DEF Node
  <1>2. IsFiniteSet((NBody .. NNode) \X Sub)
    <2>1. IsFiniteSet(NBody .. NNode) /\ IsFiniteSet(0 .. 1)
      <3>1. NBody \in Int /\ NNode \in Int /\ 0 \in Int /\ 1 \in Int
        BY <1>1
      <3>2. QED
        BY <3>1, FS_Interval
    <2>2. QED
      BY <2>1, FS_Product DEF Sub
  <1>3. \A n, x : x \in Slots(n) <=> x \in (NBody .. NNode) \X Sub /\ child[x[1]][x[2]] = n
    BY DEF Slots
  <1>4. \A n : IsFiniteSet(Slots(n))
    <2>1. \A n : Slots(n) \in SUBSET ((NBody .. NNode) \X Sub)
      BY DEF Slots
    <2>2. QED
      BY <1>2, <2>1, FS_Subset
  <1>5. ASSUME NEW n \in Body \cup Cells, n # NNode
        PROVE  \E x : Slots(n) = {x}
    <2>1. Cardinality(Slots(n)) = 1
      BY <1>5, FinishedSlots
    <2>2. QED
      BY <1>4, <2>1, FS_Singleton
  <1>6. \A m \in Cells : \A n \in Kids(m) : n \in Body \cup Cells /\ n # NNode /\ \E s \in Sub : <<m, s>> \in Slots(n)
    <2> SUFFICES ASSUME NEW m \in Cells, NEW n \in Kids(m)
                 PROVE  n \in Body \cup Cells /\ n # NNode /\ \E s \in Sub : <<m, s>> \in Slots(n)
      OBVIOUS
    <2>1. PICK s \in Sub : child[m][s] = n /\ n \in Node
      BY DEF Kids
    <2>2. <<m, s>> \in Slots(n)
      BY <1>1, <1>3, <2>1
    <2>3. isCell(n) => n \in Cells \ {NNode}
      BY <2>1, FinishedFacts
    <2>4. ~isCell(n) => n \in Body
      BY <1>1, <2>1 DEF isCell, Node, Body
    <2>5. n \in Body => n # NNode
      BY NodeAssumption DEF Body
    <2>6. QED
      BY <2>2, <2>3, <2>4, <2>5
  <1>7. ASSUME NEW m \in Cells, NEW l \in Cells, NEW n, n \in Kids(m), n \in Kids(l)
        PROVE  m = l
    <2>1. PICK s \in Sub : <<m, s>> \in Slots(n)
      BY <1>6, <1>7
    <2>2. PICK r \in Sub : <<l, r>> \in Slots(n)
      BY <1>6, <1>7
    <2>3. PICK x : Slots(n) = {x}
      BY <1>5, <1>6, <1>7
    <2>4. <<m, s>> = <<l, r>>
      BY <2>1, <2>2, <2>3
    <2>5. QED
      BY <2>4
  <1>8. ASSUME NEW n \in Body \cup Cells, n # NNode
        PROVE  \E m \in Cells : n \in Kids(m)
    <2>1. PICK x : Slots(n) = {x}
      BY <1>5, <1>8
    <2>2. x \in (NBody .. NNode) \X Sub /\ child[x[1]][x[2]] = n
      BY <1>3, <2>1
    <2>3. PICK m \in NBody .. NNode, s \in Sub : child[m][s] = n
      BY <2>2
    <2>4. n \in Node /\ n # NULL_BODY
      BY <1>1 DEF Body, Node, NULL_BODY
    <2>5. m \in Cells
      BY <2>3, <2>4, FinishedFacts
    <2>6. QED
      BY <2>3, <2>4, <2>5 DEF Kids
  <1>9. QED
    BY <1>7, <1>8 DEF Family

LEMMA SameFamily ==
    ASSUME Family, Cells' = Cells, \A m \in Cells : Kids(m)' = Kids(m)
    PROVE  Family'
  BY DEF Family

\* All bodies are under the root.
LEMMA RootUnder ==
    ASSUME NEW lv, NEW U, TreeOf(lv, U), Family
    PROVE  NNode \in Cells /\ U[NNode] = Body
  <1>1. /\ \A c \in Cells : c \in Node /\ c \in Nat /\ c <= NNode
        /\ NNode \in Nat
    BY KidFacts
  <1>2. NNode \in Cells
    <2>1. ts.bottom \in NBody + 1 .. NNode /\ NBody \in Nat
      BY KidFacts DEF TreeOf
    <2>2. QED
      BY <1>1, <2>1 DEF Cells
  <1>3. ASSUME NEW b \in Body
        PROVE  b \in U[NNode]
    <2> DEFINE T == {d \in Nat : \E m \in Cells : d = NNode - m /\ b \in U[m]}
    <2>1. PICK p \in Cells : b \in Kids(p)
      <3>1. b # NNode
        BY NodeAssumption DEF Body
      <3>2. QED
        BY <3>1 DEF Family
    <2>2. b \in U[p]
      <3>1. U[b] \subseteq U[p] /\ U[b] = {b}
        BY <2>1, KidFacts DEF TreeOf
      <3>2. QED
        BY <3>1
    <2>3. NNode - p \in T
      BY <1>1, <2>2
    <2>4. PICK d \in T : \A k \in T : d <= k
      BY <2>3, Least
    <2>5. PICK m \in Cells : d = NNode - m /\ b \in U[m]
      BY <2>4
    <2>6. CASE m = NNode
      BY <2>5, <2>6
    <2>7. CASE m # NNode
      <3>1. PICK q \in Cells : m \in Kids(q)
        BY <2>7 DEF Family
      <3>2. b \in U[q]
        BY <2>5, <3>1, KidFacts
      <3>3. m < q
        <4>1. isBody(m) \/ m < q
          BY <3>1 DEF TreeOf
        <4>2. ~isBody(m)
          BY KidFacts
        <4>3. QED
          BY <4>1, <4>2
      <3>4. NNode - q \in T
        BY <1>1, <3>2
      <3>5. d <= NNode - q
        BY <2>4, <3>4
      <3>6. m \in Nat /\ q \in Nat /\ NNode \in Nat
        BY <1>1
      <3>7. QED
        BY <2>5, <3>3, <3>5, <3>6
    <2>8. QED
      BY <2>6, <2>7
  <1>4. U[NNode] \subseteq Body
    BY <1>2 DEF TreeOf
  <1>5. QED
    BY <1>2, <1>3, <1>4

\* The children of a cell, in their order.
LEMMA KidSlots ==
    ASSUME NEW lv, NEW U, TreeOf(lv, U), NEW m \in Cells
    PROVE  /\ \A n : n \in Kids(m) <=> n \in Node /\ (n = child[m][0] \/ n = child[m][1])
           /\ \A s \in {0, 1} : child[m][s] \in Node <=> child[m][s] >= 0
           /\ \A s \in {0, 1} : child[m][s] \in Node \cup {NULL_BODY}
           /\ child[m][0] \in Node => child[m][0] # child[m][1]
           /\ \A n \in Kids(m) : n < m /\ n \in Nat /\ n # NNode
  <1>1. Sub = {0, 1}
    BY DEF Sub
  <1>2. \A s \in {0, 1} : child[m][s] \in Node \cup {NULL_BODY}
    BY <1>1 DEF TreeOf
  <1>3. NNode \in Nat /\ m \in Nat /\ m <= NNode /\ NBody \in Nat /\ m >= ts.bottom
        /\ ts.bottom >= NBody + 1 /\ ts.bottom \in Nat
    BY KidFacts DEF TreeOf
  <1>4. \A s \in {0, 1} : child[m][s] \in Node <=> child[m][s] >= 0
    BY <1>2, <1>3 DEF Node, NULL_BODY
  <1>5. child[m][0] \in Node => child[m][0] # child[m][1]
    BY <1>3 DEF TreeOf, Node, NULL_BODY
  <1>6. ASSUME NEW n \in Kids(m)
        PROVE  n < m /\ n \in Nat /\ n # NNode
    <2>1. n \in Node /\ (n \in Body \/ (n \in Cells /\ n < m))
      BY KidFacts DEF TreeOf
    <2>2. n \in Body => n < NBody
      BY <1>3 DEF Body
    <2>3. n \in Nat
      BY <1>3, <2>1 DEF Node
    <2>4. QED
      BY <1>3, <2>1, <2>2, <2>3
  <1>7. \A n : n \in Kids(m) <=> n \in Node /\ (n = child[m][0] \/ n = child[m][1])
    BY <1>1 DEF Kids
  <1>8. QED
    BY <1>2, <1>4, <1>5, <1>6, <1>7

\* An order for the cells above n gives one for n, too.
LEMMA PlacesNext ==
    ASSUME NEW lv, NEW U, TreeOf(lv, U), Family, NEW n \in Nat, n <= NNode, NEW at, Places(at, U, n + 1)
    PROVE  \E new : Places(new, U, n)
  <1>1. at \in [Node -> Nat] /\ at[NNode] = 0 /\ (\A m \in Cells : m >= n + 1 => Divides(m, at, U)) /\ NNode \in Node
    BY KidFacts DEF Places, Node
  <1>2. CASE n \notin Cells
    <2>1. \A m \in Cells : m \in Nat /\ (m >= n => m >= n + 1)
      BY <1>2, KidFacts
    <2>2. QED
      BY <1>1, <2>1 DEF Places
  <1>3. CASE n \in Cells
    <2>1. PICK c, d, a : c = child[n][0] /\ d = child[n][1] /\ a = Ahead(n, U)
      OBVIOUS
    <2>2. a \in Nat
      <3>1. IsFiniteSet(Body) /\ 0 \in Nat
        BY NodeAssumption, FS_Interval DEF Body
      <3>2. c \in Node => U[c] \in SUBSET Body
        BY <1>3, <2>1, KidSlots, KidFacts
      <3>3. c \in Node => Cardinality(U[c]) \in Nat
        BY <3>1, <3>2, FS_Subset, FS_CardinalityType
      <3>4. QED
        BY <2>1, <3>1, <3>3 DEF Ahead
    <2>3. n \in Node
      BY <1>3, KidFacts
    <2>4. PICK new : new = [x \in Node |-> IF x = c THEN at[n] ELSE IF x = d THEN at[n] + a ELSE at[x]]
      OBVIOUS
    <2>5. at[n] \in Nat /\ at[n] + a \in Nat /\ \A x \in Node : at[x] \in Nat
      BY <1>1, <2>2, <2>3
    <2>6. new \in [Node -> Nat]
      BY <2>4, <2>5
    <2>7. \A x \in Node : x \notin Kids(n) => new[x] = at[x]
      BY <1>3, <2>1, <2>4, KidSlots
    <2>8. NNode \notin Kids(n) /\ n \notin Kids(n)
      <3>1. n \notin Kids(n)
        <4>1. \A x \in Kids(n) : x < n /\ x \in Nat /\ x # NNode
          BY <1>3, KidSlots
        <4>2. QED
          BY <4>1
      <3>2. NNode \notin Kids(n)
        BY <1>3, KidSlots
      <3>3. QED
        BY <3>1, <3>2
    <2>9. ASSUME NEW m \in Cells, m >= n
          PROVE  Divides(m, new, U)
      <3>1. m \in Nat /\ m \in Node
        BY KidFacts
      <3>2. CASE m = n
        <4>1. c \in Node => c # d
          BY <1>3, <2>1, KidSlots
        <4>2. new[n] = at[n]
          BY <2>3, <2>7, <2>8
        <4>3. (c \in Node => new[c] = at[n]) /\ (d \in Node => new[d] = at[n] + a)
          BY <2>4, <4>1
        <4>4. QED
          BY <2>1, <3>2, <4>2, <4>3 DEF Divides
      <3>3. CASE m # n
        <4>1. Divides(m, at, U)
          BY <1>1, <2>9, <3>1, <3>3
        <4>2. \A x \in Kids(m) : x \notin Kids(n) /\ x \in Node
          BY <1>3, <3>3 DEF Family, Kids
        <4>3. \A x \in Kids(m) : new[x] = at[x]
          BY <2>7, <4>2
        <4>4. new[m] = at[m]
          <5>1. m \notin Kids(n)
            <6>1. \A x \in Kids(n) : x < n /\ x \in Nat
              BY <1>3, KidSlots
            <6>2. QED
              BY <2>9, <3>1, <6>1
          <5>2. QED
            BY <2>7, <3>1, <5>1
        <4>5. \A s \in {0, 1} : child[m][s] \in Node => child[m][s] \in Kids(m)
          BY KidSlots
        <4>6. (child[m][0] \in Node => new[child[m][0]] = at[child[m][0]]) /\ (child[m][1] \in Node => new[child[m][1]] = at[child[m][1]])
          BY <4>3, <4>5
        <4>7. QED
          BY <4>1, <4>4, <4>6 DEF Divides
      <3>4. QED
        BY <3>2, <3>3
    <2>10. new[NNode] = 0
      BY <1>1, <2>7, <2>8
    <2>11. Places(new, U, n)
      BY <2>6, <2>9, <2>10 DEF Places
    <2>12. QED
      BY <2>11
  <1>4. QED
    BY <1>2, <1>3

LEMMA OrderExists ==
    ASSUME NEW lv, NEW U, TreeOf(lv, U), Family
    PROVE  \E at : InOrder(at, U)
  <1>1. NNode \in Nat /\ \A c \in Cells : c \in Nat /\ c <= NNode
    BY KidFacts
  <1> DEFINE T == {d \in Nat : d <= NNode + 1 /\ ~ \E at : Places(at, U, NNode + 1 - d)}
  <1>2. T = {}
    <2> SUFFICES ASSUME T # {}
                 PROVE  FALSE
      OBVIOUS
    <2>1. PICK d \in T : \A k \in T : d <= k
      BY Least
    <2>2. d \in Nat /\ d <= NNode + 1 /\ ~ \E at : Places(at, U, NNode + 1 - d)
      BY <2>1
    <2>3. CASE d = 0
      <3>1. PICK at : at = [n \in Node |-> 0]
        OBVIOUS
      <3>2. at \in [Node -> Nat] /\ at[NNode] = 0
        BY <1>1, <3>1 DEF Node
      <3>3. \A m \in Cells : ~(m >= NNode + 1 - d)
        BY <1>1, <2>3
      <3>4. Places(at, U, NNode + 1 - d)
        BY <3>2, <3>3 DEF Places
      <3>5. QED
        BY <2>2, <3>4
    <2>4. CASE d # 0
      <3>1. d - 1 \in Nat /\ d - 1 \notin T /\ d - 1 <= NNode + 1
        BY <1>1, <2>1, <2>2, <2>4
      <3>2. PICK at : Places(at, U, NNode + 1 - (d - 1))
        BY <3>1
      <3>3. PICK n : n = NNode + 1 - d
        OBVIOUS
      <3>4. n \in Nat /\ n < NNode + 1 /\ NNode + 1 - (d - 1) = n + 1
        BY <1>1, <2>2, <2>4, <3>3
      <3>5. Places(at, U, n + 1)
        BY <3>2, <3>4
      <3>6. \E new : Places(new, U, n)
        BY <1>1, <3>4, <3>5, PlacesNext
      <3>7. QED
        BY <2>2, <3>3, <3>6
    <2>5. QED
      BY <2>3, <2>4
  <1>3. NNode + 1 \notin T
    BY <1>2
  <1>4. PICK at : Places(at, U, NNode + 1 - (NNode + 1))
    BY <1>1, <1>3
  <1>5. \A m \in Cells : m >= NNode + 1 - (NNode + 1)
    BY <1>1
  <1>6. InOrder(at, U)
    BY <1>4, <1>5 DEF Places, InOrder
  <1>7. QED
    BY <1>6

\* The bodies under a node fill the places from its own on.
Fills(n, at, U) ==
  /\ \A x \in U[n] : x \in Body /\ at[n] <= at[x] /\ at[x] < at[n] + Cardinality(U[n])
  /\ \A x, y \in U[n] : at[x] = at[y] => x = y

LEMMA FillsCell ==
    ASSUME NEW lv, NEW U, TreeOf(lv, U), NEW at, InOrder(at, U), NEW m \in Cells, \A n \in Kids(m) : Fills(n, at, U)
    PROVE  Fills(m, at, U)
  <1>1. PICK c, d : c = child[m][0] /\ d = child[m][1]
    OBVIOUS
  <1>2. /\ \A n : n \in Kids(m) <=> n \in Node /\ (n = c \/ n = d)
        /\ c \in Node => c # d
    BY <1>1, KidSlots
  <1>3. \A n \in Kids(m) : n \in Node /\ U[n] \in SUBSET Body
    BY KidFacts
  <1>4. \A x : x \in U[m] <=> \E n \in Kids(m) : x \in U[n]
    BY DEF TreeOf, Sum
  <1>5. m \in Node /\ U[m] \in SUBSET Body
    BY KidFacts DEF TreeOf
  <1>6. \A n \in Node : at[n] \in Nat
    BY DEF InOrder
  <1>7. \A b \in Body : b \in Node
    BY NodeAssumption DEF Body, Node
  <1>8. IsFiniteSet(Body)
    BY NodeAssumption, FS_Interval DEF Body
  <1>9. \A A \in SUBSET Body : Cardinality(A) \in Nat
    BY <1>8, FS_Subset, FS_CardinalityType
  <1> DEFINE P == IF c \in Node THEN U[c] ELSE {}
             Q == IF d \in Node THEN U[d] ELSE {}
  <1>10. P \in SUBSET Body /\ Q \in SUBSET Body /\ P \cap Q = {} /\ U[m] = P \cup Q
    <2>1. c \in Node /\ d \in Node => U[c] \cap U[d] = {}
      BY <1>2 DEF TreeOf
    <2>2. \A x : x \in U[m] <=> x \in P \/ x \in Q
      BY <1>2, <1>4
    <2>3. QED
      BY <1>2, <1>3, <2>1, <2>2
  <1>11. PICK p, q, r, a : p = Cardinality(P) /\ q = Cardinality(Q) /\ r = Cardinality(U[m]) /\ a = at[m]
    OBVIOUS
  <1>12. p \in Nat /\ q \in Nat /\ r = p + q /\ a \in Nat
    BY <1>5, <1>6, <1>10, <1>11, BodyCount
  <1>13. Ahead(m, U) = p
    <2>1. Cardinality({}) = 0
      BY FS_EmptySet
    <2>2. QED
      BY <1>1, <1>11, <2>1 DEF Ahead
  <1>14. (c \in Node => at[c] = a) /\ (d \in Node => at[d] = a + p)
    BY <1>1, <1>11, <1>13 DEF InOrder, Divides
  <1>15. /\ \A x \in P : x \in Body /\ a <= at[x] /\ at[x] < a + p
         /\ \A x, y \in P : at[x] = at[y] => x = y
    <2>1. CASE c \in Node
      <3>1. Fills(c, at, U) /\ P = U[c]
        BY <1>2, <2>1
      <3>2. QED
        BY <1>11, <1>14, <2>1, <3>1 DEF Fills
    <2>2. CASE c \notin Node
      BY <2>2
    <2>3. QED
      BY <2>1, <2>2
  <1>16. /\ \A x \in Q : x \in Body /\ a + p <= at[x] /\ at[x] < a + p + q
         /\ \A x, y \in Q : at[x] = at[y] => x = y
    <2>1. CASE d \in Node
      <3>1. Fills(d, at, U) /\ Q = U[d]
        BY <1>2, <2>1
      <3>2. QED
        BY <1>11, <1>14, <2>1, <3>1 DEF Fills
    <2>2. CASE d \notin Node
      BY <2>2
    <2>3. QED
      BY <2>1, <2>2
  <1> HIDE DEF P, Q
  <1>17. ASSUME NEW x \in U[m]
         PROVE  x \in Body /\ a <= at[x] /\ at[x] < a + r
    <2>1. x \in Body /\ at[x] \in Nat
      BY <1>5, <1>6, <1>7
    <2>2. CASE x \in P
      BY <1>12, <1>15, <2>1, <2>2
    <2>3. CASE x \in Q
      BY <1>12, <1>16, <2>1, <2>3
    <2>4. QED
      BY <1>10, <2>2, <2>3
  <1>18. ASSUME NEW x \in U[m], NEW y \in U[m], at[x] = at[y]
         PROVE  x = y
    <2>1. at[x] \in Nat /\ at[y] \in Nat
      BY <1>6, <1>7, <1>17
    <2>2. ~(x \in P /\ y \in Q) /\ ~(y \in P /\ x \in Q)
      BY <1>12, <1>15, <1>16, <1>18, <2>1
    <2>3. QED
      BY <1>10, <1>15, <1>16, <1>18, <2>2
  <1>19. QED
    BY <1>11, <1>17, <1>18 DEF Fills

\* The places of the bodies are those of the sorted array, one for each.
LEMMA OrderIsOneToOne ==
    ASSUME NEW lv, NEW U, TreeOf(lv, U), Family, NEW at, InOrder(at, U)
    PROVE  /\ \A b \in Body : at[b] \in Body
           /\ \A b, e \in Body : at[b] = at[e] => b = e
  <1>1. /\ \A c \in Cells : c \in Node /\ c \in Nat
        /\ \A b \in Body : b \in Node /\ at[b] \in Nat
    <2>1. \A b \in Body : b \in Node
      BY NodeAssumption DEF Body, Node
    <2>2. QED
      BY <2>1, KidFacts DEF InOrder
  <1>2. ASSUME NEW b \in Body
        PROVE  Fills(b, at, U)
    <2>1. U[b] = {b} /\ Cardinality({b}) = 1
      BY FS_Singleton DEF TreeOf
    <2>2. at[b] \in Nat
      BY <1>1
    <2>3. at[b] <= at[b] /\ at[b] < at[b] + 1
      BY <2>2
    <2>4. QED
      BY <2>1, <2>3 DEF Fills
  <1>3. \A m \in Cells : Fills(m, at, U)
    <2> DEFINE T == {k \in Nat : k \in Cells /\ ~Fills(k, at, U)}
    <2>1. SUFFICES ASSUME T # {}
                   PROVE  FALSE
      BY <1>1
    <2>2. PICK m \in T : \A k \in T : m <= k
      BY <2>1, Least
    <2>3. m \in Nat /\ m \in Cells /\ ~Fills(m, at, U)
      BY <2>2
    <2>4. ASSUME NEW n \in Kids(m)
          PROVE  Fills(n, at, U)
      <3>1. n < m /\ n \in Nat /\ (n \in Body \/ n \in Cells)
        BY <2>3, KidSlots, KidFacts
      <3>2. n \notin T
        <4>1. ~(m <= n)
          BY <2>3, <3>1
        <4>2. QED
          BY <2>2, <4>1
      <3>3. QED
        BY <1>2, <3>1, <3>2
    <2>5. QED
      BY <2>3, <2>4, FillsCell
  <1>4. NNode \in Cells /\ U[NNode] = Body /\ at[NNode] = 0
    BY RootUnder DEF InOrder
  <1>5. Cardinality(Body) = NBody /\ NBody \in Nat
    <2>1. NBody \in Nat /\ NBody >= 1 /\ 0 \in Int /\ NBody - 1 \in Int
      BY NodeAssumption
    <2>2. Cardinality(0 .. NBody - 1) = IF 0 > NBody - 1 THEN 0 ELSE NBody - 1 - 0 + 1
      BY <2>1, FS_Interval
    <2>3. QED
      BY <2>1, <2>2 DEF Body
  <1>6. Fills(NNode, at, U)
    BY <1>3, <1>4
  <1>7. \A b \in Body : at[b] < NBody
    <2>1. \A b \in Body : at[b] < 0 + Cardinality(Body)
      BY <1>4, <1>6 DEF Fills
    <2>2. QED
      BY <1>5, <2>1
  <1>8. \A b \in Body : at[b] \in Body
    BY <1>1, <1>5, <1>7 DEF Body
  <1>9. \A b, e \in Body : at[b] = at[e] => b = e
    BY <1>4, <1>6 DEF Fills
  <1>10. QED
    BY <1>8, <1>9

-----------------------------------------------------------------------------
(* summarization moves the children of a cell to the front.                 *)

\* The second child of a cell is there only if the first one is.
Packed(m) == child[m][1] >= 0 => child[m][0] >= 0
PackedBy(R) ==
  /\ R.pc \in {"poll", "store", "ready"} => Packed(R.k)
  /\ R.pc = "scan" /\ R.i = 1 /\ R.j # 0 => child[R.k][0] >= 0
Packs ==
  /\ phase = "sum" => /\ \A c \in Cells : mass[c] # NotReady => Packed(c)
                      /\ \A w \in Item : PackedBy(sm[w])
  /\ phase \in {"sort", "quad", "tree", "force"} => \A c \in Cells : Packed(c)

\* What the step of an item may do to the others.
LEMMA OnePacks ==
    ASSUME NEW lv, NEW U, TreeOf(lv, U), Climb(lv, U), Packs, SumInv, phase = "sum", UNCHANGED <<phase, mode>>,
           ts'.bottom = ts.bottom, NEW w \in Item, NEW N, sm' = [sm EXCEPT ![w] = N],
           \A m \in Cells : (Packed(m) => Packed(m)') /\ (child[m][0] >= 0 => child'[m][0] >= 0),
           PackedBy(N)', \A c \in Cells : mass'[c] # NotReady => mass[c] # NotReady \/ Packed(c)'
    PROVE  Packs'
  <1>1. Cells' = Cells /\ Item' = Item
    BY SameBase
  <1>2. ASSUME NEW v \in Item
        PROVE  PackedBy(sm[v])'
    <2>1. CASE v = w
      <3>1. sm'[w] = N
        BY DEF SumInv
      <3>2. QED
        BY <2>1, <3>1
    <2>2. CASE v # w
      <3>1. PICK R : R = sm[v]
        OBVIOUS
      <3>2. sm'[v] = R
        BY <2>2, <3>1 DEF SumInv
      <3>3. PackedBy(R) /\ (R.pc # "exit" => R.k \in Cells)
        BY <3>1, AtCell DEF Packs
      <3>4. PackedBy(R)'
        BY <3>3 DEF PackedBy
      <3>5. QED
        BY <3>2, <3>4
    <2>3. QED
      BY <2>1, <2>2
  <1>3. \A c \in Cells : mass'[c] # NotReady => Packed(c)'
    BY DEF Packs
  <1>4. QED
    BY <1>1, <1>2, <1>3 DEF Packs

LEMMA ScanPacks ==
    ASSUME NEW lv, NEW U, TreeOf(lv, U), Climb(lv, U), Packs, ShapeInv, SumInv, Types, phase = "sum", NEW w \in Item, Scan(w)
    PROVE  Packs'
  <1>1. PICK R, k : R = sm[w] /\ k = R.k
    OBVIOUS
  <1>2. /\ R.pc = "scan" /\ R.i \in Sub /\ R.j \in 0 .. R.i /\ phase \in {"sum", "quad"}
        /\ UNCHANGED <<mode, mass, quad, count, written, ts, phase, hostDepth, pass>>
        /\ \/ UNCHANGED child
           \/ /\ child[R.k][R.i] >= 0 /\ R.i # R.j
              /\ child' = [child EXCEPT ![R.k][R.i] = NULL_BODY, ![R.k][R.j] = child[R.k][R.i]]
    BY <1>1, ScanTurns
  <1>3. PICK N : Turn(R, N) /\ sm' = [sm EXCEPT ![w] = N]
    BY <1>1, ScanTurns
  <1>4. k \in Cells /\ Climbs(w, R, lv, U) /\ sm[w].pc # "exit"
    BY <1>1, <1>2, AtCell
  <1>5. Adds(R, lv, U) /\ PackedBy(R)
    BY <1>1, <1>2, <1>4 DEF Climbs, Adding, Packs
  <1>6. (R.i = 0 \/ R.i = 1) /\ 0 \in Sub /\ 1 \in Sub /\ N.k = k
    BY <1>1, <1>2, <1>3 DEF Sub, Turn
  <1>7. \A s \in Sub : child[k][s] \in Int
    BY <1>4 DEF TreeOf, NULL_BODY, Node
  <1>8. CASE UNCHANGED child /\ (R.i = R.j \/ ~(child[k][R.i] >= 0))
    <2>1. \A m \in Cells : (Packed(m) => Packed(m)') /\ (child[m][0] >= 0 => child'[m][0] >= 0)
      BY <1>8 DEF Packed
    <2>2. PackedBy(N)'
      <3>1. CASE R.i = 0
        <4>1. N.pc = "scan" /\ R.j = 0 /\ N.j = IF child[k][0] >= 0 THEN R.j + 1 ELSE R.j
          BY <1>1, <1>2, <1>3, <3>1 DEF Turn
        <4>2. QED
          BY <1>6, <1>8, <4>1 DEF PackedBy
      <3>2. CASE R.i = 1
        <4>1. N.pc # "scan"
          BY <1>3, <3>2 DEF Turn, AfterScan
        <4>2. Packed(k)
          <5>1. CASE R.j = 1
            BY <1>1, <1>2, <1>5, <3>2, <5>1 DEF PackedBy, Packed
          <5>2. CASE R.j # 1
            BY <1>8, <3>2, <5>2 DEF Packed
          <5>3. QED
            BY <5>1, <5>2
        <4>3. Packed(k)'
          BY <1>8, <4>2 DEF Packed
        <4>4. QED
          BY <1>6, <4>1, <4>3 DEF PackedBy
      <3>3. QED
        BY <1>6, <3>1, <3>2
    <2>3. QED
      BY <1>2, <1>3, <2>1, <2>2, OnePacks
  <1>9. CASE child[k][R.i] >= 0 /\ R.i # R.j
    <2>1. R.i = 1 /\ R.j = 0
      BY <1>2, <1>9 DEF Sub
    <2>2. child[k][0] = NULL_BODY /\ child[k][1] >= 0
      BY <1>1, <1>2, <1>5, <1>9, <2>1 DEF Adds
    <2>3. CASE child' = [child EXCEPT ![R.k][R.i] = NULL_BODY, ![R.k][R.j] = child[R.k][R.i]]
      <3>1. child' = [child EXCEPT ![k][1] = NULL_BODY, ![k][0] = child[k][1]]
        BY <1>1, <2>1, <2>3
      <3>2. k \in Node /\ \A m \in Cells : m \in Node
        BY <1>4, KidFacts
      <3>3. child'[k][0] = child[k][1] /\ \A m \in Cells : m # k => child'[m] = child[m]
        BY <1>6, <3>1, <3>2 DEF Types
      <3>4. Packed(k)' /\ child'[k][0] >= 0
        BY <2>2, <3>3 DEF Packed
      <3>5. \A m \in Cells : (Packed(m) => Packed(m)') /\ (child[m][0] >= 0 => child'[m][0] >= 0)
        BY <3>3, <3>4 DEF Packed
      <3>6. PackedBy(N)'
        BY <1>6, <3>4 DEF PackedBy
      <3>7. QED
        BY <1>2, <1>3, <3>5, <3>6, OnePacks
    <2>4. CASE UNCHANGED child
      <3>1. child' = [child EXCEPT ![R.k][R.i] = NULL_BODY, ![R.k][R.j] = child[R.k][R.i]]
        BY <1>1, <1>9 DEF Scan
      <3>2. QED
        BY <2>3, <3>1
    <2>5. QED
      BY <1>2, <2>3, <2>4
  <1>10. QED
    BY <1>1, <1>2, <1>8, <1>9

LEMMA SamePacked ==
    ASSUME UNCHANGED child
    PROVE  \A m : (Packed(m) <=> Packed(m)') /\ child'[m][0] = child[m][0]
  BY DEF Packed

LEMMA ItemPacks ==
    ASSUME NEW lv, NEW U, TreeOf(lv, U), Climb(lv, U), Packs, ShapeInv, SumInv, Types, phase \in {"sum", "quad"},
           NEW w \in Item, SumItem(w)
    PROVE  Packs'
  <1>1. PICK R, k : R = sm[w] /\ k = R.k
    OBVIOUS
  <1>2. /\ UNCHANGED <<phase, mode>> /\ (UNCHANGED ts \/ ts' = [ts EXCEPT !.errorCode = "structure"])
        /\ (phase = "quad" \/ ~Scan(w) => UNCHANGED child)
        /\ IsRecord(R, SumRegisters)
    BY <1>1 DEF SumItem, Scan, Poll, Store, SetReady, NextCell, AtSum, host, buffers, SumInv
  <1>3. ts'.bottom = ts.bottom
    BY <1>2, StatusStored
  <1>4. CASE phase = "quad"
    <2>1. Cells' = Cells /\ UNCHANGED child
      BY <1>2, <1>3, <1>4, SameBase
    <2>2. QED
      BY <1>2, <1>4, <2>1, SamePacked DEF Packs
  <1>5. CASE phase = "sum" /\ Scan(w)
    BY <1>5, ScanPacks
  <1>6. CASE phase = "sum" /\ ~Scan(w)
    <2>1. UNCHANGED child /\ \A m \in Cells : (Packed(m) => Packed(m)') /\ (child[m][0] >= 0 => child'[m][0] >= 0)
      BY <1>2, <1>6, SamePacked
    <2>2. PackedBy(R) /\ \A N : PackedBy(N) => PackedBy(N)'
      BY <1>1, <1>6, <2>1 DEF Packs, PackedBy, Packed
    <2>3. CASE Poll(w)
      <3>1. R.pc = "poll" /\ UNCHANGED mass
        BY <1>1, <2>3 DEF Poll, AtSum, buffers
      <3>2. \E N : sm' = [sm EXCEPT ![w] = N] /\ N.k = k /\ N.pc \in {"poll", "store", "next"}
        <4>1. PICK c, left, total, cnt, label :
                /\ left = SubSeq(R.missing, 1, Len(R.missing) - 1) /\ c = R.missing[Len(R.missing)]
                /\ total = Plus(R.total, Contribution(c)) /\ cnt = R.cnt + Extra(c)
                /\ label = IF left = <<>> THEN "store" ELSE "poll"
          OBVIOUS
        <4>2. PICK N : N = [R EXCEPT !.missing = left, !.total = total, !.cnt = cnt, !.pc = label]
          OBVIOUS
        <4>3. N.k = k /\ N.pc = label
          BY <1>1, <1>2, <4>2 DEF IsRecord, SumRegisters
        <4>4. CASE sm' = [sm EXCEPT ![w].pc = "next"]
          <5>1. PICK M : M = [sm[w] EXCEPT !.pc = "next"]
            OBVIOUS
          <5>2. sm' = [sm EXCEPT ![w] = M] /\ M.pc = "next" /\ M.k = k
            BY <1>1, <4>4, <5>1, Relabelled
          <5>3. QED
            BY <5>2
        <4>5. CASE sm' = [sm EXCEPT ![w] = [R EXCEPT
                 !.missing = left, !.total = Plus(@, Contribution(c)), !.cnt = @ + Extra(c),
                 !.pc = IF left = <<>> THEN "store" ELSE "poll"]]
          <5>1. sm' = [sm EXCEPT ![w] = N]
            BY <4>1, <4>2, <4>5
          <5>2. QED
            BY <4>1, <4>3, <5>1
        <4>6. QED
          BY <1>1, <2>3, <4>1, <4>4, <4>5 DEF Poll
      <3>3. PICK N : sm' = [sm EXCEPT ![w] = N] /\ N.k = k /\ N.pc \in {"poll", "store", "next"}
        BY <3>2
      <3>4. PackedBy(N)
        BY <1>1, <2>2, <3>1, <3>3 DEF PackedBy
      <3>5. QED
        BY <1>2, <1>3, <1>6, <2>1, <2>2, <3>1, <3>3, <3>4, OnePacks
    <2>4. CASE Store(w)
      <3>1. PICK N : N = [sm[w] EXCEPT !.pc = "ready"]
        OBVIOUS
      <3>2. R.pc = "store" /\ UNCHANGED mass /\ sm' = [sm EXCEPT ![w] = N] /\ N.pc = "ready" /\ N.k = k
        BY <1>1, <2>4, <3>1, Relabelled DEF Store, AtSum
      <3>3. PackedBy(N)
        BY <1>1, <2>2, <3>2 DEF PackedBy
      <3>4. QED
        BY <1>2, <1>3, <1>6, <2>1, <2>2, <3>2, <3>3, OnePacks
    <2>5. CASE SetReady(w)
      <3>1. PICK N : N = [sm[w] EXCEPT !.pc = "next"]
        OBVIOUS
      <3>2. R.pc = "ready" /\ sm' = [sm EXCEPT ![w] = N] /\ N.pc = "next" /\ N.k = k
            /\ mass' = [mass EXCEPT ![k] = R.total]
        BY <1>1, <1>6, <2>5, <3>1, Relabelled DEF SetReady, AtSum
      <3>3. PackedBy(N) /\ Packed(k)
        BY <1>1, <2>2, <3>2 DEF PackedBy
      <3>4. \A c \in Cells : mass'[c] # NotReady => mass[c] # NotReady \/ Packed(c)'
        BY <2>1, <3>2, <3>3, SamePacked
      <3>5. QED
        BY <1>2, <1>3, <1>6, <2>1, <2>2, <3>2, <3>3, <3>4, OnePacks
    <2>6. CASE NextCell(w)
      <3>1. PICK N, ready, h : N = FromCell(h, ready) /\ sm' = [sm EXCEPT ![w] = N] /\ UNCHANGED mass
        <4>1. PICK h, ready : h = sm[w].k + Inc /\ ready = ReadyWords(phase)
          OBVIOUS
        <4>2. sm' = [sm EXCEPT ![w] = FromCell(h, ready)] /\ UNCHANGED mass
          BY <2>6, <4>1 DEF NextCell, buffers
        <4>3. QED
          BY <4>2
      <3>2. PackedBy(N)
        BY <3>1 DEF FromCell, PackedBy
      <3>3. QED
        BY <1>2, <1>3, <1>6, <2>1, <2>2, <3>1, <3>2, OnePacks
    <2>7. QED
      BY <1>6, <2>3, <2>4, <2>5, <2>6 DEF SumItem
  <1>7. QED
    BY <1>4, <1>5, <1>6

\* A launch of summarization: no item has begun.
LEMMA LaunchPacks ==
    ASSUME UNCHANGED <<child, mode>>, phase' = "sum", NEW ready, NEW f, sm' = [w \in Item |-> FromCell(f[w], ready)],
           \A c \in Cells' : mass'[c] # NotReady => Packed(c)
    PROVE  Packs'
  <1>1. Item' = Item
    BY SameItems
  <1>2. \A w \in Item : PackedBy(sm[w])'
    <2> SUFFICES ASSUME NEW w \in Item
                 PROVE  PackedBy(sm[w])'
      OBVIOUS
    <2>1. PICK N : N = FromCell(f[w], ready)
      OBVIOUS
    <2>2. sm'[w] = N /\ N.pc \in {"scan", "next", "exit"} /\ N.i = 0
      BY <2>1 DEF FromCell
    <2>3. QED
      BY <2>2 DEF PackedBy
  <1>3. QED
    BY <1>1, <1>2, SamePacked DEF Packs

LEMMA HostPacks ==
    ASSUME NEW lv, NEW U, Sums(lv, U), Sums(lv, U)', Packs, UNCHANGED <<child, mode>>, ts'.bottom = ts.bottom,
           SumAgain \/ SortAgain \/ QuadAgain
    PROVE  Packs'
  <1>1. Cells' = Cells
    BY SameBase
  <1>2. CASE SumAgain
    <2>1. phase = "sum" /\ UNCHANGED mass
      BY <1>2 DEF SumAgain, buffers
    <2>2. CASE phase' = "sum"
      <3>1. PICK ready : ready = ReadyWords("sum")
        OBVIOUS
      <3>2. PICK f : f = [w \in Item |-> FirstCell(w)]
        OBVIOUS
      <3>3. sm' = [w \in Item |-> FromCell(FirstCell(w), ready)]
        BY <1>2, <2>2, <3>1 DEF SumAgain, LaunchSum
      <3>4. sm' = [w \in Item |-> FromCell(f[w], ready)]
        BY <3>2, <3>3
      <3>5. \A c \in Cells' : mass'[c] # NotReady => Packed(c)
        BY <1>1, <2>1 DEF Packs
      <3>6. QED
        BY <2>2, <3>4, <3>5, LaunchPacks
    <2>3. CASE phase' # "sum"
      <3>1. phase' = "sort"
        BY <1>2, <2>3 DEF SumAgain
      <3>2. \A c \in Cells : mass'[c] = AllOnce(U[c])'
        BY <1>1, <3>1 DEF Sums
      <3>3. \A c \in Cells : mass[c] # NotReady
        <4>1. \A c \in Cells : mass[c] = AllOnce(U[c])
          BY <2>1, <3>2 DEF AllOnce
        <4>2. QED
          BY <4>1, OnceIsReady
      <3>4. \A c \in Cells : Packed(c)
        BY <2>1, <3>3 DEF Packs
      <3>5. QED
        BY <1>1, <3>1, <3>4, SamePacked DEF Packs
    <2>4. QED
      BY <2>2, <2>3
  <1>3. CASE SortAgain \/ QuadAgain
    <2>1. phase \in {"sort", "quad"} /\ phase' \in {"sort", "quad", "tree"}
      BY <1>3 DEF SortAgain, QuadAgain
    <2>2. QED
      BY <1>1, <2>1, SamePacked DEF Packs
  <1>4. QED
    BY <1>2, <1>3

\* The kernels that follow only read the tree.
LEMMA RestPacks ==
    ASSUME Packs, UNCHANGED child, Cells' = Cells, phase \in {"sort", "quad", "tree", "force"},
           phase' \in {"sort", "quad", "tree", "force", "integrate"}
    PROVE  Packs'
  BY SamePacked DEF Packs

-----------------------------------------------------------------------------
(* sort hands the bodies down from the root to their places.                *)

\* The children of the cell, or their bodies, have their places.
Hands(m, at) == \A n \in Kids(m) : (n \in Cells => start[n] = at[n]) /\ (n \in Body => sort[at[n]] = n)

\* The cells item w comes to.
Takes(w, c) == \E p \in Nat : c = NNode + 1 - Inc + Gid(w) - p * Inc
Hand(w, k, lv, at) ==
  /\ Takes(w, k)
  /\ \A c \in Cells : Takes(w, c) /\ c > k /\ lv[c] <= pass + 1 => Hands(c, at)

\* A launch finishes a level more.
Sorts(lv, U, at) ==
  /\ InOrder(at, U) /\ start[NNode] = 0
  /\ \A c \in Cells : start[c] \in {NULL_BODY, at[c]}
  /\ \A c \in Cells : lv[c] <= pass => Hands(c, at)
  /\ \A w \in Item : Hand(w, sm[w].k, lv, at)

LEMMA TakesRange ==
    ASSUME ShapeInv, NEW w \in Item, NEW k, Takes(w, k)
    PROVE  k \in Int /\ k <= NNode /\ Inc \in Nat /\ Inc >= 1 /\ Gid(w) \in Nat /\ Gid(w) < Inc
  <1>1. Gid(w) \in Nat /\ Gid(w) < Inc /\ Inc \in Nat /\ Inc >= 1 /\ NNode \in Nat
    BY GidRange, IncNat, NodeAssumption
  <1>2. PICK p \in Nat : k = NNode + 1 - Inc + Gid(w) - p * Inc
    BY DEF Takes
  <1>3. p * Inc \in Nat
    BY <1>1
  <1>4. QED
    BY <1>1, <1>2, <1>3

LEMMA TakesNext ==
    ASSUME ShapeInv, NEW w \in Item, NEW k, Takes(w, k)
    PROVE  Takes(w, k - Inc) /\ \A c : Takes(w, c) /\ c > k - Inc => c >= k
  <1>1. Gid(w) \in Nat /\ Gid(w) < Inc /\ Inc \in Nat /\ Inc >= 1 /\ NNode \in Nat
    BY GidRange, IncNat, NodeAssumption
  <1>2. PICK p \in Nat : k = NNode + 1 - Inc + Gid(w) - p * Inc
    BY DEF Takes
  <1>3. p * Inc \in Nat /\ (p + 1) * Inc = p * Inc + Inc /\ p + 1 \in Nat
    BY <1>1
  <1>4. k - Inc = NNode + 1 - Inc + Gid(w) - (p + 1) * Inc
    BY <1>1, <1>2, <1>3
  <1>5. Takes(w, k - Inc)
    BY <1>3, <1>4 DEF Takes
  <1>6. ASSUME NEW c, Takes(w, c), c > k - Inc
        PROVE  c >= k
    <2>1. PICK q \in Nat : c = NNode + 1 - Inc + Gid(w) - q * Inc
      BY <1>6 DEF Takes
    <2>2. q * Inc \in Nat
      BY <1>1
    <2>3. ~(p + 1 <= q)
      <3> SUFFICES ASSUME p + 1 <= q
                   PROVE  FALSE
        OBVIOUS
      <3>1. (p + 1) * Inc <= q * Inc
        BY <1>1, <1>3, Product
      <3>2. QED
        BY <1>1, <1>2, <1>3, <1>6, <2>1, <2>2, <3>1
    <2>4. q <= p
      BY <2>3
    <2>5. q * Inc <= p * Inc
      BY <1>1, <2>4, Product
    <2>6. QED
      BY <1>1, <1>2, <1>3, <2>1, <2>2, <2>5
  <1>7. QED
    BY <1>5, <1>6

LEMMA TakesFirst ==
    ASSUME ShapeInv, NEW w \in Item
    PROVE  /\ Takes(w, NNode + 1 - Inc + Gid(w))
           /\ \A c : Takes(w, c) => ~(c > NNode + 1 - Inc + Gid(w))
  <1>1. Gid(w) \in Nat /\ Gid(w) < Inc /\ Inc \in Nat /\ Inc >= 1 /\ NNode \in Nat
    BY GidRange, IncNat, NodeAssumption
  <1>2. 0 \in Nat /\ 0 * Inc = 0
    BY <1>1
  <1>3. NNode + 1 - Inc + Gid(w) = NNode + 1 - Inc + Gid(w) - 0 * Inc
    BY <1>1, <1>2
  <1>4. Takes(w, NNode + 1 - Inc + Gid(w))
    BY <1>2, <1>3 DEF Takes
  <1>5. ASSUME NEW c, Takes(w, c)
        PROVE  ~(c > NNode + 1 - Inc + Gid(w))
    <2>1. PICK q \in Nat : c = NNode + 1 - Inc + Gid(w) - q * Inc
      BY <1>5 DEF Takes
    <2>2. q * Inc \in Nat
      BY <1>1
    <2>3. QED
      BY <1>1, <2>1, <2>2
  <1>6. QED
    BY <1>4, <1>5

LEMMA Taker ==
    ASSUME ShapeInv, NEW c \in Nat, c <= NNode
    PROVE  \E w \in Item : Takes(w, c)
  <1>1. Inc \in Nat /\ Inc >= 1 /\ NNode \in Nat /\ NNode - c \in Nat
    BY IncNat, NodeAssumption
  <1>2. PICK p, r \in Nat : r < Inc /\ NNode - c = r + p * Inc
    BY <1>1, Division
  <1>3. Inc - 1 - r \in Nat
    BY <1>1, <1>2
  <1>4. PICK w \in Item : Mine(w, Inc - 1 - r)
    BY <1>3, Owner
  <1>5. PICK q \in Nat : Inc - 1 - r = Gid(w) + q * Inc
    BY <1>4 DEF Mine
  <1>6. Gid(w) \in Nat
    BY GidRange
  <1>7. q = 0
    <2> SUFFICES ASSUME 1 <= q
                 PROVE  FALSE
      OBVIOUS
    <2>1. 1 * Inc <= q * Inc /\ 1 * Inc = Inc /\ q * Inc \in Nat
      BY <1>1, Product
    <2>2. QED
      BY <1>1, <1>2, <1>5, <1>6, <2>1
  <1>8. q * Inc = 0 /\ p * Inc \in Nat
    BY <1>1, <1>7
  <1>9. c = NNode + 1 - Inc + Gid(w) - p * Inc
    BY <1>1, <1>2, <1>5, <1>6, <1>8
  <1>10. QED
    BY <1>9 DEF Takes

Counts(U) == \A c \in Cells : count[c] = Cardinality(U[c])

\* The places the children of a cell get are theirs.
Place(k, i) ==
  LET c == child[k][0]
      size == IF c < 0 THEN 0 ELSE IF isCell(c) THEN count[c] ELSE 1
  IN  start[k] + (IF i = 0 THEN 0 ELSE size)

LEMMA KidPlaces ==
    ASSUME NEW lv, NEW U, TreeOf(lv, U), NEW at, InOrder(at, U), Counts(U), NEW k \in Cells, start[k] = at[k]
    PROVE  \A i \in Sub : child[k][i] \in Node => child[k][i] \in Kids(k) /\ Place(k, i) = at[child[k][i]]
  <1>1. PICK c, d : c = child[k][0] /\ d = child[k][1]
    OBVIOUS
  <1>2. /\ c \in Node \cup {NULL_BODY} /\ (c \in Node <=> c >= 0) /\ \A n : n \in Kids(k) <=> n \in Node /\ (n = c \/ n = d)
    BY <1>1, KidSlots
  <1>3. /\ NBody \in Nat /\ NNode \in Nat /\ at[k] \in Nat
        /\ \A n \in Node : (isBody(n) => n \in Body) /\ (n \in Body => isBody(n))
    BY KidFacts DEF InOrder
  <1>4. \A i \in Sub : i = 0 \/ i = 1
    BY DEF Sub
  <1>5. (c \in Node => at[c] = at[k]) /\ (d \in Node => at[d] = at[k] + Ahead(k, U))
    BY <1>1 DEF InOrder, Divides
  <1>6. Ahead(k, U) = IF c < 0 THEN 0 ELSE IF isCell(c) THEN count[c] ELSE 1
    <2>1. CASE c \notin Node
      <3>1. c < 0
        BY <1>2, <2>1 DEF NULL_BODY
      <3>2. QED
        BY <1>1, <2>1, <3>1 DEF Ahead
    <2>2. CASE c \in Node /\ isCell(c)
      <3>1. c \in Kids(k) /\ ~(c < 0) /\ ~isBody(c)
        BY <1>2, <1>3, <2>2 DEF Node, isCell, isBody
      <3>2. c \in Cells
        BY <3>1 DEF TreeOf
      <3>3. QED
        BY <1>1, <2>2, <3>1, <3>2 DEF Ahead, Counts
    <2>3. CASE c \in Node /\ ~isCell(c)
      <3>1. ~(c < 0) /\ c \in Body
        BY <1>3, <2>3 DEF Node, isCell, Body
      <3>2. U[c] = {c} /\ Cardinality({c}) = 1
        BY <3>1, FS_Singleton DEF TreeOf
      <3>3. QED
        BY <1>1, <2>3, <3>1, <3>2 DEF Ahead
    <2>4. QED
      BY <2>1, <2>2, <2>3
  <1>7. Place(k, 0) = at[k] /\ Place(k, 1) = at[k] + Ahead(k, U)
    BY <1>1, <1>3, <1>6 DEF Place
  <1>8. QED
    BY <1>1, <1>2, <1>4, <1>5, <1>7

\* What a cell's turn stores.
Sorted(k) ==
  /\ start' = [n \in Node |-> IF isCell(n) /\ {i \in Sub : child[k][i] = n} # {}
                              THEN Place(k, CHOOSE i \in {i \in Sub : child[k][i] = n} : TRUE) ELSE start[n]]
  /\ sort' = [s \in Body |->
       LET B == {i \in Sub : child[k][i] \in Body /\ Place(k, i) = s}
       IN  IF B # {} THEN child[k][CHOOSE i \in B : TRUE] ELSE sort[s]]

LEMMA SortDoes ==
    ASSUME NEW w \in Item, SortCell(w)
    PROVE  /\ phase = "sort" /\ sm[w].k >= ts.bottom /\ sm' = [sm EXCEPT ![w].k = @ - Inc]
           /\ UNCHANGED <<mode, child, mass, quad, count, written, ts, phase, hostDepth, pass>>
           /\ IF start[sm[w].k] >= 0 THEN Sorted(sm[w].k) ELSE UNCHANGED <<start, sort>>
  BY DEF SortCell, Sorted, Place, host

\* The others keep what they have.
LEMMA SortGives ==
    ASSUME NEW lv, NEW U, TreeOf(lv, U), Family, NEW at, InOrder(at, U), Counts(U), NEW k \in Cells, start[k] = at[k],
           start[NNode] = 0, \A c \in Cells : start[c] \in {NULL_BODY, at[c]}, Sorted(k), UNCHANGED <<child, ts>>
    PROVE  /\ start'[NNode] = 0 /\ Hands(k, at)'
           /\ \A c \in Cells : start'[c] \in {NULL_BODY, at[c]} /\ (Hands(c, at) => Hands(c, at)')
  <1>1. \A i \in Sub : child[k][i] \in Node => child[k][i] \in Kids(k) /\ Place(k, i) = at[child[k][i]]
    BY KidPlaces
  <1>2. Cells' = Cells /\ \A m : Kids(m)' = Kids(m)
    BY DEF Cells, Kids
  <1>3. /\ \A c \in Cells : c \in Node /\ isCell(c)
        /\ \A b \in Body : b \in Node /\ at[b] \in Body
        /\ \A b, e \in Body : at[b] = at[e] => b = e
        /\ NNode \in Node
    <2>1. NNode \in Node /\ \A b \in Body : b \in Node
      BY NodeAssumption DEF Body, Node
    <2>2. QED
      BY <2>1, KidFacts, OrderIsOneToOne
  <1>4. ASSUME NEW n \in Node
        PROVE  /\ start'[n] \in {start[n], at[n]} /\ (n \notin Kids(k) => start'[n] = start[n])
               /\ n \in Kids(k) /\ isCell(n) => start'[n] = at[n]
    <2>1. PICK G : G = {i \in Sub : child[k][i] = n}
      OBVIOUS
    <2>2. start'[n] = IF isCell(n) /\ G # {} THEN Place(k, CHOOSE i \in G : TRUE) ELSE start[n]
      BY <2>1 DEF Sorted
    <2>3. CASE isCell(n) /\ G # {}
      <3>1. PICK j : j = CHOOSE i \in G : TRUE
        OBVIOUS
      <3>2. j \in G
        BY <2>3, <3>1
      <3>3. j \in Sub /\ child[k][j] = n
        BY <2>1, <3>2
      <3>4. n \in Kids(k) /\ Place(k, j) = at[n]
        BY <1>1, <3>3
      <3>5. QED
        BY <2>2, <2>3, <3>1, <3>4
    <2>4. CASE ~(isCell(n) /\ G # {})
      <3>1. n \in Kids(k) => G # {}
        BY <2>1 DEF Kids
      <3>2. QED
        BY <2>2, <2>4, <3>1
    <2>5. QED
      BY <2>3, <2>4
  <1>5. ASSUME NEW b \in Body
        PROVE  /\ sort[at[b]] = b => sort'[at[b]] = b
               /\ b \in Kids(k) => sort'[at[b]] = b
    <2>1. PICK s, B : s = at[b] /\ B = {i \in Sub : child[k][i] \in Body /\ Place(k, i) = s}
      OBVIOUS
    <2>2. s \in Body /\ sort'[s] = IF B # {} THEN child[k][CHOOSE i \in B : TRUE] ELSE sort[s]
      BY <1>3, <2>1 DEF Sorted
    <2>3. CASE B # {}
      <3>1. PICK j : j = CHOOSE i \in B : TRUE
        OBVIOUS
      <3>2. j \in B
        BY <2>3, <3>1
      <3>3. j \in Sub /\ child[k][j] \in Body /\ Place(k, j) = s
        BY <2>1, <3>2
      <3>4. at[child[k][j]] = at[b]
        BY <1>1, <1>3, <2>1, <3>3
      <3>5. child[k][j] = b
        BY <1>3, <3>3, <3>4
      <3>6. QED
        BY <2>1, <2>2, <2>3, <3>1, <3>5
    <2>4. CASE B = {}
      <3>1. b \notin Kids(k)
        <4> SUFFICES ASSUME b \in Kids(k)
                     PROVE  FALSE
          OBVIOUS
        <4>1. PICK i \in Sub : child[k][i] = b
          BY DEF Kids
        <4>2. Place(k, i) = s
          BY <1>1, <1>3, <2>1, <4>1
        <4>3. i \in B
          BY <2>1, <4>1, <4>2
        <4>4. QED
          BY <2>4, <4>3
      <3>2. QED
        BY <2>1, <2>2, <2>4, <3>1
    <2>5. QED
      BY <2>3, <2>4
  <1>6. start'[NNode] = 0
    <2>1. NNode \notin Kids(k)
      BY KidSlots
    <2>2. QED
      BY <1>3, <1>4, <2>1
  <1>7. \A c \in Cells : start'[c] \in {NULL_BODY, at[c]}
    BY <1>3, <1>4
  <1>8. \A c \in Cells : Hands(c, at) => Hands(c, at)'
    <2>1. \A c \in Cells : start[c] = at[c] => start'[c] = at[c]
      BY <1>3, <1>4
    <2>2. QED
      BY <1>2, <1>5, <2>1 DEF Hands, Body
  <1>9. Hands(k, at)'
    BY <1>2, <1>3, <1>4, <1>5 DEF Hands, Body
  <1>10. QED
    BY <1>6, <1>7, <1>8, <1>9

LEMMA SortCellSorts ==
    ASSUME NEW lv, NEW U, TreeOf(lv, U), Family, NEW at, Sorts(lv, U, at), Counts(U), ShapeInv, SumInv, pass \in Nat,
           NEW w \in Item, SortCell(w)
    PROVE  Sorts(lv, U, at)'
  <1>1. PICK k : k = sm[w].k
    OBVIOUS
  <1>2. /\ phase = "sort" /\ k >= ts.bottom /\ sm' = [sm EXCEPT ![w].k = @ - Inc]
        /\ UNCHANGED <<mode, child, mass, quad, count, written, ts, phase, hostDepth, pass>>
        /\ IF start[k] >= 0 THEN Sorted(k) ELSE UNCHANGED <<start, sort>>
    BY <1>1, SortDoes
  <1>3. Hand(w, k, lv, at) /\ Takes(w, k) /\ k \in Int /\ k <= NNode
    BY <1>1, TakesRange DEF Sorts, Hand
  <1>4. k \in Cells /\ (\A c \in Cells : c \in Node /\ c \in Nat /\ lv[c] \in Nat)
        /\ \A m \in Cells : \A n \in Kids(m) : n \in Cells \/ n \in Body
    <2>1. ts.bottom \in Nat /\ NNode \in Nat
      BY KidFacts
    <2>2. k \in Cells
      BY <1>2, <1>3, <2>1 DEF Cells
    <2>3. QED
      BY <2>2, KidFacts DEF TreeOf
  <1>5. InOrder(at, U) /\ start[NNode] = 0 /\ (\A c \in Cells : start[c] \in {NULL_BODY, at[c]})
        /\ \A c \in Cells : lv[c] <= pass => Hands(c, at)
    BY DEF Sorts
  <1>6. start[k] >= 0 => start[k] = at[k]
    BY <1>4, <1>5 DEF NULL_BODY
  <1>7. lv[k] <= pass + 1 => start[k] >= 0
    <2> SUFFICES ASSUME lv[k] <= pass + 1
                 PROVE  start[k] >= 0
      OBVIOUS
    <2>1. CASE k = NNode
      BY <1>5, <2>1
    <2>2. CASE k # NNode
      <3>1. PICK m \in Cells : k \in Kids(m)
        BY <1>4, <2>2 DEF Family
      <3>2. lv[k] = lv[m] + 1
        <4>1. ~isBody(k)
          BY <1>4, KidFacts
        <4>2. QED
          BY <3>1, <4>1 DEF TreeOf
      <3>3. Hands(m, at)
        BY <1>4, <1>5, <3>2
      <3>4. start[k] = at[k] /\ at[k] \in Nat
        BY <1>4, <1>5, <3>1, <3>3 DEF Hands, InOrder
      <3>5. QED
        BY <3>4
    <2>3. QED
      BY <2>1, <2>2
  <1>8. /\ start'[NNode] = 0 /\ (start[k] >= 0 => Hands(k, at)')
        /\ \A c \in Cells : start'[c] \in {NULL_BODY, at[c]} /\ (Hands(c, at) => Hands(c, at)')
    <2>1. CASE start[k] >= 0
      BY <1>2, <1>4, <1>5, <1>6, <2>1, SortGives
    <2>2. CASE ~(start[k] >= 0)
      <3>1. UNCHANGED <<start, sort>> /\ UNCHANGED <<child, ts>>
        BY <1>2, <2>2
      <3>2. \A c : Hands(c, at) => Hands(c, at)'
        BY <3>1 DEF Hands, Kids, Cells, Body
      <3>3. QED
        BY <1>5, <2>2, <3>1, <3>2
    <2>3. QED
      BY <2>1, <2>2
  <1>9. Cells' = Cells /\ Item' = Item /\ (\A m : Kids(m)' = Kids(m)) /\ \A v, c : Takes(v, c)' <=> Takes(v, c)
    BY <1>2 DEF Cells, Item, Group, Lane, Kids, Takes, Inc, Gid
  <1>10. InOrder(at, U)'
    BY <1>2, <1>5, <1>9 DEF InOrder, Divides, Ahead
  <1>11. ASSUME NEW v \in Item
         PROVE  Hand(v, sm[v].k, lv, at)'
    <2>1. PICK h : h = sm[v].k
      OBVIOUS
    <2>2. Takes(v, h) /\ \A c \in Cells : Takes(v, c) /\ c > h /\ lv[c] <= pass + 1 => Hands(c, at)
      BY <2>1 DEF Sorts, Hand
    <2>3. CASE v # w
      <3>1. sm'[v].k = h
        BY <1>2, <2>1, <2>3 DEF SumInv
      <3>2. \A c \in Cells : Takes(v, c) /\ c > h /\ lv[c] <= pass + 1 => Hands(c, at)'
        BY <1>8, <2>2
      <3>3. pass' = pass /\ Cells' = Cells /\ Takes(v, h)'
        BY <1>2, <1>9, <2>2
      <3>4. Hand(v, h, lv, at)'
        BY <3>2, <3>3, <1>9 DEF Hand
      <3>5. QED
        BY <3>1, <3>4 DEF Hand
    <2>4. CASE v = w
      <3>1. sm'[v].k = k - Inc
        BY <1>1, <1>2, <2>4 DEF SumInv, IsRecord, SumRegisters
      <3>2. Takes(v, k - Inc) /\ \A c : Takes(v, c) /\ c > k - Inc => c >= k
        BY <1>3, <2>4, TakesNext
      <3>3. ASSUME NEW c \in Cells, Takes(v, c), c > k - Inc, lv[c] <= pass + 1
            PROVE  Hands(c, at)'
        <4>1. c >= k /\ c \in Nat
          BY <1>4, <3>2, <3>3
        <4>2. c = k \/ c > k
          BY <1>3, <4>1
        <4>3. CASE c = k
          BY <1>7, <1>8, <3>3, <4>3
        <4>4. CASE c > k
          <5>1. Hands(c, at)
            BY <1>1, <2>1, <2>2, <2>4, <3>3, <4>4
          <5>2. QED
            BY <1>8, <5>1
        <4>5. QED
          BY <4>2, <4>3, <4>4
      <3>4. PICK j : j = k - Inc
        OBVIOUS
      <3>5. pass' = pass /\ Cells' = Cells /\ Takes(v, j)'
        BY <1>2, <1>9, <3>2, <3>4
      <3>6. \A c \in Cells : Takes(v, c) /\ c > j /\ lv[c] <= pass + 1 => Hands(c, at)'
        BY <3>3, <3>4
      <3>7. Hand(v, j, lv, at)'
        BY <3>5, <3>6, <1>9 DEF Hand
      <3>8. QED
        BY <3>1, <3>4, <3>7 DEF Hand
    <2>5. QED
      BY <2>3, <2>4
  <1>12. \A c \in Cells : lv[c] <= pass => Hands(c, at)'
    BY <1>5, <1>8
  <1>13. (\A c \in Cells : start[c] \in {NULL_BODY, at[c]})'
    BY <1>8, <1>9 DEF NULL_BODY
  <1>14. (\A c \in Cells : lv[c] <= pass => Hands(c, at))'
    BY <1>2, <1>9, <1>12
  <1>15. (\A v \in Item : Hand(v, sm[v].k, lv, at))'
    BY <1>9, <1>11
  <1>16. (start[NNode] = 0)'
    BY <1>8
  <1>17. QED
    BY <1>10, <1>13, <1>14, <1>15, <1>16 DEF Sorts

\* Every body has a slot.
Placed == \A b \in Body : \E s \in Body : sort[s] = b

LEMMA SameTakes ==
    ASSUME UNCHANGED mode
    PROVE  Item' = Item /\ \A v, c : Takes(v, c)' <=> Takes(v, c)
  BY DEF Item, Group, Lane, Takes, Inc, Gid

LEMMA SameHands ==
    ASSUME UNCHANGED <<child, start, sort>>, Cells' = Cells, NEW at
    PROVE  \A c : Hands(c, at) <=> Hands(c, at)'
  BY DEF Hands, Kids, Body

LEMMA SameOrder ==
    ASSUME UNCHANGED child, Cells' = Cells, NEW at, NEW U, InOrder(at, U)
    PROVE  InOrder(at, U)'
  BY DEF InOrder, Divides, Ahead

\* No item has come to a cell yet.
LEMMA SortLaunched ==
    ASSUME ShapeInv, LaunchSort, UNCHANGED mode, NEW lv, NEW at
    PROVE  (\A w \in Item : Hand(w, sm[w].k, lv, at))'
  <1>1. Item' = Item /\ \A v, c : Takes(v, c)' <=> Takes(v, c)
    BY SameTakes
  <1>2. ASSUME NEW w \in Item
        PROVE  Hand(w, sm[w].k, lv, at)'
    <2>1. PICK k : k = NNode + 1 - Inc + Gid(w)
      OBVIOUS
    <2>2. PICK R : R = FromCell(k, Unfinished)
      OBVIOUS
    <2>3. sm'[w] = [R EXCEPT !.pc = "sort"]
      BY <2>1, <2>2 DEF LaunchSort
    <2>4. [R EXCEPT !.pc = "sort"].k = k
      BY <2>2 DEF FromCell
    <2>5. Takes(w, k) /\ \A c : Takes(w, c) => ~(c > k)
      BY <2>1, TakesFirst
    <2>6. Hand(w, k, lv, at)'
      BY <1>1, <2>5 DEF Hand
    <2>7. sm'[w].k = k
      BY <2>3, <2>4
    <2>8. QED
      BY <2>6, <2>7 DEF Hand
  <1>3. QED
    BY <1>1, <1>2

LEMMA SortFirst ==
    ASSUME NEW lv, NEW U, TreeOf(lv, U), NEW at, InOrder(at, U), ShapeInv, LaunchSort, pass' = 0,
           UNCHANGED <<mode, child, start, sort, ts>>, \A c \in Cells : start[c] = IF c = NNode THEN 0 ELSE NULL_BODY
    PROVE  Sorts(lv, U, at)'
  <1>1. Cells' = Cells
    BY DEF Cells
  <1>2. InOrder(at, U)'
    BY <1>1, SameOrder
  <1>3. at[NNode] = 0 /\ NNode \in Cells
    <2>1. ts.bottom \in NBody + 1 .. NNode /\ NBody \in Nat /\ NNode \in Nat
      BY KidFacts DEF TreeOf
    <2>2. QED
      BY <2>1 DEF InOrder, Cells
  <1>4. \A c \in Cells : start'[c] \in {NULL_BODY, at[c]}
    BY <1>3
  <1>5. start'[NNode] = 0
    BY <1>3
  <1>6. \A c \in Cells : ~(lv[c] <= 0)
    <2>1. \A c \in Cells : lv[c] \in Nat /\ 1 <= lv[c]
      BY KidFacts DEF TreeOf
    <2>2. QED
      BY <2>1
  <1>7. (\A w \in Item : Hand(w, sm[w].k, lv, at))'
    BY SortLaunched
  <1>8. (\A c \in Cells : start[c] \in {NULL_BODY, at[c]})'
    BY <1>1, <1>4 DEF NULL_BODY
  <1>9. (\A c \in Cells : lv[c] <= pass => Hands(c, at))'
    BY <1>1, <1>6
  <1>10. QED
    BY <1>2, <1>5, <1>7, <1>8, <1>9 DEF Sorts

\* All items have left: a level more has been handed down.
LEMMA SortEndedHands ==
    ASSUME NEW lv, NEW U, TreeOf(lv, U), NEW at, Sorts(lv, U, at), ShapeInv, SortEnded, NEW c \in Cells, lv[c] <= pass + 1
    PROVE  Hands(c, at)
  <1>1. c \in Nat /\ c <= NNode /\ c >= ts.bottom /\ ts.bottom \in Nat
    BY KidFacts
  <1>2. PICK w \in Item : Takes(w, c)
    BY <1>1, Taker
  <1>3. PICK k : k = sm[w].k
    OBVIOUS
  <1>4. Hand(w, k, lv, at) /\ k < ts.bottom
    BY <1>3 DEF Sorts, SortEnded
  <1>5. k \in Int
    BY <1>4, TakesRange DEF Hand
  <1>6. c > k
    BY <1>1, <1>4, <1>5
  <1>7. QED
    BY <1>2, <1>4, <1>6 DEF Hand

LEMMA SortNext ==
    ASSUME NEW lv, NEW U, TreeOf(lv, U), NEW at, Sorts(lv, U, at), ShapeInv, SortEnded, LaunchSort, pass' = pass + 1,
           UNCHANGED <<mode, child, start, sort, ts>>
    PROVE  Sorts(lv, U, at)'
  <1>1. Cells' = Cells /\ \A c : Hands(c, at) <=> Hands(c, at)'
    BY SameHands DEF Cells
  <1>2. InOrder(at, U)' /\ start'[NNode] = 0
    BY <1>1, SameOrder DEF Sorts
  <1>3. (\A c \in Cells : start[c] \in {NULL_BODY, at[c]})'
    BY <1>1 DEF Sorts, NULL_BODY
  <1>4. (\A c \in Cells : lv[c] <= pass => Hands(c, at))'
    BY <1>1, SortEndedHands
  <1>5. (\A w \in Item : Hand(w, sm[w].k, lv, at))'
    BY SortLaunched
  <1>6. QED
    BY <1>2, <1>3, <1>4, <1>5 DEF Sorts

LEMMA SortLast ==
    ASSUME NEW lv, NEW U, TreeOf(lv, U), Family, NEW at, Sorts(lv, U, at), ShapeInv, SortEnded, pass \in Nat, hostDepth \in Nat,
           ~(pass + 1 < hostDepth)
    PROVE  Placed
  <1>1. \A c \in Cells : Hands(c, at)
    <2>1. ASSUME NEW c \in Cells
          PROVE  lv[c] <= pass + 1
      <3>1. lv[c] \in Nat /\ lv[c] <= hostDepth
        BY KidFacts DEF TreeOf
      <3>2. QED
        BY <3>1
    <2>2. QED
      BY <2>1, SortEndedHands
  <1>2. ASSUME NEW b \in Body
        PROVE  at[b] \in Body /\ sort[at[b]] = b
    <2>1. b # NNode
      BY NodeAssumption DEF Body
    <2>2. PICK m \in Cells : b \in Kids(m)
      BY <2>1 DEF Family
    <2>3. sort[at[b]] = b
      BY <1>1, <2>2 DEF Hands
    <2>4. at[b] \in Body
      BY OrderIsOneToOne DEF Sorts
    <2>5. QED
      BY <2>3, <2>4
  <1>3. QED
    BY <1>2 DEF Placed

-----------------------------------------------------------------------------
(* What a wavefront has still to take.                                      *)

Entry == [node : Cells, pos : Nat]
Stack(s) == s \in Seq(Entry)
Filled(s) == Stack(s) /\ Len(s) >= 1

\* The children an entry of the stack has not come to, and the bodies under
\* them.
Rest(x) == {n \in Kids(x.node) : \E p \in Sub : p >= x.pos /\ child[x.node][p] = n}
Part(x, U) == Sum(U, Rest(x))
Below(s, U) == UNION {Part(s[e], U) : e \in 1 .. Len(s)}
Apart(s, U) == \A d, e \in 1 .. Len(s) : d < e => U[s[e].node] \cap Part(s[d], U) = {}
Spent(s, U) == Part(s[Len(s)], U) = {}
\* What is left of the top entry of s in t, A excepted.
Splits(s, t, A, U) ==
  /\ t = [s EXCEPT ![Len(s)].pos = @ + 1]
  /\ A \cap Part(t[Len(s)], U) = {} /\ Part(s[Len(s)], U) = A \cup Part(t[Len(s)], U)
Avoids(A, s, U) == \A e \in 1 .. Len(s) : A \cap Part(s[e], U) = {}
IsLast(s, got) == Len(s) = 1 => got = AllOnce(Body)
Divided(s, t, A, U) == Apart(t, U) /\ Below(s, U) = A \cup Below(t, U) /\ Avoids(A, t, U)
Opened(t, r, A, U) == Apart(r, U) /\ Below(r, U) = A \cup Below(t, U)
Walking(s, got, U) == got = AllOnce(Body \ Below(s, U)) /\ Apart(s, U)

LEMMA Turned ==
    ASSUME NEW s, Stack(s), Len(s) >= 1, NEW t, t = [s EXCEPT ![Len(s)].pos = @ + 1]
    PROVE  /\ Stack(t) /\ Len(t) = Len(s) /\ Len(s) \in Nat /\ Len(s) \in 1 .. Len(s)
           /\ s[Len(s)] \in Entry /\ s[Len(s)].node \in Cells /\ s[Len(s)].pos \in Nat
           /\ t[Len(s)].node = s[Len(s)].node /\ t[Len(s)].pos = s[Len(s)].pos + 1
           /\ \A e \in 1 .. Len(s) : e # Len(s) => t[e] = s[e]
  <1>1. s \in Seq(Entry) /\ Len(s) \in Nat /\ DOMAIN s = 1 .. Len(s) /\ \A k \in 1 .. Len(s) : s[k] \in Entry
    BY DEF Stack
  <1>2. Len(s) \in 1 .. Len(s)
    BY <1>1
  <1>3. s[Len(s)] \in Entry
    BY <1>1, <1>2
  <1>4. t[Len(s)] = [s[Len(s)] EXCEPT !.pos = @ + 1]
    BY <1>1, <1>2
  <1>5. /\ t[Len(s)] \in Entry /\ t[Len(s)].node = s[Len(s)].node /\ t[Len(s)].pos = s[Len(s)].pos + 1
        /\ s[Len(s)].node \in Cells /\ s[Len(s)].pos \in Nat
    BY <1>3, <1>4 DEF Entry
  <1>6. \A k \in 1 .. Len(s) : k # Len(s) => t[k] = s[k]
    BY <1>1
  <1>7. \A k \in 1 .. Len(s) : t[k] \in Entry
    BY <1>1, <1>5, <1>6
  <1>8. t = [k \in 1 .. Len(s) |-> t[k]]
    BY <1>1
  <1> HIDE DEF Entry
  <1>9. t \in Seq(Entry) /\ Len(t) = Len(s)
    <2>1. PICK n : n = Len(s)
      OBVIOUS
    <2>2. n \in Nat /\ t = [k \in 1 .. n |-> t[k]] /\ \A k \in 1 .. n : t[k] \in Entry
      BY <1>1, <1>7, <1>8, <2>1
    <2>3. t \in Seq(Entry) /\ Len(t) = n
      BY ONLY <2>2
    <2>4. QED
      BY <2>1, <2>3
  <1>10. QED
    BY <1>1, <1>2, <1>3, <1>5, <1>6, <1>9 DEF Stack

LEMMA Popped ==
    ASSUME NEW s, Stack(s), Len(s) >= 1, NEW t, t = SubSeq(s, 1, Len(s) - 1)
    PROVE  Stack(t) /\ Len(t) = Len(s) - 1 /\ Len(s) \in Nat /\ \A e \in 1 .. Len(s) - 1 : t[e] = s[e]
  <1>1. s \in Seq(Entry) /\ Len(s) \in Nat
    BY DEF Stack
  <1>2. Len(s) - 1 \in Nat
    BY <1>1
  <1>3. t = [k \in 1 .. Len(s) - 1 |-> s[k]]
    BY <1>1, <1>2
  <1>4. t \in Seq(Entry)
    <2> HIDE DEF Entry
    <2> QED
      BY <1>1
  <1>5. Len(t) \in Nat /\ 1 .. Len(t) = 1 .. Len(s) - 1
    BY <1>3, <1>4
  <1>6. Len(t) = Len(s) - 1
    <2>1. PICK a, b : a = Len(t) /\ b = Len(s) - 1
      OBVIOUS
    <2>2. a \in Nat /\ b \in Nat /\ 1 .. a = 1 .. b
      BY <1>2, <1>5, <2>1
    <2>3. (a \in 1 .. a <=> a \in 1 .. b) /\ (b \in 1 .. a <=> b \in 1 .. b)
      BY <2>2
    <2>4. a = b
      BY <2>2, <2>3
    <2>5. QED
      BY <2>1, <2>4
  <1>7. QED
    BY <1>1, <1>3, <1>4, <1>6 DEF Stack

LEMMA Pushed ==
    ASSUME NEW s, Stack(s), NEW n \in Cells, NEW t, t = Append(s, Push(n))
    PROVE  /\ Stack(t) /\ Len(t) = Len(s) + 1 /\ Len(s) \in Nat /\ t[Len(s) + 1] = Push(n)
           /\ \A e \in 1 .. Len(s) : t[e] = s[e]
  <1>1. s \in Seq(Entry) /\ Len(s) \in Nat /\ Push(n) \in Entry
    BY DEF Stack, Push, Entry
  <1> HIDE DEF Entry
  <1>2. t \in Seq(Entry) /\ Len(t) = Len(s) + 1 /\ t[Len(s) + 1] = Push(n) /\ \A k \in 1 .. Len(s) : t[k] = s[k]
    BY <1>1
  <1>3. QED
    BY <1>1, <1>2 DEF Stack

\* The children of a cell in their two octants.
LEMMA RestParts ==
    ASSUME NEW lv, NEW U, TreeOf(lv, U), NEW m \in Cells, NEW x, x.node = m, x.pos \in Nat
    PROVE  /\ Part(x, U) \subseteq U[m] /\ U[m] \subseteq Body
           /\ x.pos = 0 => Part(x, U) = U[m]
           /\ x.pos \notin Sub => Part(x, U) = {}
           /\ x.pos \in Sub /\ Packed(m) /\ ~(child[m][x.pos] >= 0) => Part(x, U) = {}
           /\ \A y : y.node = m /\ y.pos = x.pos + 1 /\ x.pos \in Sub /\ child[m][x.pos] >= 0 =>
                /\ child[m][x.pos] \in Kids(m) /\ U[child[m][x.pos]] \cap Part(y, U) = {}
                /\ Part(x, U) = U[child[m][x.pos]] \cup Part(y, U)
  <1>1. PICK c, d : c = child[m][0] /\ d = child[m][1]
    OBVIOUS
  <1>2. /\ \A n : n \in Kids(m) <=> n \in Node /\ (n = c \/ n = d)
        /\ (c \in Node <=> c >= 0) /\ (d \in Node <=> d >= 0)
        /\ c \in Node => c # d
    BY <1>1, KidSlots
  <1>3. \A p : p \in Sub <=> p = 0 \/ p = 1
    BY DEF Sub
  <1>4. /\ U[m] = UNION {U[n] : n \in Kids(m)} /\ U[m] \subseteq Body
        /\ \A a, b \in Kids(m) : a # b => U[a] \cap U[b] = {}
    BY DEF TreeOf, Sum
  <1>5. \A y : y.node = m => Part(y, U) = UNION {U[n] : n \in {i \in Kids(m) : \E p \in Sub : p >= y.pos /\ child[m][p] = i}}
    BY DEF Part, Rest, Sum
  <1>6. /\ 0 \in Sub /\ 1 \in Sub /\ child[m][0] = c /\ child[m][1] = d
        /\ \A p \in Sub : p = 0 \/ p = 1
    BY <1>1, <1>3
  <1>7. \A y : y.node = m /\ y.pos = 0 => Part(y, U) = U[m]
    <2> SUFFICES ASSUME NEW y, y.node = m, y.pos = 0
                 PROVE  Part(y, U) = U[m]
      OBVIOUS
    <2>1. Kids(m) = {i \in Kids(m) : \E p \in Sub : p >= y.pos /\ child[m][p] = i}
      BY <1>2, <1>6
    <2>2. QED
      BY <1>4, <1>5, <2>1
  <1>8. \A y : y.node = m /\ y.pos = 1 => Part(y, U) = IF d \in Node THEN U[d] ELSE {}
    <2> SUFFICES ASSUME NEW y, y.node = m, y.pos = 1
                 PROVE  Part(y, U) = IF d \in Node THEN U[d] ELSE {}
      OBVIOUS
    <2>1. {i \in Kids(m) : \E p \in Sub : p >= y.pos /\ child[m][p] = i} = IF d \in Node THEN {d} ELSE {}
      BY <1>2, <1>6
    <2>2. PICK S : S = {i \in Kids(m) : \E p \in Sub : p >= y.pos /\ child[m][p] = i}
      OBVIOUS
    <2>3. Part(y, U) = UNION {U[n] : n \in S} /\ S = IF d \in Node THEN {d} ELSE {}
      BY <1>5, <2>1, <2>2
    <2>4. QED
      BY ONLY <2>3
  <1>9. \A y : y.node = m /\ y.pos \in Nat /\ y.pos \notin Sub => Part(y, U) = {}
    <2> SUFFICES ASSUME NEW y, y.node = m, y.pos \in Nat, y.pos \notin Sub
                 PROVE  Part(y, U) = {}
      OBVIOUS
    <2>1. ~(y.pos <= 1)
      BY <1>3
    <2>2. \A p \in Sub : ~(p >= y.pos)
      BY <1>6, <2>1
    <2>3. {i \in Kids(m) : \E p \in Sub : p >= y.pos /\ child[m][p] = i} = {}
      BY <2>2
    <2>4. QED
      BY <1>5, <2>3
  <1>10. \A y : y.node = m => Part(y, U) \subseteq U[m]
    BY <1>4, <1>5
  <1>11. U[m] = (IF c \in Node THEN U[c] ELSE {}) \cup (IF d \in Node THEN U[d] ELSE {})
    <2>1. \A z : z \in U[m] <=> \E n \in Kids(m) : z \in U[n]
      BY <1>4
    <2>2. QED
      BY <1>2, <2>1
  <1>12. c \in Node /\ d \in Node => U[c] \cap U[d] = {}
    BY <1>2, <1>4
  <1>13. ASSUME x.pos \in Sub, Packed(m), ~(child[m][x.pos] >= 0)
         PROVE  Part(x, U) = {}
    <2>1. d >= 0 => c >= 0
      BY <1>1, <1>13 DEF Packed
    <2>2. CASE x.pos = 0
      <3>1. c \notin Node /\ d \notin Node
        BY <1>2, <1>6, <1>13, <2>1, <2>2
      <3>2. QED
        BY <1>7, <1>11, <2>2, <3>1
    <2>3. CASE x.pos = 1
      BY <1>2, <1>6, <1>8, <1>13, <2>3
    <2>4. QED
      BY <1>6, <1>13, <2>2, <2>3
  <1>14. ASSUME NEW y, y.node = m, y.pos = x.pos + 1, x.pos \in Sub, child[m][x.pos] >= 0
         PROVE  /\ child[m][x.pos] \in Kids(m) /\ U[child[m][x.pos]] \cap Part(y, U) = {}
                /\ Part(x, U) = U[child[m][x.pos]] \cup Part(y, U)
    <2>1. CASE x.pos = 0
      <3>1. y.pos = 1 /\ c \in Node /\ child[m][x.pos] = c
        BY <1>2, <1>6, <1>14, <2>1
      <3>2. Part(y, U) = (IF d \in Node THEN U[d] ELSE {}) /\ Part(x, U) = U[m]
        BY <1>7, <1>8, <1>14, <2>1, <3>1
      <3>3. QED
        BY <1>2, <1>11, <1>12, <3>1, <3>2
    <2>2. CASE x.pos = 1
      <3>1. y.pos = 2 /\ y.pos \in Nat /\ y.pos \notin Sub /\ d \in Node /\ child[m][x.pos] = d
        BY <1>2, <1>3, <1>6, <1>14, <2>2
      <3>2. Part(y, U) = {} /\ Part(x, U) = U[d]
        BY <1>8, <1>9, <1>14, <2>2, <3>1
      <3>3. QED
        BY <1>2, <3>1, <3>2
    <2>3. QED
      BY <1>6, <1>14, <2>1, <2>2
  <1>15. QED
    BY <1>4, <1>7, <1>9, <1>10, <1>13, <1>14

\* The top of the stack is done.
LEMMA WalkPops ==
    ASSUME NEW U, NEW s, Filled(s), NEW got, Walking(s, got, U), Spent(s, U), NEW t, t = SubSeq(s, 1, Len(s) - 1)
    PROVE  Walking(t, got, U) /\ IsLast(s, got)
  <1>1. Len(t) = Len(s) - 1 /\ Len(s) \in Nat /\ \A e \in 1 .. Len(s) - 1 : t[e] = s[e]
    BY Popped DEF Filled
  <1>2. PICK n : n = Len(s)
    OBVIOUS
  <1>3. /\ n \in Nat /\ n >= 1 /\ Len(t) = n - 1 /\ (\A e \in 1 .. n - 1 : t[e] = s[e]) /\ Part(s[n], U) = {}
        /\ \A e : e \in 1 .. n <=> e \in 1 .. n - 1 \/ e = n
    BY <1>1, <1>2 DEF Filled, Spent
  <1>4. Below(t, U) = Below(s, U)
    <2>1. \A b : b \in Below(s, U) <=> \E e \in 1 .. n : b \in Part(s[e], U)
      BY <1>2 DEF Below
    <2>2. \A b : b \in Below(t, U) <=> \E e \in 1 .. n - 1 : b \in Part(s[e], U)
      BY <1>3 DEF Below
    <2>3. \A b : b \in Below(t, U) <=> b \in Below(s, U)
      BY <1>3, <2>1, <2>2
    <2>4. QED
      BY <2>3
  <1>5. Apart(t, U)
    BY <1>2, <1>3 DEF Apart, Walking
  <1>6. n = 1 => got = AllOnce(Body)
    <2> SUFFICES ASSUME n = 1
                 PROVE  got = AllOnce(Body)
      OBVIOUS
    <2>1. 1 .. n - 1 = {}
      BY <1>3
    <2>2. Below(t, U) = {}
      BY <1>3, <2>1 DEF Below
    <2>3. Body \ Below(s, U) = Body
      BY <1>4, <2>2
    <2>4. QED
      BY <2>3 DEF Walking
  <1>7. QED
    BY <1>2, <1>4, <1>5, <1>6 DEF Walking, IsLast

\* The part of the top entry is divided in what is taken and what is left.
LEMMA WalkTakes ==
    ASSUME NEW lv, NEW U, TreeOf(lv, U), NEW s, Filled(s), NEW got, Walking(s, got, U),
           NEW t, NEW A, Splits(s, t, A, U)
    PROVE  Divided(s, t, A, U) /\ Walking(t, Plus(got, AllOnce(A)), U)
  <1> USE DEF Filled, Splits
  <1>1. PICK n : n = Len(s)
    OBVIOUS
  <1>2. /\ n \in Nat /\ n \in 1 .. n /\ Len(t) = n /\ s[n].node \in Cells /\ s[n].pos \in Nat
        /\ t[n].node = s[n].node /\ \A e \in 1 .. n : e # n => t[e] = s[e]
    <2>1. /\ Len(s) \in Nat /\ Len(s) \in 1 .. Len(s) /\ Len(t) = Len(s) /\ s[Len(s)].node \in Cells
          /\ s[Len(s)].pos \in Nat /\ t[Len(s)].node = s[Len(s)].node
          /\ \A e \in 1 .. Len(s) : e # Len(s) => t[e] = s[e]
      BY Turned
    <2>2. QED
      BY ONLY <1>1, <2>1
  <1>3. \A e \in 1 .. n : t[e].node = s[e].node /\ Part(t[e], U) \subseteq Part(s[e], U)
    BY <1>1, <1>2
  <1>4. \A d, e \in 1 .. n : d < e => U[s[e].node] \cap Part(s[d], U) = {}
    BY <1>1 DEF Walking, Apart
  <1>5. Apart(t, U)
    BY <1>2, <1>3, <1>4 DEF Apart
  <1>6. A \subseteq U[s[n].node] /\ A \subseteq Body
    <2>1. Part(s[n], U) \subseteq U[s[n].node] /\ U[s[n].node] \subseteq Body
      BY <1>2, RestParts
    <2>2. QED
      BY <1>1, <2>1
  <1>7. ASSUME NEW e \in 1 .. n
        PROVE  A \cap Part(t[e], U) = {}
    <2>1. CASE e = n
      BY <1>1, <2>1
    <2>2. CASE e # n
      <3>1. e < n /\ t[e] = s[e]
        BY <1>2, <2>2
      <3>2. U[s[n].node] \cap Part(s[e], U) = {}
        BY <1>2, <1>4, <3>1
      <3>3. QED
        BY <1>6, <3>1, <3>2
    <2>3. QED
      BY <2>1, <2>2
  <1>8. /\ \A b : b \in Below(s, U) <=> \E e \in 1 .. n : b \in Part(s[e], U)
        /\ \A b : b \in Below(t, U) <=> \E e \in 1 .. n : b \in Part(t[e], U)
    BY <1>1, <1>2 DEF Below
  <1>9. A \cap Below(t, U) = {}
    BY <1>7, <1>8
  <1>10. Below(s, U) = A \cup Below(t, U)
    <2>1. \A b : b \in Below(s, U) => b \in A \/ b \in Below(t, U)
      <3> SUFFICES ASSUME NEW b, b \in Below(s, U)
                   PROVE  b \in A \/ b \in Below(t, U)
        OBVIOUS
      <3>1. PICK e \in 1 .. n : b \in Part(s[e], U)
        BY <1>8
      <3>2. CASE e = n
        BY <1>1, <1>2, <1>8, <3>1, <3>2
      <3>3. CASE e # n
        BY <1>2, <1>8, <3>1, <3>3
      <3>4. QED
        BY <3>2, <3>3
    <2>2. \A b : b \in A => b \in Below(s, U)
      BY <1>1, <1>2, <1>8
    <2>3. \A b : b \in Below(t, U) => b \in Below(s, U)
      BY <1>3, <1>8
    <2>4. QED
      BY <2>1, <2>2, <2>3
  <1>11. Plus(got, AllOnce(A)) = AllOnce(Body \ Below(t, U))
    <2>1. PICK G : G = Body \ Below(s, U)
      OBVIOUS
    <2>2. G \cap A = {} /\ G \cup A = Body \ Below(t, U)
      BY <1>6, <1>9, <1>10, <2>1
    <2>3. got = AllOnce(G)
      BY <2>1 DEF Walking
    <2>4. Plus(AllOnce(G), AllOnce(A)) = AllOnce(G \cup A)
      BY <2>2, PlusOnce
    <2>5. QED
      BY <2>2, <2>3, <2>4
  <1>12. QED
    BY <1>1, <1>2, <1>5, <1>6, <1>7, <1>9, <1>10, <1>11 DEF Walking, Avoids, Divided

\* The cell that is opened comes on the stack.
LEMMA WalkOpens ==
    ASSUME NEW lv, NEW U, TreeOf(lv, U), NEW t, Stack(t), Apart(t, U), NEW n \in Cells,
           Avoids(U[n], t, U), NEW r, r = Append(t, Push(n))
    PROVE  Opened(t, r, U[n], U)
  <1>1. PICK k : k = Len(t)
    OBVIOUS
  <1>2. /\ k \in Nat /\ Len(r) = k + 1 /\ r[k + 1] = Push(n)
        /\ \A e \in 1 .. k : r[e] = t[e]
        /\ \A e : e \in 1 .. k + 1 <=> e \in 1 .. k \/ e = k + 1
    BY <1>1, Pushed
  <1>3. Push(n).node = n /\ Push(n).pos = 0
    BY DEF Push
  <1>4. Part(r[k + 1], U) = U[n] /\ r[k + 1].node = n
    BY <1>2, <1>3, RestParts
  <1>5. Apart(r, U)
    <2> SUFFICES ASSUME NEW d \in 1 .. k + 1, NEW e \in 1 .. k + 1, d < e
                 PROVE  U[r[e].node] \cap Part(r[d], U) = {}
      BY <1>2 DEF Apart
    <2>1. d \in 1 .. k
      BY <1>2
    <2>2. CASE e = k + 1
      BY <1>1, <1>2, <1>4, <2>1, <2>2 DEF Avoids
    <2>3. CASE e \in 1 .. k
      BY <1>1, <1>2, <2>1, <2>3 DEF Apart
    <2>4. QED
      BY <1>2, <2>2, <2>3
  <1>6. Below(r, U) = U[n] \cup Below(t, U)
    <2>1. \A b : b \in Below(r, U) <=> \E e \in 1 .. k + 1 : b \in Part(r[e], U)
      BY <1>2 DEF Below
    <2>2. \A b : b \in Below(t, U) <=> \E e \in 1 .. k : b \in Part(t[e], U)
      BY <1>1 DEF Below
    <2>3. \A b : b \in Below(r, U) <=> b \in U[n] \/ b \in Below(t, U)
      BY <1>2, <1>4, <2>1, <2>2
    <2>4. QED
      BY <2>3
  <1>7. QED
    BY <1>5, <1>6 DEF Opened

\* The walk starts with the root.
LEMMA WalkStarts ==
    ASSUME NEW lv, NEW U, TreeOf(lv, U), Family
    PROVE  Walking(<<Push(NNode)>>, NoMass, U) /\ Stack(<<Push(NNode)>>)
  <1>1. NNode \in Cells /\ U[NNode] = Body
    BY RootUnder
  <1>2. Push(NNode).node = NNode /\ Push(NNode).pos = 0 /\ Push(NNode) \in Entry
    BY <1>1 DEF Push, Entry
  <1>3. Part(Push(NNode), U) = Body
    BY <1>1, <1>2, RestParts
  <1>4. PICK x : x = Push(NNode)
    OBVIOUS
  <1>5. Below(<<x>>, U) = Body
    <2>1. Len(<<x>>) = 1 /\ <<x>>[1] = x
      OBVIOUS
    <2>2. \A b : b \in Below(<<x>>, U) <=> b \in Part(x, U)
      BY <2>1 DEF Below
    <2>3. QED
      BY <1>3, <1>4, <2>2
  <1>6. Apart(<<x>>, U)
    <2>1. \A d, e \in 1 .. Len(<<x>>) : ~(d < e)
      OBVIOUS
    <2>2. QED
      BY <2>1 DEF Apart
  <1>7. NoMass = AllOnce(Body \ Below(<<x>>, U))
    BY <1>5 DEF NoMass, AllOnce
  <1>8. Stack(<<x>>)
    <2>1. x \in Entry
      BY <1>2, <1>4
    <2> HIDE DEF Entry
    <2>2. QED
      BY <2>1 DEF Stack
  <1>9. QED
    BY <1>4, <1>6, <1>7, <1>8 DEF Walking

Weighed(U) == \A m \in Cells : Packed(m) /\ \A n \in Kids(m) : mass[n] = AllOnce(U[n])

Visited(s, t, d, top, n, got, U) ==
  /\ top.pos \notin Sub => Walking(SubSeq(s, 1, d - 1), got, U) /\ (d = 1 => got = AllOnce(Body))
  /\ top.pos \in Sub /\ n < 0 => Walking(t, got, U) /\ Walking(SubSeq(t, 1, d - 1), got, U)
  /\ top.pos \in Sub /\ n >= 0 => Walking(t, Plus(got, mass[n]), U)
  /\ top.pos \in Sub /\ isCell(n) => Walking(Append(t, Push(n)), got, U)

\* One turn of the inner loop.
LEMMA StackVisits ==
    ASSUME NEW lv, NEW U, TreeOf(lv, U), Weighed(U), NEW s, Filled(s), NEW got, Walking(s, got, U),
           NEW d, d = Len(s), NEW top, top = s[d], NEW n, n = child[top.node][top.pos],
           NEW t, t = [s EXCEPT ![d].pos = @ + 1]
    PROVE  Visited(s, t, d, top, n, got, U)
  <1>1. PICK m : m = top.node
    OBVIOUS
  <1>2. /\ d \in Nat /\ d \in 1 .. d /\ m \in Cells /\ top.pos \in Nat /\ Stack(t) /\ Len(t) = d /\ d >= 1
        /\ t[d].node = m /\ t[d].pos = top.pos + 1
    BY <1>1, Turned DEF Filled
  <1>3. PICK x, y : x = s[d] /\ y = t[d]
    OBVIOUS
  <1>4. x.node = m /\ x.pos = top.pos /\ x.pos \in Nat /\ y.node = m /\ y.pos = x.pos + 1 /\ n = child[m][x.pos]
    BY <1>1, <1>2, <1>3
  <1>5. /\ x.pos \notin Sub => Part(x, U) = {}
        /\ x.pos \in Sub /\ ~(n >= 0) => Part(x, U) = {}
        /\ x.pos \in Sub /\ n >= 0 => n \in Kids(m) /\ U[n] \cap Part(y, U) = {} /\ Part(x, U) = U[n] \cup Part(y, U)
    <2>1. Packed(m)
      BY <1>2 DEF Weighed
    <2>2. QED
      BY <1>2, <1>4, <2>1, RestParts
  <1>6. Part(y, U) \subseteq Part(x, U)
    <2>1. \A p \in Sub : p >= y.pos => p >= x.pos
      BY <1>4 DEF Sub
    <2>2. Rest(y) \subseteq Rest(x)
      BY <1>4, <2>1 DEF Rest
    <2>3. QED
      BY <2>2 DEF Part, Sum
  <1>7. x.pos \in Sub => n \in Node \cup {NULL_BODY} /\ NBody \in Nat
    BY <1>2, <1>4, NodeAssumption DEF TreeOf
  <1>8. t = [s EXCEPT ![Len(s)].pos = @ + 1]
    OBVIOUS
  <1>9. ASSUME top.pos \notin Sub
        PROVE  Walking(SubSeq(s, 1, d - 1), got, U) /\ (d = 1 => got = AllOnce(Body))
    <2>1. Spent(s, U)
      BY <1>3, <1>4, <1>5, <1>9 DEF Spent
    <2>2. PICK r : r = SubSeq(s, 1, Len(s) - 1)
      OBVIOUS
    <2>3. Walking(r, got, U) /\ IsLast(s, got)
      BY <2>1, <2>2, WalkPops
    <2>4. QED
      BY <2>2, <2>3 DEF IsLast
  <1>10. ASSUME top.pos \in Sub, n < 0
        PROVE  Walking(t, got, U) /\ Walking(SubSeq(t, 1, d - 1), got, U)
    <2>1. Part(x, U) = {} /\ Part(y, U) = {}
      <3>1. ~(n >= 0)
        BY <1>4, <1>7, <1>10 DEF Node, NULL_BODY
      <3>2. QED
        BY <1>4, <1>5, <1>6, <1>10, <3>1
    <2>2. PICK A : A = {}
      OBVIOUS
    <2>3. Splits(s, t, A, U)
      BY <1>3, <1>8, <2>1, <2>2 DEF Splits
    <2>4. Divided(s, t, A, U)
      BY <2>3, WalkTakes
    <2>5. Apart(t, U) /\ Below(s, U) = Below(t, U)
      BY <2>2, <2>4 DEF Divided
    <2>6. Walking(t, got, U)
      BY <2>5 DEF Walking
    <2>7. Spent(t, U) /\ Filled(t)
      BY <1>2, <1>3, <2>1 DEF Spent, Filled
    <2>8. Walking(SubSeq(t, 1, Len(t) - 1), got, U)
      BY <1>2, <2>6, <2>7, WalkPops
    <2>9. QED
      BY <1>2, <2>6, <2>8
  <1>11. ASSUME top.pos \in Sub, n >= 0
         PROVE  /\ Walking(t, Plus(got, mass[n]), U)
                /\ n \in Kids(m) /\ Divided(s, t, U[n], U)
    <2>1. n \in Kids(m) /\ U[n] \cap Part(t[Len(s)], U) = {} /\ Part(s[Len(s)], U) = U[n] \cup Part(t[Len(s)], U)
      BY <1>3, <1>4, <1>5, <1>11
    <2>2. mass[n] = AllOnce(U[n])
      BY <1>2, <2>1 DEF Weighed
    <2>3. PICK A : A = U[n]
      OBVIOUS
    <2>4. Splits(s, t, A, U)
      BY <1>8, <2>1, <2>3 DEF Splits
    <2>5. Walking(t, Plus(got, AllOnce(A)), U) /\ Divided(s, t, A, U)
      BY <2>4, WalkTakes
    <2>6. QED
      BY <2>1, <2>2, <2>3, <2>5
  <1>12. ASSUME top.pos \in Sub, isCell(n)
         PROVE  Walking(Append(t, Push(n)), got, U)
    <2>1. n >= 0
      BY <1>4, <1>7, <1>12 DEF isCell, Node, NULL_BODY
    <2>2. n \in Kids(m) /\ Divided(s, t, U[n], U)
      BY <1>11, <1>12, <2>1
    <2>3. n \in Cells
      <3>1. n \in Node /\ (n \in Body \/ n \in Cells)
        BY <1>2, <2>2, KidFacts
      <3>2. n \notin Body
        BY <1>4, <1>7, <1>12 DEF isCell, Body
      <3>3. QED
        BY <3>1, <3>2
    <2>4. PICK r : r = Append(t, Push(n))
      OBVIOUS
    <2>5. Apart(t, U) /\ Avoids(U[n], t, U) /\ Below(s, U) = U[n] \cup Below(t, U)
      BY <2>2 DEF Divided
    <2>6. Opened(t, r, U[n], U)
      BY <1>2, <2>3, <2>4, <2>5, WalkOpens
    <2>7. Below(r, U) = Below(s, U) /\ Apart(r, U)
      BY <2>5, <2>6 DEF Opened
    <2>8. QED
      BY <2>4, <2>7 DEF Walking
  <1>13. QED
    BY <1>9, <1>10, <1>11, <1>12 DEF Visited

-----------------------------------------------------------------------------
(* The wavefronts divide the slots among them.                              *)

\* The slots wavefront u comes to.
Has(u, s) == \E p \in Nat : \E l \in 0 .. Warp - 1 : s = u * Warp + l + p * Inc

LEMMA QuotientIs ==
    ASSUME NEW x \in Nat, NEW d \in Nat, d >= 1, NEW g \in Nat, x = g * d
    PROVE  x \div d = g
  <1>1. PICK q : q = x \div d
    OBVIOUS
  <1>2. q \in Nat /\ q * d <= x /\ x < q * d + d
    BY <1>1
  <1>3. PICK r : r = x - q * d
    OBVIOUS
  <1>4. r \in Nat /\ r < d /\ r + q * d = 0 + g * d /\ q * d \in Nat
    BY <1>2, <1>3
  <1>5. q = g
    BY <1>2, <1>4, Quotient
  <1>6. QED
    BY <1>1, <1>5

LEMMA WaveFacts ==
    ASSUME ShapeInv
    PROVE  /\ Warp \in Nat /\ Warp >= 1 /\ Warp <= Inc /\ Inc \in Nat /\ Inc >= 1
           /\ \E m \in Nat : Inc = m * Warp /\ Wave = 0 .. m - 1
  <1>1. /\ Inc \in Nat /\ Inc >= 1 /\ mode.groups \in Nat /\ mode.groups >= 1
        /\ mode.lanes \in Nat /\ mode.lanes >= 1 /\ Inc = mode.groups * mode.lanes
    BY IncNat DEF Inc
  <1>2. Warp \in Nat /\ Warp >= 1 /\ Warp <= Inc
    <2>1. 1 * mode.lanes <= mode.groups * mode.lanes /\ 1 * mode.lanes = mode.lanes
      BY <1>1, Product
    <2>2. QED
      BY <1>1, <2>1 DEF Warp
  <1>3. PICK m : m = IF mode.lockstep THEN mode.groups ELSE Inc
    OBVIOUS
  <1>4. m \in Nat /\ Inc = m * Warp
    BY <1>1, <1>3 DEF Warp
  <1>5. Inc \div Warp = m
    BY <1>1, <1>2, <1>4, QuotientIs
  <1>6. QED
    BY <1>1, <1>2, <1>4, <1>5 DEF Wave

\* The wavefront of a lane.
LEMMA WaveOf ==
    ASSUME ShapeInv, NEW x \in Nat, x < Inc
    PROVE  \E u \in Wave : \E l \in 0 .. Warp - 1 : x = u * Warp + l /\ x \div Warp = u
  <1>1. Warp \in Nat /\ Warp >= 1 /\ Inc \in Nat
    BY WaveFacts
  <1>2. PICK m \in Nat : Inc = m * Warp /\ Wave = 0 .. m - 1
    BY WaveFacts
  <1>3. PICK d, u : d = Warp /\ u = x \div d
    OBVIOUS
  <1>4. d \in Nat /\ d >= 1
    BY <1>1, <1>3
  <1>5. u \in Nat /\ u * d <= x /\ x < u * d + d /\ u * d \in Nat
    BY <1>3, <1>4
  <1>6. ~(m <= u)
    <2> SUFFICES ASSUME m <= u
                 PROVE  FALSE
      OBVIOUS
    <2>1. m * d <= u * d
      BY <1>4, <1>5, Product
    <2>2. QED
      BY <1>1, <1>2, <1>3, <1>5, <2>1
  <1>7. u \in Wave
    BY <1>2, <1>5, <1>6
  <1>8. x - u * d \in 0 .. d - 1 /\ x = u * d + (x - u * d)
    BY <1>4, <1>5
  <1>9. QED
    BY <1>3, <1>7, <1>8

LEMMA ItemWave ==
    ASSUME ShapeInv, NEW w \in Item
    PROVE  Gid(w) \div Warp \in Wave
  <1>1. Gid(w) \in Nat /\ Gid(w) < Inc
    BY GidRange
  <1>2. QED
    BY <1>1, WaveOf

LEMMA WaveRange ==
    ASSUME ShapeInv, NEW u \in Wave
    PROVE  u \in Nat /\ u * Warp \in Nat /\ u * Warp + Warp <= Inc
  <1>1. Warp \in Nat /\ Warp >= 1 /\ Inc \in Nat
    BY WaveFacts
  <1>2. PICK m \in Nat : Inc = m * Warp /\ Wave = 0 .. m - 1
    BY WaveFacts
  <1>3. u \in Nat /\ u + 1 \in Nat /\ u + 1 <= m
    BY <1>2
  <1>4. (u + 1) * Warp <= m * Warp /\ (u + 1) * Warp = u * Warp + Warp /\ u * Warp \in Nat
    <2>1. (u + 1) * Warp <= m * Warp
      BY <1>1, <1>2, <1>3, Product
    <2>2. (u + 1) * Warp = u * Warp + Warp /\ u * Warp \in Nat
      BY <1>1, <1>3
    <2>3. QED
      BY <2>1, <2>2
  <1>5. QED
    BY <1>2, <1>3, <1>4

\* Every slot belongs to one.
LEMMA EveryHas ==
    ASSUME ShapeInv, NEW s \in Nat
    PROVE  \E u \in Wave : Has(u, s)
  <1>1. Inc \in Nat /\ Inc >= 1
    BY WaveFacts
  <1>2. PICK q, x \in Nat : x < Inc /\ s = x + q * Inc
    BY <1>1, Division
  <1>3. PICK u \in Wave, l \in 0 .. Warp - 1 : x = u * Warp + l
    BY <1>2, WaveOf
  <1>4. s = u * Warp + l + q * Inc
    BY <1>2, <1>3
  <1>5. QED
    BY <1>3, <1>4 DEF Has

\* The slots up to the next turn of a wavefront.
LEMMA HasNext ==
    ASSUME ShapeInv, NEW u \in Wave, NEW s, Has(u, s), NEW k, NEW p \in Nat, k = u * Warp + p * Inc, s < k + Inc
    PROVE  s \in Nat /\ k \in Nat /\ (s < k \/ s \in k .. k + Warp - 1)
  <1>1. Warp \in Nat /\ Warp >= 1 /\ Warp <= Inc /\ Inc \in Nat /\ Inc >= 1
    BY WaveFacts
  <1>2. u * Warp \in Nat /\ u * Warp + Warp <= Inc
    BY WaveRange
  <1>3. PICK q \in Nat, l \in 0 .. Warp - 1 : s = u * Warp + l + q * Inc
    BY DEF Has
  <1>4. p * Inc \in Nat /\ q * Inc \in Nat /\ p + 1 \in Nat /\ q + 1 \in Nat
    BY <1>1
  <1>5. (p + 1) * Inc = p * Inc + Inc /\ (q + 1) * Inc = q * Inc + Inc
    BY <1>1
  <1>6. ~(p + 1 <= q)
    <2> SUFFICES ASSUME p + 1 <= q
                 PROVE  FALSE
      OBVIOUS
    <2>1. (p + 1) * Inc <= q * Inc
      BY <1>1, <1>4, Product
    <2>2. QED
      BY <1>1, <1>2, <1>3, <1>4, <1>5, <2>1
  <1>7. CASE q = p
    BY <1>1, <1>2, <1>3, <1>4, <1>7
  <1>8. CASE q # p
    <2>1. q + 1 <= p
      BY <1>6, <1>8
    <2>2. (q + 1) * Inc <= p * Inc
      BY <1>1, <1>4, <2>1, Product
    <2>3. QED
      BY <1>1, <1>2, <1>3, <1>4, <1>5, <2>2
  <1>9. QED
    BY <1>7, <1>8

\* The slots before the first turn of launch c.
LEMMA HasBefore ==
    ASSUME ShapeInv, NEW u \in Wave, NEW c \in Nat, NEW s, Has(u, s), s < u * Warp + Offset(c)
    PROVE  c >= 1 /\ s \in Nat /\ s < Offset(c)
  <1>1. Warp \in Nat /\ Warp >= 1 /\ Warp <= Inc /\ Inc \in Nat /\ Inc >= 1
    BY WaveFacts
  <1>2. u * Warp \in Nat /\ u * Warp + Warp <= Inc
    BY WaveRange
  <1>3. PICK q \in Nat, l \in 0 .. Warp - 1 : s = u * Warp + l + q * Inc
    BY DEF Has
  <1>4. c * Inc \in Nat /\ q * Inc \in Nat /\ q + 1 \in Nat /\ Offset(c) = c * Inc
    BY <1>1 DEF Offset
  <1>5. (q + 1) * Inc = q * Inc + Inc
    BY <1>1
  <1>6. ~(c <= q)
    <2> SUFFICES ASSUME c <= q
                 PROVE  FALSE
      OBVIOUS
    <2>1. c * Inc <= q * Inc
      BY <1>1, Product
    <2>2. QED
      BY <1>1, <1>2, <1>3, <1>4, <2>1
  <1>7. (q + 1) * Inc <= c * Inc
    <2>1. q + 1 <= c
      BY <1>6
    <2>2. QED
      BY <1>1, <1>4, <2>1, Product
  <1>8. c >= 1
    BY <1>6
  <1>9. s \in Nat /\ s < Offset(c)
    BY <1>1, <1>2, <1>3, <1>4, <1>5, <1>7
  <1>10. QED
    BY <1>8, <1>9

\* The accelerations of the body in slot s are stored.
Done(s) == sort[s] \in Body => acc[sort[s]] = AllOnce(Body)
Serves(u, k) == \A s \in Body : Has(u, s) /\ s < k /\ s < Bound(pass) => Done(s)

\* Wavefront u with registers R.
Walked(u, R, U) ==
  /\ \E p \in Nat : R.k = u * Warp + p * Inc
  /\ R.pc \in {"walk", "save", "exit"} /\ (R.pc = "exit" => ~(R.k < Bound(pass)))
  /\ R.pc = "walk" => Walking(R.stack, R.got, U)
  /\ R.pc = "save" => R.got = AllOnce(Body)
  /\ Serves(u, R.k)
Walkers(U) == \A u \in Wave : Walked(u, fw[u], U)

LEMMA SameWalking ==
    ASSUME UNCHANGED child, NEW s, NEW got, NEW U, Walking(s, got, U)
    PROVE  Walking(s, got, U)'
  <1>1. \A x : Part(x, U)' = Part(x, U)
    BY DEF Part, Rest, Kids, Sum
  <1>2. Below(s, U)' = Below(s, U) /\ (Apart(s, U) => Apart(s, U)')
    BY <1>1 DEF Below, Apart
  <1>3. QED
    BY <1>2 DEF Walking, AllOnce, Body

LEMMA SameServes ==
    ASSUME UNCHANGED <<mode, pass, sort>>, \A b \in Body : acc[b] = AllOnce(Body) => acc'[b] = AllOnce(Body)
    PROVE  \A u, k : Serves(u, k) => Serves(u, k)'
  <1>1. \A u, s : Has(u, s)' <=> Has(u, s)
    BY DEF Has, Warp, Inc
  <1>2. Bound(pass)' = Bound(pass)
    BY DEF Bound, Inc
  <1>3. \A s : Done(s) => Done(s)'
    BY DEF Done, AllOnce, Body
  <1>4. QED
    BY <1>1, <1>2, <1>3 DEF Serves, Body

LEMMA WalkedMoves ==
    ASSUME NEW U, NEW u, NEW R, NEW M, Walked(u, R, U), M.k = R.k, M.pc \in {"walk", "save", "exit"},
           M.pc = "exit" => R.pc = "exit",
           M.pc = "walk" => Walking(M.stack, M.got, U), M.pc = "save" => M.got = AllOnce(Body),
           UNCHANGED <<mode, child, sort, pass>>, \A b \in Body : acc[b] = AllOnce(Body) => acc'[b] = AllOnce(Body)
    PROVE  Walked(u, M, U)'
  <1>1. Warp' = Warp /\ Inc' = Inc /\ Bound(pass)' = Bound(pass)
    BY DEF Warp, Inc, Bound
  <1>2. PICK k, s, g, c : k = M.k /\ s = M.stack /\ g = M.got /\ c = M.pc
    OBVIOUS
  <1>3. Serves(u, k)'
    BY <1>2, SameServes DEF Walked
  <1>4. c = "walk" => Walking(s, g, U)'
    BY <1>2, SameWalking
  <1>5. c = "save" => (g = AllOnce(Body))'
    BY <1>2 DEF AllOnce, Body
  <1>6. (\E p \in Nat : k = u * Warp + p * Inc)'
    BY <1>1, <1>2 DEF Walked
  <1>7. c = "exit" => ~(k < Bound(pass))'
    BY <1>1, <1>2 DEF Walked
  <1>8. c \in {"walk", "save", "exit"}
    BY <1>2
  <1>9. QED
    BY <1>2, <1>3, <1>4, <1>5, <1>6, <1>7, <1>8 DEF Walked

LEMMA VisitWalked ==
    ASSUME NEW lv, NEW U, TreeOf(lv, U), Weighed(U), NEW l, WalkInv(l), Walkers(U), NEW u \in Wave, Visit(u)
    PROVE  Walkers(U)'
  <1>1. PICK R, s, got : R = fw[u] /\ s = R.stack /\ got = R.got
    OBVIOUS
  <1>2. UNCHANGED <<mode, child, sort, acc, pass>> /\ R.pc = "walk"
    BY <1>1 DEF Visit, AtForce, buffers, host
  <1>3. /\ fw = [v \in Wave |-> fw[v]] /\ R = [f \in WalkRegisters |-> R[f]] /\ Walked(u, R, U)
        /\ Filled(s) /\ Walking(s, got, U)
    <2>1. Walked(u, R, U) /\ IsStack(s, l) /\ Len(s) >= 1
      BY <1>1, <1>2 DEF WalkInv, Walkers
    <2>2. Filled(s)
      BY <2>1 DEF IsStack, Filled, Stack, Entry
    <2>3. QED
      BY <1>1, <1>2, <2>1, <2>2 DEF WalkInv, IsRecord, Walked
  <1>4. PICK d, top : d = Len(s) /\ top = s[d]
    OBVIOUS
  <1>5. PICK n, t : n = child[top.node][top.pos] /\ t = [s EXCEPT ![d].pos = @ + 1]
    OBVIOUS
  <1>6. /\ top.pos \notin Sub => Walking(SubSeq(s, 1, d - 1), got, U) /\ (d = 1 => got = AllOnce(Body))
        /\ top.pos \in Sub /\ n < 0 => Walking(t, got, U) /\ Walking(SubSeq(t, 1, d - 1), got, U)
        /\ top.pos \in Sub /\ n >= 0 => Walking(t, Plus(got, mass[n]), U)
        /\ top.pos \in Sub /\ isCell(n) => Walking(Append(t, Push(n)), got, U)
    <2>1. Visited(s, t, d, top, n, got, U)
      BY <1>3, <1>4, <1>5, StackVisits
    <2>2. QED
      BY <2>1 DEF Visited
  <1>7. \A v \in Wave : v # u => fw'[v] = fw[v]
    <2>1. \E x, y, z, q : fw' = [fw EXCEPT ![u].stack = q, ![u].pc = x] \/ fw' = [fw EXCEPT ![u].stack = q]
                       \/ fw' = [fw EXCEPT ![u].stack = q, ![u].got = y, ![u].self = z]
      BY DEF Visit
    <2>2. QED
      BY <1>3, <2>1
  <1>8. ASSUME NEW q, NEW x, NEW g, NEW z, fw'[u] = [R EXCEPT !.stack = q, !.pc = x, !.got = g, !.self = z],
               x \in {"walk", "save"}, x = "walk" => Walking(q, g, U), x = "save" => g = AllOnce(Body)
        PROVE  Walkers(U)'
    <2>1. PICK M : M = fw'[u]
      OBVIOUS
    <2>2. M.stack = q /\ M.pc = x /\ M.got = g /\ M.k = R.k
      BY <1>3, <1>8, <2>1 DEF WalkRegisters
    <2>3. Walked(u, M, U)'
      BY <1>2, <1>3, <1>8, <2>2, WalkedMoves
    <2>4. ASSUME NEW v \in Wave, v # u
          PROVE  Walked(v, fw[v], U)'
      <3>1. PICK S : S = fw[v]
        OBVIOUS
      <3>2. Walked(v, S, U)
        BY <3>1 DEF Walkers
      <3>3. /\ S.pc \in {"walk", "save", "exit"} /\ (S.pc = "walk" => Walking(S.stack, S.got, U))
            /\ S.pc = "save" => S.got = AllOnce(Body)
        BY <3>2 DEF Walked
      <3>4. Walked(v, S, U)'
        BY <1>2, <3>2, <3>3, WalkedMoves
      <3>5. fw'[v] = S
        BY <1>7, <2>4, <3>1
      <3>6. QED
        BY <3>4, <3>5 DEF Walked
    <2>5. Walked(u, fw[u], U)'
      BY <2>1, <2>3 DEF Walked
    <2>6. Wave' = Wave
      BY <1>2 DEF Wave, Inc, Warp
    <2>7. QED
      BY <2>4, <2>5, <2>6 DEF Walkers
  <1>9. CASE top.pos \notin Sub /\ fw' = [fw EXCEPT ![u].stack = SubSeq(@, 1, d - 1), ![u].pc = IF d = 1 THEN "save" ELSE "walk"]
    <2>1. PICK q, x : q = SubSeq(s, 1, d - 1) /\ x = IF d = 1 THEN "save" ELSE "walk"
      OBVIOUS
    <2>2. fw'[u] = [R EXCEPT !.stack = q, !.pc = x]
      BY <1>1, <1>3, <1>9, <2>1
    <2>3. fw'[u] = [R EXCEPT !.stack = q, !.pc = x, !.got = got, !.self = R.self]
      BY <1>1, <1>3, <2>2
    <2>4. x \in {"walk", "save"} /\ (x = "walk" => Walking(q, got, U)) /\ (x = "save" => got = AllOnce(Body))
      BY <1>6, <1>9, <2>1
    <2>5. QED
      BY <1>8, <2>3, <2>4
  <1>10. ASSUME NEW q, fw' = [fw EXCEPT ![u].stack = q], Walking(q, got, U)
         PROVE  Walkers(U)'
    <2>1. fw'[u] = [R EXCEPT !.stack = q]
      BY <1>1, <1>3, <1>10
    <2>2. fw'[u] = [R EXCEPT !.stack = q, !.pc = "walk", !.got = R.got, !.self = R.self]
      BY <1>2, <1>3, <2>1
    <2>3. QED
      BY <1>1, <1>8, <1>10, <2>2
  <1>11. CASE top.pos \in Sub /\ n < 0 /\ fw' = [fw EXCEPT ![u].stack = IF d = 1 THEN t ELSE SubSeq(t, 1, d - 1)]
    <2>1. PICK q : q = IF d = 1 THEN t ELSE SubSeq(t, 1, d - 1)
      OBVIOUS
    <2>2. Walking(q, got, U)
      BY <1>6, <1>11, <2>1
    <2>3. QED
      BY <1>10, <1>11, <2>1, <2>2
  <1>12. CASE /\ top.pos \in Sub /\ n >= 0
              /\ fw' = [fw EXCEPT ![u].stack = t, ![u].got = Plus(@, mass[n]), ![u].self = @ \cup {n}]
    <2>1. PICK g, z : g = Plus(got, mass[n]) /\ z = R.self \cup {n}
      OBVIOUS
    <2>2. fw'[u] = [R EXCEPT !.stack = t, !.got = g, !.self = z]
      BY <1>1, <1>3, <1>12, <2>1
    <2>3. fw'[u] = [R EXCEPT !.stack = t, !.pc = "walk", !.got = g, !.self = z]
      BY <1>2, <1>3, <2>2
    <2>4. Walking(t, g, U)
      BY <1>6, <1>12, <2>1
    <2>5. QED
      BY <1>8, <2>3, <2>4
  <1>13. CASE top.pos \in Sub /\ isCell(n) /\ fw' = [fw EXCEPT ![u].stack = Append(t, Push(n))]
    <2>1. PICK q : q = Append(t, Push(n))
      OBVIOUS
    <2>2. QED
      BY <1>6, <1>10, <1>13, <2>1
  <1>14. QED
    BY <1>1, <1>4, <1>5, <1>9, <1>11, <1>12, <1>13 DEF Visit

LEMMA SlotFields ==
    ASSUME NEW k, NEW b
    PROVE  /\ FromSlot(k, b).k = k /\ FromSlot(k, b).pc = (IF k < b THEN "walk" ELSE "exit")
           /\ FromSlot(k, b).stack = <<Push(NNode)>> /\ FromSlot(k, b).got = NoMass
  <1> DEFINE label == IF k < b THEN "walk" ELSE "exit"
             root == <<Push(NNode)>>
             R == [pc |-> label, k |-> k, stack |-> root, got |-> NoMass, self |-> {}]
  <1>1. FromSlot(k, b) = R
    BY DEF FromSlot
  <1> HIDE DEF label, root
  <1>2. R.k = k /\ R.pc = label /\ R.stack = root /\ R.got = NoMass
    OBVIOUS
  <1>3. QED
    BY <1>1, <1>2 DEF label, root

\* A wavefront that comes to slot k.
LEMMA SlotWalked ==
    ASSUME NEW lv, NEW U, TreeOf(lv, U), Family, NEW u, NEW k, NEW p \in Nat, k = u * Warp + p * Inc, UNCHANGED <<mode, child>>,
           Serves(u, k)', NEW R, R = FromSlot(k, Bound(pass)')
    PROVE  Walked(u, R, U)'
  <1>1. Warp' = Warp /\ Inc' = Inc
    BY DEF Warp, Inc
  <1>2. PICK s, g, b : s = <<Push(NNode)>> /\ g = NoMass /\ b = Bound(pass)'
    OBVIOUS
  <1>3. R.k = k /\ R.pc = (IF k < b THEN "walk" ELSE "exit") /\ R.stack = s /\ R.got = g
    BY <1>2, SlotFields
  <1>4. Walking(s, g, U)'
    <2>1. Walking(s, g, U)
      BY <1>2, WalkStarts
    <2>2. QED
      BY <2>1, SameWalking
  <1>5. (\E q \in Nat : k = u * Warp + q * Inc)'
    BY <1>1
  <1>6. R.pc = "exit" => ~(k < Bound(pass)')
    BY <1>2, <1>3
  <1>7. QED
    BY <1>3, <1>4, <1>5, <1>6 DEF Walked

LEMMA SaveWalked ==
    ASSUME NEW lv, NEW U, TreeOf(lv, U), Family, ShapeInv, NEW l, WalkInv(l), Walkers(U), NEW u \in Wave, Save(u)
    PROVE  Walkers(U)'
  <1>1. PICK R, k, L : R = fw[u] /\ k = R.k /\ L = Lanes(u)
    OBVIOUS
  <1>2. /\ UNCHANGED <<mode, child, sort, pass>> /\ R.pc = "save"
        /\ acc' = [b \in Body |-> IF b \in L THEN R.got ELSE acc[b]]
    BY <1>1 DEF Save, AtForce, host
  <1>3. Walked(u, R, U) /\ R.got = AllOnce(Body)
    BY <1>1, <1>2 DEF Walkers, Walked
  <1>4. \A b \in Body : acc'[b] = IF b \in L THEN AllOnce(Body) ELSE acc[b]
    BY <1>2, <1>3
  <1>5. \A b \in Body : acc[b] = AllOnce(Body) => acc'[b] = AllOnce(Body)
    BY <1>4
  <1>6. PICK p \in Nat : k = u * Warp + p * Inc
    BY <1>1, <1>3 DEF Walked
  <1>7. fw' = [fw EXCEPT ![u] = FromSlot(@.k + Inc, Bound(pass))] /\ fw = [v \in Wave |-> fw[v]]
    BY DEF Save, WalkInv
  <1>8. Wave' = Wave /\ Bound(pass)' = Bound(pass)
    BY <1>2 DEF Wave, Inc, Warp, Bound
  <1>9. fw'[u] = FromSlot(k + Inc, Bound(pass)') /\ \A v \in Wave : v # u => fw'[v] = fw[v]
    BY <1>1, <1>7, <1>8
  <1>10. Serves(u, k + Inc)'
    <2>1. ASSUME NEW s \in Body, Has(u, s), s < k + Inc, s < Bound(pass)
          PROVE  Done(s)'
      <3>1. s \in Nat /\ k \in Nat /\ (s < k \/ s \in k .. k + Warp - 1)
        BY <1>6, <2>1, HasNext
      <3>2. CASE s < k
        <4>1. Done(s)
          BY <1>1, <1>3, <2>1, <3>2 DEF Walked, Serves
        <4>2. QED
          BY <1>2, <1>5, <4>1 DEF Done, AllOnce, Body
      <3>3. CASE s \in k .. k + Warp - 1
        <4>1. sort[s] \in L
          BY <1>1, <2>1, <3>3 DEF Lanes
        <4>2. sort[s] \in Body => acc'[sort[s]] = AllOnce(Body)
          BY <1>4, <4>1
        <4>3. QED
          BY <1>2, <4>2 DEF Done, AllOnce, Body
      <3>4. QED
        BY <3>1, <3>2, <3>3
    <2>2. \A s : Has(u, s)' <=> Has(u, s)
      BY <1>2 DEF Has, Warp, Inc
    <2>3. PICK j : j = k + Inc
      OBVIOUS
    <2>4. Serves(u, j)'
      BY <1>8, <2>1, <2>2, <2>3 DEF Serves, Body
    <2>5. Inc' = Inc
      BY <1>2 DEF Inc
    <2>6. QED
      BY <2>3, <2>4, <2>5 DEF Serves
  <1>11. Walked(u, fw[u], U)'
    <2>1. PICK j, M : j = k + Inc /\ M = fw'[u]
      OBVIOUS
    <2>2. p + 1 \in Nat /\ j = u * Warp + (p + 1) * Inc
      <3>1. Inc \in Nat /\ Warp \in Nat /\ u * Warp \in Nat
        BY WaveFacts, WaveRange
      <3>2. p * Inc \in Nat /\ (p + 1) * Inc = p * Inc + Inc
        BY <3>1
      <3>3. QED
        BY <1>6, <2>1, <3>1, <3>2
    <2>3. Serves(u, j)'
      <3>1. Inc' = Inc
        BY <1>2 DEF Inc
      <3>2. QED
        BY <1>10, <2>1, <3>1 DEF Serves
    <2>4. M = FromSlot(j, Bound(pass)')
      BY <1>9, <2>1
    <2>5. Walked(u, M, U)'
      BY <1>2, <2>2, <2>3, <2>4, SlotWalked
    <2>6. QED
      BY <2>1, <2>5 DEF Walked
  <1>12. ASSUME NEW v \in Wave, v # u
         PROVE  Walked(v, fw[v], U)'
    <2>1. PICK S : S = fw[v]
      OBVIOUS
    <2>2. Walked(v, S, U)
      BY <2>1 DEF Walkers
    <2>3. /\ S.pc \in {"walk", "save", "exit"} /\ (S.pc = "walk" => Walking(S.stack, S.got, U))
          /\ S.pc = "save" => S.got = AllOnce(Body)
      BY <2>2 DEF Walked
    <2>4. Walked(v, S, U)'
      BY <1>2, <1>5, <2>2, <2>3, WalkedMoves
    <2>5. fw'[v] = S
      BY <1>9, <1>12, <2>1
    <2>6. QED
      BY <2>4, <2>5 DEF Walked
  <1>13. QED
    BY <1>8, <1>11, <1>12 DEF Walkers

LEMMA ForceLaunched ==
    ASSUME NEW lv, NEW U, TreeOf(lv, U), Family, ShapeInv, NEW c \in Nat, LaunchForce(c), pass' = c,
           UNCHANGED <<mode, child, sort, acc>>, \A s \in Body : c >= 1 /\ s < Offset(c) => Done(s)
    PROVE  Walkers(U)'
  <1>1. Wave' = Wave /\ Warp' = Warp /\ Inc' = Inc /\ Bound(pass)' = Bound(c) /\ Offset(c)' = Offset(c)
    BY DEF Wave, Inc, Warp, Bound, Offset
  <1>2. ASSUME NEW u \in Wave
        PROVE  Walked(u, fw[u], U)'
    <2>1. PICK k, M : k = u * Warp + Offset(c) /\ M = fw'[u]
      OBVIOUS
    <2>2. k = u * Warp + c * Inc
      BY <2>1 DEF Offset
    <2>3. M = FromSlot(k, Bound(pass)')
      BY <1>1, <2>1 DEF LaunchForce
    <2>4. Serves(u, k)'
      <3>1. ASSUME NEW s \in Body, Has(u, s), s < k
            PROVE  Done(s)'
        <4>1. Done(s)
          BY <2>1, <3>1, HasBefore
        <4>2. QED
          BY <4>1 DEF Done, AllOnce, Body
      <3>2. \A s : Has(u, s)' <=> Has(u, s)
        BY DEF Has, Warp, Inc
      <3>3. QED
        BY <3>1, <3>2 DEF Serves, Body
    <2>5. Walked(u, M, U)'
      BY <2>2, <2>3, <2>4, SlotWalked
    <2>6. QED
      BY <2>1, <2>5 DEF Walked
  <1>3. QED
    BY <1>1, <1>2 DEF Walkers

\* All wavefronts have left.
LEMMA ForceEnded ==
    ASSUME NEW U, ShapeInv, pass \in Nat, Walkers(U), \A u \in Wave : fw[u].pc = "exit", NEW s \in Body, s < Bound(pass)
    PROVE  Done(s)
  <1>1. s \in Nat
    BY NodeAssumption DEF Body
  <1>2. PICK u \in Wave : Has(u, s)
    BY <1>1, EveryHas
  <1>3. PICK R : R = fw[u]
    OBVIOUS
  <1>4. Walked(u, R, U) /\ R.pc = "exit"
    BY <1>3 DEF Walkers
  <1>5. PICK p \in Nat : R.k = u * Warp + p * Inc
    BY <1>4 DEF Walked
  <1>6. R.k \in Nat
    <2>1. Inc \in Nat /\ u * Warp \in Nat
      BY WaveFacts, WaveRange
    <2>2. p * Inc \in Nat
      BY <2>1
    <2>3. QED
      BY <1>5, <2>1, <2>2
  <1>7. ~(R.k < Bound(pass)) /\ Bound(pass) \in Nat
    BY <1>4, BoundRange DEF Walked
  <1>8. s < R.k
    BY <1>1, <1>6, <1>7
  <1>9. QED
    BY <1>2, <1>4, <1>8 DEF Walked, Serves

LEMMA ForceNext ==
    ASSUME NEW lv, NEW U, TreeOf(lv, U), Family, ShapeInv, pass \in Nat, Walkers(U), \A u \in Wave : fw[u].pc = "exit",
           LaunchForce(pass + 1), pass' = pass + 1, UNCHANGED <<mode, child, sort, acc>>
    PROVE  Walkers(U)'
  <1>1. PICK c : c = pass + 1
    OBVIOUS
  <1>2. c \in Nat /\ LaunchForce(c) /\ pass' = c
    BY <1>1
  <1>3. ASSUME NEW s \in Body, s < Offset(c)
        PROVE  Done(s)
    <2>1. s < Bound(pass)
      BY <1>1, <1>3, ChunkBounds
    <2>2. QED
      BY <2>1, ForceEnded
  <1>4. QED
    BY <1>2, <1>3, ForceLaunched

LEMMA ForceFirst ==
    ASSUME NEW lv, NEW U, TreeOf(lv, U), Family, ShapeInv, LaunchForce(0), pass' = 0, UNCHANGED <<mode, child, sort, acc>>
    PROVE  Walkers(U)'
  <1>1. PICK c : c = 0
    OBVIOUS
  <1>2. c \in Nat /\ LaunchForce(c) /\ pass' = c /\ ~(c >= 1)
    BY <1>1
  <1>3. QED
    BY <1>2, ForceLaunched

LEMMA ForceLast ==
    ASSUME NEW U, ShapeInv, pass \in Nat, Walkers(U), \A u \in Wave : fw[u].pc = "exit", ~(pass + 1 < Chunks), Placed
    PROVE  \A b \in Body : acc[b] = AllOnce(Body)
  <1>1. ASSUME NEW b \in Body
        PROVE  acc[b] = AllOnce(Body)
    <2>1. PICK s \in Body : sort[s] = b
      BY DEF Placed
    <2>2. Bound(pass) = NBody
      BY ChunkBounds
    <2>3. s < Bound(pass)
      BY <2>2, NodeAssumption DEF Body
    <2>4. Done(s)
      BY <2>3, ForceEnded
    <2>5. QED
      BY <2>1, <2>4 DEF Done
  <1>2. QED
    BY <1>1

-----------------------------------------------------------------------------
(* What forceCalculation relies on, in every phase of a time step.          *)

Starts ==
  /\ start = [n \in Node |-> start[n]]
  /\ phase = "box" /\ BoxDone = Group => start[NNode] = 0
  /\ phase \in {"build", "sumclear"} => start[NNode] = 0
  /\ phase = "sum" => \A c \in Cells : start[c] = IF c = NNode THEN 0 ELSE NULL_BODY

Forces(lv, U, at) ==
  /\ Sums(lv, U) /\ Family
  /\ phase = "sort" => Sorts(lv, U, at)
  /\ phase \in {"quad", "tree", "force"} => Placed
  /\ phase = "force" => Walkers(U)
  /\ phase = "integrate" => \A b \in Body : acc[b] = AllOnce(Body)

LEMMA KeptFamily ==
    ASSUME Family, UNCHANGED child, ts'.bottom = ts.bottom
    PROVE  Family' /\ Cells' = Cells
  <1>1. Cells' = Cells /\ \A m \in Cells : Kids(m)' = Kids(m)
    BY DEF Cells, Kids
  <1>2. QED
    BY <1>1, SameFamily

LEMMA KeptPlaced ==
    ASSUME Placed, UNCHANGED sort
    PROVE  Placed'
  BY DEF Placed, Body

\* Moving the children of a cell leaves them its children.
LEMMA ScanFamily ==
    ASSUME NEW lv, NEW U, TreeOf(lv, U), Climb(lv, U), Types, SumInv, ShapeInv, Family, NEW w \in Item, Scan(w)
    PROVE  Family'
  <1>1. PICK R, k : R = sm[w] /\ k = R.k
    OBVIOUS
  <1>2. /\ R.pc = "scan" /\ R.i \in Sub /\ R.j \in 0 .. R.i
        /\ UNCHANGED <<mode, mass, quad, count, written, ts, phase, hostDepth, pass>>
        /\ \/ UNCHANGED child
           \/ /\ child[R.k][R.i] >= 0 /\ R.i # R.j
              /\ child' = [child EXCEPT ![R.k][R.i] = NULL_BODY, ![R.k][R.j] = child[R.k][R.i]]
    BY <1>1, ScanTurns
  <1>3. k \in Cells /\ Climbs(w, R, lv, U) /\ sm[w].pc # "exit"
    BY <1>1, <1>2, AtCell
  <1>4. Adds(R, lv, U)
    BY <1>2, <1>3 DEF Climbs, Adding
  <1>5. CASE UNCHANGED child
    BY <1>2, <1>5, KeptFamily
  <1>6. CASE /\ child[R.k][R.i] >= 0 /\ R.i # R.j
             /\ child' = [child EXCEPT ![R.k][R.i] = NULL_BODY, ![R.k][R.j] = child[R.k][R.i]]
    <2>1. R.i = 1 /\ R.j = 0
      BY <1>2, <1>6 DEF Sub
    <2>2. child[k][0] = NULL_BODY /\ child' = [child EXCEPT ![k][1] = NULL_BODY, ![k][0] = child[k][1]]
      BY <1>1, <1>2, <1>4, <1>6, <2>1 DEF Adds
    <2>3. Cells' = Cells /\ (\A m \in Cells : Kids(m)' = Kids(m))
      BY <1>2, <1>3, <2>2, MovedKids
    <2>4. QED
      BY <2>3, SameFamily
  <1>7. QED
    BY <1>2, <1>5, <1>6

LEMMA ItemForces ==
    ASSUME NEW lv, NEW U, NEW at, Forces(lv, U, at), Starts, Packs, ShapeInv, SumInv, Words, Types, NumInv,
           hostDepth \in Nat, pass \in Nat, NEW w \in Item, SumItem(w)
    PROVE  Forces(lv, U, at)' /\ Starts' /\ Packs'
  <1>1. /\ phase \in {"sum", "quad"} /\ UNCHANGED <<phase, mode, start, sort>>
        /\ UNCHANGED ts \/ ts' = [ts EXCEPT !.errorCode = "structure"]
        /\ ~Scan(w) => UNCHANGED child
    BY DEF SumItem, Scan, Poll, Store, SetReady, NextCell, AtSum, host, buffers
  <1>2. ts'.bottom = ts.bottom
    BY <1>1, StatusStored
  <1>3. Sums(lv, U) /\ TreeOf(lv, U) /\ Climb(lv, U) /\ Family
    BY <1>1 DEF Forces, Sums
  <1>4. Sums(lv, U)'
    BY <1>3, SumItemSums
  <1>5. Family' /\ Cells' = Cells
    <2>1. Cells' = Cells
      BY <1>2 DEF Cells
    <2>2. CASE Scan(w)
      BY <1>3, <2>1, <2>2, ScanFamily
    <2>3. CASE ~Scan(w)
      BY <1>1, <1>2, <1>3, <2>3, KeptFamily
    <2>4. QED
      BY <2>1, <2>2, <2>3
  <1>6. Packs'
    BY <1>1, <1>3, ItemPacks
  <1>7. phase = "quad" => Placed'
    BY <1>1, KeptPlaced DEF Forces
  <1>8. Starts'
    BY <1>1, <1>5 DEF Starts, NULL_BODY
  <1>9. Forces(lv, U, at)'
    BY <1>1, <1>4, <1>5, <1>7 DEF Forces
  <1>10. QED
    BY <1>6, <1>8, <1>9

LEMMA SortForces ==
    ASSUME NEW lv, NEW U, NEW at, Forces(lv, U, at), Starts, Packs, ShapeInv, SumInv, pass \in Nat,
           NEW w \in Item, SortCell(w)
    PROVE  Forces(lv, U, at)' /\ Starts' /\ Packs'
  <1>1. phase = "sort" /\ UNCHANGED <<mode, child, mass, quad, count, written, ts, phase, hostDepth, pass>>
    BY DEF SortCell, host
  <1>2. Sums(lv, U) /\ TreeOf(lv, U) /\ Family /\ Sorts(lv, U, at) /\ Counts(U)
    BY <1>1 DEF Forces, Sums, Counts
  <1>3. Sums(lv, U)'
    BY <1>1, <1>2, RestSums
  <1>4. Family' /\ Cells' = Cells
    BY <1>1, <1>2, KeptFamily
  <1>5. Sorts(lv, U, at)'
    BY <1>2, SortCellSorts
  <1>6. Packs'
    BY <1>1, <1>4, RestPacks
  <1>7. start' = [n \in Node |-> start'[n]]
    BY DEF SortCell, Starts
  <1>8. Starts'
    BY <1>1, <1>7 DEF Starts
  <1>9. Forces(lv, U, at)'
    BY <1>1, <1>3, <1>4, <1>5 DEF Forces
  <1>10. QED
    BY <1>6, <1>8, <1>9

LEMMA ClearForces ==
    ASSUME NEW up, NEW lv, NEW reg, NEW own, Finished(up, lv, reg, own), ShapeInv', hostDepth = ts.maxDepth, NumInv,
           Words, pass = 0, mass[NNode] = NotReady, Starts, summarizationClear
    PROVE  (\E U, at : Forces(lv, U, at)') /\ Starts' /\ Packs'
  <1>1. PICK U : Sums(lv, U)'
    BY ClearSums
  <1>2. /\ phase = "sumclear" /\ phase' = "sum" /\ UNCHANGED <<mode, child, ts>>
        /\ mass' = [n \in Node |-> IF n \in ts.bottom .. NNode - 1 THEN NotReady ELSE mass[n]]
        /\ start' = [n \in Node |-> IF n \in ts.bottom .. NNode - 1 THEN NULL_BODY ELSE start[n]]
        /\ sm' = [w \in Item |-> FromCell(FirstCell(w), Unfinished)]
    BY DEF summarizationClear
  <1>3. Family' /\ Cells' = Cells
    BY <1>2, FinishedFamily, KeptFamily
  <1>4. \A c \in Cells : c \in Node /\ (c \in ts.bottom .. NNode - 1 <=> c # NNode)
    <2>1. \A c \in Cells : c \in Node
      BY FinishedFacts
    <2>2. PICK V : TreeOf(lv, V)
      BY FinishedTree
    <2>3. NNode \in Nat /\ ts.bottom \in Nat
      BY <2>2, KidFacts
    <2>4. QED
      BY <2>1, <2>3 DEF Cells
  <1>5. \A c \in Cells : mass'[c] = NotReady
    BY <1>2, <1>4
  <1>6. Packs'
    <2>1. PICK ready, f : ready = Unfinished /\ f = [w \in Item |-> FirstCell(w)]
      OBVIOUS
    <2>2. sm' = [w \in Item |-> FromCell(f[w], ready)]
      BY <1>2, <2>1
    <2>3. \A c \in Cells' : mass'[c] # NotReady => Packed(c)
      BY <1>3, <1>5
    <2>4. QED
      BY <1>2, <2>2, <2>3, LaunchPacks
  <1>7. Starts'
    <2>1. start[NNode] = 0
      BY <1>2 DEF Starts
    <2>2. \A c \in Cells' : start'[c] = IF c = NNode THEN 0 ELSE NULL_BODY
      BY <1>2, <1>3, <1>4, <2>1
    <2>3. start' = [n \in Node |-> start'[n]]
      BY <1>2
    <2>4. QED
      BY <1>2, <2>2, <2>3 DEF Starts, NULL_BODY
  <1>8. \A at : Forces(lv, U, at)'
    BY <1>1, <1>2, <1>3 DEF Forces
  <1>9. QED
    BY <1>6, <1>7, <1>8

\* The host between the launches of summarization, sort and quadMoments.
LEMMA AgainForces ==
    ASSUME NEW lv, NEW U, NEW at, Forces(lv, U, at), Starts, Packs, ShapeInv, ShapeInv', NumInv, Fit, hostDepth \in Nat,
           pass \in Nat, SumAgain \/ SortAgain \/ QuadAgain
    PROVE  (\E to : Forces(lv, U, to)') /\ Starts' /\ Packs'
  <1>1. /\ UNCHANGED <<mode, child, mass, quad, count, written, start, sort, acc, hostDepth>>
        /\ UNCHANGED ts \/ ts' = [ts EXCEPT !.errorCode = "depth"]
        /\ phase \in {"sum", "sort", "quad"} /\ phase' \in {"sum", "sort", "quad", "tree"}
    BY DEF SumAgain, SortAgain, QuadAgain, buffers
  <1>2. ts'.bottom = ts.bottom
    BY <1>1, StatusStored
  <1>3. Sums(lv, U) /\ TreeOf(lv, U) /\ Family
    BY DEF Forces, Sums
  <1>4. Family' /\ Cells' = Cells
    BY <1>1, <1>2, <1>3, KeptFamily
  <1>5. Sums(lv, U)'
    BY <1>3, SumAgainSums, SortAgainSums, QuadAgainSums
  <1>6. Packs'
    BY <1>1, <1>2, <1>3, <1>5, HostPacks
  <1>7. Starts'
    <2>1. phase' = "sum" => phase = "sum"
      BY DEF SumAgain, SortAgain, QuadAgain
    <2>2. QED
      BY <1>1, <1>4, <2>1 DEF Starts, NULL_BODY
  <1>8. CASE SumAgain
    <2>1. phase = "sum" /\ phase' \in {"sum", "sort"} /\ UNCHANGED ts
      BY <1>8 DEF SumAgain
    <2>2. CASE phase' = "sum"
      <3>1. Forces(lv, U, at)'
        BY <1>4, <1>5, <2>2 DEF Forces
      <3>2. QED
        BY <1>6, <1>7, <3>1
    <2>3. CASE phase' = "sort"
      <3>1. LaunchSort /\ pass' = 0
        BY <1>8, <2>1, <2>3 DEF SumAgain
      <3>2. PICK to : InOrder(to, U)
        BY <1>3, OrderExists
      <3>3. \A c \in Cells : start[c] = IF c = NNode THEN 0 ELSE NULL_BODY
        BY <2>1 DEF Starts
      <3>4. Sorts(lv, U, to)'
        BY <1>1, <1>3, <2>1, <3>1, <3>2, <3>3, SortFirst
      <3>5. Forces(lv, U, to)'
        BY <1>4, <1>5, <2>3, <3>4 DEF Forces
      <3>6. QED
        BY <1>6, <1>7, <3>5
    <2>4. QED
      BY <2>1, <2>2, <2>3
  <1>9. CASE SortAgain
    <2>1. phase = "sort" /\ SortEnded /\ Sorts(lv, U, at)
      BY <1>9 DEF SortAgain, Forces
    <2>2. CASE pass + 1 < hostDepth
      <3>1. pass' = pass + 1 /\ LaunchSort /\ UNCHANGED <<phase, ts>>
        BY <1>9, <2>2 DEF SortAgain
      <3>2. Sorts(lv, U, at)'
        BY <1>1, <1>3, <2>1, <3>1, SortNext
      <3>3. Forces(lv, U, at)'
        BY <1>4, <1>5, <2>1, <3>1, <3>2 DEF Forces
      <3>4. QED
        BY <1>6, <1>7, <3>3
    <2>3. CASE ~(pass + 1 < hostDepth)
      <3>1. phase' \in {"quad", "tree"}
        BY <1>9, <2>3 DEF SortAgain
      <3>2. Placed
        BY <1>3, <2>1, <2>3, SortLast
      <3>3. Placed'
        BY <1>1, <3>2, KeptPlaced
      <3>4. Forces(lv, U, at)'
        BY <1>4, <1>5, <3>1, <3>3 DEF Forces
      <3>5. QED
        BY <1>6, <1>7, <3>4
    <2>4. QED
      BY <2>2, <2>3
  <1>10. CASE QuadAgain
    <2>1. phase = "quad" /\ phase' \in {"quad", "tree"}
      BY <1>10 DEF QuadAgain
    <2>2. Placed'
      BY <1>1, <2>1, KeptPlaced DEF Forces
    <2>3. Forces(lv, U, at)'
      BY <1>4, <1>5, <2>1, <2>2 DEF Forces
    <2>4. QED
      BY <1>6, <1>7, <2>3
  <1>11. QED
    BY <1>8, <1>9, <1>10

\* The children are at the front, and each has the mass under it.
LEMMA SumsWeigh ==
    ASSUME NEW lv, NEW U, Sums(lv, U), Words, Packs, phase = "force"
    PROVE  Weighed(U)
  <1>1. TreeOf(lv, U) /\ (\A c \in Cells : mass[c] = AllOnce(U[c])) /\ \A c \in Cells : Packed(c)
    BY DEF Sums, Packs
  <1>2. \A b \in Body : mass[b] = AllOnce(U[b])
    BY <1>1, UnitOnce DEF Words, TreeOf
  <1>3. \A m \in Cells : \A n \in Kids(m) : n \in Body \/ n \in Cells
    BY <1>1, KidFacts
  <1>4. QED
    BY <1>1, <1>2, <1>3 DEF Weighed

LEMMA WalkForces ==
    ASSUME NEW lv, NEW U, NEW at, Forces(lv, U, at), Starts, Packs, ShapeInv, Words, NEW l, WalkInv(l), NEW u \in Wave,
           Visit(u) \/ Save(u)
    PROVE  Forces(lv, U, at)' /\ Starts' /\ Packs'
  <1>1. /\ phase = "force" /\ UNCHANGED <<mode, child, mass, quad, count, written, start, sort, phase, hostDepth>>
        /\ UNCHANGED ts \/ ts' = [ts EXCEPT !.errorCode = "incest"]
    BY DEF Visit, Save, AtForce, host, buffers
  <1>2. ts'.bottom = ts.bottom
    BY <1>1, StatusStored
  <1>3. Sums(lv, U) /\ TreeOf(lv, U) /\ Family /\ Placed /\ Walkers(U)
    BY <1>1 DEF Forces, Sums
  <1>4. Family' /\ Cells' = Cells
    BY <1>1, <1>2, <1>3, KeptFamily
  <1>5. Sums(lv, U)'
    BY <1>1, <1>2, <1>3, RestSums
  <1>6. Packs'
    BY <1>1, <1>4, RestPacks
  <1>7. Starts'
    BY <1>1 DEF Starts
  <1>8. Placed'
    BY <1>1, <1>3, KeptPlaced
  <1>9. Walkers(U)'
    <2>1. Weighed(U)
      BY <1>1, <1>3, SumsWeigh
    <2>2. Visit(u) => Walkers(U)'
      BY <1>3, <2>1, VisitWalked
    <2>3. Save(u) => Walkers(U)'
      BY <1>3, SaveWalked
    <2>4. QED
      BY <2>2, <2>3
  <1>10. Forces(lv, U, at)'
    BY <1>1, <1>4, <1>5, <1>8, <1>9 DEF Forces
  <1>11. QED
    BY <1>6, <1>7, <1>10

LEMMA ForceHostForces ==
    ASSUME NEW lv, NEW U, NEW at, Forces(lv, U, at), Starts, Packs, ShapeInv, NumInv, Fit, pass \in Nat, ForceHost
    PROVE  Forces(lv, U, at)' /\ Starts' /\ Packs'
  <1>1. ts.maxDepth <= MaxDepth
    BY DEF Fit
  <1>2. CASE BeginForce
    <2>1. ~(ts.maxDepth > MaxDepth)
      BY <1>1, DepthAssumption DEF NumInv
    <2>2. /\ phase = "tree" /\ phase' = "force" /\ LaunchForce(0) /\ pass' = 0
          /\ UNCHANGED <<mode, child, mass, quad, count, written, start, sort, acc, hostDepth, ts>>
      BY <1>2, <2>1 DEF BeginForce, buffers
    <2>3. Sums(lv, U) /\ TreeOf(lv, U) /\ Family /\ Placed
      BY <2>2 DEF Forces, Sums
    <2>4. Family' /\ Cells' = Cells
      BY <2>2, <2>3, KeptFamily
    <2>5. Sums(lv, U)'
      BY <2>2, <2>3, RestSums
    <2>6. Packs'
      BY <2>2, <2>4, RestPacks
    <2>7. Placed' /\ Starts'
      BY <2>2, <2>3, KeptPlaced DEF Starts
    <2>8. Walkers(U)'
      BY <2>2, <2>3, ForceFirst
    <2>9. Forces(lv, U, at)'
      BY <2>2, <2>4, <2>5, <2>7, <2>8 DEF Forces
    <2>10. QED
      BY <2>6, <2>7, <2>9
  <1>3. CASE ForceAgain
    <2>1. /\ phase = "force" /\ phase' \in {"force", "integrate"} /\ \A u \in Wave : fw[u].pc = "exit"
          /\ UNCHANGED <<mode, child, mass, quad, count, written, start, sort, acc, hostDepth, ts>>
      BY <1>3 DEF ForceAgain, buffers
    <2>2. Sums(lv, U) /\ TreeOf(lv, U) /\ Family /\ Placed /\ Walkers(U)
      BY <2>1 DEF Forces, Sums
    <2>3. Family' /\ Cells' = Cells
      BY <2>1, <2>2, KeptFamily
    <2>4. Sums(lv, U)'
      BY <2>1, <2>2, RestSums
    <2>5. Packs'
      BY <2>1, <2>3, RestPacks
    <2>6. Placed' /\ Starts'
      BY <2>1, <2>2, KeptPlaced DEF Starts
    <2>7. CASE pass + 1 < Chunks
      <3>1. pass' = pass + 1 /\ LaunchForce(pass + 1) /\ UNCHANGED phase
        BY <1>3, <2>7 DEF ForceAgain
      <3>2. Walkers(U)'
        BY <2>1, <2>2, <3>1, ForceNext
      <3>3. Forces(lv, U, at)'
        BY <2>1, <2>3, <2>4, <2>6, <3>1, <3>2 DEF Forces
      <3>4. QED
        BY <2>5, <2>6, <3>3
    <2>8. CASE ~(pass + 1 < Chunks)
      <3>1. phase' = "integrate"
        BY <1>3, <2>8 DEF ForceAgain
      <3>2. \A b \in Body : acc[b] = AllOnce(Body)
        BY <2>1, <2>2, <2>8, ForceLast
      <3>3. \A b \in Body : acc'[b] = AllOnce(Body)
        BY <2>1, <3>2
      <3>4. (\A b \in Body : acc[b] = AllOnce(Body))'
        BY <3>3 DEF AllOnce, Body
      <3>5. Forces(lv, U, at)'
        BY <2>3, <2>4, <3>1, <3>4 DEF Forces
      <3>6. QED
        BY <2>5, <2>6, <3>5
    <2>9. QED
      BY <2>7, <2>8
  <1>4. QED
    BY <1>2, <1>3 DEF ForceHost

ForceState == Fit => Starts /\ Packs /\ (phase \in After => \E lv, U, at : Forces(lv, U, at))
Forced == Summed /\ ForceState

LEMMA ForcedFacts ==
    ASSUME Summed, Fit
    PROVE  /\ ShapeInv /\ SumInv /\ Words /\ Types /\ NumInv /\ pass \in Nat /\ ts.maxDepth \in Nat
           /\ phase \in After => hostDepth \in Nat
  <1>1. SumInv /\ Types /\ NumInv /\ pass \in Nat /\ ts.maxDepth \in Nat
    BY DEF Summed, Loads, Device, DeviceInv, NumInv
  <1>2. ShapeInv
    BY DeviceShape DEF Summed, Loads
  <1>3. Words /\ (phase \in After => hostDepth = ts.maxDepth)
    BY DEF Summed, SumState
  <1>4. QED
    BY <1>1, <1>2, <1>3

\* buildTree leaves the array start alone.
LEMMA ForceBuild ==
    ASSUME ForceState, Fit, phase = "build",
           (\E w \in Item : BuildItem(w)) \/ (\E g \in Group : GroupStart(g) \/ Barrier(g) \/ Sync(g))
    PROVE  ForceState'
  <1>1. ASSUME NEW w \in Item, BuildItem(w)
        PROVE  UNCHANGED <<start, phase>>
    BY <1>1 DEF BuildItem, WhileDead, WhileMore, Read, TryLock, Insert, Alloc, Overflow, Fill, Link,
           Publish, Skip, Leave, Loaded, keep, host, At
  <1>2. ASSUME NEW g \in Group, GroupStart(g) \/ Barrier(g) \/ Sync(g)
        PROVE  UNCHANGED <<start, phase>>
    BY <1>2 DEF GroupStart, Barrier, Sync, keep, host
  <1>3. UNCHANGED <<start, phase>>
    BY <1>1, <1>2
  <1>4. QED
    BY <1>3 DEF ForceState, Starts, Packs, After

LEMMA ForceBox ==
    ASSUME ForceState, Fit, Device, Device', Fit', NEW g \in Group, BoxReduce(g) \/ BoxCount(g)
    PROVE  ForceState'
  <1>1. phase = "box" /\ UNCHANGED <<mode, phase>>
    BY DEF BoxReduce, BoxCount, host, buffers
  <1>2. BoxInv /\ BoxInv' /\ Starts
    BY <1>1 DEF Device, DeviceInv, ForceState
  <1>3. BoxDone # Group
    BY DEF BoxReduce, BoxCount, BoxDone
  <1>4. Group' = Group /\ ShapeInv
    BY <1>1 DEF Group, Device, FaultInv
  <1>5. CASE BoxReduce(g)
    <2>1. UNCHANGED start /\ box' = [box EXCEPT ![g] = [pc |-> "count", ext |-> Extent({pos[b] : b \in Scanned(g)})]]
      BY <1>5 DEF BoxReduce, buffers
    <2>2. box'[g].pc = "count"
      BY <1>2, <2>1 DEF BoxInv
    <2>3. BoxDone' # Group'
      BY <1>4, <2>2 DEF BoxDone
    <2>4. QED
      BY <1>1, <1>2, <2>1, <2>3 DEF ForceState, Starts, Packs, After
  <1>6. CASE BoxCount(g)
    <2>1. CASE ts.blkCnt = mode.groups - 1
      <3>1. start' = [start EXCEPT ![NNode] = 0]
        BY <1>6, <2>1 DEF BoxCount
      <3>2. NNode \in Node
        BY NodeAssumption DEF Node
      <3>3. start' = [n \in Node |-> start'[n]] /\ start'[NNode] = 0
        BY <1>2, <3>1, <3>2 DEF Starts
      <3>4. QED
        BY <1>1, <3>3 DEF ForceState, Starts, Packs, After
    <2>2. CASE ts.blkCnt # mode.groups - 1
      <3>1. UNCHANGED start /\ ts' = [ts EXCEPT !.blkCnt = @ + 1]
        BY <1>6, <2>2 DEF BoxCount
      <3>2. ts.blkCnt = Cardinality(BoxDone)
        BY <1>2, <1>3 DEF BoxInv
      <3>3. IsFiniteSet(BoxDone)
        BY <1>4, GroupCount, FS_Subset DEF BoxDone
      <3>4. ts.blkCnt \in Nat
        BY <3>2, <3>3, FS_CardinalityType
      <3>5. ts'.blkCnt = ts.blkCnt + 1
        BY <1>4, <3>1 DEF ShapeInv, IsRecord, StatusFields
      <3>6. BoxDone' # Group'
        BY <1>2, <3>4, <3>5 DEF BoxInv
      <3>7. QED
        BY <1>1, <1>2, <3>1, <3>6 DEF ForceState, Starts, Packs, After
    <2>3. QED
      BY <2>1, <2>2
  <1>7. QED
    BY <1>5, <1>6

LEMMA ForceBuildHost ==
    ASSUME ForceState, Fit, BuildHost
    PROVE  ForceState'
  <1>1. UNCHANGED start
    BY DEF BuildHost, buildTreeClear, NextChunk, Repeat, buffers
  <1>2. /\ (phase = "box" /\ BoxDone = Group) \/ phase = "build"
        /\ phase' \in {"build", "sumclear", "error", "stuck"}
    <2>1. CASE buildTreeClear
      BY <2>1 DEF buildTreeClear, BoxDone
    <2>2. CASE NextChunk
      BY <2>2 DEF NextChunk, BuildEnded
    <2>3. CASE Repeat
      BY <2>3 DEF Repeat, BuildEnded
    <2>4. QED
      BY <2>1, <2>2, <2>3 DEF BuildHost
  <1>3. start[NNode] = 0 /\ start = [n \in Node |-> start[n]]
    BY <1>2 DEF ForceState, Starts
  <1>4. QED
    BY <1>1, <1>2, <1>3 DEF ForceState, Starts, Packs, After

LEMMA ForceSum ==
    ASSUME Forced, Fit, ShapeInv', (\E w \in Item : SumItem(w) \/ SortCell(w)) \/ SumHost
    PROVE  ForceState'
  <1>1. /\ ShapeInv /\ SumInv /\ Words /\ Types /\ NumInv /\ pass \in Nat /\ ts.maxDepth \in Nat
        /\ phase \in After => hostDepth \in Nat
    BY ForcedFacts DEF Forced
  <1>2. Starts /\ Packs
    BY DEF Forced, ForceState
  <1>3. CASE summarizationClear
    <2>1. phase = "sumclear"
      BY <1>3 DEF summarizationClear
    <2>2. IsTree /\ loaded = Body /\ \A w \in Item : bt[w].pc = "exit"
      BY <2>1 DEF Forced, Summed, Loads, Device, DeviceInv, LoadInv
    <2>3. PICK up, lv, reg, own : Finished(up, lv, reg, own)
      BY <2>2 DEF IsTree, Finished
    <2>4. pass = 0 /\ hostDepth = ts.maxDepth /\ mass[NNode] = NotReady
      BY <2>1 DEF Forced, Summed, SumState
    <2>5. (\E U, at : Forces(lv, U, at)') /\ Starts' /\ Packs'
      BY <1>1, <1>2, <1>3, <2>3, <2>4, ClearForces
    <2>6. \E l, V, to : Forces(l, V, to)'
      BY <2>5
    <2>7. QED
      BY <2>5, <2>6 DEF ForceState
  <1>4. CASE ~summarizationClear
    <2>1. phase \in {"sum", "sort", "quad"}
      BY <1>4 DEF SumItem, Scan, Poll, Store, SetReady, NextCell, AtSum, SortCell, SumHost, SumAgain, SortAgain, QuadAgain
    <2>2. hostDepth \in Nat /\ \E lv, U, at : Forces(lv, U, at)
      BY <1>1, <2>1 DEF Forced, ForceState, After
    <2>3. PICK lv, U, at : Forces(lv, U, at)
      BY <2>2
    <2>4. CASE \E w \in Item : SumItem(w) \/ SortCell(w)
      <3>1. PICK w \in Item : SumItem(w) \/ SortCell(w)
        BY <2>4
      <3>2. Forces(lv, U, at)' /\ Starts' /\ Packs'
        BY <1>1, <1>2, <2>2, <2>3, <3>1, ItemForces, SortForces
      <3>3. \E l, V, to : Forces(l, V, to)'
        BY <3>2
      <3>4. QED
        BY <3>2, <3>3 DEF ForceState
    <2>5. CASE SumAgain \/ SortAgain \/ QuadAgain
      <3>1. (\E to : Forces(lv, U, to)') /\ Starts' /\ Packs'
        BY <1>1, <1>2, <2>2, <2>3, <2>5, AgainForces
      <3>2. \E l, V, to : Forces(l, V, to)'
        BY <3>1
      <3>3. QED
        BY <3>1, <3>2 DEF ForceState
    <2>6. QED
      BY <1>4, <2>4, <2>5 DEF SumHost
  <1>5. QED
    BY <1>3, <1>4

LEMMA ForceForce ==
    ASSUME Forced, Fit, (\E u \in Wave : Visit(u) \/ Save(u)) \/ ForceHost
    PROVE  ForceState'
  <1>1. ShapeInv /\ Words /\ NumInv /\ pass \in Nat
    BY ForcedFacts DEF Forced
  <1>2. Starts /\ Packs
    BY DEF Forced, ForceState
  <1>3. phase \in {"tree", "force"}
    BY DEF Visit, Save, AtForce, ForceHost, BeginForce, ForceAgain
  <1>4. \E lv, U, at : Forces(lv, U, at)
    BY <1>3 DEF Forced, ForceState, After
  <1>5. PICK lv, U, at : Forces(lv, U, at)
    BY <1>4
  <1>6. Forces(lv, U, at)' /\ Starts' /\ Packs'
    <2>1. CASE ForceHost
      BY <1>1, <1>2, <1>5, <2>1, ForceHostForces
    <2>2. CASE \E u \in Wave : Visit(u) \/ Save(u)
      <3>1. PICK u \in Wave : Visit(u) \/ Save(u)
        BY <2>2
      <3>2. phase = "force"
        BY <3>1 DEF Visit, Save, AtForce
      <3>3. PICK l : WalkInv(l)
        BY <3>2 DEF Forced, Summed, Loads, Device, DeviceInv, After
      <3>4. QED
        BY <1>1, <1>2, <1>5, <3>1, <3>3, WalkForces
    <2>3. QED
      BY <2>1, <2>2
  <1>7. \E l, V, to : Forces(l, V, to)'
    BY <1>6
  <1>8. QED
    BY <1>6, <1>7 DEF ForceState

LEMMA ForceIntegration ==
    ASSUME ForceState, Fit, ShapeInv', integration
    PROVE  ForceState'
  <1>1. phase = "integrate" /\ phase' \in {"done", "box", "error"} /\ UNCHANGED <<mode, start>> /\ box' = Idle[1]
    BY DEF integration
  <1>2. BoxDone' # Group'
    <2>1. Idle[1] = [g \in Group |-> [pc |-> "scan", ext |-> <<0, 0>>]]
      BY DEF Idle
    <2>2. Group' = Group
      BY <1>1 DEF Group
    <2>3. 0 \in Group'
      BY ModeAssumption DEF ShapeInv, Group
    <2>4. box'[0].pc = "scan"
      BY <1>1, <2>1, <2>2, <2>3
    <2>5. QED
      BY <2>3, <2>4 DEF BoxDone
  <1>3. QED
    BY <1>1, <1>2 DEF ForceState, Starts, Packs, After

LEMMA StutterSorts ==
    ASSUME UNCHANGED vars, NEW lv, NEW U, NEW at, Sorts(lv, U, at)
    PROVE  Sorts(lv, U, at)'
  <1>1. UNCHANGED <<mode, child, start, sort, ts, pass, sm>>
    BY DEF vars, host, work, buffers
  <1>2. Cells' = Cells /\ \A c : Hands(c, at) <=> Hands(c, at)'
    BY <1>1, SameHands DEF Cells
  <1>3. Item' = Item /\ \A v, c : Takes(v, c)' <=> Takes(v, c)
    BY <1>1, SameTakes
  <1>4. InOrder(at, U)'
    BY <1>1, <1>2, SameOrder DEF Sorts
  <1>5. ASSUME NEW w \in Item
        PROVE  Hand(w, sm[w].k, lv, at)'
    <2>1. PICK k : k = sm[w].k
      OBVIOUS
    <2>2. Hand(w, k, lv, at)
      BY <2>1 DEF Sorts
    <2>3. Hand(w, k, lv, at)'
      BY <1>1, <1>2, <1>3, <2>2 DEF Hand
    <2>4. QED
      BY <1>1, <2>1, <2>3 DEF Hand
  <1>6. (\A c \in Cells : lv[c] <= pass => Hands(c, at))'
    BY <1>1, <1>2 DEF Sorts
  <1>7. (\A c \in Cells : start[c] \in {NULL_BODY, at[c]})'
    BY <1>1, <1>2 DEF Sorts, NULL_BODY
  <1>8. QED
    BY <1>1, <1>3, <1>4, <1>5, <1>6, <1>7 DEF Sorts

LEMMA StutterWalkers ==
    ASSUME UNCHANGED vars, NEW U, Walkers(U)
    PROVE  Walkers(U)'
  <1>1. UNCHANGED <<mode, child, sort, pass, acc, fw>>
    BY DEF vars, host, work, buffers
  <1>2. Wave' = Wave
    BY <1>1 DEF Wave, Inc, Warp
  <1>3. ASSUME NEW v \in Wave
        PROVE  Walked(v, fw[v], U)'
    <2>1. PICK S : S = fw[v]
      OBVIOUS
    <2>2. Walked(v, S, U)
      BY <2>1 DEF Walkers
    <2>3. /\ S.pc \in {"walk", "save", "exit"} /\ (S.pc = "walk" => Walking(S.stack, S.got, U))
          /\ S.pc = "save" => S.got = AllOnce(Body)
      BY <2>2 DEF Walked
    <2>4. Walked(v, S, U)'
      BY <1>1, <2>2, <2>3, WalkedMoves
    <2>5. fw'[v] = S
      BY <1>1, <2>1
    <2>6. QED
      BY <2>4, <2>5 DEF Walked
  <1>4. QED
    BY <1>2, <1>3 DEF Walkers

LEMMA StutterPacks ==
    ASSUME UNCHANGED vars, Packs
    PROVE  Packs'
  <1>1. UNCHANGED <<mode, child, mass, ts, phase, sm>>
    BY DEF vars, host, work, buffers
  <1>2. Cells' = Cells /\ Item' = Item /\ \A m : Packed(m) <=> Packed(m)'
    BY <1>1, SamePacked, SameItems DEF Cells
  <1>3. \A w \in Item : PackedBy(sm[w]) => PackedBy(sm[w])'
    BY <1>1, <1>2 DEF PackedBy
  <1>4. QED
    BY <1>1, <1>2, <1>3 DEF Packs

LEMMA ForceStutter ==
    ASSUME ForceState, Fit, UNCHANGED vars
    PROVE  ForceState'
  <1>1. UNCHANGED <<mode, child, start, sort, acc, ts, phase, box>>
    BY DEF vars, host, work, buffers
  <1>2. Starts'
    <2>1. BoxDone' = BoxDone /\ Group' = Group /\ Cells' = Cells /\ Starts
      BY <1>1 DEF BoxDone, Group, Cells, ForceState
    <2>2. QED
      BY <1>1, <2>1 DEF Starts, NULL_BODY
  <1>3. Packs'
    BY StutterPacks DEF ForceState
  <1>4. ASSUME NEW lv, NEW U, NEW at, Forces(lv, U, at)
        PROVE  Forces(lv, U, at)'
    <2>1. Sums(lv, U)' /\ Family'
      BY <1>1, <1>4, StutterSums, KeptFamily DEF Forces
    <2>2. (phase = "sort" => Sorts(lv, U, at)') /\ (phase = "force" => Walkers(U)')
      BY <1>4, StutterSorts, StutterWalkers DEF Forces
    <2>3. phase \in {"quad", "tree", "force"} => Placed'
      BY <1>1, <1>4, KeptPlaced DEF Forces
    <2>4. phase = "integrate" => (\A b \in Body : acc[b] = AllOnce(Body))'
      BY <1>1, <1>4 DEF Forces, AllOnce, Body
    <2>5. QED
      BY <1>1, <2>1, <2>2, <2>3, <2>4 DEF Forces
  <1>5. phase \in After => \E lv, U, at : Forces(lv, U, at)'
    <2> SUFFICES ASSUME phase \in After
                 PROVE  \E lv, U, at : Forces(lv, U, at)'
      OBVIOUS
    <2>1. \E lv, U, at : Forces(lv, U, at)
      BY DEF ForceState
    <2>2. PICK lv, U, at : Forces(lv, U, at)
      BY <2>1
    <2>3. QED
      BY <1>4, <2>2
  <1>6. QED
    BY <1>1, <1>2, <1>3, <1>5 DEF ForceState, After

LEMMA ForcedNext == Forced /\ [Next]_vars => Forced'
  <1> SUFFICES ASSUME Forced, [Next]_vars
               PROVE  Forced'
    OBVIOUS
  <1>1. Summed /\ Summed' /\ Device /\ Device' /\ ForceState
    BY SummedNext DEF Forced, Summed, Loads
  <1>2. ShapeInv /\ ShapeInv' /\ (Fit' => Fit)
    BY <1>1, DeviceStep
  <1>3. SUFFICES ASSUME Fit', Fit
                 PROVE  ForceState'
    BY <1>1, <1>2 DEF Forced, ForceState
  <1>4. ASSUME NEW w \in Item, ItemStep(w)
        PROVE  ForceState'
    <2>1. w[1] \in Group /\ Gid(w) \div Warp \in Wave
      BY <1>2, ItemWave DEF Item
    <2>2. \/ BuildItem(w) \/ SumItem(w) \/ SortCell(w) \/ BuildGroup(w[1])
          \/ \E u \in Wave : Visit(u) \/ Save(u)
      BY <1>4, <2>1 DEF ItemStep
    <2>3. BuildGroup(w[1]) => \/ BoxReduce(w[1]) \/ BoxCount(w[1])
                              \/ GroupStart(w[1]) \/ Barrier(w[1]) \/ Sync(w[1])
      BY DEF BuildGroup
    <2>4. CASE BuildItem(w)
      <3>1. phase = "build"
        BY <2>4 DEF BuildItem, WhileDead, WhileMore, Read, TryLock, Insert, Alloc, Overflow, Fill, Link, Publish, Skip, Leave, At
      <3>2. QED
        BY <1>1, <1>3, <2>4, <3>1, ForceBuild
    <2>5. CASE SumItem(w) \/ SortCell(w)
      BY <1>2, <1>3, <2>5, ForceSum
    <2>6. CASE BoxReduce(w[1]) \/ BoxCount(w[1])
      BY <1>1, <1>3, <2>1, <2>6, ForceBox
    <2>7. CASE GroupStart(w[1]) \/ Barrier(w[1]) \/ Sync(w[1])
      <3>1. phase = "build"
        BY <1>2, <2>1, <2>7, GroupStartDoes, BarrierDoes, SyncDoes
      <3>2. QED
        BY <1>1, <1>3, <2>1, <2>7, <3>1, ForceBuild
    <2>8. CASE \E u \in Wave : Visit(u) \/ Save(u)
      BY <1>3, <2>8, ForceForce
    <2>9. QED
      BY <2>2, <2>3, <2>4, <2>5, <2>6, <2>7, <2>8
  <1>5. CASE HostStep
    BY <1>1, <1>2, <1>3, <1>5, ForceBuildHost, ForceSum, ForceForce, ForceIntegration DEF HostStep
  <1>6. CASE UNCHANGED vars
    BY <1>1, <1>3, <1>6, ForceStutter
  <1>7. QED
    BY <1>4, <1>5, <1>6 DEF Next

LEMMA ForcedFirst == Init => Forced
  <1> SUFFICES ASSUME Init
               PROVE  Forced
    OBVIOUS
  <1>1. Summed
    BY SummedFirst
  <1>2. ShapeInv
    BY <1>1, DeviceShape DEF Summed, Loads
  <1>3. phase = "box" /\ box = Idle[1] /\ start = [n \in Node |-> 0]
    BY DEF Init
  <1>4. BoxDone # Group
    <2>1. Idle[1] = [g \in Group |-> [pc |-> "scan", ext |-> <<0, 0>>]]
      BY DEF Idle
    <2>2. 0 \in Group
      BY <1>2, ModeAssumption DEF ShapeInv, Group
    <2>3. QED
      BY <1>3, <2>1, <2>2 DEF BoxDone
  <1>5. start = [n \in Node |-> start[n]]
    BY <1>3
  <1>6. QED
    BY <1>1, <1>3, <1>4, <1>5 DEF Forced, ForceState, Starts, Packs, After

(* Invariant: the array sort is filled from the root down, a level more     *)
(* with each launch; what a wavefront has added up is the bodies that are   *)
(* not below the entries of its stack, each once; and every body has a slot *)
(* that some wavefront comes to.                                            *)
THEOREM ForcedInvariant == Spec => []Forced
  <1>1. QED
    BY ForcedFirst, ForcedNext, PTL DEF Spec

(* Whatever cells the walk of forceCalculation accepts, every body is acted *)
(* on by the mass of every body exactly once.                               *)
THEOREM EveryMassActsOnce == Spec => []EachMassOnce
  <1>1. Forced => EachMassOnce
    <2> SUFFICES ASSUME Forced, Sound, phase = "integrate"
                 PROVE  \A b \in Body : acc[b] = AllOnce(Body)
      BY DEF EachMassOnce
    <2>1. Fit
      BY SoundFits DEF Forced, Summed, Loads
    <2>2. QED
      BY <2>1 DEF Forced, ForceState, After, Forces
  <1>2. QED
    BY <1>1, ForcedInvariant, PTL
=============================================================================
