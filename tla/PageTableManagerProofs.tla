------------------------ MODULE PageTableManagerProofs ------------------------
(***************************************************************************)
(* Theorems about the page tables, for tables of any size, any memory, any *)
(* frames the allocator may have and any devices.                          *)
(*                                                                         *)
(* The tables are a tree of four levels: the table of a level is the same  *)
(* for two pages exactly when their indices above that level agree.        *)
(***************************************************************************)
EXTENDS PageTableManager, FunctionTheorems, FiniteSetTheorems, WellFoundedInduction, TLAPS

-----------------------------------------------------------------------------
(* Lemmas about numbers.                                                     *)

\* A set of numbers that is not empty has a smallest one, and Min finds it.
LEMMA MinIs ==
    ASSUME NEW S \in SUBSET Nat, S # {}
    PROVE  Min(S) \in S /\ \A y \in S : Min(S) <= y
<1> DEFINE R == OpToRel(<, Nat)
<1>1. IsWellFoundedOn(R, Nat)
  BY NatLessThanWellFounded
<1>2. \E k \in S : \A m \in S : <<m, k>> \notin R
  <2> HIDE DEF R
  <2> QED
    BY <1>1, WFMin
<1>3. PICK k \in S : \A m \in S : ~(m < k)
  BY <1>2 DEF OpToRel
<1>4. \A y \in S : k <= y
  BY <1>3
<1> QED
  BY <1>4 DEF Min

\* A number is what its quotient and its remainder say.
LEMMA DivMod ==
    ASSUME NEW n \in Nat, NEW d \in Nat \ {0}
    PROVE  /\ n \div d \in Nat /\ n % d \in 0 .. d - 1
           /\ n = d * (n \div d) + (n % d)
  OBVIOUS

\* The quotient is the only number that fits.
LEMMA DivIs ==
    ASSUME NEW n \in Nat, NEW d \in Nat \ {0}, NEW q \in Nat, d * q <= n, n < d * (q + 1)
    PROVE  n \div d = q
  OBVIOUS

\* Multiplication keeps the order.
LEMMA TimesKeepsOrder ==
    ASSUME NEW d \in Nat, NEW m \in Nat, NEW n \in Nat, m <= n
    PROVE  d * m <= d * n
  OBVIOUS

\* Products are numbers and do not depend on the brackets.
LEMMA TimesAssociates ==
    ASSUME NEW m \in Nat, NEW n \in Nat, NEW k \in Nat
    PROVE  m * n \in Nat /\ (m * n) * k = m * (n * k)
  OBVIOUS

\* Dividing twice is dividing by the product.
LEMMA DivDiv ==
    ASSUME NEW n \in Nat, NEW c \in Nat \ {0}, NEW d \in Nat \ {0}
    PROVE  (n \div c) \div d = n \div (c * d) /\ c * d \in Nat \ {0}
<1> DEFINE x == n \div c
           q == x \div d
<1>1. x \in Nat /\ c * x <= n /\ n < c * (x + 1)
  <2>1. x \in Nat /\ n % c \in 0 .. c - 1 /\ n = c * x + (n % c)
    BY DivMod
  <2>2. c * (x + 1) = c * x + c /\ c * x \in Nat
    BY <2>1
  <2> HIDE DEF x
  <2> QED
    BY <2>1, <2>2
<1> HIDE DEF x
<1>2. q \in Nat /\ d * q <= x /\ x < d * (q + 1)
  <2>1. q \in Nat /\ x % d \in 0 .. d - 1 /\ x = d * q + (x % d)
    BY <1>1, DivMod
  <2>2. d * (q + 1) = d * q + d /\ d * q \in Nat
    BY <2>1
  <2> HIDE DEF q
  <2> QED
    BY <2>1, <2>2, <1>1
<1> HIDE DEF q
<1>3. (c * d) * q <= n
  <2>1. d * q \in Nat /\ (c * d) * q = c * (d * q)
    BY <1>2, TimesAssociates
  <2>2. c * (d * q) <= c * x
    BY <1>1, <1>2, <2>1, TimesKeepsOrder
  <2>3. c * (d * q) \in Nat /\ c * x \in Nat
    BY <1>1, <2>1, TimesAssociates
  <2> QED
    BY <1>1, <2>1, <2>2, <2>3
<1>4. n < (c * d) * (q + 1)
  <2>1. q + 1 \in Nat /\ x + 1 \in Nat
    BY <1>1, <1>2
  <2>2. d * (q + 1) \in Nat /\ (c * d) * (q + 1) = c * (d * (q + 1))
    BY <2>1, TimesAssociates
  <2>3. x + 1 <= d * (q + 1)
    BY <1>1, <1>2, <2>2
  <2>4. c * (x + 1) <= c * (d * (q + 1))
    BY <2>1, <2>2, <2>3, TimesKeepsOrder
  <2>5. c * (x + 1) \in Nat /\ c * (d * (q + 1)) \in Nat
    BY <2>1, <2>2, TimesAssociates
  <2> QED
    BY <1>1, <2>2, <2>4, <2>5
<1>5. c * d \in Nat \ {0}
  OBVIOUS
<1>6. n \div (c * d) = q
  BY <1>2, <1>3, <1>4, <1>5, DivIs
<1> QED
  BY <1>5, <1>6 DEF q, x

\* Two numbers are the same when their quotients and remainders are.
LEMMA SameNumber ==
    ASSUME NEW m \in Nat, NEW n \in Nat, NEW d \in Nat \ {0}
    PROVE  m = n <=> m \div d = n \div d /\ m % d = n % d
<1>1. m = d * (m \div d) + (m % d) /\ n = d * (n \div d) + (n % d)
  BY DivMod
<1> QED
  BY <1>1

-----------------------------------------------------------------------------
(* Lemmas about pages and their indices.                                     *)

\* What a page shares with the other pages of its table of a level.
Prefix(page, level) ==
    CASE level = 3 -> 0
      [] level = 2 -> page \div (Fanout * Fanout * Fanout)
      [] level = 1 -> page \div (Fanout * Fanout)
      [] level = 0 -> page \div Fanout

\* The divisors of the levels.
LEMMA Quotients ==
    ASSUME NEW page \in Nat
    PROVE  /\ Fanout \in Nat \ {0} /\ Fanout * Fanout \in Nat \ {0}
           /\ Fanout * Fanout * Fanout \in Nat \ {0}
           /\ page \div Fanout \in Nat /\ page \div (Fanout * Fanout) \in Nat
           /\ page \div (Fanout * Fanout * Fanout) \in Nat
           /\ (page \div Fanout) \div Fanout = page \div (Fanout * Fanout)
           /\ (page \div (Fanout * Fanout)) \div Fanout = page \div (Fanout * Fanout * Fanout)
<1>1. Fanout \in Nat \ {0}
  BY SizesAssumption
<1>2. /\ (page \div Fanout) \div Fanout = page \div (Fanout * Fanout)
      /\ Fanout * Fanout \in Nat \ {0}
  BY <1>1, DivDiv
<1> DEFINE d == Fanout * Fanout
<1> HIDE DEF d
<1>3. (page \div d) \div Fanout = page \div (d * Fanout) /\ d * Fanout \in Nat \ {0}
  BY <1>1, <1>2, DivDiv DEF d
<1>4. page \div Fanout \in Nat /\ page \div d \in Nat /\ page \div (d * Fanout) \in Nat
  BY <1>1, <1>2, <1>3, DivMod DEF d
<1> QED
  BY <1>1, <1>2, <1>3, <1>4 DEF d

\* The indices of a page are entries of tables.
LEMMA IndexType ==
    ASSUME NEW page \in Pages, NEW level \in 0 .. 3
    PROVE  Index(page, level) \in Indices /\ Prefix(page, level) \in Nat /\ page \in Nat
<1> DEFINE d == Fanout * Fanout * Fanout
<1>1. page \in Nat
  BY DEF Pages
<1>2. /\ Fanout \in Nat \ {0} /\ d \in Nat \ {0}
      /\ page \div Fanout \in Nat /\ page \div (Fanout * Fanout) \in Nat
      /\ page \div d \in Nat
  BY <1>1, Quotients
<1>3. page \div d < Fanout
  <2> DEFINE q == page \div d
  <2>1. page < d * Fanout
    <3>1. page <= d * Fanout - 1
      BY DEF Pages
    <3>2. d * Fanout \in Nat
      BY <1>2, TimesAssociates
    <3> HIDE DEF d
    <3> QED
      BY <1>1, <3>1, <3>2
  <2>2. q \in Nat /\ page % d \in 0 .. d - 1 /\ page = d * q + (page % d)
    BY <1>1, <1>2, DivMod
  <2> HIDE DEF q, d
  <2>3. d * q \in Nat /\ d * Fanout \in Nat
    BY <1>2, <2>2, TimesAssociates
  <2>4. Fanout <= q => d * Fanout <= d * q
    BY <1>2, <2>2, TimesKeepsOrder
  <2>5. ~(Fanout <= q)
    BY <1>1, <1>2, <2>1, <2>2, <2>3, <2>4
  <2> QED
    BY <1>2, <2>2, <2>5 DEF q
<1>4. /\ page % Fanout \in 0 .. Fanout - 1
      /\ (page \div Fanout) % Fanout \in 0 .. Fanout - 1
      /\ (page \div (Fanout * Fanout)) % Fanout \in 0 .. Fanout - 1
  BY <1>1, <1>2, DivMod
<1> QED
  BY <1>1, <1>2, <1>3, <1>4 DEF Index, Indices, Prefix

\* The prefixes and the indices, level by level.
LEMMA Levels ==
    ASSUME NEW page
    PROVE  /\ Prefix(page, 3) = 0
           /\ Prefix(page, 2) = page \div (Fanout * Fanout * Fanout)
           /\ Prefix(page, 1) = page \div (Fanout * Fanout)
           /\ Prefix(page, 0) = page \div Fanout
           /\ Index(page, 3) = page \div (Fanout * Fanout * Fanout)
           /\ Index(page, 2) = (page \div (Fanout * Fanout)) % Fanout
           /\ Index(page, 1) = (page \div Fanout) % Fanout
           /\ Index(page, 0) = page % Fanout
  BY DEF Prefix, Index

\* A prefix is the one above it and an index: pages of a table of one level
\* share a table of the next one exactly when their indices agree.
LEMMA PrefixStep ==
    ASSUME NEW p \in Pages, NEW q \in Pages, NEW level \in 1 .. 3
    PROVE  Prefix(p, level - 1) = Prefix(q, level - 1)
             <=> Prefix(p, level) = Prefix(q, level) /\ Index(p, level) = Index(q, level)
<1> DEFINE d2 == Fanout * Fanout
           d3 == Fanout * Fanout * Fanout
<1>1. p \in Nat /\ q \in Nat
  BY DEF Pages
<1>2. /\ Fanout \in Nat \ {0}
      /\ p \div Fanout \in Nat /\ p \div d2 \in Nat
      /\ (p \div Fanout) \div Fanout = p \div d2
      /\ (p \div d2) \div Fanout = p \div d3
      /\ q \div Fanout \in Nat /\ q \div d2 \in Nat
      /\ (q \div Fanout) \div Fanout = q \div d2
      /\ (q \div d2) \div Fanout = q \div d3
  BY <1>1, Quotients
<1>3. p \div d2 = q \div d2 <=> /\ p \div d3 = q \div d3
                                /\ (p \div d2) % Fanout = (q \div d2) % Fanout
  BY <1>2, SameNumber
<1>4. p \div Fanout = q \div Fanout <=> /\ p \div d2 = q \div d2
                                        /\ (p \div Fanout) % Fanout = (q \div Fanout) % Fanout
  BY <1>2, SameNumber
<1>5. CASE level = 3
  <2>1. level - 1 = 2
    BY <1>5
  <2> QED
    BY <1>5, <2>1, Levels
<1>6. CASE level = 2
  <2>1. level - 1 = 1
    BY <1>6
  <2> QED
    BY <1>3, <1>6, <2>1, Levels
<1>7. CASE level = 1
  <2>1. level - 1 = 0
    BY <1>7
  <2> QED
    BY <1>4, <1>7, <2>1, Levels
<1> QED
  BY <1>5, <1>6, <1>7

\* Pages of a table of the last level differ in their last index.
LEMMA LastIndex ==
    ASSUME NEW p \in Pages, NEW q \in Pages
    PROVE  p = q <=> Prefix(p, 0) = Prefix(q, 0) /\ Index(p, 0) = Index(q, 0)
<1>1. p \in Nat /\ q \in Nat /\ Fanout \in Nat \ {0}
  BY SizesAssumption DEF Pages
<1> QED
  BY <1>1, SameNumber, Levels

-----------------------------------------------------------------------------
(* The tree of tables.                                                       *)

Contents == [Indices -> Entries]

Real == 1 .. MemoryFrames - 1

\* From a table through one of its entries.
Hop(m, table, i) ==
    IF table = NULL THEN NULL
    ELSE IF m[table][i].present THEN m[table][i].address ELSE NULL

\* The table of a level that a walk from top for a page comes to.
TabOf(m, top, page, level) ==
    LET l2 == Hop(m, top, Index(page, 3))
        l1 == Hop(m, l2, Index(page, 2))
        l0 == Hop(m, l1, Index(page, 1))
    IN  CASE level = 3 -> top [] level = 2 -> l2 [] level = 1 -> l1 [] level = 0 -> l0

\* The tables are frames of the memory that nobody else has.
Placed(m, top, busy) ==
    \A p \in Pages, k \in 0 .. 3 :
        TabOf(m, top, p, k) # NULL => /\ TabOf(m, top, p, k) \in Real
                                      /\ TabOf(m, top, p, k) \notin busy

\* No table is reached along two paths.
Apart(m, top) ==
    \A p, q \in Pages, k, n \in 0 .. 3 :
        TabOf(m, top, p, k) # NULL /\ TabOf(m, top, p, k) = TabOf(m, top, q, n)
            => k = n /\ Prefix(p, k) = Prefix(q, k)

\* A present entry leads to a table.
Linked(m, top) ==
    \A p \in Pages, k \in 1 .. 3 :
        /\ TabOf(m, top, p, k) # NULL
        /\ m[TabOf(m, top, p, k)][Index(p, k)].present
        => TabOf(m, top, p, k - 1) # NULL

Tree(m, top, busy) ==
    /\ m \in [AllFrames -> Contents] /\ top # NULL
    /\ Placed(m, top, busy) /\ Apart(m, top) /\ Linked(m, top)

\* The entries of the last level are those of the pages that are mapped.
Holds(m, top, map) ==
    \A p \in Pages :
        LET table == TabOf(m, top, p, 0) IN
        IF p \in DOMAIN map
        THEN /\ table # NULL /\ m[table][Index(p, 0)].present
             /\ m[table][Index(p, 0)].address = map[p]
        ELSE table = NULL \/ ~m[table][Index(p, 0)].present

\* A frame of the pool is busy or a table.
Drawn(m, top, busy, pool) ==
    \A f : f \in pool <=> \/ f \in busy
                          \/ f # NULL /\ \E p \in Pages, k \in 0 .. 3 : f = TabOf(m, top, p, k)

\* A walk goes one level at a time.
LEMMA WalkStep ==
    ASSUME NEW m, NEW top, NEW page, NEW level \in 1 .. 3
    PROVE  TabOf(m, top, page, level - 1) = Hop(m, TabOf(m, top, page, level), Index(page, level))
<1> DEFINE l2 == Hop(m, top, Index(page, 3))
           l1 == Hop(m, l2, Index(page, 2))
           l0 == Hop(m, l1, Index(page, 1))
<1>1. /\ TabOf(m, top, page, 3) = top /\ TabOf(m, top, page, 2) = l2
      /\ TabOf(m, top, page, 1) = l1 /\ TabOf(m, top, page, 0) = l0
  BY DEF TabOf
<1> HIDE DEF l2, l1, l0
<1>2. CASE level = 3
  <2>1. level - 1 = 2
    BY <1>2
  <2> QED
    BY <1>1, <1>2, <2>1 DEF l2
<1>3. CASE level = 2
  <2>1. level - 1 = 1
    BY <1>3
  <2> QED
    BY <1>1, <1>3, <2>1 DEF l1
<1>4. CASE level = 1
  <2>1. level - 1 = 0
    BY <1>4
  <2> QED
    BY <1>1, <1>4, <2>1 DEF l0
<1> QED
  BY <1>2, <1>3, <1>4

\* A walk starts at the top.
LEMMA WalkTop ==
    ASSUME NEW m, NEW top, NEW page
    PROVE  TabOf(m, top, page, 3) = top
  BY DEF TabOf

\* What holds at the top and follows from each level for the next one holds
\* at all of them.
LEMMA WalkSame ==
    ASSUME NEW m, NEW top, NEW p \in Pages, NEW q \in Pages, NEW level \in 0 .. 3,
           Prefix(p, level) = Prefix(q, level)
    PROVE  TabOf(m, top, p, level) = TabOf(m, top, q, level)
<1> DEFINE S(k) == Prefix(p, k) = Prefix(q, k) => TabOf(m, top, p, k) = TabOf(m, top, q, k)
<1>1. S(3)
  BY WalkTop
<1>2. ASSUME NEW k \in 1 .. 3, S(k)
      PROVE  S(k - 1)
  <2>1. /\ TabOf(m, top, p, k - 1) = Hop(m, TabOf(m, top, p, k), Index(p, k))
        /\ TabOf(m, top, q, k - 1) = Hop(m, TabOf(m, top, q, k), Index(q, k))
    BY WalkStep
  <2>2. Prefix(p, k - 1) = Prefix(q, k - 1)
          => Prefix(p, k) = Prefix(q, k) /\ Index(p, k) = Index(q, k)
    BY PrefixStep
  <2> QED
    BY <1>2, <2>1, <2>2
<1> HIDE DEF S
<1>3. S(2)
  <2>1. S(3 - 1)
    BY <1>1, <1>2
  <2> QED
    BY <2>1
<1>4. S(1)
  <2>1. S(2 - 1)
    BY <1>2, <1>3
  <2> QED
    BY <2>1
<1>5. S(0)
  <2>1. S(1 - 1)
    BY <1>2, <1>4
  <2> QED
    BY <2>1
<1>6. S(level)
  <2>1. level = 3 \/ level = 2 \/ level = 1 \/ level = 0
    OBVIOUS
  <2> QED
    BY <1>1, <1>3, <1>4, <1>5, <2>1
<1> QED
  BY <1>6 DEF S

-----------------------------------------------------------------------------
(* A table that is made.                                                     *)

\* The entries after the frame f was cleared and linked to entry i of table.
WithTable(m, f, table, i) == [m EXCEPT ![f] = Zeroed, ![table][i] = Entry(f)]

\* What the frames hold then.
LEMMA WithTableIs ==
    ASSUME NEW m \in [AllFrames -> Contents], NEW f \in AllFrames, f \in Nat,
           NEW table \in AllFrames, table # f, NEW i \in Indices
    PROVE  LET n == WithTable(m, f, table, i) IN
           /\ n \in [AllFrames -> Contents]
           /\ n[f] = Zeroed
           /\ n[table] = [m[table] EXCEPT ![i] = Entry(f)]
           /\ \A x \in AllFrames : x # f /\ x # table => n[x] = m[x]
<1> DEFINE c == [m EXCEPT ![f] = Zeroed]
           new == [m[table] EXCEPT ![i] = Entry(f)]
           n == [c EXCEPT ![table] = new]
<1>1. Zeroed \in Contents /\ Entry(f) \in Entries
  BY DEF Zeroed, Contents, Absent, Entry, Entries, NULL
<1>2. new \in Contents
  <2>1. m[table] \in Contents
    OBVIOUS
  <2> QED
    BY <1>1, <2>1 DEF Contents
<1>3. c \in [AllFrames -> Contents] /\ c[f] = Zeroed /\ \A x \in AllFrames : x # f => c[x] = m[x]
  BY <1>1
<1>4. WithTable(m, f, table, i) = n
  BY <1>3 DEF WithTable
<1> HIDE DEF c, new
<1>5. /\ n \in [AllFrames -> Contents] /\ n[table] = new
      /\ \A x \in AllFrames : x # table => n[x] = c[x]
  BY <1>2, <1>3
<1> HIDE DEF n
<1>6. /\ n \in [AllFrames -> Contents] /\ n[f] = Zeroed /\ n[table] = new
      /\ \A x \in AllFrames : x # f /\ x # table => n[x] = m[x]
  BY <1>3, <1>5
<1> QED
  BY <1>4, <1>6 DEF new

\* A frame of the memory is one of all frames, and not the first.
LEMMA RealFrames ==
    ASSUME NEW f \in Real
    PROVE  f \in AllFrames /\ f \in Nat /\ f # NULL
  BY SizesAssumption DEF Real, AllFrames, NULL

\* The walk for a page after a table f was put where its walk stopped: it goes
\* on to f, and so do the walks that share it; all the others are as before.
Grown(n, m, top, page, level, f) ==
    \A p \in Pages, k \in 0 .. 3 :
        TabOf(n, top, p, k) =
            IF k = level - 1 /\ Prefix(p, level - 1) = Prefix(page, level - 1)
            THEN f ELSE TabOf(m, top, p, k)

\* The pages that share the new table walk to it, all others walk as before.
LEMMA GrownWalks ==
    ASSUME NEW m, NEW top, NEW busy, Tree(m, top, busy),
           NEW page \in Pages, NEW level \in 1 .. 3,
           TabOf(m, top, page, level) # NULL,
           ~m[TabOf(m, top, page, level)][Index(page, level)].present,
           NEW f \in Real, f \in busy
    PROVE  LET n == WithTable(m, f, TabOf(m, top, page, level), Index(page, level)) IN
           /\ Grown(n, m, top, page, level, f)
           /\ \A p \in Pages : Prefix(p, level - 1) = Prefix(page, level - 1)
                                 => TabOf(m, top, p, level - 1) = NULL
<1> DEFINE table == TabOf(m, top, page, level)
           i == Index(page, level)
           n == WithTable(m, f, table, i)
           below == level - 1
           O(p, k) == TabOf(m, top, p, k)
           G(p, k) == TabOf(n, top, p, k)
           C(p, k) == G(p, k) = IF k = below /\ Prefix(p, below) = Prefix(page, below)
                                THEN f ELSE O(p, k)
<1>1. i \in Indices /\ level \in 0 .. 3 /\ below \in 0 .. 2 /\ level # below
  BY IndexType
<1>2. table \in Real /\ table \notin busy /\ table # f /\ f # NULL
  BY <1>1, RealFrames DEF Tree, Placed
<1>3. /\ n[f] = Zeroed
      /\ n[table] = [m[table] EXCEPT ![i] = Entry(f)]
      /\ \A x \in AllFrames : x # f /\ x # table => n[x] = m[x]
  <2>1. m \in [AllFrames -> Contents] /\ f \in AllFrames /\ f \in Nat /\ table \in AllFrames
    BY <1>2, RealFrames DEF Tree
  <2> HIDE DEF table, i
  <2> QED
    BY <1>1, <1>2, <2>1, WithTableIs
<1>4. m[table] \in Contents
  BY <1>2, RealFrames DEF Tree
<1>5. /\ n[table][i].present /\ n[table][i].address = f
      /\ \A j \in Indices : j # i => n[table][j] = m[table][j]
  <2>1. Entry(f).present /\ Entry(f).address = f
    BY DEF Entry
  <2> HIDE DEF n, table, i
  <2> QED
    BY <1>1, <1>3, <1>4, <2>1 DEF Contents
<1>6. \A j \in Indices : ~n[f][j].present
  BY <1>3 DEF Zeroed, Absent
<1>7. ASSUME NEW p \in Pages, NEW k \in 1 .. 3
      PROVE  /\ O(p, k - 1) = Hop(m, O(p, k), Index(p, k))
             /\ G(p, k - 1) = Hop(n, G(p, k), Index(p, k))
             /\ Index(p, k) \in Indices
             /\ k - 1 \in 0 .. 3 /\ k \in 0 .. 3
             /\ Prefix(p, k - 1) = Prefix(page, k - 1)
                  <=> Prefix(p, k) = Prefix(page, k) /\ Index(p, k) = Index(page, k)
  BY WalkStep, IndexType, PrefixStep
<1>8. \A p \in Pages, k \in 0 .. 3 :
        /\ Prefix(p, k) = Prefix(page, k) => O(p, k) = O(page, k)
        /\ O(p, k) # NULL => O(p, k) \in Real /\ O(p, k) \notin busy
        /\ O(p, k) # NULL /\ O(p, k) = table => k = level /\ Prefix(p, k) = Prefix(page, k)
  <2>1. \A p \in Pages, k \in 0 .. 3 : Prefix(p, k) = Prefix(page, k) => O(p, k) = O(page, k)
    BY WalkSame
  <2>2. \A p \in Pages, k \in 0 .. 3 : O(p, k) # NULL => O(p, k) \in Real /\ O(p, k) \notin busy
    BY DEF Tree, Placed
  <2>3. \A p \in Pages, k \in 0 .. 3 :
          O(p, k) # NULL /\ O(p, k) = table => k = level /\ Prefix(p, k) = Prefix(page, k)
    BY <1>1 DEF Tree, Apart
  <2> QED
    BY <2>1, <2>2, <2>3
<1>9. O(page, level) = table /\ table # NULL
  OBVIOUS
<1>10. ~m[table][i].present
  OBVIOUS
<1>11. \A p \in Pages : Prefix(p, below) = Prefix(page, below) => O(p, below) = NULL
  <2>1. O(page, below) = Hop(m, table, i)
    BY <1>7
  <2>2. O(page, below) = NULL
    BY <1>10, <2>1 DEF Hop
  <2>3. below \in 0 .. 3
    BY <1>1
  <2> QED
    BY <1>8, <2>2, <2>3
<1>12. \A p \in Pages : C(p, 3)
  BY <1>1, WalkTop
<1> HIDE DEF O, G, n, table, i, below
<1>13. ASSUME NEW p \in Pages, NEW k \in 1 .. 3, C(p, k)
       PROVE  C(p, k - 1)
  <2>1. CASE k = below /\ Prefix(p, below) = Prefix(page, below)
    <3>1. G(p, k) = f /\ O(p, k) = NULL
      BY <1>11, <1>13, <2>1
    <3>2. G(p, k - 1) = NULL /\ O(p, k - 1) = NULL
      BY <1>2, <1>6, <1>7, <3>1 DEF Hop
    <3>3. k - 1 # below
      BY <2>1
    <3> QED
      BY <3>2, <3>3
  <2>2. CASE ~(k = below /\ Prefix(p, below) = Prefix(page, below))
    <3>1. G(p, k) = O(p, k)
      BY <1>13, <2>2
    <3>2. CASE O(p, k) # table
      <4>1. G(p, k - 1) = O(p, k - 1)
        <5>1. O(p, k) # NULL => n[O(p, k)] = m[O(p, k)]
          BY <1>3, <1>7, <1>8, <3>2, RealFrames
        <5> QED
          BY <1>7, <3>1, <5>1 DEF Hop
      <4>2. ~(k - 1 = below /\ Prefix(p, below) = Prefix(page, below))
        <5>1. k - 1 = below => k = level
          BY DEF below
        <5>2. k = level /\ Prefix(p, k - 1) = Prefix(page, k - 1) => O(p, k) = table
          BY <1>7, <1>8, <1>9
        <5> QED
          BY <3>2, <5>1, <5>2
      <4> QED
        BY <4>1, <4>2
    <3>3. CASE O(p, k) = table
      <4>1. k = level /\ Prefix(p, k) = Prefix(page, k) /\ k - 1 = below
        BY <1>7, <1>8, <1>9, <3>3 DEF below
      <4>2. CASE Index(p, k) = i
        <5>1. G(p, k - 1) = f
          BY <1>5, <1>7, <1>9, <3>1, <3>3, <4>2 DEF Hop
        <5>2. Prefix(p, below) = Prefix(page, below)
          BY <1>7, <4>1, <4>2 DEF i
        <5> QED
          BY <4>1, <5>1, <5>2
      <4>3. CASE Index(p, k) # i
        <5>1. G(p, k - 1) = O(p, k - 1)
          BY <1>5, <1>7, <1>9, <3>1, <3>3, <4>3 DEF Hop
        <5>2. Prefix(p, below) # Prefix(page, below)
          BY <1>7, <4>1, <4>3 DEF i
        <5> QED
          BY <5>1, <5>2
      <4> QED
        BY <4>2, <4>3
    <3> QED
      BY <3>2, <3>3
  <2> QED
    BY <2>1, <2>2
<1>14. ASSUME NEW p \in Pages, NEW k \in 0 .. 3
       PROVE  C(p, k)
  <2> HIDE DEF C
  <2>1. C(p, 3)
    BY <1>12
  <2>2. C(p, 2)
    <3>1. C(p, 3 - 1)
      BY <1>13, <2>1
    <3> QED
      BY <3>1
  <2>3. C(p, 1)
    <3>1. C(p, 2 - 1)
      BY <1>13, <2>2
    <3> QED
      BY <3>1
  <2>4. C(p, 0)
    <3>1. C(p, 1 - 1)
      BY <1>13, <2>3
    <3> QED
      BY <3>1
  <2>5. k = 3 \/ k = 2 \/ k = 1 \/ k = 0
    OBVIOUS
  <2> QED
    BY <2>1, <2>2, <2>3, <2>4, <2>5
<1>15. Grown(n, m, top, page, level, f)
  BY <1>14 DEF Grown, G, O, below
<1> QED
  BY <1>11, <1>15 DEF n, table, i, below, O

\* The tables of n are those of m and the one of a level for a page.
Reached(n, m, top, page, level) ==
    \A p \in Pages, k \in 0 .. 3 :
        TabOf(n, top, p, k) # NULL
          <=> \/ TabOf(m, top, p, k) # NULL
              \/ k = level /\ Prefix(p, k) = Prefix(page, k)

\* A table that is made leaves a tree, with the same pages mapped, and with
\* the table's frame no longer free.
LEMMA NewTable ==
    ASSUME NEW m, NEW top, NEW busy, Tree(m, top, busy),
           NEW map, Holds(m, top, map), NEW pool, Drawn(m, top, busy, pool),
           NEW page \in Pages, NEW level \in 1 .. 3,
           TabOf(m, top, page, level) # NULL,
           ~m[TabOf(m, top, page, level)][Index(page, level)].present,
           NEW f \in Real, f \in busy
    PROVE  LET n == WithTable(m, f, TabOf(m, top, page, level), Index(page, level)) IN
           /\ Tree(n, top, busy \ {f}) /\ Holds(n, top, map)
           /\ Drawn(n, top, busy \ {f}, pool)
           /\ TabOf(n, top, page, level - 1) = f
           /\ Reached(n, m, top, page, level - 1)
<1> DEFINE table == TabOf(m, top, page, level)
           i == Index(page, level)
           n == WithTable(m, f, table, i)
           below == level - 1
           O(p, k) == TabOf(m, top, p, k)
           G(p, k) == TabOf(n, top, p, k)
           through(p) == Prefix(p, below) = Prefix(page, below)
<1>1. i \in Indices /\ level \in 0 .. 3 /\ below \in 0 .. 2 /\ level # below
  BY IndexType
<1>2. table \in Real /\ table \notin busy /\ table # f /\ f # NULL
  BY <1>1, RealFrames DEF Tree, Placed
<1>3. /\ n \in [AllFrames -> Contents]
      /\ n[f] = Zeroed
      /\ n[table] = [m[table] EXCEPT ![i] = Entry(f)]
      /\ \A x \in AllFrames : x # f /\ x # table => n[x] = m[x]
  <2>1. m \in [AllFrames -> Contents] /\ f \in AllFrames /\ f \in Nat /\ table \in AllFrames
    BY <1>2, RealFrames DEF Tree
  <2> HIDE DEF table, i
  <2> QED
    BY <1>1, <1>2, <2>1, WithTableIs, SMTT(60)
<1>4. m[table] \in Contents
  BY <1>2, RealFrames DEF Tree
<1>5. \A j \in Indices : j # i => n[table][j] = m[table][j]
  <2> HIDE DEF n, table, i
  <2> QED
    BY <1>1, <1>3, <1>4 DEF Contents
<1>6. \A j \in Indices : ~n[f][j].present
  BY <1>3 DEF Zeroed, Absent
<1>7. \A p \in Pages, k \in 0 .. 3 : G(p, k) = IF k = below /\ through(p) THEN f ELSE O(p, k)
  <2>1. Grown(n, m, top, page, level, f)
    BY GrownWalks
  <2> HIDE DEF n
  <2> QED
    BY <2>1 DEF Grown
<1>8. \A p \in Pages : through(p) => O(p, below) = NULL
  BY GrownWalks
<1>9. \A p \in Pages, k \in 0 .. 3 : /\ O(p, k) # NULL => O(p, k) \in Real /\ O(p, k) \notin busy
                                     /\ O(p, k) # NULL => O(p, k) # f
  BY DEF Tree, Placed
<1>10. \A p, q \in Pages, k, j \in 0 .. 3 :
         O(p, k) # NULL /\ O(p, k) = O(q, j) => k = j /\ Prefix(p, k) = Prefix(q, k)
  BY DEF Tree, Apart
<1>11. O(page, level) = table /\ table # NULL
  OBVIOUS
<1>12. \A p \in Pages, k \in 0 .. 3 : Index(p, k) \in Indices
  BY IndexType
<1>13. \A p \in Pages, k \in 1 .. 3 :
         /\ O(p, k) # NULL /\ m[O(p, k)][Index(p, k)].present => O(p, k - 1) # NULL
         /\ k - 1 \in 0 .. 3 /\ k \in 0 .. 3
  BY DEF Tree, Linked
<1>14. \A p \in Pages : through(p) <=> Prefix(p, level) = Prefix(page, level) /\ Index(p, level) = i
  BY PrefixStep
<1>15. top # NULL
  BY DEF Tree
<1> HIDE DEF O, G, n, table, i, below
<1>16. Placed(n, top, busy \ {f})
  BY <1>7, <1>9, <1>2 DEF Placed, G
<1>17. Apart(n, top)
  <2> SUFFICES ASSUME NEW p \in Pages, NEW q \in Pages, NEW k \in 0 .. 3, NEW j \in 0 .. 3,
                      G(p, k) # NULL, G(p, k) = G(q, j)
               PROVE  k = j /\ Prefix(p, k) = Prefix(q, k)
    BY DEF Apart, G
  <2>1. CASE k = below /\ through(p)
    <3>1. G(p, k) = f /\ G(q, j) = f
      BY <1>7, <2>1
    <3>2. j = below /\ through(q)
      BY <1>2, <1>7, <1>9, <3>1
    <3> QED
      BY <2>1, <3>2
  <2>2. CASE ~(k = below /\ through(p))
    <3>1. G(p, k) = O(p, k) /\ O(p, k) # NULL /\ O(p, k) # f
      BY <1>7, <1>9, <2>2
    <3>2. G(q, j) = O(q, j)
      BY <1>7, <3>1
    <3> QED
      <4>1. O(p, k) = O(q, j) /\ O(p, k) # NULL
        BY <3>1, <3>2
      <4> QED
        BY <1>10, <4>1
  <2> QED
    BY <2>1, <2>2
<1>18. Linked(n, top)
  <2> SUFFICES ASSUME NEW p \in Pages, NEW k \in 1 .. 3,
                      G(p, k) # NULL, n[G(p, k)][Index(p, k)].present
               PROVE  G(p, k - 1) # NULL
    BY DEF Linked, G
  <2>1. k \in 0 .. 3 /\ k - 1 \in 0 .. 3 /\ Index(p, k) \in Indices
    BY <1>12, <1>13
  <2>2. G(p, k) # f
    BY <1>6, <2>1
  <2>3. G(p, k) = O(p, k) /\ O(p, k) # NULL /\ O(p, k) \in Real
    BY <1>7, <1>9, <2>1, <2>2
  <2>4. O(p, k - 1) # NULL => G(p, k - 1) # NULL
    BY <1>2, <1>7, <2>1
  <2>5. CASE O(p, k) # table
    <3>1. n[O(p, k)] = m[O(p, k)]
      BY <1>3, <1>9, <2>1, <2>3, <2>5, RealFrames
    <3> QED
      BY <1>13, <2>3, <2>4, <3>1
  <2>6. CASE O(p, k) = table
    <3>1. k = level /\ Prefix(p, k) = Prefix(page, k)
      BY <1>1, <1>10, <1>11, <2>1, <2>6
    <3>2. CASE Index(p, k) = i
      <4>1. k - 1 = below /\ through(p)
        BY <1>14, <3>1, <3>2 DEF below
      <4> QED
        BY <1>2, <1>7, <2>1, <4>1
    <3>3. CASE Index(p, k) # i
      <4>1. m[O(p, k)][Index(p, k)].present
        BY <1>5, <2>1, <2>3, <2>6, <3>3
      <4> QED
        BY <1>13, <2>3, <2>4, <4>1
    <3> QED
      BY <3>2, <3>3
  <2> QED
    BY <2>5, <2>6
<1>19. Tree(n, top, busy \ {f})
  BY <1>3, <1>15, <1>16, <1>17, <1>18 DEF Tree
<1>20. Holds(n, top, map)
  <2> SUFFICES ASSUME NEW p \in Pages
               PROVE  IF p \in DOMAIN map
                      THEN /\ G(p, 0) # NULL /\ n[G(p, 0)][Index(p, 0)].present
                           /\ n[G(p, 0)][Index(p, 0)].address = map[p]
                      ELSE G(p, 0) = NULL \/ ~n[G(p, 0)][Index(p, 0)].present
    BY DEF Holds, G
  <2>1. IF p \in DOMAIN map
        THEN /\ O(p, 0) # NULL /\ m[O(p, 0)][Index(p, 0)].present
             /\ m[O(p, 0)][Index(p, 0)].address = map[p]
        ELSE O(p, 0) = NULL \/ ~m[O(p, 0)][Index(p, 0)].present
    BY DEF Holds, O
  <2>2. CASE 0 = below /\ through(p)
    <3>1. G(p, 0) = f /\ O(p, 0) = NULL
      BY <1>7, <1>8, <2>2
    <3> QED
      BY <1>6, <1>12, <2>1, <3>1
  <2>3. CASE ~(0 = below /\ through(p))
    <3>1. G(p, 0) = O(p, 0)
      BY <1>7, <2>3
    <3>2. O(p, 0) # NULL => O(p, 0) # table
      <4>1. level # 0
        OBVIOUS
      <4> QED
        BY <1>1, <1>10, <1>11, <4>1
    <3>3. O(p, 0) # NULL => n[O(p, 0)] = m[O(p, 0)]
      BY <1>3, <1>9, <3>2, RealFrames
    <3> QED
      BY <2>1, <3>1, <3>3
  <2> QED
    BY <2>2, <2>3
<1>21. G(page, below) = f
  BY <1>1, <1>7
<1>22. Reached(n, m, top, page, below)
  BY <1>2, <1>7 DEF Reached, G, O
<1>23. Drawn(n, top, busy \ {f}, pool)
  <2> SUFFICES ASSUME NEW x
               PROVE  x \in pool <=> \/ x \in busy \ {f}
                                     \/ x # NULL /\ \E p \in Pages, k \in 0 .. 3 : x = G(p, k)
    BY DEF Drawn, G
  <2>1. x \in pool <=> x \in busy \/ (x # NULL /\ \E p \in Pages, k \in 0 .. 3 : x = O(p, k))
    BY DEF Drawn, O
  <2>2. CASE x = f
    <3>1. below \in 0 .. 3
      BY <1>1
    <3> QED
      BY <1>2, <1>21, <2>1, <2>2, <3>1
  <2>3. CASE x # f
    <3>1. ASSUME x # NULL, NEW p \in Pages, NEW k \in 0 .. 3
          PROVE  x = O(p, k) <=> x = G(p, k)
      BY <1>7, <1>8, <2>3, <3>1
    <3> QED
      BY <2>1, <2>3, <3>1
  <2> QED
    BY <2>2, <2>3
<1> QED
  BY <1>19, <1>20, <1>21, <1>22, <1>23 DEF G, O, n, table, i, below

\* The entries after entry i of table was made to point to frame.
WithEntry(m, table, i, frame) == [m EXCEPT ![table][i] = Entry(frame)]

\* An entry of the last level maps one page, and leaves the tables.
LEMMA NewEntry ==
    ASSUME NEW m, NEW top, NEW busy, Tree(m, top, busy),
           NEW map, Holds(m, top, map), NEW pool, Drawn(m, top, busy, pool),
           NEW page \in Pages, TabOf(m, top, page, 0) # NULL, NEW frame \in Nat
    PROVE  LET n == WithEntry(m, TabOf(m, top, page, 0), Index(page, 0), frame)
               after == [p \in DOMAIN map \cup {page} |-> IF p = page THEN frame ELSE map[p]]
           IN  /\ Tree(n, top, busy) /\ Holds(n, top, after)
               /\ Drawn(n, top, busy, pool)
               /\ \A p \in Pages, k \in 0 .. 3 : TabOf(n, top, p, k) = TabOf(m, top, p, k)
<1> DEFINE table == TabOf(m, top, page, 0)
           i == Index(page, 0)
           new == [m[table] EXCEPT ![i] = Entry(frame)]
           n == WithEntry(m, table, i, frame)
           after == [p \in DOMAIN map \cup {page} |-> IF p = page THEN frame ELSE map[p]]
           O(p, k) == TabOf(m, top, p, k)
           G(p, k) == TabOf(n, top, p, k)
<1>1. /\ m \in [AllFrames -> Contents] /\ table \in AllFrames /\ i \in Indices /\ table # NULL
      /\ O(page, 0) = table
  BY IndexType, RealFrames DEF Tree, Placed
<1>2. m[table] \in Contents /\ Entry(frame) \in Entries
  BY <1>1 DEF Entry, Entries
<1>3. Entry(frame).present /\ Entry(frame).address = frame
  BY DEF Entry
<1>4. \A p \in Pages, k \in 0 .. 3 : O(p, k) # NULL => O(p, k) \in AllFrames
  BY RealFrames DEF Tree, Placed
<1>5. \A p, q \in Pages, k, j \in 0 .. 3 :
        O(p, k) # NULL /\ O(p, k) = O(q, j) => k = j /\ Prefix(p, k) = Prefix(q, k)
  BY DEF Tree, Apart
<1>6. \A p \in Pages, k \in 1 .. 3 :
        /\ O(p, k - 1) = Hop(m, O(p, k), Index(p, k))
        /\ G(p, k - 1) = Hop(n, G(p, k), Index(p, k))
        /\ k - 1 \in 0 .. 3 /\ k \in 0 .. 3 /\ k # 0
  BY WalkStep
<1>7. \A p \in Pages : G(p, 3) = O(p, 3)
  BY WalkTop
<1>8. n = [m EXCEPT ![table] = new]
  BY DEF WithEntry
<1> HIDE DEF n, table, i, O, G
<1>9. /\ new \in Contents /\ new[i] = Entry(frame)
      /\ \A j \in Indices : j # i => new[j] = m[table][j]
  BY <1>1, <1>2 DEF Contents
<1> HIDE DEF new
<1>10. /\ n \in [AllFrames -> Contents] /\ n[table] = new
       /\ \A x \in AllFrames : x # table => n[x] = m[x]
  BY <1>1, <1>8, <1>9
<1>11. ASSUME NEW p \in Pages, NEW k \in 1 .. 3, G(p, k) = O(p, k)
       PROVE  G(p, k - 1) = O(p, k - 1)
  <2>1. O(p, k) # NULL => O(p, k) # table /\ O(p, k) \in AllFrames
    BY <1>1, <1>4, <1>5, <1>6
  <2>2. O(p, k) # NULL => n[O(p, k)] = m[O(p, k)]
    BY <1>10, <2>1
  <2> QED
    BY <1>6, <1>11, <2>2 DEF Hop
<1>12. \A p \in Pages, k \in 0 .. 3 : G(p, k) = O(p, k)
  <2> SUFFICES ASSUME NEW p \in Pages, NEW k \in 0 .. 3
               PROVE  G(p, k) = O(p, k)
    OBVIOUS
  <2>1. G(p, 3) = O(p, 3)
    BY <1>7
  <2>2. G(p, 2) = O(p, 2)
    <3>1. G(p, 3 - 1) = O(p, 3 - 1)
      BY <1>11, <2>1
    <3> QED
      BY <3>1
  <2>3. G(p, 1) = O(p, 1)
    <3>1. G(p, 2 - 1) = O(p, 2 - 1)
      BY <1>11, <2>2
    <3> QED
      BY <3>1
  <2>4. G(p, 0) = O(p, 0)
    <3>1. G(p, 1 - 1) = O(p, 1 - 1)
      BY <1>11, <2>3
    <3> QED
      BY <3>1
  <2>5. k = 3 \/ k = 2 \/ k = 1 \/ k = 0
    OBVIOUS
  <2> QED
    BY <2>1, <2>2, <2>3, <2>4, <2>5
<1>13. Placed(n, top, busy)
  BY <1>12 DEF Tree, Placed, G, O
<1>14. Apart(n, top)
  BY <1>5, <1>12 DEF Apart, G, O
<1>15. Linked(n, top)
  <2> SUFFICES ASSUME NEW p \in Pages, NEW k \in 1 .. 3,
                      G(p, k) # NULL, n[G(p, k)][Index(p, k)].present
               PROVE  G(p, k - 1) # NULL
    BY DEF Linked, G
  <2>1. k - 1 \in 0 .. 3 /\ k \in 0 .. 3
    BY <1>6
  <2>2. G(p, k) = O(p, k) /\ G(p, k - 1) = O(p, k - 1)
    BY <1>12, <2>1
  <2>3. O(p, k) # table
    BY <1>1, <1>5, <1>6, <2>2
  <2>4. n[O(p, k)] = m[O(p, k)]
    BY <1>4, <1>10, <2>1, <2>2, <2>3
  <2>5. O(p, k - 1) # NULL
    BY <2>2, <2>4 DEF Tree, Linked, O
  <2> QED
    BY <2>2, <2>5
<1>16. Tree(n, top, busy)
  BY <1>10, <1>13, <1>14, <1>15 DEF Tree
<1>17. Drawn(n, top, busy, pool)
  BY <1>12 DEF Drawn, G, O
<1>18. /\ DOMAIN after = DOMAIN map \cup {page} /\ after[page] = frame
       /\ \A p \in DOMAIN map : p # page => after[p] = map[p]
  OBVIOUS
<1> HIDE DEF after
<1>19. Holds(n, top, after)
  <2> SUFFICES ASSUME NEW p \in Pages
               PROVE  IF p \in DOMAIN after
                      THEN /\ O(p, 0) # NULL /\ n[O(p, 0)][Index(p, 0)].present
                           /\ n[O(p, 0)][Index(p, 0)].address = after[p]
                      ELSE O(p, 0) = NULL \/ ~n[O(p, 0)][Index(p, 0)].present
    BY <1>12 DEF Holds, G
  <2>1. IF p \in DOMAIN map
        THEN /\ O(p, 0) # NULL /\ m[O(p, 0)][Index(p, 0)].present
             /\ m[O(p, 0)][Index(p, 0)].address = map[p]
        ELSE O(p, 0) = NULL \/ ~m[O(p, 0)][Index(p, 0)].present
    BY DEF Holds, O
  <2>2. Index(p, 0) \in Indices
    BY IndexType
  <2>3. CASE p = page
    <3>1. O(p, 0) = table /\ Index(p, 0) = i
      BY <1>1, <2>3 DEF i
    <3> QED
      BY <1>1, <1>3, <1>9, <1>10, <1>18, <2>3, <3>1
  <2>4. CASE p # page /\ O(p, 0) = table
    <3>1. Prefix(p, 0) = Prefix(page, 0)
      BY <1>1, <1>5, <2>4
    <3>2. Index(p, 0) # i
      BY <2>4, <3>1, LastIndex DEF i
    <3>3. n[O(p, 0)][Index(p, 0)] = m[O(p, 0)][Index(p, 0)]
      BY <1>9, <1>10, <2>2, <2>4, <3>2
    <3> QED
      BY <1>18, <2>1, <2>4, <3>3
  <2>5. CASE p # page /\ O(p, 0) # table
    <3>1. O(p, 0) # NULL => n[O(p, 0)] = m[O(p, 0)]
      BY <1>4, <1>10, <2>5
    <3> QED
      BY <1>18, <2>1, <2>5, <3>1
  <2> QED
    BY <2>3, <2>4, <2>5
<1> QED
  BY <1>12, <1>16, <1>17, <1>19 DEF G, O, n, table, i, after

-----------------------------------------------------------------------------
(* MapMemory.                                                                *)

\* A walk has come down to the table of a level, and left the tree sound.
Walking(s, page, level, top, kept, map, pool) ==
    /\ s = [memory |-> s.memory, available |-> s.available, table |-> s.table]
    /\ Tree(s.memory, top, s.available \cup kept)
    /\ Holds(s.memory, top, map)
    /\ Drawn(s.memory, top, s.available \cup kept, pool)
    /\ s.available \cap kept = {} /\ s.available \subseteq Nat \ {NULL}
    /\ s.table = TabOf(s.memory, top, page, level) /\ s.table # NULL

\* The allocator gives a frame it has, while it has one.
LEMMA RequestPageGives ==
    ASSUME NEW a \in SUBSET (Nat \ {NULL}), RequestPage(a) # NULL
    PROVE  RequestPage(a) \in a
<1>1. a # {} /\ RequestPage(a) = Min(a)
  BY DEF RequestPage
<1>2. a \in SUBSET Nat
  OBVIOUS
<1> QED
  BY <1>1, <1>2, MinIs

\* One level down, to a frame of the memory: the walk goes on.
\* (PageTableManager.cpp 17-57)
LEMMA DescendWalks ==
    ASSUME NEW s, NEW page \in Pages, NEW level \in 1 .. 3, NEW top, NEW kept, NEW map, NEW pool,
           Walking(s, page, level, top, kept, map, pool),
           Descend(s, page, level).table \in Real
    PROVE  LET r == Descend(s, page, level) IN
           /\ Walking(r, page, level - 1, top, kept, map, pool)
           /\ Reached(r.memory, s.memory, top, page, level - 1)
           /\ r.available \subseteq s.available
<1> DEFINE m == s.memory
           a == s.available
           table == s.table
           i == Index(page, level)
           entry == m[table][i]
           f == RequestPage(a)
           r == Descend(s, page, level)
           below == level - 1
<1>1. /\ s = [memory |-> m, available |-> a, table |-> table]
      /\ Tree(m, top, a \cup kept) /\ Holds(m, top, map) /\ Drawn(m, top, a \cup kept, pool)
      /\ a \cap kept = {} /\ a \subseteq Nat \ {NULL}
      /\ table = TabOf(m, top, page, level) /\ table # NULL
  BY DEF Walking
<1>2. r.table \in Real /\ r.table # NULL
  BY RealFrames
<1>3. below \in 0 .. 3
  OBVIOUS
<1>4. TabOf(m, top, page, below) = Hop(m, table, i)
  BY <1>1, WalkStep
<1>5. r = IF entry.present THEN [s EXCEPT !.table = entry.address]
          ELSE [memory |-> WithTable(m, f, table, i), available |-> a \ {f}, table |-> f]
  BY DEF Descend, WithTable
<1> HIDE DEF m, a, table, r, i, below, f
<1>6. CASE entry.present
  <2>1. r = [memory |-> m, available |-> a, table |-> entry.address]
    BY <1>1, <1>5, <1>6
  <2> HIDE DEF entry
  <2>2. r.memory = m /\ r.available = a /\ r.table = entry.address
    BY <2>1
  <2>3. r.table = TabOf(m, top, page, below)
    BY <1>1, <1>4, <1>6, <2>2 DEF Hop, entry
  <2>4. r = [memory |-> r.memory, available |-> r.available, table |-> r.table]
    BY <2>1, <2>2
  <2>5. Walking(r, page, below, top, kept, map, pool)
    BY <1>1, <1>2, <2>2, <2>3, <2>4 DEF Walking
  <2>6. \A p \in Pages : Prefix(p, below) = Prefix(page, below)
                           => TabOf(m, top, p, below) = TabOf(m, top, page, below)
    BY <1>3, WalkSame
  <2>7. Reached(m, m, top, page, below)
    BY <1>2, <1>3, <2>3, <2>6 DEF Reached
  <2> QED
    BY <2>2, <2>5, <2>7 DEF r, a, below, m
<1>7. CASE ~entry.present
  <2>1. r = [memory |-> WithTable(m, f, table, i), available |-> a \ {f}, table |-> f]
    BY <1>5, <1>7
  <2>2. r.memory = WithTable(m, f, table, i) /\ r.available = a \ {f} /\ r.table = f
    BY <2>1
  <2>3. f \in Real /\ f # NULL
    BY <1>2, <2>2
  <2>4. f \in a
    BY <1>1, <2>3, RequestPageGives DEF f
  <2>5. (a \cup kept) \ {f} = (a \ {f}) \cup kept
    BY <1>1, <2>4
  <2> DEFINE n == WithTable(m, f, TabOf(m, top, page, level), Index(page, level))
  <2>6. /\ TabOf(m, top, page, level) # NULL /\ f \in a \cup kept
        /\ ~m[TabOf(m, top, page, level)][Index(page, level)].present
    BY <1>1, <1>7, <2>4 DEF i
  <2>7. /\ Tree(n, top, (a \cup kept) \ {f}) /\ Holds(n, top, map)
        /\ Drawn(n, top, (a \cup kept) \ {f}, pool)
        /\ TabOf(n, top, page, level - 1) = f
        /\ Reached(n, m, top, page, level - 1)
    BY <1>1, <2>3, <2>6, NewTable
  <2>8. n = r.memory
    BY <1>1, <2>2 DEF i
  <2> HIDE DEF n
  <2>9. r = [memory |-> r.memory, available |-> r.available, table |-> r.table]
    BY <2>1, <2>2
  <2>10. r.available \cap kept = {} /\ r.available \subseteq a
    BY <1>1, <2>2
  <2>11. Walking(r, page, below, top, kept, map, pool)
    BY <1>1, <2>2, <2>3, <2>5, <2>7, <2>8, <2>9, <2>10 DEF Walking, below
  <2>12. Reached(r.memory, m, top, page, below)
    BY <2>7, <2>8 DEF below
  <2> QED
    BY <2>10, <2>11, <2>12 DEF r, m, a, below
<1> QED
  BY <1>6, <1>7

\* The tables that a call of MapMemory leaves.
Answered(r, after, kept, pool, a, page) ==
    /\ Tree(r.memory, pml4, r.available \cup kept)
    /\ Holds(r.memory, pml4, after)
    /\ Drawn(r.memory, pml4, r.available \cup kept, pool)
    /\ r.available \subseteq a
    /\ \A p \in Pages, k \in 0 .. 3 :
         TabOf(r.memory, pml4, p, k) # NULL
           <=> TabOf(memory, pml4, p, k) # NULL \/ Prefix(p, k) = Prefix(page, k)

\* The history of the pages that are mapped, after one more.
WithPage(map, page, frame) ==
    [p \in DOMAIN map \cup {page} |-> IF p = page THEN frame ELSE map[p]]

\* MapMemory, when every table is in the memory, maps its page and no other,
\* with the tables that the page needs.  (PageTableManager.cpp 13-67)
LEMMA MapMemoryMaps ==
    ASSUME NEW a, NEW page \in Pages, NEW frame \in Nat, NEW kept, NEW map, NEW pool,
           Tree(memory, pml4, a \cup kept), Holds(memory, pml4, map),
           Drawn(memory, pml4, a \cup kept, pool),
           a \cap kept = {}, a \subseteq Nat \ {NULL},
           MapMemory(a, page, frame).tables \subseteq Real
    PROVE  Answered(MapMemory(a, page, frame), WithPage(map, page, frame), kept, pool, a, page)
<1> DEFINE s3 == [memory |-> memory, available |-> a, table |-> pml4]
           s2 == Descend(s3, page, 3)
           s1 == Descend(s2, page, 2)
           s0 == Descend(s1, page, 1)
           n == WithEntry(s0.memory, s0.table, Index(page, 0), frame)
           r == MapMemory(a, page, frame)
           after == [p \in DOMAIN map \cup {page} |-> IF p = page THEN frame ELSE map[p]]
<1>1. r = [memory |-> n, available |-> s0.available, tables |-> {s2.table, s1.table, s0.table}]
  BY DEF MapMemory, WithEntry
<1> HIDE DEF s2, s1, s0, n, r, after
<1>2. r.memory = n /\ r.available = s0.available /\ r.tables = {s2.table, s1.table, s0.table}
  BY <1>1
<1>3. s2.table \in Real /\ s1.table \in Real /\ s0.table \in Real
  <2>1. r.tables \subseteq Real
    BY DEF r
  <2> QED
    BY <1>2, <2>1
<1>4. Walking(s3, page, 3, pml4, kept, map, pool)
  <2>1. pml4 # NULL /\ TabOf(memory, pml4, page, 3) = pml4
    BY WalkTop DEF Tree
  <2>2. s3.memory = memory /\ s3.available = a /\ s3.table = pml4
    OBVIOUS
  <2>3. s3 = [memory |-> s3.memory, available |-> s3.available, table |-> s3.table]
    OBVIOUS
  <2> HIDE DEF s3
  <2> QED
    BY <2>1, <2>2, <2>3 DEF Walking
<1>5. s3.memory = memory /\ s3.available = a
  OBVIOUS
<1> HIDE DEF s3
<1>6. /\ Walking(s2, page, 2, pml4, kept, map, pool)
      /\ Reached(s2.memory, s3.memory, pml4, page, 2) /\ s2.available \subseteq s3.available
  <2>1. /\ Walking(s2, page, 3 - 1, pml4, kept, map, pool)
        /\ Reached(s2.memory, s3.memory, pml4, page, 3 - 1) /\ s2.available \subseteq s3.available
    BY <1>3, <1>4, DescendWalks DEF s2
  <2> QED
    BY <2>1
<1>7. /\ Walking(s1, page, 1, pml4, kept, map, pool)
      /\ Reached(s1.memory, s2.memory, pml4, page, 1) /\ s1.available \subseteq s2.available
  <2>1. /\ Walking(s1, page, 2 - 1, pml4, kept, map, pool)
        /\ Reached(s1.memory, s2.memory, pml4, page, 2 - 1) /\ s1.available \subseteq s2.available
    BY <1>3, <1>6, DescendWalks DEF s1
  <2> QED
    BY <2>1
<1>8. /\ Walking(s0, page, 0, pml4, kept, map, pool)
      /\ Reached(s0.memory, s1.memory, pml4, page, 0) /\ s0.available \subseteq s1.available
  <2>1. /\ Walking(s0, page, 1 - 1, pml4, kept, map, pool)
        /\ Reached(s0.memory, s1.memory, pml4, page, 1 - 1) /\ s0.available \subseteq s1.available
    BY <1>3, <1>7, DescendWalks DEF s0
  <2> QED
    BY <2>1
<1>9. /\ Tree(s0.memory, pml4, s0.available \cup kept) /\ Holds(s0.memory, pml4, map)
      /\ Drawn(s0.memory, pml4, s0.available \cup kept, pool)
      /\ s0.table = TabOf(s0.memory, pml4, page, 0) /\ s0.table # NULL
  BY <1>8 DEF Walking
<1>10. /\ Tree(n, pml4, s0.available \cup kept) /\ Holds(n, pml4, after)
       /\ Drawn(n, pml4, s0.available \cup kept, pool)
       /\ \A p \in Pages, k \in 0 .. 3 : TabOf(n, pml4, p, k) = TabOf(s0.memory, pml4, p, k)
  BY <1>9, NewEntry DEF n, after
<1>11. ASSUME NEW p \in Pages, NEW k \in 0 .. 3
       PROVE  TabOf(n, pml4, p, k) # NULL
                <=> TabOf(memory, pml4, p, k) # NULL \/ Prefix(p, k) = Prefix(page, k)
  <2>1. TabOf(n, pml4, p, k) # NULL <=> \/ TabOf(memory, pml4, p, k) # NULL
                                        \/ k \in 0 .. 2 /\ Prefix(p, k) = Prefix(page, k)
    BY <1>5, <1>6, <1>7, <1>8, <1>10 DEF Reached
  <2>2. k = 3 => TabOf(memory, pml4, p, k) # NULL
    BY WalkTop DEF Tree
  <2> QED
    BY <2>1, <2>2
<1>12. s0.available \subseteq a
  BY <1>5, <1>6, <1>7, <1>8
<1> QED
  BY <1>2, <1>10, <1>11, <1>12 DEF r, after, Answered, WithPage

-----------------------------------------------------------------------------
(* The invariant.                                                            *)

\* The shape of the state, whatever happened.
Shape ==
    /\ DOMAIN memory = AllFrames /\ available \subseteq AllFrames \ {NULL}
    /\ pml4 \in AllFrames /\ heapEnd \in Nat /\ heapEnd >= HeapBase
    /\ framebuffer \in Framebuffers
    /\ phase \in {"start", "identity", "framebuffer", "running"}
    /\ DOMAIN mapped \subseteq Pages /\ taken \subseteq AllFrames /\ exhausted \in BOOLEAN

\* How far PrepareMemory has come.
Progress ==
    /\ phase = "start" => /\ memory \in [AllFrames -> Contents] /\ available \in Pools
                          /\ t = 0 /\ DOMAIN mapped = {}
    /\ phase \in {"start", "identity"} => /\ t \in 0 .. MemoryFrames /\ heapEnd = HeapBase
                                          /\ taken = {} /\ locked = {}
    /\ phase \in {"framebuffer", "running"} => t \in framebuffer \cup {Max(framebuffer) + 1}

\* The tables, the pages that are mapped and the frames that are left.
Sound(m, a, kept, map) ==
    \E pool \in Pools :
        /\ Tree(m, pml4, a \cup kept) /\ Holds(m, pml4, map)
        /\ Drawn(m, pml4, a \cup kept, pool) /\ a \cap kept = {}

\* There is a table where a mapped page needs one, and nowhere else.
Needed(m, map) ==
    \A p \in Pages, k \in 0 .. 2 :
        TabOf(m, pml4, p, k) # NULL <=> \E q \in DOMAIN map : Prefix(q, k) = Prefix(p, k)

\* The memory is mapped to itself, the heap to frames of its own.
Targets ==
    /\ phase = "identity" => DOMAIN mapped = 0 .. t - 1
    /\ phase # "identity" => 0 .. MemoryFrames - 1 \subseteq DOMAIN mapped
    /\ \A p \in DOMAIN mapped : p < HeapBase => mapped[p] = p
    /\ \A p \in DOMAIN mapped : p >= HeapBase => p < heapEnd /\ mapped[p] \in taken
    /\ HeapBase .. heapEnd - 1 \subseteq DOMAIN mapped
    /\ \A p, q \in HeapBase .. heapEnd - 1 : mapped[p] = mapped[q] => p = q

IInv ==
    /\ Shape /\ Progress
    /\ Live => Sound(memory, available, taken \cup locked, mapped) /\ Needed(memory, mapped) /\ Targets

\* A framebuffer's frames follow one another, below the heap.
LEMMA FramebufferIs ==
    ASSUME NEW frames \in Framebuffers
    PROVE  \E first, last \in Pages : /\ first \in Nat /\ last \in Nat /\ first <= last
                                      /\ last < HeapBase /\ frames = first .. last
                                      /\ Min(frames) = first /\ Max(frames) = last
<1>1. PICK first \in Pages, last \in Pages :
         first <= last /\ last < HeapBase /\ frames = first .. last
  BY FramebuffersAssumption
<1>2. first \in Nat /\ last \in Nat
  BY DEF Pages
<1>3. Max(frames) = last
  <2>1. last \in frames /\ \A y \in frames : last >= y
    BY <1>1, <1>2
  <2>2. \A x \in frames : (\A y \in frames : x >= y) => x = last
    BY <1>1, <1>2
  <2> QED
    BY <2>1, <2>2 DEF Max
<1>4. Min(frames) = first
  <2>1. first \in frames /\ \A y \in frames : first <= y
    BY <1>1, <1>2
  <2>2. \A x \in frames : (\A y \in frames : x =< y) => x = first
    BY <1>1, <1>2
  <2> QED
    BY <2>1, <2>2 DEF Min
<1> QED
  BY <1>1, <1>2, <1>3, <1>4

\* A descent keeps the frames there are and takes at most one.
LEMMA DescendShape ==
    ASSUME NEW s, NEW page, NEW level, DOMAIN s.memory = AllFrames,
           s = [memory |-> s.memory, available |-> s.available, table |-> s.table]
    PROVE  LET r == Descend(s, page, level) IN
           /\ DOMAIN r.memory = AllFrames /\ r.available \subseteq s.available
           /\ r = [memory |-> r.memory, available |-> r.available, table |-> r.table]
<1> DEFINE m == s.memory
           a == s.available
           table == s.table
           i == Index(page, level)
           entry == m[table][i]
           f == RequestPage(a)
           n == [m EXCEPT ![f] = Zeroed, ![table][i] = Entry(f)]
           r == Descend(s, page, level)
<1>1. r = IF entry.present THEN [s EXCEPT !.table = entry.address]
          ELSE [memory |-> n, available |-> a \ {f}, table |-> f]
  BY DEF Descend
<1>2. DOMAIN n = AllFrames
  OBVIOUS
<1>3. s = [memory |-> m, available |-> a, table |-> table] /\ DOMAIN m = AllFrames
  OBVIOUS
<1> HIDE DEF n, m, a, table, r, f
<1>4. CASE entry.present
  <2>1. r = [memory |-> m, available |-> a, table |-> entry.address]
    BY <1>1, <1>3, <1>4
  <2> HIDE DEF entry
  <2>2. r.memory = m /\ r.available = a
    BY <2>1
  <2> QED
    BY <1>3, <2>1, <2>2 DEF r, a
<1>5. CASE ~entry.present
  <2>1. r = [memory |-> n, available |-> a \ {f}, table |-> f]
    BY <1>1, <1>5
  <2>2. r.memory = n /\ r.available = a \ {f}
    BY <2>1
  <2> QED
    BY <1>2, <2>1, <2>2 DEF r, a
<1> QED
  BY <1>4, <1>5

\* So does MapMemory.
LEMMA MapMemoryShape ==
    ASSUME NEW a, NEW page, NEW frame, DOMAIN memory = AllFrames
    PROVE  LET r == MapMemory(a, page, frame) IN
           DOMAIN r.memory = AllFrames /\ r.available \subseteq a
<1> DEFINE s3 == [memory |-> memory, available |-> a, table |-> pml4]
           s2 == Descend(s3, page, 3)
           s1 == Descend(s2, page, 2)
           s0 == Descend(s1, page, 1)
           n == WithEntry(s0.memory, s0.table, Index(page, 0), frame)
           r == MapMemory(a, page, frame)
<1>1. r = [memory |-> n, available |-> s0.available, tables |-> {s2.table, s1.table, s0.table}]
  BY DEF MapMemory, WithEntry
<1>2. /\ s3.memory = memory /\ s3.available = a
      /\ s3 = [memory |-> s3.memory, available |-> s3.available, table |-> s3.table]
  OBVIOUS
<1> HIDE DEF s3, s2, s1, s0, n, r
<1>3. /\ DOMAIN s2.memory = AllFrames /\ s2.available \subseteq s3.available
      /\ s2 = [memory |-> s2.memory, available |-> s2.available, table |-> s2.table]
  BY <1>2, DescendShape DEF s2
<1>4. /\ DOMAIN s1.memory = AllFrames /\ s1.available \subseteq s2.available
      /\ s1 = [memory |-> s1.memory, available |-> s1.available, table |-> s1.table]
  BY <1>3, DescendShape DEF s1
<1>5. /\ DOMAIN s0.memory = AllFrames /\ s0.available \subseteq s1.available
      /\ s0 = [memory |-> s0.memory, available |-> s0.available, table |-> s0.table]
  BY <1>4, DescendShape DEF s0
<1>6. DOMAIN n = AllFrames
  BY <1>5 DEF n, WithEntry
<1>7. r.memory = n /\ r.available = s0.available
  BY <1>1
<1> QED
  BY <1>2, <1>3, <1>4, <1>5, <1>6, <1>7 DEF r

\* A call of MapMemory, for a page below or above the heap's first one.
Called(a, kept, page, frame) ==
    /\ exhausted' \in BOOLEAN /\ available' \subseteq a /\ DOMAIN memory' = AllFrames
    /\ DOMAIN mapped' = DOMAIN mapped \cup {page}
    /\ mapped'[page] = frame
    /\ \A p \in DOMAIN mapped : p # page => mapped'[p] = mapped[p]
    /\ ~exhausted' => Sound(memory', available', kept, mapped') /\ Needed(memory', mapped')

\* A call that got the tables it needed leaves the tree sound, one that did not
\* sets the flag.  The frames that the caller took first stay its own.
LEMMA MapKeeps ==
    ASSUME IInv, Live, NEW a, NEW kept, NEW page \in Pages, NEW frame \in Nat,
           a \subseteq Nat \ {NULL}, a \cup kept = available \cup (taken \cup locked),
           a \cap kept = {}, Map(a, page, frame)
    PROVE  Called(a, kept, page, frame)
<1> DEFINE r == MapMemory(a, page, frame)
           after == WithPage(mapped, page, frame)
<1>1. /\ DOMAIN memory = AllFrames /\ Needed(memory, mapped)
      /\ Sound(memory, available, taken \cup locked, mapped)
  BY DEF IInv, Shape
<1>2. PICK pool \in Pools : /\ Tree(memory, pml4, a \cup kept) /\ Holds(memory, pml4, mapped)
                            /\ Drawn(memory, pml4, a \cup kept, pool)
  BY <1>1 DEF Sound
<1>3. /\ ~exhausted /\ memory' = r.memory /\ available' = r.available /\ mapped' = after
      /\ exhausted' = Misplaced(r.tables)
  BY DEF Map, WithPage
<1>4. DOMAIN r.memory = AllFrames /\ r.available \subseteq a
  BY <1>1, MapMemoryShape
<1>5. /\ DOMAIN after = DOMAIN mapped \cup {page} /\ after[page] = frame
      /\ \A p \in DOMAIN mapped : p # page => after[p] = mapped[p]
  BY DEF WithPage
<1>6. ASSUME ~exhausted'
      PROVE  Sound(memory', available', kept, mapped') /\ Needed(memory', mapped')
  <2>1. r.tables \subseteq Real
    BY <1>3, <1>6 DEF Misplaced, Real
  <2>2. /\ Tree(r.memory, pml4, r.available \cup kept) /\ Holds(r.memory, pml4, after)
        /\ Drawn(r.memory, pml4, r.available \cup kept, pool)
        /\ \A p \in Pages, k \in 0 .. 3 :
             TabOf(r.memory, pml4, p, k) # NULL
               <=> TabOf(memory, pml4, p, k) # NULL \/ Prefix(p, k) = Prefix(page, k)
    <3>1. Answered(r, after, kept, pool, a, page)
      BY <1>2, <2>1, MapMemoryMaps
    <3> HIDE DEF r, after
    <3> QED
      BY <3>1 DEF Answered
  <2> HIDE DEF r, after
  <2>3. Sound(memory', available', kept, mapped')
    BY <1>3, <1>4, <2>2 DEF Sound
  <2>4. ASSUME NEW p \in Pages, NEW k \in 0 .. 2
        PROVE  TabOf(memory', pml4, p, k) # NULL
                 <=> \E q \in DOMAIN mapped' : Prefix(q, k) = Prefix(p, k)
    <3>1. TabOf(memory', pml4, p, k) # NULL
            <=> TabOf(memory, pml4, p, k) # NULL \/ Prefix(p, k) = Prefix(page, k)
      <4>1. k \in 0 .. 3
        OBVIOUS
      <4> QED
        BY <1>3, <2>2, <4>1
    <3>2. TabOf(memory, pml4, p, k) # NULL <=> \E q \in DOMAIN mapped : Prefix(q, k) = Prefix(p, k)
      BY <1>1 DEF Needed
    <3> QED
      BY <1>3, <1>5, <3>1, <3>2
  <2> QED
    BY <2>3, <2>4 DEF Needed
<1>7. exhausted' \in BOOLEAN
  BY <1>3 DEF Misplaced
<1> HIDE DEF r, after
<1> QED
  BY <1>3, <1>4, <1>5, <1>6, <1>7 DEF Called

\* The first state.
LEMMA InvInit ==
    ASSUME Init
    PROVE  IInv
<1>1. /\ available \in Pools /\ framebuffer \in Framebuffers /\ phase = "start" /\ t = 0
      /\ pml4 = NULL /\ heapEnd = HeapBase /\ taken = {} /\ locked = {} /\ exhausted = FALSE
      /\ memory \in [AllFrames -> Garbage]
  BY DEF Init
<1>2. DOMAIN mapped = {}
  BY DEF Init
<1>3. Garbage \subseteq Contents
  BY GarbageAssumption DEF Contents
<1>4. memory \in [AllFrames -> Contents]
  BY <1>1, <1>3
<1>5. available \subseteq AllFrames \ {NULL} /\ NULL \in AllFrames
  BY <1>1, PoolsAssumption DEF AllFrames
<1>6. HeapBase \in Nat /\ MemoryFrames \in Nat
  BY SizesAssumption
<1>7. Shape
  <2>1. DOMAIN memory = AllFrames /\ available \subseteq AllFrames \ {NULL} /\ pml4 \in AllFrames
    BY <1>1, <1>4, <1>5
  <2>2. heapEnd \in Nat /\ heapEnd >= HeapBase
    BY <1>1, <1>6
  <2> QED
    BY <1>1, <1>2, <2>1, <2>2 DEF Shape
<1>8. Progress
  BY <1>1, <1>2, <1>4, <1>6 DEF Progress
<1> QED
  BY <1>1, <1>7, <1>8 DEF IInv, Live

-----------------------------------------------------------------------------
(* The steps.                                                                *)

\* A top table that is cleared is a tree with nothing mapped.
LEMMA EmptyTree ==
    ASSUME NEW m \in [AllFrames -> Contents], NEW top \in Real, NEW pool, pool \subseteq Nat \ {NULL},
           top \in pool, m[top] = Zeroed, NEW map, DOMAIN map = {}
    PROVE  /\ Tree(m, top, pool \ {top}) /\ Holds(m, top, map)
           /\ Drawn(m, top, pool \ {top}, pool)
           /\ \A p \in Pages, k \in 0 .. 2 : TabOf(m, top, p, k) = NULL
<1>1. top # NULL
  BY RealFrames
<1>2. ASSUME NEW p \in Pages
      PROVE  /\ TabOf(m, top, p, 3) = top /\ TabOf(m, top, p, 2) = NULL
             /\ TabOf(m, top, p, 1) = NULL /\ TabOf(m, top, p, 0) = NULL
  <2>1. \A i : Hop(m, NULL, i) = NULL
    BY DEF Hop
  <2>2. Index(p, 3) \in Indices
    BY IndexType
  <2>3. ~m[top][Index(p, 3)].present
    BY <2>2 DEF Zeroed, Absent
  <2>4. Hop(m, top, Index(p, 3)) = NULL
    BY <1>1, <2>3 DEF Hop
  <2> QED
    BY <2>1, <2>4 DEF TabOf
<1>3. \A p \in Pages, k \in 0 .. 3 : TabOf(m, top, p, k) # NULL => k = 3 /\ TabOf(m, top, p, k) = top
  BY <1>2
<1>4. Placed(m, top, pool \ {top})
  BY <1>3 DEF Placed
<1>5. \A p \in Pages : Prefix(p, 3) = 0
  BY Levels
<1>6. Apart(m, top)
  BY <1>3, <1>5 DEF Apart
<1>7. Linked(m, top)
  <2> SUFFICES ASSUME NEW p \in Pages, NEW k \in 1 .. 3, TabOf(m, top, p, k) # NULL
               PROVE  ~m[TabOf(m, top, p, k)][Index(p, k)].present
    BY DEF Linked
  <2>1. k = 3 /\ TabOf(m, top, p, k) = top
    BY <1>3
  <2>2. Index(p, k) \in Indices
    BY IndexType
  <2> QED
    BY <2>1, <2>2 DEF Zeroed, Absent
<1>8. Tree(m, top, pool \ {top})
  BY <1>1, <1>4, <1>6, <1>7 DEF Tree
<1>9. Holds(m, top, map)
  BY <1>2 DEF Holds
<1>10. Drawn(m, top, pool \ {top}, pool)
  <2>1. 0 \in Pages
    <3>1. Fanout * Fanout * Fanout * Fanout \in Nat \ {0}
      <4>1. Fanout \in Nat \ {0} /\ Fanout * Fanout * Fanout \in Nat \ {0} /\ 0 \in Nat
        BY Quotients
      <4> HIDE DEF NULL
      <4> QED
        BY <4>1, DivDiv
    <3> QED
      BY <3>1 DEF Pages
  <2>2. TabOf(m, top, 0, 3) = top
    BY <1>2, <2>1
  <2> SUFFICES ASSUME NEW f
               PROVE  f \in pool <=> \/ f \in pool \ {top}
                                     \/ f # NULL /\ \E p \in Pages, k \in 0 .. 3 : f = TabOf(m, top, p, k)
    BY DEF Drawn
  <2>3. CASE f = top
    BY <1>1, <2>1, <2>2, <2>3
  <2>4. CASE f # top
    BY <1>3, <2>4
  <2> QED
    BY <2>3, <2>4
<1> QED
  BY <1>2, <1>8, <1>9, <1>10

\* PrepareMemory takes the top table and clears it.  (paging, PrepareMemory)
LEMMA StepCreatePML4 ==
    ASSUME IInv, CreatePML4
    PROVE  IInv'
<1>1. /\ phase = "start" /\ pml4' = RequestPage(available)
      /\ memory' = [memory EXCEPT ![pml4'] = Zeroed] /\ available' = available \ {pml4'}
      /\ phase' = "identity" /\ exhausted' = Misplaced({pml4'})
      /\ UNCHANGED <<framebuffer, t, locked, heapEnd, mapped, taken>>
  BY DEF CreatePML4
<1>2. /\ memory \in [AllFrames -> Contents] /\ available \in Pools
      /\ t = 0 /\ DOMAIN mapped = {} /\ heapEnd = HeapBase /\ taken = {} /\ locked = {}
      /\ framebuffer \in Framebuffers
  BY <1>1 DEF IInv, Progress, Shape
<1>3. available \subseteq Nat \ {NULL} /\ available \subseteq AllFrames
  BY <1>2, PoolsAssumption DEF AllFrames
<1>4. pml4' = NULL \/ pml4' \in available
  BY <1>1, <1>3, RequestPageGives
<1>5. Zeroed \in Contents
  BY DEF Zeroed, Contents, Entries, Absent, NULL
<1>6. memory' \in [AllFrames -> Contents]
  BY <1>1, <1>2, <1>5
<1>7. HeapBase \in Nat /\ MemoryFrames \in Nat
  BY SizesAssumption
<1>8. Shape'
  <2>1. NULL \in AllFrames
    BY DEF AllFrames
  <2>2. DOMAIN memory' = AllFrames /\ available' \subseteq AllFrames \ {NULL} /\ pml4' \in AllFrames
    BY <1>1, <1>3, <1>4, <1>6, <2>1
  <2>3. heapEnd' \in Nat /\ heapEnd' >= HeapBase
    BY <1>1, <1>2, <1>7
  <2>4. exhausted' \in BOOLEAN
    BY <1>1 DEF Misplaced
  <2> QED
    BY <1>1, <1>2, <2>2, <2>3, <2>4 DEF Shape
<1>9. Progress'
  BY <1>1, <1>2, <1>7 DEF Progress
<1>10. ASSUME ~exhausted'
       PROVE  /\ Sound(memory, available, taken \cup locked, mapped)'
              /\ Needed(memory, mapped)' /\ Targets'
  <2>1. pml4' \in Real
    BY <1>1, <1>10 DEF Misplaced, Real
  <2>2. pml4' \in available
    BY <1>4, <2>1, RealFrames
  <2>3. memory'[pml4'] = Zeroed
    BY <1>1, <1>2, <1>3, <2>2
  <2>4. /\ Tree(memory', pml4', available \ {pml4'}) /\ Holds(memory', pml4', mapped')
        /\ Drawn(memory', pml4', available \ {pml4'}, available)
        /\ \A p \in Pages, k \in 0 .. 2 : TabOf(memory', pml4', p, k) = NULL
    BY <1>1, <1>2, <1>3, <1>6, <2>1, <2>2, <2>3, EmptyTree
  <2>5. available' \cup (taken' \cup locked') = available \ {pml4'} /\ available' \cap (taken' \cup locked') = {}
    BY <1>1, <1>2
  <2>6. Sound(memory, available, taken \cup locked, mapped)'
    BY <1>2, <2>4, <2>5 DEF Sound
  <2>7. Needed(memory, mapped)'
    BY <1>1, <1>2, <2>4 DEF Needed
  <2>8. Targets'
    <3>1. DOMAIN mapped' = 0 .. t' - 1 /\ HeapBase .. heapEnd' - 1 = {}
      BY <1>1, <1>2, <1>7
    <3> QED
      BY <1>1, <1>2, <3>1 DEF Targets
  <2> QED
    BY <2>6, <2>7, <2>8
<1> QED
  BY <1>8, <1>9, <1>10 DEF IInv, Live

\* A page below the heap that is mapped to its own frame.
Identical(f) ==
    /\ Shape' /\ DOMAIN mapped' = DOMAIN mapped \cup {f}
    /\ ~exhausted' => /\ Sound(memory, available, taken \cup locked, mapped)'
                      /\ Needed(memory, mapped)'
                      /\ (\A p \in DOMAIN mapped : p < HeapBase => mapped[p] = p)'
                      /\ (\A p \in DOMAIN mapped : p >= HeapBase => p < heapEnd /\ mapped[p] \in taken)'
                      /\ (HeapBase .. heapEnd - 1 \subseteq DOMAIN mapped)'
                      /\ (\A p, q \in HeapBase .. heapEnd - 1 : mapped[p] = mapped[q] => p = q)'

\* Such a call leaves the heap's pages where they were.
LEMMA MapsToItself ==
    ASSUME IInv, Live, NEW f \in Pages, f < HeapBase, Map(available, f, f),
           UNCHANGED <<pml4, phase, framebuffer, heapEnd, taken, locked>>
    PROVE  Identical(f)
<1>1. /\ Shape /\ Sound(memory, available, taken \cup locked, mapped) /\ Targets
  BY DEF IInv
<1>2. available \subseteq Nat \ {NULL} /\ available \cap (taken \cup locked) = {}
  <2>1. AllFrames \subseteq Nat
    BY PoolsAssumption, SizesAssumption DEF AllFrames, NULL
  <2> QED
    BY <1>1, <2>1 DEF Shape, Sound
<1>3. f \in Nat /\ HeapBase \in Nat
  BY SizesAssumption DEF Pages
<1>4. Called(available, taken \cup locked, f, f)
  BY <1>2, <1>3, MapKeeps
<1>5. Shape'
  BY <1>1, <1>4 DEF Called, Shape
<1>6. /\ DOMAIN mapped' = DOMAIN mapped \cup {f} /\ mapped'[f] = f
      /\ \A p \in DOMAIN mapped : p # f => mapped'[p] = mapped[p]
  BY <1>4 DEF Called
<1>7. ASSUME ~exhausted'
      PROVE  Sound(memory, available, taken \cup locked, mapped)' /\ Needed(memory, mapped)'
  BY <1>4, <1>7 DEF Called, Sound, Needed
<1>8. (\A p \in DOMAIN mapped : p < HeapBase => mapped[p] = p)'
  BY <1>1, <1>6 DEF Targets
<1>9. (\A p \in DOMAIN mapped : p >= HeapBase => p < heapEnd /\ mapped[p] \in taken)'
  BY <1>1, <1>3, <1>6 DEF Targets
<1>10. (HeapBase .. heapEnd - 1 \subseteq DOMAIN mapped)'
  BY <1>1, <1>6 DEF Targets
<1>11. \A p \in HeapBase .. heapEnd - 1 : mapped'[p] = mapped[p]
  <2>1. heapEnd \in Nat
    BY <1>1 DEF Shape
  <2>2. \A p \in HeapBase .. heapEnd - 1 : p \in DOMAIN mapped /\ p # f
    BY <1>1, <1>3, <2>1 DEF Targets
  <2> QED
    BY <1>6, <2>2
<1>12. (\A p, q \in HeapBase .. heapEnd - 1 : mapped[p] = mapped[q] => p = q)'
  BY <1>1, <1>11 DEF Targets
<1> QED
  BY <1>5, <1>6, <1>7, <1>8, <1>9, <1>10, <1>12 DEF Identical

\* The identity map, a frame at a time.  (kernelUtil.cpp, PrepareMemory)
LEMMA StepMapIdentity ==
    ASSUME IInv, MapIdentity
    PROVE  IInv'
<1>1. /\ phase = "identity" /\ t < MemoryFrames /\ Map(available, t, t) /\ t' = t + 1
      /\ UNCHANGED <<pml4, phase, framebuffer, locked, heapEnd, taken>>
  BY DEF MapIdentity
<1>2. Live /\ ~exhausted
  BY <1>1 DEF Live, Map
<1>3. /\ Shape /\ Targets /\ t \in 0 .. MemoryFrames /\ heapEnd = HeapBase
      /\ taken = {} /\ locked = {}
  BY <1>1, <1>2 DEF IInv, Progress
<1>4. MemoryFrames \in Nat /\ MemoryFrames <= HeapBase /\ HeapBase \in Nat /\ t \in Pages
  BY <1>1, <1>3, SizesAssumption
<1>5. t < HeapBase
  BY <1>1, <1>3, <1>4
<1>6. Identical(t)
  <2>1. PICK f : f = t
    OBVIOUS
  <2>2. f \in Pages /\ f < HeapBase /\ Map(available, f, f)
    BY <1>1, <1>4, <1>5, <2>1
  <2>3. Identical(f)
    BY <1>1, <1>2, <2>2, MapsToItself
  <2> QED
    BY <2>1, <2>3 DEF Identical
<1>7. Progress'
  <2>1. t' \in 0 .. MemoryFrames
    BY <1>1, <1>3, <1>4
  <2> QED
    BY <1>1, <1>3, <2>1 DEF Progress
<1>8. DOMAIN mapped' = 0 .. t' - 1
  <2>1. DOMAIN mapped = 0 .. t - 1
    BY <1>1, <1>3 DEF Targets
  <2> QED
    BY <1>1, <1>3, <1>6, <2>1 DEF Identical
<1>9. ~exhausted' => Targets'
  BY <1>1, <1>6, <1>8 DEF Identical, Targets
<1> QED
  BY <1>6, <1>7, <1>9 DEF Identical, IInv, Live

\* The framebuffer, a frame at a time.
LEMMA StepMapFramebuffer ==
    ASSUME IInv, MapFramebuffer
    PROVE  IInv'
<1>1. /\ phase = "framebuffer" /\ t \in framebuffer /\ Map(available, t, t) /\ t' = t + 1
      /\ UNCHANGED <<pml4, phase, framebuffer, locked, heapEnd, taken>>
  BY DEF MapFramebuffer
<1>2. Live /\ ~exhausted
  BY <1>1 DEF Live, Map
<1>3. Shape /\ Targets /\ framebuffer \in Framebuffers
  BY <1>2 DEF IInv, Shape
<1>4. PICK first, last \in Pages : /\ first \in Nat /\ last \in Nat /\ first <= last
                                   /\ last < HeapBase /\ framebuffer = first .. last
                                   /\ Max(framebuffer) = last
  BY <1>3, FramebufferIs
<1>5. t \in Pages /\ t < HeapBase
  <2>1. HeapBase \in Nat
    BY SizesAssumption
  <2>2. t \in Nat /\ t <= last
    BY <1>1, <1>4
  <2> DEFINE all == Fanout * Fanout * Fanout * Fanout
  <2>3. Pages = 0 .. all - 1
    BY DEF Pages
  <2>4. all \in Int
    <3>1. Fanout \in Nat /\ Fanout * Fanout * Fanout \in Nat
      BY Quotients, <1>4
    <3> QED
      BY <3>1
  <2> HIDE DEF all
  <2> QED
    BY <1>4, <2>1, <2>2, <2>3, <2>4
<1>6. Identical(t)
  <2>1. PICK f : f = t
    OBVIOUS
  <2>2. f \in Pages /\ f < HeapBase /\ Map(available, f, f)
    BY <1>1, <1>5, <2>1
  <2>3. Identical(f)
    BY <1>1, <1>2, <2>2, MapsToItself
  <2> QED
    BY <2>1, <2>3 DEF Identical
<1>7. Progress'
  <2>1. t' \in framebuffer \cup {Max(framebuffer) + 1}
    BY <1>1, <1>4
  <2> QED
    BY <1>1, <2>1 DEF Progress
<1>8. ~exhausted' => Targets'
  BY <1>1, <1>3, <1>6 DEF Identical, Targets
<1> QED
  BY <1>6, <1>7, <1>8 DEF Identical, IInv, Live

\* A device's frame.
LEMMA StepMapDevice ==
    ASSUME IInv, NEW f \in Devices, MapDevice(f)
    PROVE  IInv'
<1>1. /\ phase = "running" /\ Map(available, f, f) /\ UNCHANGED <<pml4, boot, heapEnd, taken>>
  BY DEF MapDevice
<1>2. UNCHANGED <<phase, framebuffer, t, locked>>
  BY <1>1 DEF boot
<1>3. Live /\ Targets
  BY <1>1 DEF Live, Map, IInv
<1>4. f \in Pages /\ f < HeapBase
  BY DevicesAssumption
<1>5. Identical(f)
  BY <1>1, <1>2, <1>3, <1>4, MapsToItself
<1>6. Progress'
  BY <1>1, <1>2 DEF IInv, Progress
<1>7. ~exhausted' => Targets'
  BY <1>1, <1>2, <1>3, <1>5 DEF Identical, Targets
<1> QED
  BY <1>5, <1>6, <1>7 DEF Identical, IInv, Live

\* The framebuffer's frames leave the pool.
LEMMA StepLockFramebuffer ==
    ASSUME IInv, LockFramebuffer
    PROVE  IInv'
<1>1. PICK spare \in 0 .. 1 :
         /\ available' = available \ (framebuffer \cup {Max(framebuffer) + spare})
         /\ locked' = available \cap (framebuffer \cup {Max(framebuffer) + spare})
  BY DEF LockFramebuffer
<1>2. /\ phase = "identity" /\ t = MemoryFrames /\ t' = Min(framebuffer) /\ phase' = "framebuffer"
      /\ UNCHANGED <<memory, pml4, framebuffer, heapEnd, mapped, taken, exhausted>>
  BY DEF LockFramebuffer
<1>3. Shape /\ taken = {} /\ locked = {} /\ framebuffer \in Framebuffers
  BY <1>2 DEF IInv, Progress, Shape
<1>4. available' \cup (taken' \cup locked') = available \cup (taken \cup locked)
  BY <1>1, <1>2, <1>3
<1>5. available' \cap (taken' \cup locked') = {} /\ available' \subseteq available
  BY <1>1, <1>2, <1>3
<1>6. Shape'
  BY <1>2, <1>3, <1>5 DEF Shape
<1>7. t' \in framebuffer
  BY <1>2, <1>3, FramebufferIs
<1>8. Progress'
  BY <1>2, <1>7 DEF Progress
<1>9. ASSUME Live'
      PROVE  /\ Sound(memory, available, taken \cup locked, mapped)'
             /\ Needed(memory, mapped)' /\ Targets'
  <2>1. Live
    BY <1>2, <1>9 DEF Live
  <2>2. Sound(memory, available, taken \cup locked, mapped) /\ Needed(memory, mapped) /\ Targets
    BY <2>1 DEF IInv
  <2>3. Sound(memory, available, taken \cup locked, mapped)'
    BY <1>2, <1>4, <1>5, <2>2 DEF Sound
  <2>4. Needed(memory, mapped)'
    BY <1>2, <2>2 DEF Needed
  <2>5. 0 .. MemoryFrames - 1 \subseteq DOMAIN mapped
    BY <1>2, <2>2 DEF Targets
  <2>6. Targets'
    BY <1>2, <2>2, <2>5 DEF Targets
  <2> QED
    BY <2>3, <2>4, <2>6
<1> QED
  BY <1>6, <1>8, <1>9 DEF IInv

\* The tables are loaded.
LEMMA StepLoadCR3 ==
    ASSUME IInv, LoadCR3
    PROVE  IInv'
<1>1. /\ phase = "framebuffer" /\ phase' = "running"
      /\ UNCHANGED <<memory, available, pml4, framebuffer, t, locked, heapEnd,
                     mapped, taken, exhausted>>
  BY DEF LoadCR3
<1>2. Shape'
  BY <1>1 DEF IInv, Shape
<1>3. Progress'
  BY <1>1 DEF IInv, Progress
<1>4. Live' => Live
  BY <1>1 DEF Live
<1>5. Sound(memory, available, taken \cup locked, mapped)
        => Sound(memory, available, taken \cup locked, mapped)'
  BY <1>1 DEF Sound
<1>6. Needed(memory, mapped) => Needed(memory, mapped)'
  BY <1>1 DEF Needed
<1>7. Targets => Targets'
  BY <1>1 DEF Targets
<1> QED
  BY <1>2, <1>3, <1>4, <1>5, <1>6, <1>7 DEF IInv

\* A frame of the memory that the allocator gives was in nobody's hands.
LEMMA Given ==
    ASSUME IInv, Live, RequestPage(available) # NULL
    PROVE  /\ RequestPage(available) \in available
           /\ available \subseteq Nat \ {NULL}
           /\ available \cap (taken \cup locked) = {}
<1>1. AllFrames \subseteq Nat
  BY PoolsAssumption, SizesAssumption DEF AllFrames, NULL
<1>2. available \subseteq Nat \ {NULL} /\ available \cap (taken \cup locked) = {}
  BY <1>1 DEF IInv, Shape, Sound
<1> QED
  BY <1>2, RequestPageGives

\* A frame for the IDT or for DMA.
LEMMA StepTakeFrame ==
    ASSUME IInv, TakeFrame
    PROVE  IInv'
<1> DEFINE frame == RequestPage(available)
<1>1. /\ phase = "running" /\ ~exhausted /\ frame # NULL
      /\ available' = available \ {frame} /\ taken' = taken \cup {frame}
      /\ UNCHANGED <<memory, pml4, boot, heapEnd, mapped, exhausted>>
  BY DEF TakeFrame
<1>2. UNCHANGED <<phase, framebuffer, t, locked>>
  BY <1>1 DEF boot
<1>3. /\ Live /\ Shape /\ Sound(memory, available, taken \cup locked, mapped)
      /\ Needed(memory, mapped) /\ Targets
  BY <1>1 DEF Live, IInv
<1>4. frame \in available /\ available \cap (taken \cup locked) = {}
  BY <1>1, <1>3, Given
<1> HIDE DEF frame
<1>5. Shape'
  BY <1>1, <1>2, <1>3, <1>4 DEF Shape
<1>6. Progress'
  BY <1>1, <1>2 DEF IInv, Progress
<1>7. /\ available' \cup (taken' \cup locked') = available \cup (taken \cup locked)
      /\ available' \cap (taken' \cup locked') = {}
  BY <1>1, <1>2, <1>4
<1>8. Sound(memory, available, taken \cup locked, mapped)'
  BY <1>1, <1>3, <1>7 DEF Sound
<1>9. Needed(memory, mapped)'
  BY <1>1, <1>3 DEF Needed
<1>10. Targets'
  BY <1>1, <1>2, <1>3 DEF Targets
<1> QED
  BY <1>5, <1>6, <1>8, <1>9, <1>10 DEF IInv

\* The heap grows by a page: its frame has left the pool before the tables are
\* made, so that no table takes it, and no page of the heap has it.
LEMMA StepGrowHeap ==
    ASSUME IInv, GrowHeap
    PROVE  IInv'
<1> DEFINE frame == RequestPage(available)
           a == available \ {frame}
           kept == (taken \cup {frame}) \cup locked
<1>1. /\ phase = "running" /\ heapEnd \in Pages /\ frame # NULL
      /\ Map(a, heapEnd, frame) /\ taken' = taken \cup {frame}
      /\ heapEnd' = heapEnd + 1 /\ UNCHANGED <<pml4, boot>>
  BY DEF GrowHeap
<1>2. UNCHANGED <<phase, framebuffer, t, locked>>
  BY <1>1 DEF boot
<1>3. Live /\ ~exhausted /\ Shape /\ Targets
  BY <1>1 DEF Live, Map, IInv
<1>4. /\ frame \in available /\ available \subseteq Nat \ {NULL}
      /\ available \cap (taken \cup locked) = {}
  BY <1>1, <1>3, Given
<1>5. PICK page, value : page = heapEnd /\ value = frame
  OBVIOUS
<1> HIDE DEF frame
<1>6. /\ a \subseteq Nat \ {NULL} /\ a \cup kept = available \cup (taken \cup locked)
      /\ a \cap kept = {}
  BY <1>4
<1> HIDE DEF a, kept
<1>7. Called(a, kept, page, value)
  <2>1. page \in Pages /\ value \in Nat /\ Map(a, page, value)
    BY <1>1, <1>4, <1>5
  <2> QED
    BY <1>3, <1>6, <2>1, MapKeeps
<1>8. /\ exhausted' \in BOOLEAN /\ available' \subseteq a /\ DOMAIN memory' = AllFrames
      /\ DOMAIN mapped' = DOMAIN mapped \cup {heapEnd} /\ mapped'[heapEnd] = frame
      /\ \A p \in DOMAIN mapped : p # heapEnd => mapped'[p] = mapped[p]
      /\ ~exhausted' => Sound(memory', available', kept, mapped') /\ Needed(memory', mapped')
  BY <1>5, <1>7 DEF Called
<1>9. heapEnd \in Nat /\ HeapBase \in Nat /\ heapEnd >= HeapBase
  BY <1>3, SizesAssumption DEF Shape
<1>10. Shape'
  <2>1. heapEnd' \in Nat /\ heapEnd' >= HeapBase
    BY <1>1, <1>9
  <2>2. available' \subseteq AllFrames \ {NULL} /\ taken' \subseteq AllFrames
    BY <1>1, <1>3, <1>4, <1>8 DEF Shape, a
  <2> QED
    BY <1>1, <1>2, <1>3, <1>8, <2>1, <2>2 DEF Shape
<1>11. Progress'
  BY <1>1, <1>2 DEF IInv, Progress
<1>12. ASSUME ~exhausted'
       PROVE  Sound(memory, available, taken \cup locked, mapped)' /\ Needed(memory, mapped)'
  <2>1. kept = taken' \cup locked'
    BY <1>1, <1>2 DEF kept
  <2> QED
    BY <1>1, <1>8, <1>12, <2>1 DEF Sound, Needed
<1>13. \A p \in DOMAIN mapped : p # heapEnd /\ mapped'[p] = mapped[p]
  <2>1. \A p \in DOMAIN mapped : p # heapEnd
    BY <1>3, <1>9 DEF Targets
  <2> QED
    BY <1>8, <2>1
<1>14. HeapBase .. heapEnd' - 1 = (HeapBase .. heapEnd - 1) \cup {heapEnd}
  BY <1>1, <1>9
<1>15. (\A p, q \in HeapBase .. heapEnd - 1 : mapped[p] = mapped[q] => p = q)'
  <2>1. \A p \in HeapBase .. heapEnd - 1 : p \in DOMAIN mapped /\ p >= HeapBase
    BY <1>3, <1>9 DEF Targets
  <2>2. \A p \in HeapBase .. heapEnd - 1 : mapped'[p] = mapped[p] /\ mapped[p] \in taken
    BY <1>3, <1>13, <2>1 DEF Targets
  <2>3. frame \notin taken
    BY <1>4
  <2>4. \A p, q \in HeapBase .. heapEnd - 1 : mapped[p] = mapped[q] => p = q
    BY <1>3 DEF Targets
  <2> QED
    BY <1>8, <1>14, <2>2, <2>3, <2>4
<1>16. (\A p \in DOMAIN mapped : p < HeapBase => mapped[p] = p)'
  BY <1>3, <1>8, <1>9, <1>13 DEF Targets
<1>17. (\A p \in DOMAIN mapped : p >= HeapBase => p < heapEnd /\ mapped[p] \in taken)'
  <2> SUFFICES ASSUME NEW p \in DOMAIN mapped', p >= HeapBase
               PROVE  p < heapEnd' /\ mapped'[p] \in taken'
    OBVIOUS
  <2>1. CASE p = heapEnd
    BY <1>1, <1>8, <1>9, <2>1
  <2>2. CASE p \in DOMAIN mapped
    <3>1. p < heapEnd /\ mapped[p] \in taken
      BY <1>3, <2>2 DEF Targets
    <3>2. p \in Int
      BY <1>3, <2>2 DEF Shape, Pages
    <3> QED
      BY <1>1, <1>9, <1>13, <2>2, <3>1, <3>2
  <2> QED
    BY <1>8, <2>1, <2>2
<1>18. (HeapBase .. heapEnd - 1 \subseteq DOMAIN mapped)'
  BY <1>3, <1>8, <1>14 DEF Targets
<1>19. Targets'
  BY <1>1, <1>2, <1>3, <1>8, <1>15, <1>16, <1>17, <1>18 DEF Targets
<1> QED
  BY <1>10, <1>11, <1>12, <1>19 DEF IInv, Live

\* A step that changes nothing.
LEMMA Stutter ==
    ASSUME IInv, UNCHANGED vars
    PROVE  IInv'
<1>1. UNCHANGED <<memory, available, pml4, phase, framebuffer, t, locked, heapEnd, mapped, taken, exhausted>>
  BY DEF vars, boot
<1>2. Shape'
  BY <1>1 DEF IInv, Shape
<1>3. Progress'
  BY <1>1 DEF IInv, Progress
<1>4. Live' => Live
  BY <1>1 DEF Live
<1>5. Sound(memory, available, taken \cup locked, mapped)
        => Sound(memory, available, taken \cup locked, mapped)'
  BY <1>1 DEF Sound
<1>6. Needed(memory, mapped) => Needed(memory, mapped)'
  BY <1>1 DEF Needed
<1>7. Targets => Targets'
  BY <1>1 DEF Targets
<1> QED
  BY <1>2, <1>3, <1>4, <1>5, <1>6, <1>7 DEF IInv

\* The inductive invariant holds in every reachable state.
THEOREM Invariance == Spec => []IInv
<1>1. IInv /\ [Next]_vars => IInv'
  <2> SUFFICES ASSUME IInv, [Next]_vars
               PROVE  IInv'
    OBVIOUS
  <2>1. CASE CreatePML4
    BY <2>1, StepCreatePML4
  <2>2. CASE MapIdentity
    BY <2>2, StepMapIdentity
  <2>3. CASE LockFramebuffer
    BY <2>3, StepLockFramebuffer
  <2>4. CASE MapFramebuffer
    BY <2>4, StepMapFramebuffer
  <2>5. CASE LoadCR3
    BY <2>5, StepLoadCR3
  <2>6. CASE GrowHeap
    BY <2>6, StepGrowHeap
  <2>7. CASE TakeFrame
    BY <2>7, StepTakeFrame
  <2>8. ASSUME NEW f \in Devices, MapDevice(f)
        PROVE  IInv'
    BY <2>8, StepMapDevice
  <2>9. CASE UNCHANGED vars
    BY <2>9, Stutter
  <2> QED
    BY <2>1, <2>2, <2>3, <2>4, <2>5, <2>6, <2>7, <2>8, <2>9 DEF Next
<1> QED
  BY <1>1, InvInit, PTL DEF Spec

-----------------------------------------------------------------------------
(* The properties.                                                           *)

\* TableAt follows the entries as TabOf does.
LEMMA TablesFound ==
    ASSUME NEW p, NEW k \in 0 .. 3
    PROVE  TableAt(p, k) = TabOf(memory, pml4, p, k)
BY DEF TableAt, TabOf, Walk, Hop

\* A frame is a table when a walk comes to it.
LEMMA TablesAre ==
    ASSUME NEW f
    PROVE  f \in Tables <=> f # NULL /\ \E p \in Pages, k \in 0 .. 3 : f = TabOf(memory, pml4, p, k)
<1>1. f \in Tables <=> f # NULL /\ \E p \in Pages, k \in 0 .. 3 : f = TableAt(p, k)
  BY DEF Tables
<1> QED
  BY <1>1, TablesFound

\* Every part of the state has its type.
THEOREM TypeCorrect == Spec => []TypeOK
<1>1. IInv => TypeOK
  <2> SUFFICES ASSUME IInv
               PROVE  TypeOK
    OBVIOUS
  <2>1. Shape /\ Progress
    BY DEF IInv
  <2>2. t \in 0 .. MemoryFrames \cup framebuffer \cup {Max(framebuffer) + 1}
    BY <2>1 DEF Shape, Progress
  <2> QED
    BY <2>1, <2>2 DEF Shape, TypeOK
<1> QED
  BY <1>1, Invariance, PTL

\* A walk of the tables gives a page the frame it was last mapped to, and stops
\* for every other page: no call of MapMemory disturbs another page.
THEOREM Translations == Spec => []TranslationExact
<1>1. IInv => TranslationExact
  <2> SUFFICES ASSUME IInv, Live, NEW p \in Pages
               PROVE  /\ Present(p) <=> p \in DOMAIN mapped
                      /\ p \in DOMAIN mapped => Translate(p) = mapped[p]
    BY DEF TranslationExact
  <2>1. Holds(memory, pml4, mapped)
    BY DEF IInv, Sound
  <2>2. TableAt(p, 0) = TabOf(memory, pml4, p, 0)
    BY TablesFound
  <2> QED
    BY <2>1, <2>2 DEF Holds, Present, Translate
<1> QED
  BY <1>1, Invariance, PTL

\* The kernel can write every table through its physical address once the
\* tables are loaded.
THEOREM TablesMapped == Spec => []TablesReachable
<1>1. IInv => TablesReachable
  <2> SUFFICES ASSUME IInv, Live, phase = "running", NEW f \in Tables
               PROVE  Present(f) /\ Translate(f) = f
    BY DEF TablesReachable
  <2>1. Tree(memory, pml4, available \cup (taken \cup locked)) /\ Holds(memory, pml4, mapped) /\ Targets
    BY DEF IInv, Sound
  <2>2. f \in Real
    BY <2>1, TablesAre DEF Tree, Placed
  <2>3. f \in Pages /\ f < HeapBase /\ f \in 0 .. MemoryFrames - 1
    BY <2>2, SizesAssumption DEF Real
  <2>4. f \in DOMAIN mapped /\ mapped[f] = f
    BY <2>1, <2>3 DEF Targets
  <2>5. TableAt(f, 0) = TabOf(memory, pml4, f, 0)
    BY TablesFound
  <2> QED
    BY <2>1, <2>3, <2>4, <2>5 DEF Holds, Present, Translate
<1> QED
  BY <1>1, Invariance, PTL

\* The frames of the heap's pages are no tables, and differ from one another.
THEOREM HeapPrivate == Spec => []HeapPagesPrivate
<1>1. IInv => HeapPagesPrivate
  <2> SUFFICES ASSUME IInv, Live
               PROVE  /\ \A p \in HeapBase .. heapEnd - 1 : Translate(p) \notin Tables
                      /\ \A p, q \in HeapBase .. heapEnd - 1 : Translate(p) = Translate(q) => p = q
    BY DEF HeapPagesPrivate
  <2>1. /\ Tree(memory, pml4, available \cup (taken \cup locked)) /\ Holds(memory, pml4, mapped)
        /\ Targets /\ Shape
    BY DEF IInv, Sound
  <2>2. HeapBase \in Nat /\ heapEnd \in Nat
    BY <2>1, SizesAssumption DEF Shape
  <2>3. ASSUME NEW p \in HeapBase .. heapEnd - 1
        PROVE  Translate(p) = mapped[p] /\ mapped[p] \in taken
    <3>1. p \in DOMAIN mapped /\ p >= HeapBase /\ p \in Pages
      BY <2>1, <2>2 DEF Targets, Shape
    <3>2. mapped[p] \in taken
      BY <2>1, <3>1 DEF Targets
    <3>3. TableAt(p, 0) = TabOf(memory, pml4, p, 0)
      BY TablesFound
    <3> QED
      BY <2>1, <3>1, <3>2, <3>3 DEF Holds, Translate
  <2>4. ASSUME NEW f \in taken
        PROVE  f \notin Tables
    BY <2>1, TablesAre DEF Tree, Placed
  <2>5. \A p, q \in HeapBase .. heapEnd - 1 : mapped[p] = mapped[q] => p = q
    BY <2>1 DEF Targets
  <2> QED
    BY <2>3, <2>4, <2>5
<1> QED
  BY <1>1, Invariance, PTL

\* Sets that share nothing.
LEMMA DisjointUnion ==
    ASSUME NEW S, IsFiniteSet(S), NEW T, IsFiniteSet(T), S \cap T = {}
    PROVE  IsFiniteSet(S \cup T) /\ Cardinality(S \cup T) = Cardinality(S) + Cardinality(T)
<1>1. /\ IsFiniteSet(S \cup T)
      /\ Cardinality(S \cup T) = Cardinality(S) + Cardinality(T) - Cardinality(S \cap T)
  BY FS_Union
<1>2. Cardinality(S \cap T) = 0
  BY FS_EmptySet
<1>3. Cardinality(S) \in Nat /\ Cardinality(T) \in Nat
  BY FS_CardinalityType
<1> QED
  BY <1>1, <1>2, <1>3

\* The values of a function on a set.
Values(f, D) == {f[p] : p \in D}

\* Two functions that tell the same members apart have as many values.
LEMMA SameCount ==
    ASSUME NEW D, IsFiniteSet(D), NEW a, NEW b,
           \A p, q \in D : a[p] = a[q] <=> b[p] = b[q]
    PROVE  IsFiniteSet(Values(b, D)) /\ Cardinality(Values(b, D)) = Cardinality(Values(a, D))
<1> DEFINE A == {a[p] : p \in D}
           B == {b[p] : p \in D}
           onto == [p \in D |-> a[p]]
           of(x) == CHOOSE p \in D : a[p] = x
           f == [x \in A |-> b[of(x)]]
<1>1. onto \in Surjection(D, A)
  <2>1. onto \in [D -> A]
    OBVIOUS
  <2>2. \A x \in A : \E p \in D : onto[p] = x
    OBVIOUS
  <2> QED
    BY <2>1, <2>2, Fun_IsSurj
<1>2. IsFiniteSet(A)
  BY <1>1, FS_Surjection
<1>3. \A x \in A : of(x) \in D /\ a[of(x)] = x
  OBVIOUS
<1>4. f \in [A -> B]
  BY <1>3
<1>5. \A x \in A : f[x] = b[of(x)]
  OBVIOUS
<1>6. \A x, y \in A : f[x] = f[y] => x = y
  <2> SUFFICES ASSUME NEW x \in A, NEW y \in A, f[x] = f[y]
               PROVE  x = y
    OBVIOUS
  <2> HIDE DEF A, f, of
  <2>1. b[of(x)] = b[of(y)]
    BY <1>5
  <2>2. a[of(x)] = a[of(y)]
    BY <1>3, <2>1
  <2> QED
    BY <1>3, <2>2
<1>7. \A y \in B : \E x \in A : f[x] = y
  <2> SUFFICES ASSUME NEW p \in D
               PROVE  \E x \in A : f[x] = b[p]
    OBVIOUS
  <2>1. a[p] \in A
    OBVIOUS
  <2> HIDE DEF A, f, of
  <2>2. of(a[p]) \in D /\ a[of(a[p])] = a[p]
    BY <1>3, <2>1
  <2>3. b[of(a[p])] = b[p]
    BY <2>2
  <2> QED
    BY <1>5, <2>1, <2>3
<1> HIDE DEF A, B, f, of, onto
<1>8. f \in Bijection(A, B)
  BY <1>4, <1>6, <1>7, Fun_IsBij
<1>9. ExistsBijection(A, B)
  BY <1>8, Fun_ExistsBij
<1>10. IsFiniteSet(B) /\ Cardinality(B) = Cardinality(A)
  BY <1>2, <1>9, FS_Bijection
<1> QED
  BY <1>10 DEF A, B, Values

\* The tables of a level that the mapped pages need.
TablesOf(k) == {TabOf(memory, pml4, p, k) : p \in DOMAIN mapped}

\* What these pages share with others.
PrefixesOf(k) == {Prefix(p, k) : p \in DOMAIN mapped}

\* There are as many as there are prefixes.
LEMMA TablesCounted ==
    ASSUME IInv, Live, NEW k \in 0 .. 2
    PROVE  /\ IsFiniteSet(TablesOf(k))
           /\ Cardinality(TablesOf(k)) = Cardinality(PrefixesOf(k))
           /\ \A f : f \in TablesOf(k) <=> f # NULL /\ \E p \in Pages : f = TabOf(memory, pml4, p, k)
<1> DEFINE D == DOMAIN mapped
           a == [p \in D |-> Prefix(p, k)]
           b == [p \in D |-> TabOf(memory, pml4, p, k)]
<1>1. /\ Tree(memory, pml4, available \cup (taken \cup locked)) /\ Needed(memory, mapped)
      /\ D \subseteq Pages /\ k \in 0 .. 3
  BY DEF IInv, Sound, Shape
<1>2. IsFiniteSet(D)
  <2>1. IsFiniteSet(Pages)
    <3> DEFINE last == Fanout * Fanout * Fanout * Fanout - 1
    <3>1. last \in Int
      <4>1. Fanout \in Nat /\ Fanout * Fanout * Fanout \in Nat /\ 0 \in Nat
        BY SizesAssumption, Quotients
      <4> QED
        BY <4>1
    <3>2. Pages = 0 .. last
      BY DEF Pages
    <3> HIDE DEF last
    <3> QED
      BY <3>1, <3>2, FS_Interval
  <2> QED
    BY <1>1, <2>1, FS_Subset
<1>3. \A p \in D : TabOf(memory, pml4, p, k) # NULL
  BY <1>1 DEF Needed
<1>4. \A p, q \in D : Prefix(p, k) = Prefix(q, k) <=> TabOf(memory, pml4, p, k) = TabOf(memory, pml4, q, k)
  BY <1>1, <1>3, WalkSame DEF Tree, Apart
<1>5. \A p, q \in D : a[p] = a[q] <=> b[p] = b[q]
  BY <1>4
<1>6. Values(a, D) = PrefixesOf(k) /\ Values(b, D) = TablesOf(k)
  BY DEF Values, TablesOf, PrefixesOf
<1>7. ASSUME NEW p \in Pages, TabOf(memory, pml4, p, k) # NULL
      PROVE  \E q \in D : TabOf(memory, pml4, q, k) = TabOf(memory, pml4, p, k)
  <2>1. PICK q \in D : Prefix(q, k) = Prefix(p, k)
    BY <1>1, <1>7 DEF Needed
  <2>2. q \in Pages
    BY <1>1
  <2> QED
    BY <1>1, <2>1, <2>2, WalkSame
<1>8. \A f : f \in TablesOf(k) <=> f # NULL /\ \E p \in Pages : f = TabOf(memory, pml4, p, k)
  BY <1>1, <1>3, <1>7 DEF TablesOf
<1> HIDE DEF a, b
<1>9. IsFiniteSet(Values(b, D)) /\ Cardinality(Values(b, D)) = Cardinality(Values(a, D))
  BY <1>2, <1>5, SameCount
<1> QED
  BY <1>6, <1>8, <1>9

\* Every frame that left the pool is a table or has one owner, and there is a
\* table for every prefix in use.
THEOREM FramesCounted == Spec => []FramesAccounted
<1>1. IInv => FramesAccounted
  <2> SUFFICES ASSUME IInv, Live
               PROVE  FramesAccounted
    BY DEF FramesAccounted
  <2> DEFINE kept == taken \cup locked
             prefixes(n) == {p \div n : p \in DOMAIN mapped}
  <2>1. PICK pool \in Pools : /\ Tree(memory, pml4, available \cup kept)
                              /\ Drawn(memory, pml4, available \cup kept, pool)
                              /\ available \cap kept = {}
    BY DEF IInv, Sound
  <2>2. Tables \cap (available \cup taken \cup locked) = {}
    BY <2>1, TablesAre DEF Tree, Placed
  <2>3. pool = available \cup taken \cup locked \cup Tables
    BY <2>1, TablesAre DEF Drawn
  <2>4. /\ IsFiniteSet(TablesOf(0)) /\ IsFiniteSet(TablesOf(1)) /\ IsFiniteSet(TablesOf(2))
        /\ Cardinality(TablesOf(0)) = Cardinality(prefixes(Fanout))
        /\ Cardinality(TablesOf(1)) = Cardinality(prefixes(Fanout * Fanout))
        /\ Cardinality(TablesOf(2)) = Cardinality(prefixes(Fanout * Fanout * Fanout))
    <3>1. /\ PrefixesOf(0) = prefixes(Fanout) /\ PrefixesOf(1) = prefixes(Fanout * Fanout)
          /\ PrefixesOf(2) = prefixes(Fanout * Fanout * Fanout)
      BY Levels DEF PrefixesOf
    <3> HIDE DEF prefixes
    <3>2. \A k \in 0 .. 2 : IsFiniteSet(TablesOf(k)) /\ Cardinality(TablesOf(k)) = Cardinality(PrefixesOf(k))
      BY TablesCounted
    <3>3. 0 \in 0 .. 2 /\ 1 \in 0 .. 2 /\ 2 \in 0 .. 2
      OBVIOUS
    <3> QED
      BY <3>1, <3>2, <3>3
  <2>5. ASSUME NEW f
        PROVE  f \in Tables <=> f = pml4 \/ f \in TablesOf(2) \/ f \in TablesOf(1) \/ f \in TablesOf(0)
    <3>1. f \in Tables <=> f # NULL /\ \E p \in Pages, k \in 0 .. 3 : f = TabOf(memory, pml4, p, k)
      BY TablesAre
    <3>2. \E p \in Pages : TRUE
      <4>1. Fanout * Fanout * Fanout * Fanout \in Nat \ {0}
        <5>1. Fanout \in Nat \ {0} /\ Fanout * Fanout * Fanout \in Nat \ {0} /\ 0 \in Nat
          BY Quotients
        <5> QED
          BY <5>1, DivDiv
      <4> QED
        BY <4>1 DEF Pages
    <3>3. pml4 # NULL /\ \A p : TabOf(memory, pml4, p, 3) = pml4
      BY <2>1, WalkTop DEF Tree
    <3>4. \A k \in 0 .. 2 : f \in TablesOf(k) <=> f # NULL /\ \E p \in Pages : f = TabOf(memory, pml4, p, k)
      BY TablesCounted
    <3>5. \A k : k \in 0 .. 3 <=> k = 3 \/ k = 2 \/ k = 1 \/ k = 0
      OBVIOUS
    <3>6. 0 \in 0 .. 2 /\ 1 \in 0 .. 2 /\ 2 \in 0 .. 2
      OBVIOUS
    <3> QED
      BY <3>1, <3>2, <3>3, <3>4, <3>5, <3>6
  <2>6. /\ pml4 \notin TablesOf(2) /\ pml4 \notin TablesOf(1) /\ pml4 \notin TablesOf(0)
        /\ TablesOf(2) \cap TablesOf(1) = {} /\ TablesOf(2) \cap TablesOf(0) = {}
        /\ TablesOf(1) \cap TablesOf(0) = {}
    <3>1. \A k \in 0 .. 2 : \A f \in TablesOf(k) : f # NULL /\ \E p \in Pages : f = TabOf(memory, pml4, p, k)
      BY TablesCounted
    <3>2. \A p : TabOf(memory, pml4, p, 3) = pml4
      BY WalkTop
    <3>3. \A k, n \in 0 .. 3, p, q \in Pages :
             TabOf(memory, pml4, p, k) # NULL /\ TabOf(memory, pml4, p, k) = TabOf(memory, pml4, q, n) => k = n
      BY <2>1 DEF Tree, Apart
    <3>4. \A k, n \in 0 .. 2 : k # n => TablesOf(k) \cap TablesOf(n) = {}
      BY <3>1, <3>3
    <3>5. \A k \in 0 .. 2 : pml4 \notin TablesOf(k)
      BY <3>1, <3>2, <3>3
    <3> QED
      BY <3>4, <3>5
  <2>7. Cardinality(Tables) =
          1 + Cardinality(TablesOf(0)) + Cardinality(TablesOf(1)) + Cardinality(TablesOf(2))
    <3> DEFINE S2 == TablesOf(2) \cup {pml4}
               S1 == TablesOf(1) \cup S2
               S0 == TablesOf(0) \cup S1
    <3>1. IsFiniteSet(S2) /\ Cardinality(S2) = Cardinality(TablesOf(2)) + 1
      BY <2>4, <2>6, FS_AddElement
    <3>2. TablesOf(1) \cap S2 = {} /\ TablesOf(0) \cap S1 = {} /\ Tables = S0
      BY <2>5, <2>6
    <3> HIDE DEF S2
    <3>3. IsFiniteSet(S1) /\ Cardinality(S1) = Cardinality(TablesOf(1)) + Cardinality(S2)
      BY <2>4, <3>1, <3>2, DisjointUnion
    <3> HIDE DEF S1
    <3>4. IsFiniteSet(S0) /\ Cardinality(S0) = Cardinality(TablesOf(0)) + Cardinality(S1)
      BY <2>4, <3>2, <3>3, DisjointUnion
    <3>5. Cardinality(TablesOf(0)) \in Nat /\ Cardinality(TablesOf(1)) \in Nat /\ Cardinality(TablesOf(2)) \in Nat
      BY <2>4, FS_CardinalityType
    <3> QED
      BY <3>1, <3>2, <3>3, <3>4, <3>5
  <2> HIDE DEF prefixes
  <2>8. Cardinality(Tables) = 1 + Cardinality(prefixes(Fanout)) + Cardinality(prefixes(Fanout * Fanout))
                                + Cardinality(prefixes(Fanout * Fanout * Fanout))
    BY <2>4, <2>7
  <2> QED
    BY <2>1, <2>2, <2>3, <2>8 DEF FramesAccounted, prefixes
<1> QED
  BY <1>1, Invariance, PTL
=============================================================================
