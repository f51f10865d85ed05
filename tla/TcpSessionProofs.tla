--------------------------- MODULE TcpSessionProofs ---------------------------
(***************************************************************************)
(* Theorems about TcpSession for any lines, however long, cut and merged.  *)
(***************************************************************************)
EXTENDS TcpSession, FiniteSetTheorems, WellFoundedInduction, TLAPS

LEMMA HasLeast ==
    ASSUME NEW T, T \subseteq Nat, T # {}
    PROVE  \E t \in T : \A u \in T : t <= u
  <1> DEFINE R == OpToRel(<, Nat)
  <1>1. IsWellFoundedOn(R, Nat)
    BY NatLessThanWellFounded
  <1>2. \A m, n \in Nat : m < n => <<m, n>> \in R
    BY DEF OpToRel
  <1> HIDE DEF R
  <1>3. PICK t \in T : \A u \in T : <<u, t>> \notin R
    BY <1>1, WFMin
  <1>4. \A u \in T : ~(u < t)
    BY <1>2, <1>3
  <1> QED
    BY <1>4

LEMMA LeastIsMin ==
    ASSUME NEW T, T \subseteq Nat, T # {}
    PROVE  Min(T) \in T /\ \A u \in T : Min(T) <= u
  BY HasLeast DEF Min

LEMMA MinOfTwo ==
    ASSUME NEW a \in Nat, NEW b \in Nat
    PROVE  /\ Min({a, b}) = IF a <= b THEN a ELSE b
           /\ Max({a, b}) = IF a <= b THEN b ELSE a
  BY DEF Min, Max
-----------------------------------------------------------------------------
(***************************************************************************)
(* Where a cell is in the stream of all lines.                             *)
(***************************************************************************)
LEMMA SizesTyped ==
    /\ Len(Size) \in Nat \ {0} /\ Lines = 1 .. Len(Size)
    /\ \A n \in Lines : Size[n] \in Nat /\ Size[n] >= 2
  BY SessionAssumption DEF Lines

\* f has the sums of the sizes up to line n.
SumsTo(f, n) ==
    /\ f \in [1 .. n + 1 -> Nat] /\ f[1] = 0
    /\ \A i \in 1 .. n : f[i + 1] = f[i] + Size[i]

LEMMA SumsExist == \A n \in 0 .. Len(Size) : \E f : SumsTo(f, n)
  <1> DEFINE T == {n \in 0 .. Len(Size) : ~\E f : SumsTo(f, n)}
  <1> SUFFICES ASSUME T # {} PROVE FALSE
    OBVIOUS
  <1>1. PICK n \in T : \A m \in T : n <= m
    <2>1. T \subseteq Nat
      BY SizesTyped
    <2> HIDE DEF T
    <2> QED
      BY <2>1, HasLeast
  <1>2. n # 0
    <2>1. SumsTo([i \in 1 .. 1 |-> 0], 0)
      BY DEF SumsTo
    <2> QED
      BY <2>1
  <1>3. n - 1 \in 0 .. Len(Size) /\ n - 1 \notin T /\ n \in Lines
    BY <1>1, <1>2, SizesTyped, SMTT(30)
  <1>4. PICK f : SumsTo(f, n - 1)
    BY <1>3
  <1> DEFINE g == [i \in 1 .. n + 1 |-> IF i = n + 1 THEN f[n] + Size[n] ELSE f[i]]
  <1>5. SumsTo(g, n)
    BY <1>1, <1>2, <1>3, <1>4, SizesTyped, SMTT(30) DEF SumsTo
  <1> QED
    BY <1>5

LEMMA BeforeIs ==
    /\ Before \in [1 .. Len(Size) + 1 -> Nat]
    /\ Before[1] = 0
    /\ \A n \in Lines : Before[n + 1] = Before[n] + Size[n]
  <1> DEFINE Def(f) == [n \in 1 .. Len(Size) + 1 |->
                           IF n = 1 THEN 0 ELSE f[n - 1] + Size[n - 1]]
  <1>1. PICK f : SumsTo(f, Len(Size))
    BY SumsExist, SizesTyped
  <1>2. f = Def(f)
    <2>1. ASSUME NEW n \in 1 .. Len(Size) + 1 PROVE f[n] = Def(f)[n]
      <3>1. CASE n = 1
        BY <1>1, <3>1 DEF SumsTo
      <3>2. CASE n # 1
        <4>1. n - 1 \in 1 .. Len(Size) /\ (n - 1) + 1 = n
          BY <3>2, SizesTyped
        <4> QED
          BY <1>1, <3>2, <4>1 DEF SumsTo
      <3> QED
        BY <3>1, <3>2
    <2>2. f \in [1 .. Len(Size) + 1 -> Nat]
      BY <1>1 DEF SumsTo
    <2> QED
      BY <2>1, <2>2
  <1>3. Before = CHOOSE g : g = Def(g)
    BY DEF Before
  <1>4. Before = Def(Before)
    <2> HIDE DEF Def
    <2> QED
      BY <1>2, <1>3
  <1>5. \A g : g = Def(g) => SumsTo(g, Len(Size))
    <2> SUFFICES ASSUME NEW g, g = Def(g) PROVE SumsTo(g, Len(Size))
      OBVIOUS
    <2>1. g[1] = 0
      BY SizesTyped
    <2>2. \A i \in 1 .. Len(Size) : g[i + 1] = g[i] + Size[i]
      <3> SUFFICES ASSUME NEW i \in 1 .. Len(Size) PROVE g[i + 1] = g[i] + Size[i]
        OBVIOUS
      <3>1. i + 1 \in 1 .. Len(Size) + 1 /\ i + 1 # 1 /\ (i + 1) - 1 = i
        BY SizesTyped
      <3> QED
        BY <3>1
    <2>3. \A i \in 1 .. Len(Size) + 1 : g[i] = f[i]
      <3> DEFINE T == {i \in 1 .. Len(Size) + 1 : g[i] # f[i]}
      <3> SUFFICES ASSUME T # {} PROVE FALSE
        OBVIOUS
      <3>1. PICK i \in T : \A j \in T : i <= j
        <4>1. T \subseteq Nat
          BY SizesTyped
        <4> HIDE DEF T
        <4> QED
          BY <4>1, HasLeast
      <3>2. i # 1
        BY <1>1, <2>1 DEF SumsTo
      <3>3. PICK j \in 1 .. Len(Size) : j \notin T /\ j + 1 = i
        <4>1. i - 1 \in 1 .. Len(Size) /\ i - 1 \notin T /\ (i - 1) + 1 = i
          BY <3>1, <3>2, SizesTyped, SMTT(30)
        <4> QED
          BY <4>1
      <3>4. g[j] = f[j] /\ g[i] = g[j] + Size[j] /\ f[i] = f[j] + Size[j]
        BY <1>1, <2>2, <3>3, SizesTyped DEF SumsTo
      <3> QED
        BY <3>4
    <2>4. g = [i \in 1 .. Len(Size) + 1 |-> g[i]]
      OBVIOUS
    <2>5. g \in [1 .. Len(Size) + 1 -> Nat]
      <3> HIDE DEF Def
      <3>1. \A i \in 1 .. Len(Size) + 1 : g[i] \in Nat
        BY <1>1, <2>3 DEF SumsTo
      <3> QED
        BY <2>4, <3>1
    <2> QED
      BY <2>1, <2>2, <2>5 DEF SumsTo
  <1> HIDE DEF Def
  <1>6. SumsTo(Before, Len(Size))
    BY <1>4, <1>5
  <1> QED
    BY <1>6, SizesTyped DEF SumsTo

LEMMA BeforeMonotone ==
    ASSUME NEW m \in 1 .. Len(Size) + 1, NEW n \in 1 .. Len(Size) + 1, m <= n
    PROVE  Before[m] <= Before[n]
  <1> DEFINE T == {i \in 1 .. Len(Size) + 1 : m <= i /\ ~(Before[m] <= Before[i])}
  <1> SUFFICES ASSUME T # {} PROVE FALSE
    OBVIOUS
  <1>1. PICK i \in T : \A j \in T : i <= j
    <2>1. T \subseteq Nat
      BY SizesTyped
    <2> HIDE DEF T
    <2> QED
      BY <2>1, HasLeast
  <1>2. i # m
    BY BeforeIs
  <1>3. PICK j \in Lines : m <= j /\ j \notin T /\ j + 1 = i
    <2>1. i - 1 \in Lines /\ m <= i - 1 /\ i - 1 \notin T /\ (i - 1) + 1 = i
      BY <1>1, <1>2, SizesTyped
    <2> QED
      BY <2>1
  <1>4. j \in 1 .. Len(Size) + 1
    BY SizesTyped
  <1>5. Before[m] <= Before[j]
    BY <1>3, <1>4
  <1> HIDE DEF T
  <1>6. Before[j + 1] = Before[j] + Size[j] /\ Size[j] \in Nat
    BY BeforeIs, SizesTyped
  <1>7. Before[j] \in Nat /\ Before[m] \in Nat
    BY <1>4, BeforeIs
  <1>8. Before[m] <= Before[i]
    BY <1>3, <1>5, <1>6, <1>7
  <1> QED
    BY <1>1, <1>8 DEF T

LEMMA BeforeGrows ==
    ASSUME NEW m \in Lines, NEW n \in 1 .. Len(Size) + 1, m < n
    PROVE  Before[m] + Size[m] <= Before[n]
  <1>1. m + 1 \in 1 .. Len(Size) + 1 /\ m + 1 <= n
    BY SizesTyped
  <1>2. Before[m + 1] = Before[m] + Size[m]
    BY BeforeIs
  <1>3. Before[m + 1] <= Before[n]
    BY <1>1, BeforeMonotone
  <1> QED
    BY <1>2, <1>3

\* The cells of lines, and how many there are up to one.
LineCells == UNION {ToSet(Text(n)) : n \in Lines}
Pos(cell) == Before[cell.line] + cell.at

LEMMA LineCellIs ==
    /\ \A n \in Lines : \A i \in 1 .. Size[n] : [line |-> n, at |-> i] \in LineCells
    /\ \A c \in LineCells : /\ c.line \in Lines /\ c.at \in 1 .. Size[c.line]
                            /\ c = [line |-> c.line, at |-> c.at]
  <1>1. \A n \in Lines : ToSet(Text(n)) = {[line |-> n, at |-> i] : i \in 1 .. Size[n]}
    BY DEF ToSet, Text
  <1> QED
    BY <1>1 DEF LineCells

LEMMA PosIs ==
    ASSUME NEW c \in LineCells
    PROVE  /\ Pos(c) \in Nat \ {0} /\ Before[c.line] \in Nat
           /\ Before[c.line] < Pos(c) /\ Pos(c) <= Before[c.line + 1]
           /\ Newline(c) <=> Pos(c) = Before[c.line + 1]
  <1>1. c.line \in Lines /\ c.at \in 1 .. Size[c.line]
    BY LineCellIs
  <1>2. /\ Before[c.line] \in Nat /\ Size[c.line] \in Nat
        /\ Before[c.line + 1] = Before[c.line] + Size[c.line]
    BY <1>1, BeforeIs, SizesTyped
  <1> QED
    BY <1>1, <1>2 DEF Pos, Newline

\* A cell that lies within line n of the stream is of line n.
LEMMA CellAt ==
    ASSUME NEW c \in LineCells, NEW n \in Lines, NEW i \in 1 .. Size[n],
           Pos(c) = Before[n] + i
    PROVE  c = [line |-> n, at |-> i]
  <1>1. c.line \in Lines /\ c.at \in 1 .. Size[c.line] /\ c = [line |-> c.line, at |-> c.at]
    BY LineCellIs
  <1>2. /\ Before[n] \in Nat /\ Size[n] \in Nat /\ Before[c.line] \in Nat /\ Size[c.line] \in Nat
        /\ Before[n + 1] = Before[n] + Size[n]
        /\ Before[c.line + 1] = Before[c.line] + Size[c.line]
    BY <1>1, BeforeIs, SizesTyped
  <1>3. ~(c.line < n)
    <2> SUFFICES ASSUME c.line < n PROVE FALSE
      OBVIOUS
    <2>1. Before[c.line] + Size[c.line] <= Before[n]
      BY <1>1, BeforeGrows, SizesTyped
    <2> QED
      BY <1>1, <1>2, <2>1 DEF Pos
  <1>4. ~(n < c.line)
    <2> SUFFICES ASSUME n < c.line PROVE FALSE
      OBVIOUS
    <2>1. Before[n] + Size[n] <= Before[c.line]
      BY <1>1, BeforeGrows, SizesTyped
    <2> QED
      BY <1>1, <1>2, <2>1 DEF Pos
  <1>5. c.line = n
    BY <1>1, <1>3, <1>4, SizesTyped
  <1> QED
    BY <1>1, <1>2, <1>5 DEF Pos
-----------------------------------------------------------------------------
(***************************************************************************)
(* Parts of sequences, and what they are put together from.                *)
(***************************************************************************)
LEMMA PartIs ==
    ASSUME NEW C, NEW s \in Seq(C), NEW a \in Nat \ {0}, NEW b \in Nat, b <= Len(s), a <= b + 1
    PROVE  /\ SubSeq(s, a, b) \in Seq(C) /\ Len(SubSeq(s, a, b)) = b - a + 1
           /\ \A i \in 1 .. b - a + 1 : SubSeq(s, a, b)[i] = s[a + i - 1]
  BY SMTT(30)

\* What is between g and p, and what is behind q.
LEMMA SliceIs ==
    ASSUME NEW C, NEW s \in Seq(C), NEW p \in 0 .. Len(s), NEW g \in 0 .. p
    PROVE  /\ SubSeq(s, g + 1, p) \in Seq(C) /\ Len(SubSeq(s, g + 1, p)) = p - g
           /\ \A i \in 1 .. p - g : SubSeq(s, g + 1, p)[i] = s[g + i]
  <1>1. g + 1 \in Nat \ {0} /\ p \in Nat /\ g + 1 <= p + 1
    OBVIOUS
  <1>2. /\ SubSeq(s, g + 1, p) \in Seq(C) /\ Len(SubSeq(s, g + 1, p)) = p - (g + 1) + 1
        /\ \A i \in 1 .. p - (g + 1) + 1 : SubSeq(s, g + 1, p)[i] = s[(g + 1) + i - 1]
    BY <1>1, PartIs
  <1> QED
    BY <1>1, <1>2

LEMMA RestIs ==
    ASSUME NEW C, NEW s \in Seq(C), NEW q \in Nat
    PROVE  /\ SubSeq(s, q + 1, Len(s)) \in Seq(C)
           /\ Len(SubSeq(s, q + 1, Len(s))) = IF q <= Len(s) THEN Len(s) - q ELSE 0
           /\ \A i \in 1 .. Len(s) - q : SubSeq(s, q + 1, Len(s))[i] = s[q + i]
  <1>1. Len(s) \in Nat
    OBVIOUS
  <1>2. CASE q <= Len(s)
    <2>1. Len(s) \in 0 .. Len(s) /\ q \in 0 .. Len(s)
      BY <1>1, <1>2
    <2> QED
      BY <1>2, <2>1, SliceIs
  <1>3. CASE ~(q <= Len(s))
    <2>1. SubSeq(s, q + 1, Len(s)) = <<>>
      BY <1>1, <1>3
    <2>2. <<>> \in Seq(C) /\ Len(<<>>) = 0
      OBVIOUS
    <2> QED
      BY <1>1, <1>3, <2>1, <2>2
  <1> QED
    BY <1>2, <1>3

LEMMA JoinedIs ==
    ASSUME NEW C, NEW s \in Seq(C), NEW t \in Seq(C)
    PROVE  /\ s \o t \in Seq(C) /\ Len(s \o t) = Len(s) + Len(t)
           /\ \A i \in 1 .. Len(s) : (s \o t)[i] = s[i]
           /\ \A i \in 1 .. Len(t) : (s \o t)[Len(s) + i] = t[i]
  OBVIOUS

LEMMA PrefixIs ==
    ASSUME NEW C, NEW s \in Seq(C), NEW n \in 0 .. Len(s)
    PROVE  /\ SubSeq(s, 1, n) \in Seq(C) /\ Len(SubSeq(s, 1, n)) = n
           /\ \A i \in 1 .. n : SubSeq(s, 1, n)[i] = s[i]
  <1>1. /\ SubSeq(s, 1, n) \in Seq(C) /\ Len(SubSeq(s, 1, n)) = n - 1 + 1
        /\ \A i \in 1 .. n - 1 + 1 : SubSeq(s, 1, n)[i] = s[1 + i - 1]
    BY PartIs
  <1> QED
    BY <1>1

LEMMA EmptyIs == /\ \A C : <<>> \in Seq(C)
                 /\ Len(<<>>) = 0 /\ <<>> \in Seq(Seq(Cells)) /\ <<>> \in Seq(Seq(LineCells))
  OBVIOUS

\* Memory m with its cells from q on replaced by t.
Overlaid(m, q, t) == SubSeq(m, 1, q) \o t \o SubSeq(m, q + Len(t) + 1, Len(m))

LEMMA OverlaidIs ==
    ASSUME NEW C, NEW m \in Seq(C), NEW t \in Seq(C), NEW q \in 0 .. Len(m)
    PROVE  /\ Overlaid(m, q, t) \in Seq(C)
           /\ Len(Overlaid(m, q, t)) = IF q + Len(t) <= Len(m) THEN Len(m) ELSE q + Len(t)
           /\ \A j \in 1 .. q : Overlaid(m, q, t)[j] = m[j]
           /\ \A j \in 1 .. Len(t) : Overlaid(m, q, t)[q + j] = t[j]
           /\ \A j \in q + Len(t) + 1 .. Len(m) : Overlaid(m, q, t)[j] = m[j]
  <1>1. Len(m) \in Nat /\ Len(t) \in Nat /\ q \in Nat
    OBVIOUS
  <1>p. PICK p \in Nat : p = q + Len(t)
    BY <1>1
  <1>a. PICK a : a = SubSeq(m, 1, q)
    OBVIOUS
  <1>b. PICK b : b = SubSeq(m, p + 1, Len(m))
    OBVIOUS
  <1>2. a \in Seq(C) /\ Len(a) = q /\ \A i \in 1 .. q : a[i] = m[i]
    BY <1>a, PrefixIs
  <1>3. /\ b \in Seq(C) /\ Len(b) = IF p <= Len(m) THEN Len(m) - p ELSE 0
        /\ \A i \in 1 .. Len(m) - p : b[i] = m[p + i]
    BY <1>b, RestIs
  <1>c. PICK at : at = a \o t
    OBVIOUS
  <1>e. PICK new : new = Overlaid(m, q, t)
    OBVIOUS
  <1>4. new = at \o b
    BY <1>a, <1>b, <1>c, <1>e, <1>p DEF Overlaid
  <1>d. /\ at \in Seq(C) /\ Len(at) = p
        /\ \A i \in 1 .. q : at[i] = a[i]
        /\ \A i \in 1 .. Len(t) : at[q + i] = t[i]
    <2>1. /\ at \in Seq(C) /\ Len(at) = Len(a) + Len(t)
          /\ \A i \in 1 .. Len(a) : at[i] = a[i]
          /\ \A i \in 1 .. Len(t) : at[Len(a) + i] = t[i]
      <3>1. a \in Seq(C)
        BY <1>2
      <3>2. /\ a \o t \in Seq(C) /\ Len(a \o t) = Len(a) + Len(t)
            /\ \A i \in 1 .. Len(a) : (a \o t)[i] = a[i]
            /\ \A i \in 1 .. Len(t) : (a \o t)[Len(a) + i] = t[i]
        BY <3>1, JoinedIs
      <3> QED
        BY <1>c, <3>2
    <2> QED
      BY <1>2, <1>p, <2>1
  <1>5. /\ new \in Seq(C) /\ Len(new) = p + Len(b)
        /\ \A i \in 1 .. p : new[i] = at[i]
        /\ \A i \in 1 .. Len(b) : new[p + i] = b[i]
    <2>1. /\ new \in Seq(C) /\ Len(new) = Len(at) + Len(b)
          /\ \A i \in 1 .. Len(at) : new[i] = at[i]
          /\ \A i \in 1 .. Len(b) : new[Len(at) + i] = b[i]
      <3>1. at \in Seq(C) /\ b \in Seq(C)
        BY <1>3, <1>d
      <3>2. /\ at \o b \in Seq(C) /\ Len(at \o b) = Len(at) + Len(b)
            /\ \A i \in 1 .. Len(at) : (at \o b)[i] = at[i]
            /\ \A i \in 1 .. Len(b) : (at \o b)[Len(at) + i] = b[i]
        BY <3>1, JoinedIs
      <3> QED
        BY <1>4, <3>2
    <2> QED
      BY <1>d, <2>1
  <1>6. \A j \in p + 1 .. Len(m) : new[j] = m[j]
    <2> SUFFICES ASSUME NEW j \in p + 1 .. Len(m) PROVE new[j] = m[j]
      OBVIOUS
    <2>1. PICK i \in 1 .. Len(m) - p : j = p + i
      <3>1. j - p \in 1 .. Len(m) - p /\ j = p + (j - p)
        BY <1>1
      <3> QED
        BY <3>1
    <2>2. i \in 1 .. Len(b) /\ b[i] = m[p + i]
      BY <1>1, <1>3, <2>1
    <2>3. new[p + i] = b[i]
      BY <1>5, <2>2
    <2> QED
      BY <2>1, <2>2, <2>3
  <1>7. /\ \A j \in 1 .. q : new[j] = m[j]
        /\ \A j \in 1 .. Len(t) : new[q + j] = t[j]
    <2>1. \A j \in 1 .. q : j \in 1 .. p
      BY <1>1, <1>p
    <2>2. \A j \in 1 .. Len(t) : q + j \in 1 .. p
      BY <1>1, <1>p
    <2> QED
      BY <1>2, <1>5, <1>d, <2>1, <2>2
  <1>8. Len(new) = IF p <= Len(m) THEN Len(m) ELSE p
    <2>1. CASE p <= Len(m)
      <3>1. Len(b) = Len(m) - p
        BY <1>3, <2>1
      <3> QED
        BY <1>1, <1>5, <1>p, <2>1, <3>1
    <2>2. CASE ~(p <= Len(m))
      BY <1>1, <1>3, <1>5, <1>p, <2>2
    <2> QED
      BY <2>1, <2>2
  <1> QED
    BY <1>5, <1>6, <1>7, <1>8, <1>e, <1>p

\* The memory when a chunk has been read.
LEMMA FilledIs ==
    ASSUME NEW C, mem \in Seq(C), put \in 0 .. Len(mem), NEW chunk \in Seq(C)
    PROVE  /\ Filled(chunk) \in Seq(C)
           /\ Len(Filled(chunk)) = IF put + Len(chunk) <= Len(mem) THEN Len(mem)
                                   ELSE put + Len(chunk)
           /\ \A j \in 1 .. put : Filled(chunk)[j] = mem[j]
           /\ \A j \in 1 .. Len(chunk) : Filled(chunk)[put + j] = chunk[j]
           /\ \A j \in put + Len(chunk) + 1 .. Len(mem) : Filled(chunk)[j] = mem[j]
  <1>1. Filled(chunk) = Overlaid(mem, put, chunk)
    BY DEF Filled, Overlaid
  <1> QED
    BY <1>1, OverlaidIs

\* What prepare() leaves.
LEMMA PreparedIs ==
    ASSUME NEW C, NEW m \in Seq(C), NEW g \in Nat, NEW p \in Nat, g <= p, p <= Len(m),
           slack \in Nat, Prepare(m, g, p)
    PROVE  /\ mem' \in Seq(C) /\ Len(mem') = Len(m)
           /\ get' \in Nat /\ put' \in Nat /\ get' <= put' /\ put' <= Len(mem')
           /\ put' - get' = p - g /\ slack' \in Nat
           /\ \/ mem' = m /\ get' = g /\ put' = p
              \/ /\ get' = 0 /\ put' = p - g
                 /\ \A j \in 1 .. p - g : mem'[j] = m[g + j]
                 /\ \A j \in p - g + 1 .. Len(m) : mem'[j] = m[j]
  <1>1. CASE p <= slack
    BY <1>1 DEF Prepare
  <1>2. CASE ~(p <= slack)
    <2>1. PICK left \in Nat : left = p - g
      <3>1. p - g \in Nat
        OBVIOUS
      <3> QED
        BY <3>1
    <2>t. PICK t : t = SubSeq(m, g + 1, p)
      OBVIOUS
    <2>b. PICK b : b = SubSeq(m, left + 1, Len(m))
      OBVIOUS
    <2>2. t \in Seq(C) /\ Len(t) = left /\ \A j \in 1 .. left : t[j] = m[g + j]
      <3>1. p \in 0 .. Len(m) /\ g \in 0 .. p
        OBVIOUS
      <3> QED
        BY <2>1, <2>t, <3>1, SliceIs
    <2>3. mem' = t \o b /\ get' = 0 /\ put' = left
      BY <1>2, <2>1, <2>t, <2>b DEF Prepare
    <2>4. slack' \in Nat
      <3>1. slack' = Max({slack, left})
        BY <1>2, <2>1 DEF Prepare
      <3>2. PICK old \in Nat : old = slack
        OBVIOUS
      <3>3. Max({old, left}) \in Nat
        BY MinOfTwo
      <3> QED
        BY <3>1, <3>2, <3>3
    <2>5. /\ b \in Seq(C) /\ Len(b) = Len(m) - left
          /\ \A j \in 1 .. Len(m) - left : b[j] = m[left + j]
      <3>1. left <= Len(m)
        BY <2>1
      <3> QED
        BY <2>b, <3>1, RestIs
    <2>n. PICK new : new = t \o b
      OBVIOUS
    <2>6. /\ new \in Seq(C) /\ Len(new) = Len(t) + Len(b)
          /\ \A j \in 1 .. Len(t) : new[j] = t[j]
          /\ \A j \in 1 .. Len(b) : new[Len(t) + j] = b[j]
      BY <2>2, <2>5, <2>n, JoinedIs, SMTT(30)
    <2>7. Len(m) \in Nat /\ left <= Len(m)
      BY <2>1
    <2>8. \A j \in left + 1 .. Len(m) : new[j] = m[j]
      <3> SUFFICES ASSUME NEW j \in left + 1 .. Len(m) PROVE new[j] = m[j]
        OBVIOUS
      <3>1. PICK i \in 1 .. Len(m) - left : j = left + i
        <4>1. j - left \in 1 .. Len(m) - left /\ j = left + (j - left)
          BY <2>7
        <4> QED
          BY <4>1
      <3>2. new[Len(t) + i] = b[i] /\ b[i] = m[left + i]
        BY <2>5, <2>6
      <3> QED
        BY <2>2, <3>1, <3>2
    <2>9. Len(new) = Len(m)
      <3>1. Len(new) = left + (Len(m) - left)
        BY <2>2, <2>5, <2>6
      <3> QED
        BY <2>7, <3>1
    <2>10. \A j \in 1 .. left : new[j] = m[g + j]
      BY <2>2, <2>6
    <2>11. mem' = new
      BY <2>3, <2>n
    <2>12. 0 <= left /\ left - 0 = p - g /\ get' \in Nat /\ put' \in Nat /\ put' <= Len(m)
      BY <2>1, <2>3, <2>7
    <2> QED
      BY <2>1, <2>3, <2>4, <2>6, <2>8, <2>9, <2>10, <2>11, <2>12
  <1> QED
    BY <1>1, <1>2
-----------------------------------------------------------------------------
(***************************************************************************)
(* The inductive invariant.                                                *)
(***************************************************************************)
\* The types, as sequences.
Typed ==
    /\ client \in {"relay", "waits", "pipelines"}
    /\ sent \in 0 .. Len(Size) /\ eof \in BOOLEAN /\ open \in BOOLEAN /\ torn \in BOOLEAN
    /\ wire \in Seq(LineCells) /\ mem \in Seq(LineCells)
    /\ put \in 0 .. Len(mem) /\ get \in 0 .. put /\ slack \in Nat
    /\ ran \in Seq(Seq(LineCells))
    /\ wbuf = <<>> /\ queued \in Seq(Seq(Cells)) /\ done \in Nat
    /\ answer \in Seq(Cells) /\ taken \in 0 .. Len(answer)

\* Cells the server has read, and those of the commands it has run.
Got  == Before[sent + 1] - Len(wire)
Past == Before[Len(ran) + 1]

\* What is on the wire follows what was read.
OnWire ==
    /\ Len(wire) <= Before[sent + 1]
    /\ \A i \in 1 .. Len(wire) : Pos(wire[i]) = Got + i

\* The commands run are a beginning of those sent.
RanInOrder ==
    /\ Len(ran) <= sent
    /\ \A i \in 1 .. Len(ran) : ran[i] = Text(i)

\* The unread part of the buffer is what follows the commands run.
Unread ==
    /\ get <= Past /\ put - get = Got - Past
    /\ \A j \in 1 .. put - get : Pos(mem[get + j]) = Past + j

\* No cell of the memory is before its place in the stream, not even one that
\* was left behind: cells only move to the front.
NotEarly == \A j \in 1 .. Len(mem) : j <= Pos(mem[j]) /\ Pos(mem[j]) <= Got

\* No read ends where older bytes may complete a command before one has run.
FirstRan == client # "relay" /\ 1 <= Len(ran) /\ 1 <= sent /\ ran[1] = Text(1)

StreamInv ==
    /\ Typed
    /\ OnWire
    /\ client = "relay" => ran = <<>>
    /\ client # "relay" /\ ~torn => RanInOrder /\ Unread /\ NotEarly
    /\ torn => FirstRan
-----------------------------------------------------------------------------
(***************************************************************************)
(* Every step keeps the types.                                             *)
(***************************************************************************)
LEMMA TextsTyped ==
    ASSUME NEW n \in Lines
    PROVE  /\ Text(n) \in Seq(LineCells) /\ Len(Text(n)) = Size[n]
           /\ \A i \in 1 .. Size[n] : Text(n)[i] = [line |-> n, at |-> i]
           /\ Reply(n) \in Seq(Cells) /\ Len(Reply(n)) = ReplyLen
  <1>1. Size[n] \in Nat /\ ReplyLen \in Nat
    BY SizesTyped, SessionAssumption
  <1>2. Text(n) \in Seq(LineCells) /\ Len(Text(n)) = Size[n]
    BY <1>1, LineCellIs DEF Text
  <1>3. \A i \in 1 .. ReplyLen : [line |-> n, at |-> i] \in Cells
    BY <1>1 DEF Cells, ToSet, Reply
  <1>4. Reply(n) \in Seq(Cells) /\ Len(Reply(n)) = ReplyLen
    BY <1>1, <1>3 DEF Reply
  <1> QED
    BY <1>2, <1>4 DEF Text

\* What peek() shows of memory m.
LEMMA PeekedIs ==
    ASSUME NEW m \in Seq(LineCells), get \in 0 .. Len(m)
    PROVE  /\ Peeked(m) \in Seq(LineCells) /\ Len(Peeked(m)) = Len(m) - get
           /\ \A i \in 1 .. Len(m) - get : Peeked(m)[i] = m[get + i]
  <1> PICK g \in Nat : g = get /\ g <= Len(m)
    OBVIOUS
  <1>1. /\ SubSeq(m, g + 1, Len(m)) \in Seq(LineCells)
        /\ Len(SubSeq(m, g + 1, Len(m))) = Len(m) - (g + 1) + 1
        /\ \A i \in 1 .. Len(m) - (g + 1) + 1 :
               SubSeq(m, g + 1, Len(m))[i] = m[(g + 1) + i - 1]
    BY PartIs
  <1>2. Peeked(m) = SubSeq(m, g + 1, Len(m))
    BY DEF Peeked
  <1> QED
    BY <1>1, <1>2

LEMMA FirstLineIs ==
    ASSUME NEW s \in Seq(LineCells), Newlines(s) # {}
    PROVE  /\ FirstLine(s) \in Seq(LineCells)
           /\ Min(Newlines(s)) \in Newlines(s) /\ Len(FirstLine(s)) = Min(Newlines(s))
           /\ \A i \in 1 .. Min(Newlines(s)) : FirstLine(s)[i] = s[i]
           /\ \A i \in Newlines(s) : Min(Newlines(s)) <= i
  <1>1. Newlines(s) \subseteq 1 .. Len(s)
    BY DEF Newlines
  <1>2. /\ Min(Newlines(s)) \in Newlines(s)
        /\ \A i \in Newlines(s) : Min(Newlines(s)) <= i
    BY <1>1, LeastIsMin
  <1> PICK n \in 1 .. Len(s) : n = Min(Newlines(s))
    BY <1>1, <1>2
  <1>3. /\ SubSeq(s, 1, n) \in Seq(LineCells) /\ Len(SubSeq(s, 1, n)) = n - 1 + 1
        /\ \A i \in 1 .. n - 1 + 1 : SubSeq(s, 1, n)[i] = s[1 + i - 1]
    BY PartIs
  <1> QED
    BY <1>2, <1>3 DEF FirstLine

\* As much of a text as the socket takes.
LEMMA CutIs ==
    ASSUME Typed, Room > 0, NEW text \in Seq(Cells)
    PROVE  SubSeq(text, 1, Min({Len(text), Room})) \in Seq(Cells)
  <1>1. Room \in Int
    BY SessionAssumption DEF Typed, Room
  <1>2. PICK room \in Nat : room = Room
    BY <1>1
  <1>3. PICK n \in Nat : n = Len(text)
    OBVIOUS
  <1>4. PICK c \in 0 .. n : c = Min({n, room})
    BY MinOfTwo
  <1> QED
    BY <1>2, <1>3, <1>4, PrefixIs

LEMMA WrittenTyped ==
    ASSUME Typed, NEW text \in Seq(Cells), Written(text)
    PROVE  /\ answer' \in Seq(Cells) /\ Len(answer) <= Len(answer')
           /\ queued' \in Seq(Seq(Cells)) /\ done' \in Nat
  <1>2. CASE queued = <<>> /\ Room > 0
    <2>1. PICK part \in Seq(Cells) : part = SubSeq(text, 1, Min({Len(text), Room}))
      BY <1>2, CutIs
    <2>3. answer' = answer \o part /\ done' = done + 1 /\ queued' = queued
      BY <1>2, <2>1 DEF Written
    <2>4. answer' \in Seq(Cells) /\ Len(answer') = Len(answer) + Len(part)
      BY <2>1, <2>3, JoinedIs DEF Typed
    <2>5. Len(part) \in Nat /\ Len(answer) \in Nat
      BY <2>1 DEF Typed
    <2> QED
      BY <2>3, <2>4, <2>5 DEF Typed
  <1>3. CASE ~(queued = <<>> /\ Room > 0)
    <2>1. PICK earlier \in {queued, [i \in DOMAIN queued |-> text]} :
              queued' = Append(earlier, text)
      BY <1>3 DEF Written
    <2>2. earlier \in Seq(Seq(Cells))
      <3>1. DOMAIN queued = 1 .. Len(queued) /\ Len(queued) \in Nat
        BY DEF Typed
      <3>2. [i \in DOMAIN queued |-> text] \in Seq(Seq(Cells))
        BY <3>1
      <3> QED
        BY <2>1, <3>2 DEF Typed
    <2>3. answer' = answer /\ done' = done
      BY <1>3 DEF Written
    <2> QED
      BY <2>1, <2>2, <2>3 DEF Typed
  <1> QED
    BY <1>2, <1>3

LEMMA RunTyped ==
    ASSUME Typed, NEW text \in Seq(LineCells), text # <<>>, Run(text)
    PROVE  /\ ran' = Append(ran, text) /\ open' \in BOOLEAN /\ wbuf' = <<>>
           /\ answer' \in Seq(Cells) /\ Len(answer) <= Len(answer')
           /\ queued' \in Seq(Seq(Cells)) /\ done' \in Nat
  <1>1. CASE Close /\ UNCHANGED <<wbuf, done, answer>>
    <2>1. ran' = Append(ran, text) /\ open' = FALSE /\ queued' = <<>>
      BY <1>1 DEF Run, Close
    <2>2. Len(answer) <= Len(answer')
      BY <1>1 DEF Typed
    <2> QED
      BY <1>1, <2>1, <2>2, EmptyIs DEF Typed
  <1>2. CASE Write(Reply(text[1].line)) /\ open' = open /\ text # <<>>
    <2>1. PICK n \in Lines : n = text[1].line
      <3>1. text[1] \in LineCells
        BY <1>2
      <3> QED
        BY <3>1, LineCellIs
    <2>2. Reply(n) \in Seq(Cells)
      BY TextsTyped
    <2>3. Written(Reply(n)) /\ wbuf' = <<>>
      BY <1>2, <2>1, <2>2 DEF Write, Typed
    <2>4. open' \in BOOLEAN /\ ran' = Append(ran, text)
      BY <1>2 DEF Typed, Run
    <2> QED
      BY <2>2, <2>3, <2>4, WrittenTyped
  <1>3. CASE UNCHANGED <<open, output>>
    BY <1>3 DEF Run, Typed, output
  <1> QED
    BY <1>1, <1>2, <1>3 DEF Run

\* What a read takes off the wire, and the memory with it.
LEMMA ReadTyped ==
    ASSUME Typed, NEW k \in 1 .. Len(wire)
    PROVE  /\ SubSeq(wire, 1, k) \in Seq(LineCells) /\ Len(SubSeq(wire, 1, k)) = k
           /\ \A i \in 1 .. k : SubSeq(wire, 1, k)[i] = wire[i]
           /\ SubSeq(wire, k + 1, Len(wire)) \in Seq(LineCells)
           /\ Len(SubSeq(wire, k + 1, Len(wire))) = Len(wire) - k
           /\ \A i \in 1 .. Len(wire) - k : SubSeq(wire, k + 1, Len(wire))[i] = wire[k + i]
  <1> PICK w \in Seq(LineCells) : w = wire
    BY DEF Typed
  <1>1. /\ SubSeq(w, 1, k) \in Seq(LineCells) /\ Len(SubSeq(w, 1, k)) = k - 1 + 1
        /\ \A i \in 1 .. k - 1 + 1 : SubSeq(w, 1, k)[i] = w[1 + i - 1]
    BY PartIs
  <1>2. /\ SubSeq(w, k + 1, Len(w)) \in Seq(LineCells)
        /\ Len(SubSeq(w, k + 1, Len(w))) = Len(w) - (k + 1) + 1
        /\ \A i \in 1 .. Len(w) - (k + 1) + 1 : SubSeq(w, k + 1, Len(w))[i] = w[(k + 1) + i - 1]
    BY PartIs
  <1> QED
    BY <1>1, <1>2

\* A handler of a command connection, with the memory as it finds it.
LEMMA CommandSteps ==
    ASSUME NEW chunk, NEW m, m = Filled(chunk), NEW p, p = put + Len(chunk),
           HandleCommand(chunk)
    PROVE  \/ /\ Newlines(Peeked(m)) = {} /\ Prepare(m, get, p)
              /\ UNCHANGED <<open, ran, output>>
           \/ /\ Newlines(Peeked(m)) # {}
              /\ \E text : /\ text = FirstLine(Peeked(m)) /\ Run(text)
                           /\ Prepare(m, Min({get + Len(text), p}), p)
  BY DEF HandleCommand

LEMMA ReceiveTyped ==
    ASSUME Typed, Receive
    PROVE  Typed'
  <1>1. PICK k \in 1 .. Len(wire) :
            /\ wire' = SubSeq(wire, k + 1, Len(wire))
            /\ torn' = (torn \/ ~Harmless(wire[k]))
            /\ IF client = "relay" THEN HandlePacket(SubSeq(wire, 1, k))
                                   ELSE HandleCommand(SubSeq(wire, 1, k))
    BY DEF Receive
  <1>t. torn' \in BOOLEAN
    BY <1>1 DEF Typed
  <1>2. PICK chunk \in Seq(LineCells) : chunk = SubSeq(wire, 1, k) /\ Len(chunk) = k
    BY ReadTyped
  <1>3. wire' \in Seq(LineCells)
    BY <1>1, ReadTyped
  <1>m. PICK m : m = Filled(chunk)
    OBVIOUS
  <1>4. m \in Seq(LineCells) /\ m = Filled(chunk) /\ put + k <= Len(m)
    <2>1. /\ m \in Seq(LineCells)
          /\ Len(m) = IF put + Len(chunk) <= Len(mem) THEN Len(mem) ELSE put + Len(chunk)
      BY <1>2, <1>m, FilledIs DEF Typed
    <2>2. put + k \in Nat /\ Len(mem) \in Nat
      BY DEF Typed
    <2> QED
      BY <1>2, <1>m, <2>1, <2>2
  <1>5. PICK p \in Nat : p = put + k
    BY DEF Typed
  <1>6. get \in Nat /\ get <= p /\ get <= Len(m) /\ slack \in Nat
    BY <1>4, <1>5 DEF Typed
  <1>7. ASSUME NEW g \in Nat, g <= p, Prepare(m, g, p)
        PROVE  /\ mem' \in Seq(LineCells) /\ put' \in 0 .. Len(mem')
               /\ get' \in 0 .. put' /\ slack' \in Nat
    BY <1>4, <1>5, <1>6, <1>7, PreparedIs
  <1>8. UNCHANGED <<input, taken>>
    BY DEF Receive
  <1>9. CASE client = "relay"
    <2>1. Prepare(m, p, p) /\ UNCHANGED <<open, ran, output>>
      BY <1>1, <1>2, <1>4, <1>5, <1>9 DEF HandlePacket
    <2>2. /\ mem' \in Seq(LineCells) /\ put' \in 0 .. Len(mem')
          /\ get' \in 0 .. put' /\ slack' \in Nat
      BY <1>7, <2>1
    <2> QED
      BY <1>3, <1>8, <1>t, <2>1, <2>2 DEF Typed, input, output
  <1>10. CASE client # "relay"
    <2>1. HandleCommand(chunk) /\ p = put + Len(chunk)
      BY <1>1, <1>2, <1>5, <1>10
    <2>2. CASE /\ Newlines(Peeked(m)) = {} /\ Prepare(m, get, p)
               /\ UNCHANGED <<open, ran, output>>
      <3>1. /\ mem' \in Seq(LineCells) /\ put' \in 0 .. Len(mem')
            /\ get' \in 0 .. put' /\ slack' \in Nat
        BY <1>4, <1>5, <1>6, <2>2, PreparedIs
      <3> QED
        BY <1>3, <1>8, <1>t, <2>2, <3>1 DEF Typed, input, output
    <2>3. ASSUME Newlines(Peeked(m)) # {},
                 NEW text, text = FirstLine(Peeked(m)), Run(text),
                 Prepare(m, Min({get + Len(text), p}), p)
          PROVE  Typed'
      <3>1. Peeked(m) \in Seq(LineCells)
        <4>1. get \in 0 .. Len(m)
          BY <1>4, <1>6
        <4> QED
          BY <1>4, <4>1, PeekedIs
      <3>2. PICK s \in Seq(LineCells) : s = Peeked(m)
        BY <3>1
      <3>3. text \in Seq(LineCells) /\ text # <<>>
        <4>1. Newlines(s) \subseteq Nat \ {0}
          BY <3>2 DEF Newlines
        <4>2. text \in Seq(LineCells) /\ Len(text) \in Newlines(s)
          BY <2>3, <3>2, FirstLineIs
        <4> QED
          BY <4>1, <4>2
      <3>4. PICK g \in Nat : g = Min({get + Len(text), p}) /\ g <= p
        <4>1. get + Len(text) \in Nat
          BY <1>6, <3>3
        <4> QED
          BY <4>1, MinOfTwo
      <3>5. /\ mem' \in Seq(LineCells) /\ put' \in 0 .. Len(mem')
            /\ get' \in 0 .. put' /\ slack' \in Nat
        BY <1>7, <2>3, <3>4
      <3>6. /\ ran' = Append(ran, text) /\ open' \in BOOLEAN /\ wbuf' = <<>>
            /\ answer' \in Seq(Cells) /\ Len(answer) <= Len(answer')
            /\ queued' \in Seq(Seq(Cells)) /\ done' \in Nat
        BY <2>3, <3>3, RunTyped
      <3>7. ran' \in Seq(Seq(LineCells))
        BY <3>3, <3>6 DEF Typed
      <3>8. taken' \in 0 .. Len(answer')
        BY <1>8, <3>6 DEF Typed
      <3> QED
        BY <1>3, <1>8, <1>t, <3>5, <3>6, <3>7, <3>8 DEF Typed, input
    <2> QED
      BY <1>4, <2>1, <2>2, <2>3, CommandSteps
  <1> QED
    BY <1>9, <1>10

LEMMA TypedKept == Typed /\ [Next]_vars => Typed'
  <1> SUFFICES ASSUME Typed, [Next]_vars PROVE Typed'
    OBVIOUS
  <1>1. CASE SendLine
    <2>1. sent + 1 \in Lines
      BY <1>1, SizesTyped DEF SendLine, Typed
    <2>2. Text(sent + 1) \in Seq(LineCells)
      BY <2>1, TextsTyped
    <2>3. wire' \in Seq(LineCells)
      BY <1>1, <2>2 DEF SendLine, Typed
    <2> QED
      BY <1>1, <2>1, <2>3, SizesTyped DEF SendLine, Typed, buffer, output
  <1>2. CASE Hangup
    BY <1>2 DEF Hangup, Typed, buffer, output
  <1>3. CASE TakeReply
    BY <1>3 DEF TakeReply, Typed, input, buffer, output
  <1>4. CASE Receive
    BY <1>4, ReceiveTyped
  <1>5. CASE ReceiveEof
    BY <1>5, EmptyIs DEF ReceiveEof, Close, Typed, input, buffer
  <1>6. CASE SendQueued
    <2>1. PICK text \in Seq(Cells) : text = Head(queued)
      BY <1>6, SMTT(30) DEF SendQueued, Typed
    <2>3. PICK part \in Seq(Cells) : part = SubSeq(text, 1, Min({Len(text), Room}))
      BY <1>6, CutIs DEF SendQueued
    <2>4. answer' = answer \o part /\ queued' = Tail(queued) /\ done' = done + 1
      BY <1>6, <2>1, <2>3 DEF SendQueued
    <2>5. queued' \in Seq(Seq(Cells))
      BY <1>6, <2>4 DEF SendQueued, Typed
    <2>6. answer' \in Seq(Cells) /\ Len(answer) <= Len(answer')
      <3>1. answer' \in Seq(Cells) /\ Len(answer') = Len(answer) + Len(part)
        BY <2>3, <2>4, JoinedIs DEF Typed
      <3>2. Len(part) \in Nat /\ Len(answer) \in Nat
        BY <2>3 DEF Typed
      <3> QED
        BY <3>1, <3>2
    <2>7. taken' \in 0 .. Len(answer') /\ done' \in Nat
      BY <1>6, <2>6, SMTT(30) DEF SendQueued, Typed
    <2>8. UNCHANGED <<client, sent, eof, wire, torn, open, mem, get, put, slack, ran, wbuf>>
      BY <1>6 DEF SendQueued, input, buffer
    <2> QED
      BY <2>5, <2>6, <2>7, <2>8 DEF Typed
  <1>7. CASE HandleWrite
    BY <1>7 DEF HandleWrite, Typed, input, buffer
  <1>8. CASE UNCHANGED vars
    BY <1>8 DEF Typed, vars, input, buffer, output
  <1> QED
    BY <1>1, <1>2, <1>3, <1>4, <1>5, <1>6, <1>7, <1>8 DEF Next

LEMMA InitTyped == Init => Typed
  <1> SUFFICES ASSUME Init PROVE Typed
    OBVIOUS
  <1>1. 0 \in 0 .. Len(Size) /\ 0 \in 0 .. 0 /\ Len(mem) = 0 /\ Len(answer) = 0
    BY SizesTyped, EmptyIs DEF Init
  <1> QED
    BY <1>1, EmptyIs DEF Init, Typed

\* The buffer pointers stay in order, and every cell is one that was sent or
\* is part of a reply, however the lines and replies are cut.
THEOREM TypeCorrect == Spec => []TypeOK
  <1>1. LineCells \subseteq Cells
    BY DEF LineCells, Cells
  <1>2. Typed => TypeOK
    <2> SUFFICES ASSUME Typed PROVE TypeOK
      OBVIOUS
    <2>1. ToSet(wire) \subseteq Cells /\ ToSet(mem) \subseteq Cells
      BY <1>1 DEF Typed, ToSet
    <2>2. <<>> \in Seq(Cells)
      OBVIOUS
    <2> QED
      BY <2>1, <2>2 DEF Typed, TypeOK
  <1> QED
    BY <1>2, InitTyped, TypedKept, PTL DEF Spec
-----------------------------------------------------------------------------
(***************************************************************************)
(* Every step keeps the stream in order.                                   *)
(***************************************************************************)
\* Between g and p, m holds what follows base of the got characters received.
HeldAt(m, g, p, base, got) ==
    /\ m \in Seq(LineCells) /\ g \in Nat /\ p \in Nat /\ base \in Nat /\ got \in Nat
    /\ g <= p /\ p <= Len(m) /\ g <= base /\ p - g = got - base
    /\ \A j \in 1 .. p - g : Pos(m[g + j]) = base + j
    /\ \A j \in 1 .. Len(m) : j <= Pos(m[j]) /\ Pos(m[j]) <= got

\* What the handler moves stays what it was.
LEMMA HeldKept ==
    ASSUME NEW m, NEW g, NEW p, NEW base, NEW got, slack \in Nat,
           HeldAt(m, g, p, base, got), Prepare(m, g, p)
    PROVE  /\ get' <= base /\ put' - get' = got - base
           /\ \A j \in 1 .. put' - get' : Pos(mem'[get' + j]) = base + j
           /\ \A j \in 1 .. Len(mem') : j <= Pos(mem'[j]) /\ Pos(mem'[j]) <= got
  <1>   /\ m \in Seq(LineCells) /\ g \in Nat /\ p \in Nat /\ base \in Nat /\ got \in Nat
        /\ g <= p /\ p <= Len(m) /\ g <= base /\ p - g = got - base
        /\ \A j \in 1 .. p - g : Pos(m[g + j]) = base + j
        /\ \A j \in 1 .. Len(m) : j <= Pos(m[j]) /\ Pos(m[j]) <= got
    BY DEF HeldAt
  <1>1. /\ Len(mem') = Len(m) /\ put' - get' = p - g
        /\ \/ mem' = m /\ get' = g /\ put' = p
           \/ /\ get' = 0 /\ put' = p - g
              /\ \A j \in 1 .. p - g : mem'[j] = m[g + j]
              /\ \A j \in p - g + 1 .. Len(m) : mem'[j] = m[j]
    BY PreparedIs
  <1>2. CASE mem' = m /\ get' = g /\ put' = p
    BY <1>2
  <1>3. CASE /\ get' = 0 /\ put' = p - g
             /\ \A j \in 1 .. p - g : mem'[j] = m[g + j]
             /\ \A j \in p - g + 1 .. Len(m) : mem'[j] = m[j]
    <2>1. PICK left \in Nat : left = p - g /\ left <= Len(m) /\ g + left <= Len(m)
      <3>1. p - g \in Nat /\ p - g <= Len(m) /\ g + (p - g) <= Len(m)
        OBVIOUS
      <3> QED
        BY <3>1
    <2>2. \A j \in 1 .. left : Pos(mem'[0 + j]) = base + j
      <3> SUFFICES ASSUME NEW j \in 1 .. left PROVE Pos(mem'[0 + j]) = base + j
        OBVIOUS
      <3>1. mem'[j] = m[g + j] /\ Pos(m[g + j]) = base + j
        BY <1>3, <2>1
      <3>2. 0 + j = j
        OBVIOUS
      <3> QED
        BY <3>1, <3>2
    <2>3. ASSUME NEW j \in 1 .. Len(m)
          PROVE  j <= Pos(mem'[j]) /\ Pos(mem'[j]) <= got
      <3>1. CASE j <= left
        <4>1. g + j \in 1 .. Len(m) /\ mem'[j] = m[g + j]
          BY <1>3, <2>1, <3>1
        <4>2. m[g + j] \in LineCells
          BY <4>1
        <4>3. Pos(m[g + j]) \in Nat
          BY <4>2, PosIs
        <4>4. g + j <= Pos(m[g + j]) /\ Pos(m[g + j]) <= got
          BY <4>1
        <4> QED
          BY <4>1, <4>3, <4>4
      <3>2. CASE ~(j <= left)
        <4>1. mem'[j] = m[j]
          BY <1>3, <2>1, <3>2
        <4> QED
          BY <4>1
      <3> QED
        BY <3>1, <3>2
    <2>4. get' <= base /\ put' - get' = got - base /\ put' - get' = left
      BY <1>1, <1>3, <2>1
    <2> QED
      BY <1>1, <1>3, <2>2, <2>3, <2>4
  <1> QED
    BY <1>1, <1>2, <1>3

LEMMA SameCells ==
    ASSUME NEW C, NEW s \in Seq(C), NEW t \in Seq(C), Len(s) = Len(t),
           \A i \in 1 .. Len(s) : s[i] = t[i]
    PROVE  s = t
  OBVIOUS

\* A command that was read whole is what peek() shows up to the first newline.
LEMMA LineFound ==
    ASSUME NEW s \in Seq(LineCells), NEW n \in Lines, Size[n] <= Len(s),
           \A i \in 1 .. Size[n] : Pos(s[i]) = Before[n] + i
    PROVE  Newlines(s) # {} /\ FirstLine(s) = Text(n)
  <1>1. Size[n] \in Nat /\ Size[n] >= 2 /\ Len(s) \in Nat
    BY SizesTyped
  <1>2. \A i \in 1 .. Size[n] : s[i] = [line |-> n, at |-> i]
    <2> SUFFICES ASSUME NEW i \in 1 .. Size[n] PROVE s[i] = [line |-> n, at |-> i]
      OBVIOUS
    <2>1. i \in 1 .. Len(s)
      BY <1>1
    <2>2. s[i] \in LineCells
      BY <2>1
    <2> QED
      BY <2>2, CellAt
  <1>3. \A i \in 1 .. Size[n] : Newline(s[i]) <=> i = Size[n]
    <2> SUFFICES ASSUME NEW i \in 1 .. Size[n] PROVE Newline(s[i]) <=> i = Size[n]
      OBVIOUS
    <2>1. s[i] = [line |-> n, at |-> i]
      BY <1>2
    <2>2. Newline([line |-> n, at |-> i]) <=> i = Size[n]
      BY DEF Newline
    <2> QED
      BY <2>1, <2>2
  <1>4. Size[n] \in Newlines(s) /\ Newlines(s) \subseteq 1 .. Len(s)
    BY <1>1, <1>3 DEF Newlines
  <1>5. /\ FirstLine(s) \in Seq(LineCells)
        /\ Min(Newlines(s)) \in Newlines(s) /\ Len(FirstLine(s)) = Min(Newlines(s))
        /\ \A i \in 1 .. Min(Newlines(s)) : FirstLine(s)[i] = s[i]
        /\ \A i \in Newlines(s) : Min(Newlines(s)) <= i
    BY <1>4, FirstLineIs
  <1>6. PICK c \in 1 .. Len(s) : c = Min(Newlines(s)) /\ Newline(s[c]) /\ c <= Size[n]
    BY <1>4, <1>5 DEF Newlines
  <1>7. c = Size[n]
    BY <1>1, <1>3, <1>6
  <1>8. \A i \in 1 .. Size[n] : FirstLine(s)[i] = Text(n)[i]
    BY <1>2, <1>5, <1>6, <1>7, TextsTyped
  <1>9. Len(FirstLine(s)) = Size[n] /\ Text(n) \in Seq(LineCells) /\ Len(Text(n)) = Size[n]
    BY <1>5, <1>6, <1>7, TextsTyped
  <1>10. FirstLine(s) = Text(n)
    <2>1. \A i \in 1 .. Len(FirstLine(s)) : FirstLine(s)[i] = Text(n)[i]
      BY <1>8, <1>9
    <2> QED
      BY <1>5, <1>9, <2>1, SameCells
  <1> QED
    BY <1>4, <1>10

\* A part of a command that is as long as all before it hides what they left.
LEMMA NoLineFound ==
    ASSUME NEW s \in Seq(LineCells), NEW n \in Lines, NEW u \in 1 .. Len(s), NEW g \in Nat,
           u < Size[n], Before[n] <= u,
           \A i \in 1 .. u : Pos(s[i]) = Before[n] + i,
           \A i \in 1 .. Len(s) : g + i <= Pos(s[i]) /\ Pos(s[i]) <= Before[n] + u
    PROVE  Newlines(s) = {}
  <1> SUFFICES ASSUME NEW i \in 1 .. Len(s), Newline(s[i]) PROVE FALSE
    BY DEF Newlines
  <1>1. s[i] \in LineCells
    OBVIOUS
  <1>2. PICK l \in Lines : l = s[i].line
    BY <1>1, LineCellIs
  <1>3. Pos(s[i]) = Before[l + 1] /\ Pos(s[i]) \in Nat
    BY <1>1, <1>2, PosIs
  <1>4. /\ l + 1 \in 1 .. Len(Size) + 1 /\ n + 1 \in 1 .. Len(Size) + 1
        /\ n \in 1 .. Len(Size) + 1 /\ l \in Nat /\ n \in Nat
    BY SizesTyped
  <1>5. /\ Before[n] \in Nat /\ Before[n + 1] \in Nat /\ Before[l + 1] \in Nat
        /\ Before[n + 1] = Before[n] + Size[n] /\ Size[n] \in Nat
    BY <1>4, BeforeIs, SizesTyped
  <1>6. Pos(s[i]) <= Before[n] + u /\ g + i <= Pos(s[i])
    OBVIOUS
  <1>7. l + 1 <= n
    <2> SUFFICES ASSUME ~(l + 1 <= n) PROVE FALSE
      OBVIOUS
    <2>1. n + 1 <= l + 1
      BY <1>4
    <2>2. Before[n + 1] <= Before[l + 1]
      BY <1>4, <2>1, BeforeMonotone
    <2> QED
      BY <1>3, <1>5, <1>6, <2>2, SMTT(30)
  <1>8. Before[l + 1] <= Before[n]
    BY <1>4, <1>7, BeforeMonotone
  <1>9. i <= u
    BY <1>3, <1>5, <1>6, <1>8
  <1>10. Pos(s[i]) = Before[n] + i
    BY <1>9
  <1> QED
    BY <1>3, <1>5, <1>8, <1>10

\* The buffer of a command connection when k more cells have been read.
LEMMA ReadIs ==
    ASSUME StreamInv, client # "relay", ~torn, NEW k \in 1 .. Len(wire),
           NEW m, m = Filled(SubSeq(wire, 1, k))
    PROVE  /\ m \in Seq(LineCells) /\ put + k <= Len(m)
           /\ Len(ran) + 1 \in Lines /\ Len(ran) + 1 <= sent
           /\ put + k - get = Got + k - Past
           /\ \A j \in 1 .. put + k - get : Pos(m[get + j]) = Past + j
           /\ \A j \in 1 .. Len(m) : j <= Pos(m[j]) /\ Pos(m[j]) <= Got + k
  <1>1. Typed /\ OnWire /\ RanInOrder /\ Unread /\ NotEarly
    BY DEF StreamInv
  <1>2. PICK chunk \in Seq(LineCells) : /\ chunk = SubSeq(wire, 1, k) /\ Len(chunk) = k
                                        /\ \A i \in 1 .. k : chunk[i] = wire[i]
    BY <1>1, ReadTyped
  <1>3. /\ put \in Nat /\ get \in Nat /\ get <= put /\ put <= Len(mem) /\ Len(mem) \in Nat
        /\ sent \in 0 .. Len(Size) /\ Len(ran) \in Nat /\ Len(wire) \in Nat
    BY <1>1, SizesTyped DEF Typed
  <1>4. /\ m \in Seq(LineCells)
        /\ Len(m) = IF put + k <= Len(mem) THEN Len(mem) ELSE put + k
        /\ \A j \in 1 .. put : m[j] = mem[j]
        /\ \A j \in 1 .. k : m[put + j] = chunk[j]
        /\ \A j \in put + k + 1 .. Len(mem) : m[j] = mem[j]
    <2>1. mem \in Seq(LineCells) /\ put \in 0 .. Len(mem)
      BY <1>1 DEF Typed
    <2>2. /\ Filled(chunk) \in Seq(LineCells)
          /\ Len(Filled(chunk)) = IF put + Len(chunk) <= Len(mem) THEN Len(mem)
                                  ELSE put + Len(chunk)
          /\ \A j \in 1 .. put : Filled(chunk)[j] = mem[j]
          /\ \A j \in 1 .. Len(chunk) : Filled(chunk)[put + j] = chunk[j]
          /\ \A j \in put + Len(chunk) + 1 .. Len(mem) : Filled(chunk)[j] = mem[j]
      BY <2>1, FilledIs
    <2>3. m = Filled(chunk)
      BY <1>2
    <2> QED
      BY <1>2, <2>2, <2>3
  <1>5. Len(ran) <= sent
    BY <1>1 DEF RanInOrder
  <1>6. sent + 1 \in 1 .. Len(Size) + 1 /\ Len(ran) + 1 \in 1 .. Len(Size) + 1
    BY <1>3, <1>5, SizesTyped
  <1>7. Before[sent + 1] \in Nat /\ Past \in Nat
    BY <1>6, BeforeIs DEF Past
  <1>8. Got \in Nat /\ Got < Before[sent + 1]
    BY <1>1, <1>3, <1>7 DEF OnWire, Got
  <1>9. get <= Past /\ put - get = Got - Past
    BY <1>1 DEF Unread
  <1>10. Past <= Got /\ put <= Got
    BY <1>3, <1>7, <1>8, <1>9
  <1>11. Len(ran) + 1 <= sent /\ Len(ran) + 1 \in Lines
    <2>1. Len(ran) # sent
      BY <1>7, <1>8, <1>10 DEF Past
    <2> QED
      BY <1>3, <1>5, <2>1, SizesTyped
  <1>12. \A i \in 1 .. k : m[put + i] = wire[i] /\ Pos(m[put + i]) = Got + i
    BY <1>1, <1>2, <1>4 DEF OnWire
  <1>13. put + k <= Len(m)
    BY <1>3, <1>4
  <1>14. ASSUME NEW j \in 1 .. put + k - get
         PROVE  Pos(m[get + j]) = Past + j
    <2>1. CASE j <= put - get
      <3>1. get + j \in 1 .. put /\ j \in 1 .. put - get
        BY <1>3, <2>1
      <3>2. m[get + j] = mem[get + j]
        BY <1>4, <3>1
      <3> QED
        BY <1>1, <3>1, <3>2 DEF Unread
    <2>2. CASE ~(j <= put - get)
      <3>1. PICK i \in 1 .. k : get + j = put + i
        <4>1. j - (put - get) \in 1 .. k /\ get + j = put + (j - (put - get))
          BY <1>3, <2>2
        <4> QED
          BY <4>1
      <3>2. Pos(m[put + i]) = Got + i
        BY <1>12
      <3>3. Got + i = Past + j
        BY <1>3, <1>7, <1>8, <1>9, <3>1
      <3> QED
        BY <3>1, <3>2, <3>3
    <2> QED
      BY <2>1, <2>2
  <1>15. ASSUME NEW j \in 1 .. Len(m)
         PROVE  j <= Pos(m[j]) /\ Pos(m[j]) <= Got + k
    <2>1. ASSUME j \in 1 .. Len(mem), m[j] = mem[j]
          PROVE  j <= Pos(m[j]) /\ Pos(m[j]) <= Got + k
      <3>1. j <= Pos(mem[j]) /\ Pos(mem[j]) <= Got
        BY <1>1, <2>1 DEF NotEarly
      <3>2. mem[j] \in LineCells
        BY <1>1, <2>1 DEF Typed
      <3>3. Pos(mem[j]) \in Nat
        BY <3>2, PosIs
      <3> QED
        BY <1>8, <2>1, <3>1, <3>3
    <2>2. CASE j <= put
      BY <1>3, <1>4, <2>1, <2>2
    <2>3. CASE put < j /\ j <= put + k
      <3>1. PICK i \in 1 .. k : j = put + i
        <4>1. j - put \in 1 .. k /\ j = put + (j - put)
          BY <1>3, <2>3
        <4> QED
          BY <4>1
      <3>2. Pos(m[j]) = Got + i
        BY <1>12, <3>1
      <3> QED
        BY <1>3, <1>8, <1>10, <3>1, <3>2
    <2>4. CASE put + k < j
      <3>1. j \in put + k + 1 .. Len(mem)
        BY <1>3, <1>4, <2>4
      <3>2. j \in 1 .. Len(mem) /\ m[j] = mem[j]
        BY <1>3, <1>4, <3>1
      <3> QED
        BY <2>1, <3>2
    <2> QED
      BY <1>3, <2>2, <2>3, <2>4
  <1>16. put + k - get = Got + k - Past
    BY <1>3, <1>7, <1>8, <1>9
  <1> QED
    BY <1>4, <1>11, <1>13, <1>14, <1>15, <1>16

LEMMA ReceiveStream ==
    ASSUME StreamInv, Receive, Typed'
    PROVE  StreamInv'
  <1>1. Typed /\ OnWire
    BY DEF StreamInv
  <1>2. PICK k \in 1 .. Len(wire) :
            /\ wire' = SubSeq(wire, k + 1, Len(wire))
            /\ torn' = (torn \/ ~Harmless(wire[k]))
            /\ IF client = "relay" THEN HandlePacket(SubSeq(wire, 1, k))
                                   ELSE HandleCommand(SubSeq(wire, 1, k))
    BY DEF Receive
  <1>3. UNCHANGED <<client, sent>>
    BY DEF Receive, input
  <1>4. /\ Len(wire') = Len(wire) - k
        /\ \A i \in 1 .. Len(wire) - k : wire'[i] = wire[k + i]
    BY <1>1, <1>2, ReadTyped
  <1>5. Before[sent + 1] \in Nat /\ Len(wire) \in Nat
    <2>1. sent + 1 \in 1 .. Len(Size) + 1 /\ Len(wire) \in Nat
      BY <1>1, SizesTyped DEF Typed
    <2> QED
      BY <2>1, BeforeIs
  <1>6. Got' = Got + k /\ Len(wire') <= Before[sent' + 1]
    BY <1>1, <1>3, <1>4, <1>5 DEF Got, OnWire
  <1>7. ASSUME NEW i \in 1 .. Len(wire')
        PROVE  Pos(wire'[i]) = Got' + i
    <2>1. k + i \in 1 .. Len(wire) /\ wire'[i] = wire[k + i]
      BY <1>4, <1>5, <1>7
    <2>2. Pos(wire[k + i]) = Got + (k + i)
      BY <1>1, <2>1 DEF OnWire
    <2>3. Got \in Int
      BY <1>5 DEF Got
    <2> QED
      BY <1>6, <2>1, <2>2, <2>3
  <1>8. OnWire'
    BY <1>6, <1>7 DEF OnWire
  <1>9. CASE client = "relay"
    <2>1. ran' = ran /\ ~torn'
      <3>1. Harmless(wire[k]) /\ ~torn
        BY <1>9 DEF StreamInv, FirstRan, Harmless
      <3> QED
        BY <1>2, <1>9, <3>1 DEF HandlePacket
    <2> QED
      BY <1>3, <1>8, <1>9, <2>1 DEF StreamInv
  <1>a. client # "relay" /\ FirstRan => FirstRan'
    <2> SUFFICES ASSUME client # "relay", FirstRan PROVE FirstRan'
      OBVIOUS
    <2>1. ran' = ran \/ \E text : ran' = Append(ran, text)
      BY <1>2, CommandSteps DEF Run
    <2>2. ran \in Seq(Seq(LineCells)) /\ ran' \in Seq(Seq(LineCells))
      BY <1>1 DEF Typed
    <2>3. 1 <= Len(ran') /\ ran'[1] = ran[1]
      <3>1. CASE ran' = ran
        BY <3>1 DEF FirstRan
      <3>2. ASSUME NEW text, ran' = Append(ran, text)
            PROVE  1 <= Len(ran') /\ ran'[1] = ran[1]
        <4>1. PICK old \in Seq(Seq(LineCells)) : old = ran /\ Len(old) \in Nat /\ 1 <= Len(old)
          BY <2>2 DEF FirstRan
        <4>2. text \in Seq(LineCells)
          <5>1. Len(ran') = Len(old) + 1 /\ ran'[Len(old) + 1] = text
            BY <2>2, <3>2, <4>1
          <5> QED
            BY <2>2, <4>1, <5>1
        <4>3. Len(Append(old, text)) = Len(old) + 1 /\ Append(old, text)[1] = old[1]
          BY <4>1, <4>2
        <4> QED
          BY <3>2, <4>1, <4>3
      <3> QED
        BY <2>1, <3>1, <3>2
    <2> QED
      BY <1>3, <2>3 DEF FirstRan
  <1>b. CASE client # "relay" /\ torn
    <2>1. torn' /\ FirstRan'
      BY <1>2, <1>a, <1>b DEF StreamInv
    <2> QED
      BY <1>3, <1>8, <1>b, <2>1 DEF StreamInv
  <1>10. CASE client # "relay" /\ ~torn
    <2>1. RanInOrder /\ Unread /\ NotEarly
      BY <1>10 DEF StreamInv
    <2>2. PICK m : m = Filled(SubSeq(wire, 1, k))
      OBVIOUS
    <2>3. /\ m \in Seq(LineCells) /\ put + k <= Len(m)
          /\ Len(ran) + 1 \in Lines /\ Len(ran) + 1 <= sent
          /\ put + k - get = Got + k - Past
          /\ \A j \in 1 .. put + k - get : Pos(m[get + j]) = Past + j
          /\ \A j \in 1 .. Len(m) : j <= Pos(m[j]) /\ Pos(m[j]) <= Got + k
      BY <1>10, <2>2, ReadIs
    <2>4. PICK n \in Lines : n = Len(ran) + 1
      BY <2>3
    <2>5. /\ Past = Before[n] /\ Past \in Nat /\ Size[n] \in Nat /\ Size[n] >= 2
          /\ n + 1 \in 1 .. Len(Size) + 1 /\ Before[n + 1] = Past + Size[n]
      BY <2>4, BeforeIs, SizesTyped DEF Past
    <2>6. /\ put \in Nat /\ get \in Nat /\ get <= put /\ put <= Len(mem) /\ slack \in Nat
          /\ Len(ran) \in Nat /\ ran \in Seq(Seq(LineCells))
      BY <1>1 DEF Typed
    <2>7. PICK p \in Nat : p = put + k
      BY <2>6
    <2>8. PICK g \in Nat : g = get
      BY <2>6
    <2>9. PICK u \in Nat : u = p - g
      <3>1. p - g \in Nat
        BY <2>6, <2>7, <2>8
      <3> QED
        BY <3>1
    <2>10. PICK got \in Nat : got = Got + k
      BY <1>1, <1>5 DEF OnWire, Got
    <2>11. PICK base \in Nat : base = Past
      BY <2>5
    <2>12. /\ g <= base /\ u = got - base /\ g <= p /\ p <= Len(m) /\ 1 <= u
           /\ \A j \in 1 .. u : Pos(m[g + j]) = base + j
           /\ \A j \in 1 .. Len(m) : j <= Pos(m[j]) /\ Pos(m[j]) <= got
      <3>1. p - g = got - base
        <4>1. Got \in Int
          BY <1>5 DEF Got
        <4>2. put + k - get = Got + k - Past
          BY <2>3
        <4>3. p - g = put + k - get /\ got - base = Got + k - Past
          BY <2>5, <2>6, <2>7, <2>8, <2>10, <2>11, <4>1
        <4> QED
          BY <4>2, <4>3
      <3>2. get <= Past
        BY <2>1 DEF Unread
      <3>3. g <= base /\ g <= p /\ p <= Len(m) /\ 1 <= u
        BY <2>3, <2>6, <2>7, <2>8, <2>9, <2>11, <3>2
      <3>4. \A j \in 1 .. u : Pos(m[g + j]) = base + j
        <4>1. u = put + k - get
          BY <2>6, <2>7, <2>8, <2>9
        <4>2. \A j \in 1 .. put + k - get : Pos(m[get + j]) = Past + j
          BY <2>3
        <4> QED
          BY <2>8, <2>11, <4>1, <4>2
      <3>5. \A j \in 1 .. Len(m) : j <= Pos(m[j]) /\ Pos(m[j]) <= got
        BY <2>3, <2>10
      <3> QED
        BY <2>9, <3>1, <3>3, <3>4, <3>5
    <2>w. g <= base /\ p - g = got - base /\ p - g = u /\ g <= p /\ 1 <= u
      BY <2>9, <2>12
    <2>v. p \in Nat /\ g \in Nat /\ got \in Nat /\ base \in Nat
      BY <2>7, <2>8, <2>10, <2>11
    <2>z. PICK z \in Nat : z = Size[n] /\ 2 <= z /\ Before[n] = base /\ Before[n + 1] = base + z
      BY <2>5, <2>11
    <2>13. PICK s : s = Peeked(m)
      OBVIOUS
    <2>14. /\ s \in Seq(LineCells) /\ Len(s) = Len(m) - g
           /\ \A i \in 1 .. Len(m) - g : s[i] = m[g + i]
      <3>1. g \in 0 .. Len(m)
        BY <2>3, <2>12
      <3> QED
        BY <2>3, <2>8, <2>13, <3>1, PeekedIs
    <2>15. u <= Len(s) /\ \A i \in 1 .. u : s[i] = m[g + i] /\ Pos(s[i]) = base + i
      <3>1. Len(m) \in Nat /\ u <= Len(m) - g
        BY <2>3, <2>9, <2>12
      <3> QED
        BY <2>12, <2>14, <3>1
    <2>16. HandleCommand(SubSeq(wire, 1, k)) /\ Len(SubSeq(wire, 1, k)) = k
      BY <1>1, <1>2, <1>10, ReadTyped
    <2>17. \/ /\ Newlines(s) = {} /\ Prepare(m, g, p) /\ ran' = ran
           \/ /\ Newlines(s) # {}
              /\ \E text : /\ text = FirstLine(s) /\ Run(text)
                           /\ Prepare(m, Min({g + Len(text), p}), p)
      <3>1. p = put + Len(SubSeq(wire, 1, k))
        BY <2>7, <2>16
      <3> QED
        BY <2>2, <2>8, <2>13, <2>16, <3>1, CommandSteps
    <2>18. CASE Size[n] <= u
      <3>1. Newlines(s) # {} /\ FirstLine(s) = Text(n)
        <4>1. Size[n] <= Len(s) /\ \A i \in 1 .. Size[n] : Pos(s[i]) = Before[n] + i
          <5>1. z <= u /\ Len(s) \in Nat
            BY <2>14, <2>z, <2>18
          <5>2. \A i \in 1 .. z : i \in 1 .. u
            BY <2>9, <2>z, <5>1
          <5>3. z <= Len(s)
            BY <2>9, <2>15, <2>z, <5>1
          <5> QED
            BY <2>15, <2>z, <5>2, <5>3
        <4> QED
          BY <2>14, <4>1, LineFound
      <3>2. Run(Text(n)) /\ Prepare(m, Min({g + Len(Text(n)), p}), p)
        BY <2>17, <3>1
      <3>3. PICK h \in Nat : h = g + z
        BY <2>8, <2>z
      <3>4. h <= p /\ Min({h, p}) = h
        <4>1. h <= p
          BY <2>7, <2>8, <2>9, <2>18, <2>z, <3>3
        <4> QED
          BY <2>7, <3>3, <4>1, MinOfTwo
      <3>5. Prepare(m, h, p)
        BY <2>z, <3>2, <3>3, <3>4, TextsTyped
      <3>6. PICK next \in Nat : next = base + z
        BY <2>11, <2>z
      <3>7. h <= next /\ p - h = got - next
        BY <2>v, <2>w, <3>3, <3>6
      <3>8. ASSUME NEW j \in 1 .. p - h
            PROVE  Pos(m[h + j]) = next + j
        <4>1. z + j \in 1 .. u /\ g + (z + j) = h + j
          <5>1. j \in 1 .. p - (g + z) /\ z \in Nat
            BY <2>z, <3>3, <3>8
          <5> QED
            BY <2>v, <2>w, <3>3, <5>1
        <4>2. Pos(m[g + (z + j)]) = base + (z + j)
          BY <2>12, <4>1
        <4>3. base + (z + j) = next + j
          BY <2>11, <2>z, <3>6, <3>8
        <4> QED
          BY <4>1, <4>2, <4>3
      <3>9. /\ get' <= next /\ put' - get' = got - next
            /\ \A j \in 1 .. put' - get' : Pos(mem'[get' + j]) = next + j
            /\ \A j \in 1 .. Len(mem') : j <= Pos(mem'[j]) /\ Pos(mem'[j]) <= got
        <4>1. m \in Seq(LineCells) /\ slack \in Nat /\ p <= Len(m)
          BY <2>3, <2>6, <2>12
        <4>2. \A j \in 1 .. Len(m) : j <= Pos(m[j]) /\ Pos(m[j]) <= got
          BY <2>12
        <4>3. h \in Nat /\ p \in Nat /\ next \in Nat /\ got \in Nat /\ h <= p
          BY <2>v, <3>3, <3>4, <3>6
        <4>4. HeldAt(m, h, p, next, got)
          BY <3>7, <3>8, <4>1, <4>2, <4>3 DEF HeldAt
        <4> QED
          BY <3>5, <4>1, <4>4, HeldKept
      <3>10. ran' = Append(ran, Text(n))
        BY <3>2 DEF Run
      <3>11. /\ Len(ran') = n
             /\ \A i \in 1 .. n - 1 : ran'[i] = ran[i]
             /\ ran'[n] = Text(n)
        <4>1. Text(n) \in Seq(LineCells)
          BY TextsTyped
        <4> QED
          BY <2>4, <2>6, <3>10, <4>1
      <3>12. Past' = next
        BY <2>z, <3>6, <3>11 DEF Past
      <3>13. RanInOrder'
        <4>1. Len(ran') <= sent'
          BY <1>3, <2>3, <2>4, <3>11
        <4>2. ASSUME NEW i \in 1 .. n PROVE ran'[i] = Text(i)
          <5>1. CASE i = n
            BY <3>11, <5>1
          <5>2. CASE i # n
            <6>1. i \in 1 .. n - 1 /\ i \in 1 .. Len(ran)
              BY <2>4, <2>6, <4>2, <5>2, SizesTyped
            <6> QED
              BY <2>1, <3>11, <6>1 DEF RanInOrder
          <5> QED
            BY <5>1, <5>2
        <4> QED
          BY <3>11, <4>1, <4>2 DEF RanInOrder
      <3>14. Unread' /\ NotEarly'
        BY <1>6, <2>10, <3>9, <3>12 DEF Unread, NotEarly
      <3>15. FirstRan'
        <4>1. n \in Nat /\ 1 <= n /\ Len(ran') = n
          BY <3>11, SizesTyped
        <4> QED
          BY <1>1, <1>3, <1>10, <3>13, <4>1 DEF RanInOrder, FirstRan, Typed
      <3> QED
        BY <1>3, <1>8, <1>10, <3>13, <3>14, <3>15 DEF StreamInv
    <2>19. CASE ~(Size[n] <= u)
      <3>1. s[u] \in LineCells /\ s[u] = wire[k]
        <4>1. u \in 1 .. Len(s)
          BY <2>12, <2>15
        <4>2. s[u] = m[g + u] /\ g + u = put + k
          BY <2>6, <2>7, <2>8, <2>9, <2>12, <2>15
        <4>3. m[put + k] = wire[k]
          <5>1. /\ SubSeq(wire, 1, k) \in Seq(LineCells) /\ Len(SubSeq(wire, 1, k)) = k
                /\ SubSeq(wire, 1, k)[k] = wire[k]
            BY <1>1, ReadTyped
          <5>2. mem \in Seq(LineCells) /\ put \in 0 .. Len(mem)
            BY <1>1 DEF Typed
          <5>3. PICK chunk \in Seq(LineCells) : chunk = SubSeq(wire, 1, k)
            BY <5>1
          <5>4. Filled(chunk)[put + k] = chunk[k]
            <6>1. k \in 1 .. Len(chunk)
              BY <5>1, <5>3
            <6>2. \A j \in 1 .. Len(chunk) : Filled(chunk)[put + j] = chunk[j]
              BY <5>2, FilledIs
            <6> QED
              BY <6>1, <6>2
          <5> QED
            BY <2>2, <5>1, <5>3, <5>4
        <4> QED
          BY <2>14, <4>1, <4>2, <4>3
      <3>2. s[u] = [line |-> n, at |-> u] /\ u < Size[n]
        <4>1. u \in 1 .. Size[n] /\ u < Size[n] /\ Pos(s[u]) = Before[n] + u
          <5>1. u < z /\ u \in 1 .. u
            BY <2>9, <2>12, <2>19, <2>z
          <5> QED
            BY <2>9, <2>15, <2>z, <5>1
        <4> QED
          BY <3>1, <4>1, CellAt
      <3>n. CASE ~Harmless(wire[k])
        <4>1. torn'
          BY <1>2, <3>n
        <4>2. ~(Before[n] <= u)
          BY <3>1, <3>2, <3>n DEF Harmless
        <4>3. n # 1
          <5>1. Before[1] = 0 /\ 0 <= u
            BY <2>9, BeforeIs
          <5> QED
            BY <4>2, <5>1
        <4>4. 1 <= Len(ran) /\ Len(ran) \in Nat
          BY <2>4, <2>6, <4>3, SizesTyped
        <4>5. FirstRan
          BY <1>1, <1>10, <2>1, <4>4, SizesTyped DEF RanInOrder, FirstRan, Typed
        <4> QED
          BY <1>3, <1>8, <1>10, <1>a, <4>1, <4>5 DEF StreamInv
      <3>h. CASE Harmless(wire[k])
        <4>3. Before[n] <= u
          <5>1. Harmless([line |-> n, at |-> u]) /\ ~Newline([line |-> n, at |-> u])
            BY <2>5, <3>1, <3>2, <3>h DEF Newline
          <5> QED
            BY <1>10, <5>1 DEF Harmless
        <4>4. Newlines(s) = {}
          <5>1. u \in 1 .. Len(s)
            BY <2>12, <2>15
          <5>2. \A i \in 1 .. u : Pos(s[i]) = Before[n] + i
            BY <2>5, <2>11, <2>15
          <5>3. ASSUME NEW i \in 1 .. Len(s)
                PROVE  g + i <= Pos(s[i]) /\ Pos(s[i]) <= Before[n] + u
            <6>1. g + i \in 1 .. Len(m) /\ s[i] = m[g + i]
              BY <2>3, <2>12, <2>14, <5>3
            <6>2. Before[n] + u = got
              BY <2>5, <2>11, <2>12, SMTT(30)
            <6> QED
              BY <2>12, <6>1, <6>2
          <5> QED
            BY <2>14, <3>2, <4>3, <5>1, <5>2, <5>3, NoLineFound
        <4>5. Prepare(m, g, p) /\ ran' = ran
          BY <2>17, <4>4
        <4>6. /\ get' <= base /\ put' - get' = got - base
              /\ \A j \in 1 .. put' - get' : Pos(mem'[get' + j]) = base + j
              /\ \A j \in 1 .. Len(mem') : j <= Pos(mem'[j]) /\ Pos(mem'[j]) <= got
          <5>1. m \in Seq(LineCells) /\ slack \in Nat /\ p <= Len(m) /\ g <= p /\ g <= base
            BY <2>3, <2>6, <2>12
          <5>2. \A j \in 1 .. Len(m) : j <= Pos(m[j]) /\ Pos(m[j]) <= got
            BY <2>12
          <5>3. p - g = got - base /\ \A j \in 1 .. p - g : Pos(m[g + j]) = base + j
            BY <2>9, <2>12
          <5>4. HeldAt(m, g, p, base, got)
            BY <2>v, <5>1, <5>2, <5>3 DEF HeldAt
          <5> QED
            BY <4>5, <5>1, <5>4, HeldKept
        <4>7. Past' = base /\ RanInOrder'
          BY <1>3, <2>1, <2>11, <4>5 DEF Past, RanInOrder
        <4>8. Unread' /\ NotEarly'
          BY <1>6, <2>10, <4>6, <4>7 DEF Unread, NotEarly
        <4>9. ~torn'
          BY <1>2, <1>10, <3>h
        <4> QED
          BY <1>3, <1>8, <1>10, <4>7, <4>8, <4>9 DEF StreamInv
      <3> QED
        BY <3>n, <3>h
    <2> QED
      BY <2>18, <2>19
  <1> QED
    BY <1>9, <1>b, <1>10

LEMMA SendStream ==
    ASSUME StreamInv, SendLine, Typed'
    PROVE  StreamInv'
  <1>1. Typed /\ OnWire
    BY DEF StreamInv
  <1>2. PICK n \in Lines : n = sent + 1
    BY <1>1, SizesTyped DEF SendLine, Typed
  <1>3. /\ sent' = n /\ UNCHANGED <<client, torn, mem, get, put, ran>>
        /\ wire' = wire \o Text(n)
    BY <1>2 DEF SendLine, buffer
  <1>4. /\ Len(wire') = Len(wire) + Size[n]
        /\ \A i \in 1 .. Len(wire) : wire'[i] = wire[i]
        /\ \A i \in 1 .. Size[n] : wire'[Len(wire) + i] = [line |-> n, at |-> i]
    <2>1. PICK w \in Seq(LineCells) : w = wire
      BY <1>1 DEF Typed
    <2>2. PICK t \in Seq(LineCells) : /\ t = Text(n) /\ Len(t) = Size[n]
                                      /\ \A i \in 1 .. Size[n] : t[i] = [line |-> n, at |-> i]
      BY TextsTyped
    <2>3. /\ Len(w \o t) = Len(w) + Len(t)
          /\ \A i \in 1 .. Len(w) : (w \o t)[i] = w[i]
          /\ \A i \in 1 .. Len(t) : (w \o t)[Len(w) + i] = t[i]
      BY JoinedIs
    <2> QED
      BY <1>3, <2>1, <2>2, <2>3
  <1>5. /\ Before[n] \in Nat /\ Before[n + 1] = Before[n] + Size[n]
        /\ Size[n] \in Nat /\ Len(wire) \in Nat /\ Len(wire) <= Before[n]
    <2>1. n \in 1 .. Len(Size) + 1 /\ Len(wire) \in Nat /\ sent + 1 = n
      BY <1>1, <1>2, SizesTyped DEF Typed
    <2>2. Len(wire) <= Before[n]
      BY <1>1, <2>1 DEF OnWire
    <2> QED
      BY <2>1, <2>2, BeforeIs, SizesTyped
  <1>6. Got' = Got /\ Got = Before[n] - Len(wire) /\ Len(wire') <= Before[sent' + 1]
    BY <1>2, <1>3, <1>4, <1>5 DEF Got
  <1>7. ASSUME NEW i \in 1 .. Len(wire') PROVE Pos(wire'[i]) = Got' + i
    <2>1. CASE i <= Len(wire)
      <3>1. i \in 1 .. Len(wire)
        BY <1>5, <2>1
      <3> QED
        BY <1>1, <1>4, <1>6, <3>1 DEF OnWire
    <2>2. CASE ~(i <= Len(wire))
      <3>1. PICK j \in 1 .. Size[n] : i = Len(wire) + j
        <4>1. i - Len(wire) \in 1 .. Size[n] /\ i = Len(wire) + (i - Len(wire))
          BY <1>4, <1>5, <2>2
        <4> QED
          BY <4>1
      <3>2. Pos(wire'[i]) = Before[n] + j
        <4>1. wire'[i] = [line |-> n, at |-> j]
          BY <1>4, <3>1
        <4>2. Pos([line |-> n, at |-> j]) = Before[n] + j
          BY DEF Pos
        <4> QED
          BY <4>1, <4>2
      <3> QED
        BY <1>5, <1>6, <3>1, <3>2
    <2> QED
      BY <2>1, <2>2
  <1>8. OnWire'
    BY <1>6, <1>7 DEF OnWire
  <1>a. FirstRan => FirstRan'
    BY <1>1, <1>2, <1>3 DEF FirstRan, Typed
  <1>9. ASSUME client # "relay", ~torn
        PROVE  RanInOrder' /\ Unread' /\ NotEarly'
    <2>1. RanInOrder /\ Unread /\ NotEarly
      BY <1>9 DEF StreamInv
    <2>2. Len(ran) <= sent'
      BY <1>1, <1>2, <1>3, <2>1 DEF RanInOrder, Typed
    <2>3. RanInOrder'
      BY <1>3, <2>1, <2>2 DEF RanInOrder
    <2>4. Past' = Past
      BY <1>3 DEF Past
    <2> QED
      BY <1>3, <1>6, <2>1, <2>3, <2>4 DEF Unread, NotEarly
  <1> QED
    BY <1>3, <1>8, <1>9, <1>a DEF StreamInv

LEMMA StreamKept == StreamInv /\ [Next]_vars => StreamInv'
  <1> SUFFICES ASSUME StreamInv, [Next]_vars PROVE StreamInv'
    OBVIOUS
  <1>1. Typed'
    BY TypedKept DEF StreamInv
  <1>2. CASE SendLine
    BY <1>1, <1>2, SendStream
  <1>3. CASE Receive
    BY <1>1, <1>3, ReceiveStream
  <1>4. CASE Hangup \/ TakeReply \/ ReceiveEof \/ SendQueued \/ HandleWrite \/ UNCHANGED vars
    <2>1. UNCHANGED <<client, sent, wire, torn, mem, get, put, ran>>
      BY <1>4 DEF Hangup, TakeReply, ReceiveEof, SendQueued, HandleWrite, vars, input, buffer
    <2>2. Got' = Got /\ Past' = Past
      BY <2>1 DEF Got, Past
    <2> QED
      BY <1>1, <2>1, <2>2 DEF StreamInv, OnWire, RanInOrder, Unread, NotEarly, FirstRan
  <1> QED
    BY <1>2, <1>3, <1>4 DEF Next

LEMMA InitStream == Init => StreamInv
  <1> SUFFICES ASSUME Init PROVE StreamInv
    OBVIOUS
  <1>1. Typed
    BY InitTyped
  <1>2. /\ sent = 0 /\ wire = <<>> /\ ~torn /\ mem = <<>> /\ get = 0 /\ put = 0 /\ ran = <<>>
        /\ Len(<<>>) = 0 /\ Before[1] = 0 /\ 0 + 1 = 1
    BY EmptyIs, BeforeIs DEF Init
  <1>3. Got = 0 /\ Past = 0
    BY <1>2 DEF Got, Past
  <1> QED
    BY <1>1, <1>2, <1>3 DEF StreamInv, OnWire, RanInOrder, Unread, NotEarly

\* However many commands a client sends and however long they are, merged and
\* cut in any way, the first one on its connection is run as it was sent, and the
\* others are as well, in order and each at most once, until a read ends in the
\* first bytes of one; the ingest connection runs none.
THEOREM CommandsRunAsSent == Spec => []RanAsSent
  <1>1. StreamInv => RanAsSent
    <2> SUFFICES ASSUME StreamInv, NEW i \in DOMAIN ran, i = 1 \/ ~torn
                 PROVE  i <= sent /\ ran[i] = Text(i)
      BY DEF RanAsSent
    <2>1. /\ DOMAIN ran = 1 .. Len(ran) /\ Len(ran) \in Nat /\ sent \in Nat
      BY SizesTyped DEF StreamInv, Typed
    <2>2. client # "relay"
      BY <2>1, EmptyIs DEF StreamInv
    <2>3. CASE ~torn
      <3>1. RanInOrder
        BY <2>2, <2>3 DEF StreamInv
      <3> QED
        BY <2>1, <3>1 DEF RanInOrder
    <2>4. CASE torn
      BY <2>1, <2>4 DEF StreamInv, FirstRan
    <2> QED
      BY <2>3, <2>4 DEF StreamInv, Typed
  <1> QED
    BY <1>1, InitStream, StreamKept, PTL DEF Spec
-----------------------------------------------------------------------------
(***************************************************************************)
(* What FlattenSeq puts together.                                          *)
(***************************************************************************)
\* f has the parts of s up to each one, one behind the other.
Chain(f, s, n) ==
    /\ f = [i \in 1 .. n |-> f[i]]
    /\ n > 0 => f[1] = s[1]
    /\ \A i \in 1 .. n - 1 : f[i + 1] = f[i] \o s[i + 1]

LEMMA ChainExists == ASSUME NEW s PROVE \A n \in Nat : \E f : Chain(f, s, n)
  <1> DEFINE T == {n \in Nat : ~\E f : Chain(f, s, n)}
  <1> SUFFICES ASSUME T # {} PROVE FALSE
    OBVIOUS
  <1>1. PICK n \in T : \A m \in T : n <= m
    <2>1. T \subseteq Nat
      OBVIOUS
    <2> HIDE DEF T
    <2> QED
      BY <2>1, HasLeast
  <1>2. n # 0
    <2>1. Chain([i \in 1 .. 0 |-> 0], s, 0)
      BY DEF Chain
    <2> QED
      BY <2>1
  <1>3. n # 1
    <2> DEFINE g == [i \in 1 .. 1 |-> s[1]]
    <2>1. Chain(g, s, 1)
      BY DEF Chain
    <2> QED
      BY <2>1
  <1>4. PICK m \in Nat \ {0} : m + 1 = n /\ m \notin T
    <2>1. n - 1 \in Nat \ {0} /\ (n - 1) + 1 = n /\ n - 1 \notin T
      BY <1>1, <1>2, <1>3
    <2> QED
      BY <2>1
  <1>5. PICK f : Chain(f, s, m)
    BY <1>4
  <1> DEFINE g == [i \in 1 .. m + 1 |-> IF i = m + 1 THEN f[m] \o s[m + 1] ELSE f[i]]
  <1>6. \A i \in 1 .. m : g[i] = f[i] /\ i \in 1 .. m + 1
    BY <1>4
  <1>7. g[m + 1] = f[m] \o s[m + 1]
    <2>1. m + 1 \in 1 .. m + 1
      BY <1>4
    <2> QED
      BY <2>1
  <1>8. g = [i \in 1 .. m + 1 |-> g[i]]
    OBVIOUS
  <1> HIDE DEF g
  <1>9. ASSUME NEW i \in 1 .. (m + 1) - 1 PROVE g[i + 1] = g[i] \o s[i + 1]
    <2>1. CASE i = m
      <3>1. m \in 1 .. m
        BY <1>4
      <3> QED
        BY <1>6, <1>7, <2>1, <3>1
    <2>2. CASE i # m
      <3>1. i \in 1 .. m - 1 /\ i \in 1 .. m /\ i + 1 \in 1 .. m
        BY <1>4, <1>9, <2>2
      <3> QED
        BY <1>5, <1>6, <3>1 DEF Chain
    <2> QED
      BY <2>1, <2>2
  <1>10. g[1] = s[1]
    <2>1. 1 \in 1 .. m /\ m > 0
      BY <1>4
    <2>2. f[1] = s[1]
      BY <1>5, <2>1 DEF Chain
    <2> QED
      BY <1>6, <2>1, <2>2
  <1>11. Chain(g, s, m + 1)
    BY <1>8, <1>9, <1>10 DEF Chain
  <1> QED
    BY <1>4, <1>11

LEMMA ChainsAgree ==
    ASSUME NEW s, NEW t, NEW m \in Nat, NEW n \in Nat, m <= n, \A i \in 1 .. m : s[i] = t[i],
           NEW f, NEW g, Chain(f, s, m), Chain(g, t, n)
    PROVE  \A i \in 1 .. m : f[i] = g[i]
  <1> DEFINE T == {i \in 1 .. m : f[i] # g[i]}
  <1> SUFFICES ASSUME T # {} PROVE FALSE
    OBVIOUS
  <1>1. PICK i \in T : \A j \in T : i <= j
    <2>1. T \subseteq Nat
      OBVIOUS
    <2> HIDE DEF T
    <2> QED
      BY <2>1, HasLeast
  <1>2. i # 1
    BY <1>1 DEF Chain
  <1>3. PICK j \in 1 .. m - 1 : j + 1 = i /\ j \notin T
    <2>1. i - 1 \in 1 .. m - 1 /\ (i - 1) + 1 = i /\ i - 1 \notin T
      BY <1>1, <1>2
    <2> QED
      BY <2>1
  <1>4. f[j + 1] = f[j] \o s[j + 1]
    BY DEF Chain
  <1>5. g[j + 1] = g[j] \o t[j + 1]
    <2>1. j \in 1 .. n - 1
      OBVIOUS
    <2> QED
      BY <2>1 DEF Chain
  <1>6. f[j] = g[j] /\ s[j + 1] = t[j + 1]
    BY <1>3
  <1>7. f[i] = g[i]
    BY <1>3, <1>4, <1>5, <1>6
  <1> QED
    BY <1>1, <1>7

LEMMA FlattenIs ==
    ASSUME NEW S, NEW s \in Seq(S), Len(s) # 0
    PROVE  \E f : Chain(f, s, Len(s)) /\ FlattenSeq(s) = f[Len(s)]
  <1> PICK n \in Nat \ {0} : n = Len(s)
    OBVIOUS
  <1> DEFINE Def(f) == [i \in 1 .. n |-> IF i = 1 THEN s[i] ELSE f[i - 1] \o s[i]]
  <1>1. FlattenSeq(s) = (CHOOSE f : f = Def(f))[n]
    BY DEF FlattenSeq
  <1>2. PICK c : Chain(c, s, n)
    BY ChainExists
  <1>3. c = Def(c)
    <2>1. ASSUME NEW i \in 1 .. n PROVE c[i] = Def(c)[i]
      <3>1. CASE i = 1
        BY <1>2, <3>1 DEF Chain
      <3>2. CASE i # 1
        <4>1. PICK j \in 1 .. n - 1 : j + 1 = i /\ i - 1 = j
          <5>1. i - 1 \in 1 .. n - 1 /\ (i - 1) + 1 = i
            BY <3>2
          <5> QED
            BY <5>1
        <4>2. c[j + 1] = c[j] \o s[j + 1]
          BY <1>2 DEF Chain
        <4> QED
          BY <3>2, <4>1, <4>2
      <3> QED
        BY <3>1, <3>2
    <2>2. c = [i \in 1 .. n |-> c[i]]
      BY <1>2 DEF Chain
    <2> QED
      BY <2>1, <2>2
  <1>4. PICK f : f = (CHOOSE g : g = Def(g))
    OBVIOUS
  <1>5. f = Def(f)
    <2> HIDE DEF Def
    <2> QED
      BY <1>3, <1>4
  <1>6. Chain(f, s, n)
    <2>1. \A i \in 1 .. n : f[i] = IF i = 1 THEN s[i] ELSE f[i - 1] \o s[i]
      BY <1>5
    <2>2. f[1] = s[1]
      BY <2>1
    <2>3. ASSUME NEW i \in 1 .. n - 1 PROVE f[i + 1] = f[i] \o s[i + 1]
      <3>1. i + 1 \in 1 .. n /\ i + 1 # 1 /\ (i + 1) - 1 = i
        OBVIOUS
      <3> QED
        BY <2>1, <3>1
    <2>4. f = [i \in 1 .. n |-> f[i]]
      BY <1>5
    <2> QED
      BY <2>2, <2>3, <2>4 DEF Chain
  <1> QED
    BY <1>1, <1>4, <1>6
-----------------------------------------------------------------------------
(***************************************************************************)
(* The replies, one behind the other.                                      *)
(***************************************************************************)
Replies(n) == FlattenSeq([i \in 1 .. n |-> Fitting(i)])

\* Cells of each that the socket takes.
Fit == IF ReplyLen <= SendSpace THEN ReplyLen ELSE SendSpace

\* Number of commands run that send a reply: all but the last if that is q.
Replied == IF Len(ran) \in Quits THEN Len(ran) - 1 ELSE Len(ran)

\* A client that waits is at most one command ahead, and then it has read all
\* the server wrote: no write ever waits for room.
InTurn ==
    /\ queued = <<>>
    /\ \A i \in 1 .. Len(ran) - 1 : i \notin Quits
    /\ answer = Replies(Replied) /\ Len(answer) = Fit * Replied
    /\ \/ sent = Len(ran)
       \/ sent = Len(ran) + 1 /\ taken = Len(answer) /\ Replied = Len(ran)

ReplyInv == StreamInv /\ (client = "waits" /\ ~torn => InTurn)

LEMMA FittingIs ==
    /\ Fit \in Nat \ {0} /\ Fit <= ReplyLen /\ ReplyLen \in Nat /\ Min({ReplyLen, SendSpace}) = Fit
    /\ \A n \in Nat : Fitting(n) \in Seq([line : Int, at : Int]) /\ Len(Fitting(n)) = Fit
    /\ \A n \in Lines : Fitting(n) \in Seq(Cells) /\ Len(Fitting(n)) = Fit
  <1>1. /\ Fit \in Nat \ {0} /\ Fit <= ReplyLen /\ ReplyLen \in Nat
        /\ Min({ReplyLen, SendSpace}) = Fit
    BY SessionAssumption, MinOfTwo DEF Fit
  <1>2. ASSUME NEW n \in Nat PROVE Fitting(n) \in Seq([line : Int, at : Int]) /\ Len(Fitting(n)) = Fit
    <2>1. Reply(n) \in Seq([line : Int, at : Int]) /\ Len(Reply(n)) = ReplyLen
      BY <1>1 DEF Reply
    <2>2. Fit \in 0 .. Len(Reply(n))
      BY <1>1, <2>1
    <2> QED
      BY <1>1, <2>1, <2>2, PrefixIs DEF Fitting
  <1>3. ASSUME NEW n \in Lines PROVE Fitting(n) \in Seq(Cells) /\ Len(Fitting(n)) = Fit
    <2>1. Reply(n) \in Seq(Cells) /\ Len(Reply(n)) = ReplyLen
      BY TextsTyped
    <2>2. Fit \in 0 .. Len(Reply(n))
      BY <1>1, <2>1
    <2> QED
      BY <1>1, <2>1, <2>2, PrefixIs DEF Fitting
  <1> QED
    BY <1>1, <1>2, <1>3

LEMMA RepliesAre ==
    ASSUME NEW n \in Nat
    PROVE  \E s \in Seq(Seq([line : Int, at : Int])) :
               /\ Len(s) = n /\ Replies(n) = FlattenSeq(s)
               /\ \A i \in 1 .. n : s[i] = Fitting(i)
  <1> DEFINE s == [i \in 1 .. n |-> Fitting(i)]
  <1>1. s \in Seq(Seq([line : Int, at : Int])) /\ Len(s) = n
    <2>1. \A i \in 1 .. n : Fitting(i) \in Seq([line : Int, at : Int])
      BY FittingIs
    <2> QED
      BY <2>1
  <1>2. \A i \in 1 .. n : s[i] = Fitting(i)
    OBVIOUS
  <1>3. Replies(n) = FlattenSeq(s)
    BY DEF Replies
  <1> HIDE DEF s
  <1> QED
    BY <1>1, <1>2, <1>3

LEMMA RepliesGrow ==
    /\ Replies(0) = <<>>
    /\ \A n \in Nat : n + 1 \in Lines => Replies(n + 1) = Replies(n) \o Fitting(n + 1)
  <1>1. Replies(0) = <<>>
    BY DEF Replies, FlattenSeq
  <1>2. ASSUME NEW n \in Nat, n + 1 \in Lines
        PROVE  Replies(n + 1) = Replies(n) \o Fitting(n + 1)
    <2> PICK m \in Nat \ {0} : m = n + 1 /\ n \in 0 .. m - 1
      OBVIOUS
    <2>1. PICK t :
              /\ t \in Seq(Seq([line : Int, at : Int])) /\ Len(t) = m /\ Replies(m) = FlattenSeq(t)
              /\ \A i \in 1 .. m : t[i] = Fitting(i)
      BY RepliesAre
    <2>2. PICK g : Chain(g, t, m) /\ Replies(m) = g[m]
      BY <2>1, FlattenIs
    <2>3. CASE n = 0
      <3>1. Replies(m) = Fitting(1) /\ m = 1
        BY <2>1, <2>2, <2>3 DEF Chain
      <3>2. Fitting(1) \in Seq(Cells)
        BY <1>2, <2>3, FittingIs
      <3>3. <<>> \o Fitting(1) = Fitting(1)
        BY <3>2
      <3> QED
        BY <1>1, <2>3, <3>1, <3>3
    <2>4. CASE n # 0
      <3>1. PICK s :
                /\ s \in Seq(Seq([line : Int, at : Int])) /\ Len(s) = n /\ Replies(n) = FlattenSeq(s)
                /\ \A i \in 1 .. n : s[i] = Fitting(i)
        BY RepliesAre
      <3>2. PICK f : Chain(f, s, n) /\ Replies(n) = f[n]
        BY <2>4, <3>1, FlattenIs
      <3>3. f[n] = g[n]
        <4>1. n <= m /\ \A i \in 1 .. n : s[i] = t[i]
          BY <2>1, <3>1
        <4>2. m \in Nat /\ Chain(f, s, n) /\ Chain(g, t, m)
          BY <2>2, <3>2
        <4>3. \A i \in 1 .. n : f[i] = g[i]
          BY <4>1, <4>2, ChainsAgree
        <4> QED
          BY <2>4, <4>3
      <3>4. g[n + 1] = g[n] \o t[n + 1]
        <4>1. n \in 1 .. m - 1
          BY <2>4
        <4> QED
          BY <2>2, <4>1 DEF Chain
      <3>5. t[n + 1] = Fitting(n + 1)
        BY <2>1
      <3> QED
        BY <2>2, <3>2, <3>3, <3>4, <3>5
    <2> QED
      BY <2>3, <2>4
  <1> QED
    BY <1>1, <1>2
-----------------------------------------------------------------------------
(***************************************************************************)
(* Every step keeps client and server in turn.                             *)
(***************************************************************************)
LEMMA TextsDiffer ==
    ASSUME NEW n \in Lines, NEW q \in Lines, Text(n) = Text(q)
    PROVE  n = q
  <1>1. 1 \in 1 .. Size[n] /\ 1 \in 1 .. Size[q]
    BY SizesTyped
  <1>2. Text(n)[1] = [line |-> n, at |-> 1] /\ Text(q)[1] = [line |-> q, at |-> 1]
    BY <1>1, TextsTyped
  <1> QED
    BY <1>2

\* One read runs one command or none.
LEMMA WhatRuns ==
    ASSUME StreamInv, StreamInv', client # "relay", ~torn', Receive
    PROVE  \/ UNCHANGED <<ran, output>>
           \/ \E n \in Lines : /\ n = Len(ran) + 1 /\ n <= sent
                               /\ ran' = Append(ran, Text(n)) /\ Run(Text(n))
  <1>1. PICK k \in 1 .. Len(wire) : HandleCommand(SubSeq(wire, 1, k))
    BY DEF Receive
  <1>2. PICK m, p : m = Filled(SubSeq(wire, 1, k)) /\ p = put + Len(SubSeq(wire, 1, k))
    OBVIOUS
  <1>3. \/ UNCHANGED <<open, ran, output>>
        \/ \E text : text = FirstLine(Peeked(m)) /\ Run(text)
    BY <1>1, <1>2, CommandSteps
  <1>4. ASSUME NEW text, Run(text)
        PROVE  \E n \in Lines : /\ n = Len(ran) + 1 /\ n <= sent
                                /\ ran' = Append(ran, Text(n)) /\ Run(Text(n))
    <2>1. ran' = Append(ran, text)
      BY <1>4 DEF Run
    <2>2. ran \in Seq(Seq(LineCells)) /\ ran' \in Seq(Seq(LineCells)) /\ Len(ran) \in Nat
      BY DEF StreamInv, Typed
    <2>3. Len(ran') = Len(ran) + 1 /\ ran'[Len(ran) + 1] = text
      BY <2>1, <2>2
    <2>4. RanInOrder' /\ sent' = sent
      <3>1. client' = client /\ sent' = sent
        BY DEF Receive, input
      <3> QED
        BY <3>1 DEF StreamInv
    <2>5. Len(ran) + 1 <= sent /\ text = Text(Len(ran) + 1)
      BY <2>2, <2>3, <2>4 DEF RanInOrder
    <2>6. Len(ran) + 1 \in Lines
      <3>1. sent \in 0 .. Len(Size)
        BY DEF StreamInv, Typed
      <3> QED
        BY <2>2, <2>5, <3>1, SizesTyped
    <2> QED
      BY <1>4, <2>1, <2>5, <2>6
  <1> QED
    BY <1>3, <1>4

\* Of a reply the socket takes as much as it has room for when it is empty.
LEMMA WrittenOnce ==
    ASSUME Typed, NEW n \in Lines, queued = <<>>, taken = Len(answer), Write(Reply(n))
    PROVE  /\ answer' = answer \o Fitting(n) /\ Len(answer') = Len(answer) + Fit
           /\ queued' = <<>>
  <1>1. PICK reply \in Seq(Cells) : reply = Reply(n) /\ Len(reply) = ReplyLen
    BY TextsTyped
  <1>2. Room = SendSpace /\ Room > 0
    <2>1. Len(answer) \in Nat
      BY DEF Typed
    <2> QED
      BY <2>1, SessionAssumption DEF Room
  <1>3. Written(reply)
    BY <1>1 DEF Write, Typed
  <1>4. /\ answer' = answer \o SubSeq(reply, 1, Min({Len(reply), Room}))
        /\ queued' = queued
    BY <1>2, <1>3 DEF Written
  <1>5. answer' = answer \o Fitting(n)
    BY <1>1, <1>2, <1>4 DEF Fitting
  <1>6. PICK part \in Seq(Cells) : part = Fitting(n) /\ Len(part) = Fit
    BY FittingIs
  <1>7. Len(answer \o part) = Len(answer) + Len(part)
    BY JoinedIs DEF Typed
  <1> QED
    BY <1>4, <1>5, <1>6, <1>7

LEMMA ReceiveInTurn ==
    ASSUME ReplyInv, StreamInv', client = "waits", ~torn', Receive
    PROVE  InTurn'
  <1>1. Typed /\ InTurn /\ StreamInv
    BY DEF ReplyInv, StreamInv, Receive
  <1>2. Len(ran) \in Nat /\ ran \in Seq(Seq(LineCells)) /\ Quits \subseteq Lines
    BY <1>1, SessionAssumption DEF Typed
  <1>3. UNCHANGED <<sent, taken>>
    BY DEF Receive, input
  <1>4. CASE UNCHANGED <<ran, output>>
    BY <1>1, <1>3, <1>4 DEF InTurn, Replied, output
  <1>5. ASSUME NEW n \in Lines, n = Len(ran) + 1, n <= sent,
               ran' = Append(ran, Text(n)), Run(Text(n))
        PROVE  InTurn'
    <2>1. sent = n /\ taken = Len(answer) /\ Replied = n - 1 /\ Len(ran) = n - 1
      BY <1>1, <1>2, <1>5 DEF InTurn
    <2>2. Len(ran') = n
      BY <1>2, <1>5
    <2>3. Len(ran) \notin Quits
      BY <1>2, <2>1 DEF Replied
    <2>4. \A i \in 1 .. Len(ran') - 1 : i \notin Quits
      <3>1. ASSUME NEW i \in 1 .. Len(ran') - 1 PROVE i \notin Quits
        <4>1. CASE i = Len(ran)
          BY <2>3, <4>1
        <4>2. CASE i # Len(ran)
          <5>1. i \in 1 .. Len(ran) - 1
            BY <1>2, <1>5, <2>2, <3>1, <4>2
          <5> QED
            BY <1>1, <5>1 DEF InTurn
        <4> QED
          BY <4>1, <4>2
      <3> QED
        BY <3>1
    <2>5. IsLine(Text(n)) /\ (IsQuit(Text(n)) <=> n \in Quits)
      BY <1>2, TextsDiffer DEF IsLine, IsQuit
    <2>6. CASE n \in Quits
      <3>1. queued' = <<>> /\ answer' = answer
        BY <1>5, <2>5, <2>6 DEF Run, Close
      <3>2. Replied' = n - 1
        BY <2>2, <2>6 DEF Replied
      <3> QED
        BY <1>1, <1>3, <2>1, <2>2, <2>4, <3>1, <3>2 DEF InTurn
    <2>7. CASE n \notin Quits
      <3>1. Write(Reply(Text(n)[1].line))
        BY <1>5, <2>5, <2>7 DEF Run
      <3>2. Text(n)[1].line = n
        <4>1. 1 \in 1 .. Size[n]
          BY SizesTyped
        <4>2. Text(n)[1] = [line |-> n, at |-> 1]
          BY <4>1, TextsTyped
        <4> QED
          BY <4>2
      <3>3. Write(Reply(n))
        BY <3>1, <3>2
      <3>4. /\ answer' = answer \o Fitting(n) /\ Len(answer') = Len(answer) + Fit
            /\ queued' = <<>>
        BY <1>1, <2>1, <3>3, WrittenOnce DEF InTurn
      <3>5. Replied' = n
        BY <2>2, <2>7 DEF Replied
      <3>6. answer' = Replies(n)
        <4>1. PICK l \in Nat : l + 1 = n /\ l = n - 1
          BY <1>2, <1>5
        <4>2. Replies(l + 1) = Replies(l) \o Fitting(l + 1)
          BY <4>1, RepliesGrow
        <4> QED
          BY <1>1, <2>1, <3>4, <4>1, <4>2 DEF InTurn
      <3>7. Len(answer') = Fit * n
        <4>1. Len(answer) = Fit * (n - 1)
          BY <1>1, <2>1 DEF InTurn
        <4>2. n \in Nat /\ Fit \in Nat
          BY SizesTyped, FittingIs
        <4> QED
          BY <3>4, <4>1, <4>2
      <3> QED
        BY <1>3, <2>1, <2>2, <2>4, <3>4, <3>5, <3>6, <3>7 DEF InTurn
    <2> QED
      BY <2>6, <2>7
  <1> QED
    BY <1>1, <1>4, <1>5, WhatRuns

LEMMA ReplyKept == ReplyInv /\ [Next]_vars => ReplyInv'
  <1> SUFFICES ASSUME ReplyInv, [Next]_vars PROVE ReplyInv'
    OBVIOUS
  <1>1. StreamInv'
    BY StreamKept DEF ReplyInv
  <1>2. client' = client
    BY DEF Next, SendLine, Hangup, TakeReply, Receive, ReceiveEof, SendQueued, HandleWrite,
           vars, input
  <1> SUFFICES ASSUME client = "waits", ~torn' PROVE InTurn'
    BY <1>1, <1>2 DEF ReplyInv
  <1>t. ~torn
    BY DEF Next, SendLine, Hangup, TakeReply, Receive, ReceiveEof, SendQueued, HandleWrite, vars
  <1>3. Typed /\ InTurn
    BY <1>t DEF ReplyInv, StreamInv
  <1>4. CASE SendLine
    <2>1. UNCHANGED <<ran, queued, answer, taken>> /\ sent' = sent + 1
      BY <1>4 DEF SendLine, output
    <2>2. taken >= Len(Fitting(sent)) * sent
      BY <1>4 DEF SendLine
    <2>3. PICK r \in Nat : r = Len(ran)
      BY <1>3 DEF Typed
    <2>4. /\ Replied = IF r \in Quits THEN r - 1 ELSE r
          /\ sent \in Nat /\ taken <= Len(answer) /\ Len(answer) = Fit * Replied
          /\ Fit \in Nat /\ Fit >= 1 /\ 0 \notin Quits
          /\ taken \in Nat /\ Len(answer) \in Nat
      BY <1>3, <2>3, SizesTyped, SessionAssumption, FittingIs DEF Typed, InTurn, Replied
    <2>f. taken >= Fit * sent
      BY <2>2, <2>4, FittingIs
    <2>5. PICK n \in Nat : n = Replied /\ n <= r
      BY <2>3, <2>4
    <2>6. n >= sent
      <3> SUFFICES ASSUME n + 1 <= sent PROVE FALSE
        BY <2>4, <2>5
      <3>1. PICK d \in Nat : sent = n + 1 + d
        <4>1. sent - (n + 1) \in Nat /\ sent = n + 1 + (sent - (n + 1))
          BY <2>4
        <4> QED
          BY <4>1
      <3>2. Fit * (n + 1 + d) = Fit * n + Fit + Fit * d
        BY <2>4
      <3>3. Fit * d \in Nat /\ Fit * n \in Nat
        BY <2>4
      <3> QED
        BY <2>f, <2>4, <2>5, <3>1, <3>2, <3>3
    <2>7. sent = r /\ Replied = r
      BY <1>3, <2>3, <2>4, <2>5, <2>6 DEF InTurn
    <2>8. taken = Len(answer)
      BY <2>f, <2>4, <2>7
    <2>9. Replied' = Replied
      BY <2>1 DEF Replied
    <2> QED
      BY <1>3, <2>1, <2>3, <2>7, <2>8, <2>9 DEF InTurn
  <1>5. CASE Receive
    BY <1>1, <1>5, ReceiveInTurn
  <1>6. CASE TakeReply
    <2>1. UNCHANGED <<ran, queued, answer, sent>> /\ taken < Len(answer)
      BY <1>6 DEF TakeReply, output, input
    <2>2. Replied' = Replied /\ Len(answer) \in Nat
      BY <1>3, <2>1 DEF Replied, Typed
    <2> QED
      BY <1>3, <2>1, <2>2 DEF InTurn
  <1>7. CASE ReceiveEof
    <2>1. UNCHANGED <<ran, answer, sent, taken>> /\ queued' = <<>>
      BY <1>7 DEF ReceiveEof, Close, input
    <2> QED
      BY <1>3, <2>1 DEF InTurn, Replied
  <1>8. CASE SendQueued
    BY <1>3, <1>8 DEF SendQueued, InTurn
  <1>9. CASE Hangup \/ HandleWrite \/ UNCHANGED vars
    <2>1. UNCHANGED <<ran, queued, answer, sent, taken>>
      BY <1>3, <1>9 DEF Hangup, HandleWrite, vars, input, output, Typed
    <2> QED
      BY <1>3, <2>1 DEF InTurn, Replied
  <1> QED
    BY <1>4, <1>5, <1>6, <1>7, <1>8, <1>9 DEF Next

\* A client that waits for its replies gets each of them in order and once, from
\* its start and as far as the socket takes it at once, however many commands it
\* sends and however long the replies are, until a read ends in the first bytes
\* of a command.
THEOREM EachReplyOnce == Spec => []RepliesOnce
  <1>1. Init => ReplyInv
    <2> SUFFICES ASSUME Init PROVE ReplyInv
      OBVIOUS
    <2>1. StreamInv /\ 0 \notin Quits
      BY InitStream, SizesTyped, SessionAssumption
    <2>2. /\ ran = <<>> /\ Len(ran) = 0 /\ queued = <<>> /\ sent = 0
          /\ answer = <<>> /\ Len(answer) = 0
      BY EmptyIs DEF Init
    <2>3. Replied = 0 /\ Fit * 0 = 0
      BY <2>1, <2>2, FittingIs DEF Replied
    <2> QED
      BY <2>1, <2>2, <2>3, RepliesGrow DEF ReplyInv, InTurn
  <1>2. ReplyInv => RepliesOnce
    <2> SUFFICES ASSUME ReplyInv, client = "waits", ~torn
                 PROVE  answer = Replies(Cardinality(DOMAIN ran \ Quits))
      BY DEF RepliesOnce, Replies, Answering
    <2>1. Typed /\ InTurn
      BY DEF ReplyInv, StreamInv
    <2>2. PICK r \in Nat : r = Len(ran) /\ DOMAIN ran = 1 .. r
      BY <2>1 DEF Typed
    <2>3. PICK n \in Nat : n = Replied /\ DOMAIN ran \ Quits = 1 .. n
      <3>1. CASE r \in Quits
        <4>1. r \in Nat \ {0} /\ r - 1 \in Nat
          BY <3>1, SizesTyped, SessionAssumption
        <4>2. (1 .. r) \ Quits = 1 .. r - 1
          BY <2>1, <2>2, <3>1, <4>1 DEF InTurn
        <4> QED
          BY <2>2, <3>1, <4>1, <4>2 DEF Replied
      <3>2. CASE r \notin Quits
        <4>1. (1 .. r) \ Quits = 1 .. r
          BY <2>1, <2>2, <3>2 DEF InTurn
        <4> QED
          BY <2>2, <3>2, <4>1 DEF Replied
      <3> QED
        BY <3>1, <3>2
    <2>4. Cardinality(1 .. n) = n
      BY FS_Interval
    <2> QED
      BY <2>1, <2>3, <2>4 DEF InTurn
  <1> QED
    BY <1>1, <1>2, ReplyKept, PTL DEF Spec
-----------------------------------------------------------------------------
(***************************************************************************)
(* The keys of a packet that lies anywhere in the stream.                  *)
(***************************************************************************)
LEMMA GreatestIs ==
    ASSUME NEW n \in Nat, NEW T, T \subseteq 1 .. n, T # {}
    PROVE  Max(T) \in T /\ \A u \in T : u <= Max(T)
  <1> DEFINE U == {n - t : t \in T}
  <1>1. U \subseteq Nat /\ U # {}
    <2>1. ASSUME NEW t \in T PROVE n - t \in Nat
      <3>1. t \in 1 .. n
        OBVIOUS
      <3> QED
        BY <3>1
    <2> QED
      BY <2>1
  <1>2. PICK v \in U : \A u \in U : v <= u
    <2> HIDE DEF U
    <2> QED
      BY <1>1, HasLeast
  <1>3. PICK t \in T : v = n - t
    OBVIOUS
  <1>4. \A u \in T : u <= t
    <2> SUFFICES ASSUME NEW u \in T PROVE u <= t
      OBVIOUS
    <2>1. n - t <= n - u
      BY <1>2, <1>3
    <2> QED
      BY <2>1
  <1> QED
    BY <1>4 DEF Max

\* The cells of s follow the first o cells of the stream; the first o cells
\* are whole lines.
InPlace(s, o) == \A i \in 1 .. Len(s) : Pos(s[i]) = o + i
LineStart(o) == \E l \in 1 .. Len(Size) + 1 : o = Before[l]

\* The last cell before a line is a newline.
LEMMA CellBefore ==
    ASSUME NEW c \in LineCells, NEW l \in 1 .. Len(Size) + 1, Pos(c) = Before[l]
    PROVE  Newline(c)
  <1>1. PICK q \in Lines : q = c.line
    BY LineCellIs
  <1>2. /\ Before[q] \in Nat /\ Before[q] < Before[l] /\ Before[l] <= Before[q + 1]
        /\ Newline(c) <=> Pos(c) = Before[q + 1]
    BY <1>1, PosIs
  <1>3. q \in 1 .. Len(Size) + 1 /\ q + 1 \in 1 .. Len(Size) + 1
    BY SizesTyped
  <1>4. Before[l] \in Nat /\ Before[q + 1] \in Nat
    BY <1>3, BeforeIs
  <1>5. q + 1 <= l
    <2>1. ~(l <= q)
      BY <1>2, <1>3, <1>4, BeforeMonotone
    <2> QED
      BY <1>3, <2>1, SizesTyped
  <1>6. Before[q + 1] <= Before[l]
    BY <1>3, <1>5, BeforeMonotone
  <1> QED
    BY <1>2, <1>4, <1>6

LEMMA KeyIs ==
    ASSUME NEW n \in Lines
    PROVE  /\ Key(n) \in Seq(LineCells) /\ Len(Key(n)) = Size[n] - 2
           /\ \A i \in 1 .. Size[n] - 2 : Key(n)[i] = [line |-> n, at |-> i]
           /\ Key(n) # <<>> => Size[n] >= 3 /\ Key(n)[1].line = n
  <1>1. PICK z \in Nat : z = Size[n] - 2 /\ z <= Size[n] /\ Size[n] \in Nat
    <2>1. Size[n] - 2 \in Nat /\ Size[n] - 2 <= Size[n] /\ Size[n] \in Nat
      BY SizesTyped
    <2> QED
      BY <2>1
  <1>2. PICK t : t = Text(n)
    OBVIOUS
  <1>3. /\ t \in Seq(LineCells) /\ z \in 0 .. Len(t)
        /\ \A i \in 1 .. z : t[i] = [line |-> n, at |-> i]
    BY <1>1, <1>2, TextsTyped
  <1>4. /\ SubSeq(t, 1, z) \in Seq(LineCells) /\ Len(SubSeq(t, 1, z)) = z
        /\ \A i \in 1 .. z : SubSeq(t, 1, z)[i] = t[i]
    BY <1>3, PrefixIs
  <1>5. Key(n) = SubSeq(t, 1, z)
    BY <1>1, <1>2 DEF Key
  <1>6. /\ Key(n) \in Seq(LineCells) /\ Len(Key(n)) = z
        /\ \A i \in 1 .. z : Key(n)[i] = [line |-> n, at |-> i]
    BY <1>3, <1>4, <1>5
  <1>7. ASSUME Key(n) # <<>> PROVE Size[n] >= 3 /\ Key(n)[1].line = n
    <2>1. z # 0
      BY <1>6, <1>7
    <2>2. Key(n)[1] = [line |-> n, at |-> 1]
      BY <1>1, <1>6, <2>1
    <2> QED
      BY <1>1, <2>1, <2>2
  <1> QED
    BY <1>1, <1>6, <1>7

\* What a line has before its space is its key.
LEMMA KeyOfLine ==
    ASSUME NEW n \in Lines, NEW s \in Seq(LineCells), Len(s) = Size[n] - 1,
           \A j \in 1 .. Size[n] - 1 : s[j] = [line |-> n, at |-> j]
    PROVE  KeyOf(s) = Key(n)
  <1>1. PICK z \in Nat \ {0} : z = Size[n] - 1 /\ z - 1 = Size[n] - 2
    <2>1. Size[n] - 1 \in Nat \ {0} /\ (Size[n] - 1) - 1 = Size[n] - 2
      BY SizesTyped
    <2> QED
      BY <2>1
  <1>z. z \in Nat /\ z # 0
    BY <1>1
  <1>a. Len(s) = z /\ \A j \in 1 .. z : s[j] = [line |-> n, at |-> j]
    BY <1>1
  <1>2. PICK spaces : spaces = {i \in DOMAIN s : Space(s[i])}
    OBVIOUS
  <1>3. spaces = {z}
    <2>1. DOMAIN s = 1 .. z
      BY <1>1, <1>a
    <2>2. \A i \in 1 .. z : Space([line |-> n, at |-> i]) <=> i = z
      BY <1>1 DEF Space
    <2>3. \A i \in 1 .. z : Space(s[i]) <=> i = z
      BY <1>a, <2>2
    <2>4. z \in 1 .. z
      BY <1>z
    <2> QED
      BY <1>2, <2>1, <2>3, <2>4
  <1>4. Min(spaces) = z
    <2>1. {z} \subseteq Nat /\ {z} # {}
      BY <1>1
    <2> QED
      BY <1>3, <2>1, LeastIsMin
  <1>5. KeyOf(s) = SubSeq(s, 1, z - 1)
    BY <1>1, <1>2, <1>3, <1>4 DEF KeyOf
  <1>6. PICK y \in Nat : y = z - 1 /\ y \in 0 .. Len(s)
    <2>1. z - 1 \in Nat /\ z - 1 \in 0 .. z
      BY <1>z
    <2> QED
      BY <1>a, <2>1
  <1>7. /\ SubSeq(s, 1, y) \in Seq(LineCells) /\ Len(SubSeq(s, 1, y)) = y
        /\ \A i \in 1 .. y : SubSeq(s, 1, y)[i] = s[i]
    BY <1>6, PrefixIs
  <1>8. \A i \in 1 .. y : s[i] = [line |-> n, at |-> i]
    BY <1>1, <1>6, <1>a
  <1>9. /\ Key(n) \in Seq(LineCells) /\ Len(Key(n)) = y
        /\ \A i \in 1 .. y : Key(n)[i] = [line |-> n, at |-> i]
    BY <1>1, <1>6, KeyIs
  <1>10. SubSeq(s, 1, y) = Key(n)
    <2>1. PICK k : k = Key(n)
      OBVIOUS
    <2>2. PICK t : t = SubSeq(s, 1, y)
      OBVIOUS
    <2>3. t \in Seq(LineCells) /\ k \in Seq(LineCells) /\ Len(t) = Len(k)
      BY <1>7, <1>9, <2>1, <2>2
    <2>4. \A i \in 1 .. Len(k) : t[i] = k[i]
      BY <1>7, <1>8, <1>9, <2>1, <2>2
    <2> QED
      BY <2>1, <2>2, <2>3, <2>4
  <1> QED
    BY <1>5, <1>6, <1>10

\* A newline in a body that starts with a line ends a line that is whole.
LEMMA KeyFound ==
    ASSUME NEW b \in Seq(LineCells), NEW o \in Nat, InPlace(b, o), LineStart(o),
           NEW i \in 1 .. Len(b), Newline(b[i])
    PROVE  \E l \in Lines : /\ o <= Before[l] /\ o + i = Before[l + 1]
                            /\ KeyOf(LineTo(b, i)) = Key(l)
  <1>1. \A j \in 1 .. Len(b) : b[j] \in LineCells /\ Pos(b[j]) = o + j
    BY DEF InPlace
  <1>2. PICK l \in Lines : l = b[i].line
    BY <1>1, LineCellIs
  <1>3. PICK z \in Nat : z = Size[l] /\ z >= 2
    BY SizesTyped
  <1>4. l \in 1 .. Len(Size) + 1 /\ l + 1 \in 1 .. Len(Size) + 1
    BY SizesTyped
  <1>5. Before[l] \in Nat /\ Before[l + 1] = Before[l] + z
    BY <1>3, <1>4, BeforeIs
  <1>6. o + i = Before[l + 1]
    BY <1>1, <1>2, PosIs
  <1>7. o <= Before[l]
    <2>1. PICK q \in 1 .. Len(Size) + 1 : o = Before[q]
      BY DEF LineStart
    <2>2. ~(l + 1 <= q)
      <3> SUFFICES ASSUME l + 1 <= q PROVE FALSE
        OBVIOUS
      <3>1. Before[l + 1] <= Before[q]
        BY <1>4, BeforeMonotone
      <3> QED
        BY <1>6, <2>1, <3>1
    <2>3. q <= l
      BY <1>4, <2>2, SizesTyped
    <2> QED
      BY <1>4, <2>1, <2>3, BeforeMonotone
  <1>8. PICK d \in Nat : d = Before[l] - o /\ d + z = i
    <2>1. PICK at \in Nat : at = Before[l] /\ o <= at /\ o + i = at + z
      BY <1>5, <1>6, <1>7
    <2>2. at - o \in Nat /\ (at - o) + z = i
      <3>1. at \in Nat /\ z \in Nat /\ i \in Nat /\ o <= at /\ o + i = at + z
        BY <1>3, <2>1
      <3> QED
        BY <3>1
    <2> QED
      BY <2>1, <2>2
  <1>b. Before[l] = o + d
    BY <1>5, <1>8
  <1>9. \A j \in 1 .. z : d + j \in 1 .. Len(b) /\ b[d + j] = [line |-> l, at |-> j]
    <2> SUFFICES ASSUME NEW j \in 1 .. z
                 PROVE  d + j \in 1 .. Len(b) /\ b[d + j] = [line |-> l, at |-> j]
      OBVIOUS
    <2>1. d + j \in 1 .. Len(b)
      BY <1>3, <1>8, SMTT(30)
    <2>2. Pos(b[d + j]) = Before[l] + j /\ b[d + j] \in LineCells
      <3>1. b[d + j] \in LineCells /\ Pos(b[d + j]) = o + (d + j)
        BY <1>1, <2>1
      <3>2. o + (d + j) = (o + d) + j
        BY <1>8
      <3> QED
        BY <1>b, <3>1, <3>2
    <2> QED
      BY <1>3, <2>1, <2>2, CellAt
  <1> DEFINE ends == {0} \cup {j \in Newlines(b) : j < i}
  <1>10. d \in ends
    <2>1. CASE d = 0
      BY <2>1
    <2>2. CASE d # 0
      <3>1. d \in 1 .. Len(b) /\ d < i
        BY <1>3, <1>8, <2>2
      <3>2. Pos(b[d]) = Before[l] /\ b[d] \in LineCells
        <4>1. Pos(b[d]) = o + d /\ b[d] \in LineCells
          BY <1>1, <3>1
        <4> QED
          BY <1>b, <4>1
      <3>3. Newline(b[d])
        BY <1>4, <3>2, CellBefore
      <3> QED
        BY <3>1, <3>3 DEF Newlines
    <2> QED
      BY <2>1, <2>2
  <1>11. \A j \in ends : j \in Nat /\ j <= d
    <2> SUFFICES ASSUME NEW j \in Newlines(b), j < i, ~(j <= d) PROVE FALSE
      BY DEF Newlines
    <2>1. j \in 1 .. Len(b) /\ Newline(b[j])
      BY DEF Newlines
    <2>2. PICK k \in 1 .. z - 1 : j = d + k
      <3>1. j - d \in 1 .. z - 1 /\ j = d + (j - d)
        BY <1>3, <1>8, <2>1, SMTT(30)
      <3> QED
        BY <3>1
    <2>3. b[j] = [line |-> l, at |-> k]
      BY <1>3, <1>9, <2>2
    <2>4. ~Newline([line |-> l, at |-> k])
      BY <1>3, <2>2 DEF Newline
    <2> QED
      BY <2>1, <2>3, <2>4
  <1>12. Max(ends) = d
    <2> HIDE DEF ends
    <2>1. d \in Nat
      BY <1>8
    <2>2. PICK x : x = Max(ends) /\ x \in ends /\ \A j \in ends : x >= j
      BY <1>10, <1>11, <2>1 DEF Max
    <2> QED
      BY <1>10, <1>11, <2>1, <2>2
  <1>13. LineTo(b, i) = SubSeq(b, d + 1, i - 1)
    BY <1>12 DEF LineTo
  <1>14. PICK e \in Nat : e = i - 1 /\ e \in 0 .. Len(b) /\ d \in 0 .. e /\ e - d = z - 1
    <2>1. i - 1 \in 0 .. Len(b) /\ d \in 0 .. i - 1 /\ i - 1 - d = z - 1 /\ i - 1 \in Nat
      BY <1>3, <1>8, SMTT(30)
    <2> QED
      BY <2>1
  <1>15. PICK s : s = SubSeq(b, d + 1, e)
    OBVIOUS
  <1>16. /\ s \in Seq(LineCells) /\ Len(s) = z - 1
         /\ \A j \in 1 .. z - 1 : s[j] = b[d + j]
    <2>1. /\ s \in Seq(LineCells) /\ Len(s) = e - d
          /\ \A j \in 1 .. e - d : s[j] = b[d + j]
      <3>1. e \in 0 .. Len(b) /\ d \in 0 .. e
        BY <1>14
      <3>2. /\ SubSeq(b, d + 1, e) \in Seq(LineCells) /\ Len(SubSeq(b, d + 1, e)) = e - d
            /\ \A j \in 1 .. e - d : SubSeq(b, d + 1, e)[j] = b[d + j]
        BY <3>1, SliceIs
      <3> QED
        BY <1>15, <3>2
    <2> QED
      BY <1>14, <2>1
  <1>17. \A j \in 1 .. z - 1 : s[j] = [line |-> l, at |-> j]
    <2>1. \A j \in 1 .. z - 1 : j \in 1 .. z
      BY <1>3
    <2> QED
      BY <1>9, <1>16, <2>1
  <1>18. KeyOf(s) = Key(l)
    BY <1>3, <1>16, <1>17, KeyOfLine
  <1> QED
    BY <1>6, <1>7, <1>13, <1>14, <1>15, <1>18

\* k is the key of a line that lies between o and e in the stream.
KeyIn(k, o, e) ==
    /\ k # <<>> /\ k[1].line \in Lines /\ k = Key(k[1].line)
    /\ o <= Before[k[1].line] /\ Before[k[1].line + 1] <= e

\* ks are keys of such lines, in order and each at most once; all of them.
KeysIn(ks, o, e) ==
    /\ ks \in Seq(Seq(LineCells))
    /\ \A i \in 1 .. Len(ks) : KeyIn(ks[i], o, e)
    /\ \A i, j \in 1 .. Len(ks) : i < j => ks[i][1].line < ks[j][1].line

AllKeys(ks, o, e) ==
    \A l \in Lines : Key(l) # <<>> /\ o <= Before[l] /\ Before[l + 1] <= e =>
        \E i \in 1 .. Len(ks) : ks[i] = Key(l)

LEMMA LineEnds ==
    ASSUME NEW l \in Lines
    PROVE  /\ l \in Nat /\ l \in 1 .. Len(Size) + 1 /\ l + 1 \in 1 .. Len(Size) + 1
           /\ Before[l] \in Nat /\ Before[l + 1] \in Nat /\ Before[l] + 2 <= Before[l + 1]
  <1>1. l \in Nat /\ l \in 1 .. Len(Size) + 1 /\ l + 1 \in 1 .. Len(Size) + 1
    BY SizesTyped
  <1>2. /\ Before[l] \in Nat /\ Before[l + 1] = Before[l] + Size[l]
        /\ Size[l] \in Nat /\ Size[l] >= 2
    BY <1>1, BeforeIs, SizesTyped
  <1> QED
    BY <1>1, <1>2

LEMMA KeysWiden ==
    ASSUME NEW o \in Nat, NEW e \in Nat, NEW a \in Nat, NEW c \in Nat, o <= a, c <= e,
           NEW ks, KeysIn(ks, a, c)
    PROVE  KeysIn(ks, o, e)
  <1>1. ASSUME NEW i \in 1 .. Len(ks) PROVE KeyIn(ks[i], o, e)
    <2>1. PICK k : k = ks[i]
      OBVIOUS
    <2>2. KeyIn(k, a, c)
      BY <2>1 DEF KeysIn
    <2>3. PICK l \in Lines : l = k[1].line
      BY <2>2 DEF KeyIn
    <2>4. /\ k # <<>> /\ k = Key(l) /\ a <= Before[l] /\ Before[l + 1] <= c
      BY <2>2, <2>3 DEF KeyIn
    <2>5. o <= Before[l] /\ Before[l + 1] <= e
      BY <2>4, LineEnds, SMTT(30)
    <2> QED
      BY <2>1, <2>3, <2>4, <2>5 DEF KeyIn
  <1> QED
    BY <1>1 DEF KeysIn

\* Keys of lines that end up to m, followed by keys of lines that end later.
LEMMA KeysJoin ==
    ASSUME NEW o \in Nat, NEW m \in Nat, NEW e \in Nat, m <= e,
           NEW ks, NEW hs, KeysIn(ks, o, m), KeysIn(hs, o, e),
           \A i \in 1 .. Len(hs) : m < Before[hs[i][1].line + 1]
    PROVE  KeysIn(ks \o hs, o, e)
  <1>1. KeysIn(ks, o, e)
    BY KeysWiden
  <1>2. PICK js : js = ks \o hs
    OBVIOUS
  <1>3. PICK x \in Nat : x = Len(ks)
    BY DEF KeysIn
  <1>4. PICK y \in Nat : y = Len(hs)
    BY DEF KeysIn
  <1>5. /\ js \in Seq(Seq(LineCells)) /\ Len(js) = x + y
        /\ \A i \in 1 .. x : js[i] = ks[i]
        /\ \A i \in 1 .. y : js[x + i] = hs[i]
    <2>1. ks \in Seq(Seq(LineCells)) /\ hs \in Seq(Seq(LineCells))
      BY DEF KeysIn
    <2> QED
      BY <1>2, <1>3, <1>4, <2>1, JoinedIs
  <1>6. \A i \in 1 .. x + y : i \in 1 .. x \/ \E j \in 1 .. y : i = x + j
    <2> SUFFICES ASSUME NEW i \in 1 .. x + y, i \notin 1 .. x
                 PROVE  \E j \in 1 .. y : i = x + j
      OBVIOUS
    <2>1. i - x \in 1 .. y /\ i = x + (i - x)
      OBVIOUS
    <2> QED
      BY <2>1
  <1>7. ASSUME NEW i \in 1 .. x + y PROVE KeyIn(js[i], o, e)
    <2>1. CASE i \in 1 .. x
      BY <1>1, <1>3, <1>5, <2>1 DEF KeysIn
    <2>2. CASE i \notin 1 .. x
      <3>1. PICK j \in 1 .. y : i = x + j
        BY <1>6, <2>2
      <3>2. KeyIn(hs[j], o, e)
        BY <1>4 DEF KeysIn
      <3> QED
        BY <1>5, <3>1, <3>2
    <2> QED
      BY <2>1, <2>2
  <1>8. ASSUME NEW i \in 1 .. x, NEW j \in 1 .. y
        PROVE  ks[i][1].line < hs[j][1].line
    <2>1. KeyIn(ks[i], o, m) /\ KeyIn(hs[j], o, e) /\ m < Before[hs[j][1].line + 1]
      BY <1>3, <1>4 DEF KeysIn
    <2>2. PICK a \in Lines : a = ks[i][1].line
      BY <2>1 DEF KeyIn
    <2>3. PICK c \in Lines : c = hs[j][1].line
      BY <2>1 DEF KeyIn
    <2>4. Before[a + 1] <= m /\ m < Before[c + 1]
      BY <2>1, <2>2, <2>3 DEF KeyIn
    <2>5. ~(c <= a)
      <3> SUFFICES ASSUME c <= a PROVE FALSE
        OBVIOUS
      <3>1. c + 1 <= a + 1 /\ c + 1 \in 1 .. Len(Size) + 1 /\ a + 1 \in 1 .. Len(Size) + 1
        BY LineEnds
      <3>2. Before[c + 1] <= Before[a + 1]
        BY <3>1, BeforeMonotone
      <3> QED
        BY <2>4, <3>2, LineEnds
    <2>6. a < c
      BY <2>5, LineEnds
    <2> QED
      BY <2>2, <2>3, <2>6
  <1>9. ASSUME NEW i \in 1 .. x + y, NEW j \in 1 .. x + y, i < j
        PROVE  js[i][1].line < js[j][1].line
    <2>1. CASE i \in 1 .. x /\ j \in 1 .. x
      <3>1. ks[i][1].line < ks[j][1].line
        BY <1>3, <1>9, <2>1 DEF KeysIn
      <3> QED
        BY <1>5, <2>1, <3>1
    <2>2. CASE i \in 1 .. x /\ j \notin 1 .. x
      <3>1. PICK b \in 1 .. y : j = x + b
        BY <1>6, <2>2
      <3>2. js[i] = ks[i] /\ js[j] = hs[b]
        BY <1>5, <2>2, <3>1
      <3> QED
        BY <1>8, <2>2, <3>2
    <2>3. CASE i \notin 1 .. x
      <3>1. PICK a \in 1 .. y : i = x + a
        BY <1>6, <2>3
      <3>2. j \notin 1 .. x
        BY <1>9, <3>1
      <3>3. PICK b \in 1 .. y : j = x + b
        BY <1>6, <3>2
      <3>4. a < b
        BY <1>9, <3>1, <3>3
      <3>5. hs[a][1].line < hs[b][1].line
        BY <1>4, <3>4 DEF KeysIn
      <3>6. js[i] = hs[a] /\ js[j] = hs[b]
        BY <1>5, <3>1, <3>3
      <3> QED
        BY <3>5, <3>6
    <2> QED
      BY <2>1, <2>2, <2>3
  <1>10. KeysIn(js, o, e)
    BY <1>5, <1>7, <1>9 DEF KeysIn
  <1> QED
    BY <1>2, <1>10

\* What a body has at cell i: the key of the line that ends there.
Part(b, i) == IF Newline(b[i]) /\ KeyOf(LineTo(b, i)) # <<>>
              THEN <<KeyOf(LineTo(b, i))>> ELSE <<>>

LEMMA LineOfEnd ==
    ASSUME NEW l \in Lines, NEW n \in Lines, Before[l + 1] = Before[n + 1]
    PROVE  l = n
  <1>1. ~(l < n)
    <2> SUFFICES ASSUME l < n PROVE FALSE
      OBVIOUS
    <2>1. l + 1 <= n
      BY LineEnds
    <2>2. Before[l + 1] <= Before[n]
      BY <2>1, LineEnds, BeforeMonotone
    <2> QED
      BY <2>2, LineEnds
  <1>2. ~(n < l)
    <2> SUFFICES ASSUME n < l PROVE FALSE
      OBVIOUS
    <2>1. n + 1 <= l
      BY LineEnds
    <2>2. Before[n + 1] <= Before[l]
      BY <2>1, LineEnds, BeforeMonotone
    <2> QED
      BY <2>2, LineEnds
  <1> QED
    BY <1>1, <1>2, LineEnds

LEMMA PartHas ==
    ASSUME NEW b \in Seq(LineCells), NEW o \in Nat, InPlace(b, o), LineStart(o),
           NEW i \in 1 .. Len(b)
    PROVE  /\ KeysIn(Part(b, i), o, o + i)
           /\ \A j \in 1 .. Len(Part(b, i)) : Before[Part(b, i)[j][1].line + 1] = o + i
           /\ \A l \in Lines : Key(l) # <<>> /\ o <= Before[l] /\ Before[l + 1] = o + i =>
                  \E j \in 1 .. Len(Part(b, i)) : Part(b, i)[j] = Key(l)
  <1>1. b[i] \in LineCells /\ Pos(b[i]) = o + i
    BY DEF InPlace
  <1>2. PICK p : p = Part(b, i)
    OBVIOUS
  <1>3. CASE ~Newline(b[i])
    <2>1. p = <<>> /\ Len(p) = 0 /\ p \in Seq(Seq(LineCells))
      BY <1>2, <1>3, EmptyIs DEF Part
    <2>2. KeysIn(p, o, o + i)
      BY <2>1 DEF KeysIn
    <2>3. \A l \in Lines : Before[l + 1] # o + i
      BY <1>1, <1>3, LineEnds, CellBefore
    <2> QED
      BY <1>2, <2>1, <2>2, <2>3
  <1>4. CASE Newline(b[i])
    <2>1. PICK n \in Lines : /\ o <= Before[n] /\ o + i = Before[n + 1]
                             /\ KeyOf(LineTo(b, i)) = Key(n)
      BY <1>4, KeyFound
    <2>2. \A l \in Lines : Before[l + 1] = o + i => l = n
      BY <2>1, LineOfEnd
    <2>3. CASE Key(n) = <<>>
      <3>1. p = <<>> /\ Len(p) = 0 /\ p \in Seq(Seq(LineCells))
        BY <1>2, <2>1, <2>3, EmptyIs DEF Part
      <3>2. KeysIn(p, o, o + i)
        BY <3>1 DEF KeysIn
      <3> QED
        BY <1>2, <2>2, <2>3, <3>1, <3>2
    <2>4. CASE Key(n) # <<>>
      <3>1. PICK k : k = Key(n)
        OBVIOUS
      <3>2. k \in Seq(LineCells) /\ k # <<>> /\ k[1].line = n
        BY <2>4, <3>1, KeyIs
      <3>3. p = <<k>>
        BY <1>2, <1>4, <2>1, <2>4, <3>1 DEF Part
      <3>4. p \in Seq(Seq(LineCells)) /\ Len(p) = 1 /\ p[1] = k
        BY <3>2, <3>3
      <3>5. KeyIn(k, o, o + i)
        <4>1. Before[n + 1] <= o + i
          BY <2>1, LineEnds
        <4> QED
          BY <2>1, <3>1, <3>2, <4>1 DEF KeyIn
      <3>6. KeysIn(p, o, o + i)
        BY <3>4, <3>5 DEF KeysIn
      <3>7. \A j \in 1 .. Len(p) : Before[p[j][1].line + 1] = o + i
        BY <2>1, <3>2, <3>4
      <3>8. \A l \in Lines : Before[l + 1] = o + i => \E j \in 1 .. Len(p) : p[j] = Key(l)
        BY <2>2, <3>1, <3>4
      <3> QED
        BY <1>2, <3>6, <3>7, <3>8
    <2> QED
      BY <2>3, <2>4
  <1> QED
    BY <1>3, <1>4

\* The keys of a body that starts with a line are those of its whole lines.
LEMMA BodyKeys ==
    ASSUME NEW b \in Seq(LineCells), NEW o \in Nat, InPlace(b, o), LineStart(o), Len(b) # 0,
           NEW ks, ks = FlattenSeq([i \in 1 .. Len(b) |-> Part(b, i)])
    PROVE  KeysIn(ks, o, o + Len(b)) /\ AllKeys(ks, o, o + Len(b))
  <1> PICK n \in Nat \ {0} : n = Len(b)
    OBVIOUS
  <1>1. PICK s : s = [i \in 1 .. n |-> Part(b, i)]
    OBVIOUS
  <1>2. s \in Seq(Seq(Seq(LineCells))) /\ Len(s) = n /\ \A i \in 1 .. n : s[i] = Part(b, i)
    <2>1. \A i \in 1 .. n : Part(b, i) \in Seq(Seq(LineCells))
      BY PartHas DEF KeysIn
    <2> QED
      BY <1>1, <2>1
  <1>3. PICK f : Chain(f, s, n) /\ ks = f[n]
    <2>1. ks = FlattenSeq(s)
      BY <1>1
    <2> QED
      BY <1>2, <2>1, FlattenIs
  <1> DEFINE Right(i) == KeysIn(f[i], o, o + i) /\ AllKeys(f[i], o, o + i)
             T == {i \in 1 .. n : ~Right(i)}
  <1>4. Right(1)
    <2>1. f[1] = Part(b, 1) /\ 1 \in 1 .. Len(b)
      <3>1. 1 \in 1 .. n /\ n > 0
        OBVIOUS
      <3>2. s[1] = Part(b, 1)
        BY <1>2, <3>1
      <3>3. f[1] = s[1]
        BY <1>3, <3>1 DEF Chain
      <3> QED
        BY <3>1, <3>2, <3>3
    <2>2. KeysIn(f[1], o, o + 1)
      BY <2>1, PartHas
    <2>3. AllKeys(f[1], o, o + 1)
      BY LineEnds DEF AllKeys
    <2> QED
      BY <2>2, <2>3
  <1>5. ASSUME NEW i \in 1 .. n - 1, Right(i) PROVE Right(i + 1)
    <2>1. i \in 1 .. n /\ i + 1 \in 1 .. n
      OBVIOUS
    <2>2. PICK p : p = Part(b, i + 1)
      OBVIOUS
    <2>3. f[i + 1] = f[i] \o p
      BY <1>2, <1>3, <2>1, <2>2 DEF Chain
    <2>4. PICK m \in Nat : m = o + i
      OBVIOUS
    <2>5. o + (i + 1) = m + 1
      BY <2>4
    <2>6. /\ KeysIn(p, o, m + 1)
          /\ \A j \in 1 .. Len(p) : Before[p[j][1].line + 1] = m + 1
          /\ \A l \in Lines : Key(l) # <<>> /\ o <= Before[l] /\ Before[l + 1] = m + 1 =>
                 \E j \in 1 .. Len(p) : p[j] = Key(l)
      <3>1. PICK h \in 1 .. Len(b) : h = i + 1
        BY <2>1
      <3>2. p = Part(b, h) /\ o + h = m + 1
        BY <2>2, <2>5, <3>1
      <3>3. /\ KeysIn(Part(b, h), o, o + h)
            /\ \A j \in 1 .. Len(Part(b, h)) : Before[Part(b, h)[j][1].line + 1] = o + h
            /\ \A l \in Lines : Key(l) # <<>> /\ o <= Before[l] /\ Before[l + 1] = o + h =>
                   \E j \in 1 .. Len(Part(b, h)) : Part(b, h)[j] = Key(l)
        BY PartHas
      <3> QED
        BY <3>2, <3>3
    <2>7. PICK g : g = f[i]
      OBVIOUS
    <2>8. KeysIn(g, o, m) /\ AllKeys(g, o, m)
      BY <1>5, <2>4, <2>7
    <2>9. KeysIn(g \o p, o, m + 1)
      <3>1. m + 1 \in Nat /\ m <= m + 1
        BY <2>4
      <3>2. \A j \in 1 .. Len(p) : m < Before[p[j][1].line + 1]
        BY <2>4, <2>6
      <3> QED
        BY <2>6, <2>8, <3>1, <3>2, KeysJoin
    <2>10. ASSUME NEW l \in Lines, Key(l) # <<>>, o <= Before[l], Before[l + 1] <= m + 1
           PROVE  \E j \in 1 .. Len(g \o p) : (g \o p)[j] = Key(l)
      <3>1. g \in Seq(Seq(LineCells)) /\ p \in Seq(Seq(LineCells))
        BY <2>6, <2>8 DEF KeysIn
      <3>2. /\ Len(g \o p) = Len(g) + Len(p) /\ Len(g) \in Nat /\ Len(p) \in Nat
            /\ \A j \in 1 .. Len(g) : (g \o p)[j] = g[j]
            /\ \A j \in 1 .. Len(p) : (g \o p)[Len(g) + j] = p[j]
        BY <3>1, JoinedIs, SMTT(30)
      <3>3. CASE Before[l + 1] <= m
        <4>1. PICK j \in 1 .. Len(g) : g[j] = Key(l)
          BY <2>8, <2>10, <3>3 DEF AllKeys
        <4>2. j \in 1 .. Len(g \o p) /\ (g \o p)[j] = Key(l)
          BY <3>2, <4>1
        <4> QED
          BY <4>2
      <3>4. CASE ~(Before[l + 1] <= m)
        <4>1. Before[l + 1] = m + 1
          BY <2>4, <2>10, <3>4, LineEnds, SMTT(30)
        <4>2. PICK j \in 1 .. Len(p) : p[j] = Key(l)
          BY <2>6, <2>10, <4>1
        <4>3. Len(g) + j \in 1 .. Len(g \o p) /\ (g \o p)[Len(g) + j] = Key(l)
          BY <3>2, <4>2
        <4> QED
          BY <4>3
      <3> QED
        BY <3>3, <3>4
    <2>11. AllKeys(g \o p, o, m + 1)
      BY <2>10 DEF AllKeys
    <2> QED
      BY <2>3, <2>5, <2>7, <2>9, <2>11
  <1>6. T = {}
    <2> SUFFICES ASSUME T # {} PROVE FALSE
      OBVIOUS
    <2>1. PICK i \in T : \A j \in T : i <= j
      <3>1. T \subseteq Nat
        OBVIOUS
      <3> HIDE DEF T
      <3> QED
        BY <3>1, HasLeast
    <2>2. i # 1
      BY <1>4
    <2>3. PICK j \in 1 .. n - 1 : j + 1 = i /\ Right(j)
      <3>1. i - 1 \in 1 .. n - 1 /\ (i - 1) + 1 = i /\ i - 1 \notin T /\ i - 1 \in 1 .. n
        BY <2>1, <2>2
      <3> QED
        BY <3>1
    <2>4. Right(i)
      BY <1>5, <2>3
    <2> QED
      BY <2>4
  <1>7. Right(n)
    BY <1>6
  <1> QED
    BY <1>3, <1>7

\* All of a packet's body is what it has from cell a + 1 up to cell c.
BodyFromTo(text, a, c) == Body(text) = SubSeq(text, a + 1, c)

LEMMA BodyIs ==
    ASSUME NEW s \in Seq(LineCells), Len(s) # 0, NEW o \in Nat, InPlace(s, o)
    PROVE  \/ Body(s) = <<>>
           \/ \E a \in 0 .. Len(s), c \in 0 .. Len(s) :
                  /\ a < c /\ BodyFromTo(s, a, c) /\ LineStart(o + a)
  <1>1. Newlines(s) \subseteq 1 .. Len(s)
    BY DEF Newlines
  <1>2. PICK ends : ends = Newlines(s) /\ ends \subseteq 1 .. Len(s)
    BY <1>1
  <1>3. \A i \in 1 .. Len(s) : s[i] \in LineCells /\ Pos(s[i]) = o + i
    BY DEF InPlace
  <1>4. CASE Len(s) <= 1 \/ ends = {}
    BY <1>2, <1>4 DEF Body
  <1>5. CASE ~(Len(s) <= 1 \/ ends = {}) /\ Cardinality(ends) = 1 /\ ~StartsKnown(s)
    BY <1>2, <1>5 DEF Body
  <1>6. CASE ~(Len(s) <= 1 \/ ends = {}) /\ Cardinality(ends) = 1 /\ StartsKnown(s)
    <2>1. Body(s) = SubSeq(s, 1, Min(ends))
      BY <1>2, <1>6 DEF Body, FirstLine
    <2>2. PICK c \in 1 .. Len(s) : c = Min(ends)
      <3>1. ends \subseteq Nat /\ ends # {}
        BY <1>2, <1>6
      <3>2. Min(ends) \in ends
        BY <3>1, LeastIsMin
      <3> QED
        BY <1>2, <3>2
    <2>3. Pos(s[1]) = o + 1 /\ s[1] \in LineCells /\ s[1].at = 1
      <3>1. 1 \in 1 .. Len(s)
        BY <1>6
      <3> QED
        BY <1>3, <1>6, <3>1 DEF StartsKnown
    <2>4. PICK l \in Lines : l = s[1].line
      BY <2>3, LineCellIs
    <2>5. Before[l] + 1 = o + 1 /\ Before[l] \in Nat
      BY <2>3, <2>4, LineEnds DEF Pos
    <2>6. LineStart(o + 0)
      <3>1. o + 0 = Before[l] /\ l \in 1 .. Len(Size) + 1
        BY <2>5, LineEnds
      <3> QED
        BY <3>1 DEF LineStart
    <2>7. BodyFromTo(s, 0, c) /\ 0 < c /\ 0 \in 0 .. Len(s) /\ c \in 0 .. Len(s)
      <3>1. 0 + 1 = 1
        OBVIOUS
      <3> QED
        BY <2>1, <2>2, <3>1 DEF BodyFromTo
    <2> QED
      BY <2>6, <2>7
  <1>7. CASE ~(Len(s) <= 1 \/ ends = {}) /\ Cardinality(ends) # 1
    <2>1. Body(s) = SubSeq(s, Min(ends) + 1, Max(ends))
      BY <1>2, <1>7 DEF Body
    <2>2. PICK a \in 1 .. Len(s) : a = Min(ends) /\ a \in ends
      <3>1. ends \subseteq Nat /\ ends # {}
        BY <1>2, <1>7
      <3>2. Min(ends) \in ends
        BY <3>1, LeastIsMin
      <3> QED
        BY <1>2, <3>2
    <2>3. PICK c \in 1 .. Len(s) : c = Max(ends) /\ a <= c
      <3>1. Max(ends) \in ends /\ \A u \in ends : u <= Max(ends)
        <4>1. Len(s) \in Nat /\ ends # {}
          BY <1>7
        <4> QED
          BY <1>2, <4>1, GreatestIs
      <3> QED
        BY <1>2, <2>2, <3>1
    <2>4. CASE a = c
      <3>1. Body(s) = SubSeq(s, a + 1, a)
        BY <2>1, <2>2, <2>3, <2>4
      <3>2. SubSeq(s, a + 1, a) = <<>>
        OBVIOUS
      <3> QED
        BY <3>1, <3>2
    <2>5. CASE a # c
      <3>1. Newline(s[a]) /\ s[a] \in LineCells /\ Pos(s[a]) = o + a
        BY <1>2, <1>3, <2>2 DEF Newlines
      <3>2. PICK l \in Lines : l = s[a].line
        BY <3>1, LineCellIs
      <3>3. o + a = Before[l + 1] /\ l + 1 \in 1 .. Len(Size) + 1
        BY <3>1, <3>2, PosIs, LineEnds
      <3>4. LineStart(o + a)
        BY <3>3 DEF LineStart
      <3>5. BodyFromTo(s, a, c) /\ a < c /\ a \in 0 .. Len(s) /\ c \in 0 .. Len(s)
        BY <2>1, <2>2, <2>3, <2>5 DEF BodyFromTo
      <3> QED
        BY <3>4, <3>5
    <2> QED
      BY <2>4, <2>5
  <1> QED
    BY <1>4, <1>5, <1>6, <1>7

LEMMA KeysOf ==
    ASSUME NEW s, NEW b \in Seq(LineCells), b = Body(s)
    PROVE  Keys(s) = FlattenSeq([i \in 1 .. Len(b) |-> Part(b, i)])
  BY SMTT(30) DEF Keys, Part

LEMMA KeysFromTo ==
    ASSUME NEW s \in Seq(LineCells), NEW o \in Nat, InPlace(s, o),
           NEW a \in 0 .. Len(s), NEW c \in 0 .. Len(s), a < c,
           BodyFromTo(s, a, c), LineStart(o + a)
    PROVE  KeysIn(Keys(s), o + a, o + c) /\ AllKeys(Keys(s), o + a, o + c)
  <1>1. PICK b : b = Body(s)
    OBVIOUS
  <1>2. /\ b \in Seq(LineCells) /\ Len(b) = c - a
        /\ \A i \in 1 .. c - a : b[i] = s[a + i]
    BY <1>1, SliceIs DEF BodyFromTo
  <1>3. PICK d \in Nat : d = o + a
    OBVIOUS
  <1>4. Len(b) # 0 /\ d + Len(b) = o + c
    BY <1>2, <1>3
  <1>5. InPlace(b, d)
    <2> SUFFICES ASSUME NEW i \in 1 .. Len(b) PROVE Pos(b[i]) = d + i
      BY DEF InPlace
    <2>1. a + i \in 1 .. Len(s) /\ b[i] = s[a + i]
      BY <1>2
    <2>2. Pos(s[a + i]) = o + (a + i)
      BY <2>1 DEF InPlace
    <2>3. o + (a + i) = d + i
      BY <1>2, <1>3
    <2> QED
      BY <2>1, <2>2, <2>3
  <1>6. PICK ks : ks = Keys(s)
    OBVIOUS
  <1>7. ks = FlattenSeq([i \in 1 .. Len(b) |-> Part(b, i)])
    BY <1>1, <1>2, <1>6, KeysOf
  <1>8. KeysIn(ks, d, d + Len(b)) /\ AllKeys(ks, d, d + Len(b))
    BY <1>2, <1>3, <1>4, <1>5, <1>7, BodyKeys
  <1> QED
    BY <1>3, <1>4, <1>6, <1>8

LEMMA KeysOfNone ==
    ASSUME NEW s, Body(s) = <<>>
    PROVE  Keys(s) = <<>>
  <1>1. PICK b : b = Body(s) /\ b \in Seq(LineCells) /\ Len(b) = 0
    BY EmptyIs
  <1>2. Keys(s) = FlattenSeq([i \in 1 .. 0 |-> Part(b, i)])
    BY <1>1, KeysOf
  <1>3. FlattenSeq([i \in 1 .. 0 |-> Part(b, i)]) = <<>>
    BY DEF FlattenSeq
  <1> QED
    BY <1>2, <1>3

\* The keys of a packet are those of lines that are whole in it.
LEMMA KeysWhole ==
    ASSUME NEW s \in Seq(LineCells), Len(s) # 0, NEW o \in Nat, InPlace(s, o)
    PROVE  KeysIn(Keys(s), o, o + Len(s))
  <1>1. CASE Body(s) = <<>>
    <2>1. Keys(s) = <<>>
      BY <1>1, KeysOfNone
    <2>2. Len(<<>>) = 0 /\ <<>> \in Seq(Seq(LineCells))
      BY EmptyIs
    <2> QED
      BY <2>1, <2>2 DEF KeysIn
  <1>2. CASE Body(s) # <<>>
    <2>1. PICK a \in 0 .. Len(s), c \in 0 .. Len(s) :
              a < c /\ BodyFromTo(s, a, c) /\ LineStart(o + a)
      BY <1>2, BodyIs
    <2>2. KeysIn(Keys(s), o + a, o + c)
      BY <2>1, KeysFromTo
    <2>3. /\ o + a \in Nat /\ o + c \in Nat /\ o + Len(s) \in Nat
          /\ o <= o + a /\ o + c <= o + Len(s)
      OBVIOUS
    <2> QED
      BY <2>2, <2>3, KeysWiden
  <1> QED
    BY <1>1, <1>2

\* Where a packet is in the stream.
LEMMA PacketIs ==
    ASSUME Typed, OnWire, NEW k \in 1 .. Len(wire), UNCHANGED sent,
           wire' = SubSeq(wire, k + 1, Len(wire)),
           NEW chunk, chunk = SubSeq(wire, 1, k)
    PROVE  /\ Got \in Nat /\ Got' = Got + k /\ Len(wire') = Len(wire) - k /\ Len(wire) \in Nat
           /\ chunk \in Seq(LineCells) /\ Len(chunk) = k /\ InPlace(chunk, Got)
  <1>1. Before[sent + 1] \in Nat /\ Len(wire) \in Nat
    <2>1. sent + 1 \in 1 .. Len(Size) + 1 /\ Len(wire) \in Nat
      BY SizesTyped DEF Typed
    <2> QED
      BY <2>1, BeforeIs
  <1>2. Len(wire') = Len(wire) - k
    BY ReadTyped
  <1>3. Got \in Nat /\ Got' = Got + k
    BY <1>1, <1>2 DEF Got, OnWire
  <1>4. /\ chunk \in Seq(LineCells) /\ Len(chunk) = k
        /\ \A i \in 1 .. k : chunk[i] = wire[i]
    BY ReadTyped
  <1>5. \A i \in 1 .. k : Pos(chunk[i]) = Got + i
    BY <1>1, <1>4 DEF OnWire
  <1>6. InPlace(chunk, Got)
    BY <1>4, <1>5 DEF InPlace
  <1> QED
    BY <1>1, <1>2, <1>3, <1>4, <1>6

\* The keys heard are those of lines that were read whole.
HeardInv == StreamInv /\ KeysIn(heard, 0, Got)

LEMMA HeardKept == HeardInv /\ [Next]_vars => HeardInv'
  <1> SUFFICES ASSUME HeardInv, [Next]_vars PROVE HeardInv'
    OBVIOUS
  <1>1. StreamInv /\ StreamInv' /\ KeysIn(heard, 0, Got)
    BY StreamKept DEF HeardInv
  <1>2. Typed /\ OnWire /\ Typed' /\ OnWire'
    BY <1>1 DEF StreamInv
  <1>3. CASE Receive
    <2>1. PICK k \in 1 .. Len(wire) :
              /\ wire' = SubSeq(wire, k + 1, Len(wire))
              /\ IF client = "relay" THEN HandlePacket(SubSeq(wire, 1, k))
                                     ELSE HandleCommand(SubSeq(wire, 1, k))
      BY <1>3 DEF Receive
    <2>2. UNCHANGED sent
      BY <1>3 DEF Receive, input
    <2>3. PICK chunk : chunk = SubSeq(wire, 1, k)
      OBVIOUS
    <2>4. /\ Got \in Nat /\ Got' = Got + k
          /\ chunk \in Seq(LineCells) /\ Len(chunk) = k /\ InPlace(chunk, Got)
      BY <1>2, <2>1, <2>2, <2>3, PacketIs
    <2>5. PICK o \in Nat : o = Got
      BY <2>4
    <2>6. o + k \in Nat /\ o <= o + k /\ Got' = o + k
      BY <2>4, <2>5
    <2>7. CASE client = "relay"
      <3>1. heard' = heard \o Keys(chunk)
        BY <2>1, <2>3, <2>7 DEF HandlePacket
      <3>2. PICK hs : hs = Keys(chunk)
        OBVIOUS
      <3>3. KeysIn(hs, o, o + k)
        BY <2>4, <2>5, <3>2, KeysWhole
      <3>4. KeysIn(hs, 0, o + k)
        BY <2>6, <3>3, KeysWiden
      <3>5. ASSUME NEW i \in 1 .. Len(hs) PROVE o < Before[hs[i][1].line + 1]
        <4>1. KeyIn(hs[i], o, o + k)
          BY <3>3 DEF KeysIn
        <4>2. PICK l \in Lines : l = hs[i][1].line /\ o <= Before[l]
          BY <4>1 DEF KeyIn
        <4>3. PICK b \in Nat : b = Before[l] /\ b + 2 <= Before[l + 1] /\ Before[l + 1] \in Nat
          BY LineEnds
        <4>4. o <= b /\ o < Before[l + 1]
          BY <4>2, <4>3
        <4> QED
          BY <4>2, <4>4
      <3>6. KeysIn(heard, 0, o)
        BY <1>1, <2>5
      <3>7. KeysIn(heard \o hs, 0, o + k)
        BY <2>6, <3>4, <3>5, <3>6, KeysJoin
      <3> QED
        BY <1>1, <2>6, <3>1, <3>2, <3>7 DEF HeardInv
    <2>8. CASE client # "relay"
      <3>1. heard' = heard
        BY <2>1, <2>8 DEF HandleCommand
      <3>2. KeysIn(heard, 0, o)
        BY <1>1, <2>5
      <3>3. KeysIn(heard, 0, o + k)
        BY <2>6, <3>2, KeysWiden
      <3> QED
        BY <1>1, <2>6, <3>1, <3>3 DEF HeardInv
    <2> QED
      BY <2>7, <2>8
  <1>4. CASE SendLine
    <2>1. UNCHANGED heard
      BY <1>4 DEF SendLine
    <2>2. Got' = Got
      <3>1. PICK n \in Lines : n = sent + 1
        BY <1>2, <1>4, SizesTyped DEF SendLine, Typed
      <3>2. sent' = n /\ wire' = wire \o Text(n)
        BY <1>4, <3>1 DEF SendLine
      <3>3. Len(wire') = Len(wire) + Size[n] /\ Len(wire) \in Nat
        <4>1. PICK w \in Seq(LineCells) : w = wire
          BY <1>2 DEF Typed
        <4>2. PICK t \in Seq(LineCells) : t = Text(n) /\ Len(t) = Size[n]
          BY TextsTyped
        <4> QED
          BY <3>2, <4>1, <4>2
      <3>4. Before[n] \in Nat /\ Before[n + 1] = Before[n] + Size[n] /\ Size[n] \in Nat
        BY LineEnds, BeforeIs, SizesTyped
      <3> QED
        BY <3>1, <3>2, <3>3, <3>4 DEF Got
    <2> QED
      BY <1>1, <2>1, <2>2 DEF HeardInv
  <1>5. CASE Hangup \/ TakeReply \/ ReceiveEof \/ SendQueued \/ HandleWrite \/ UNCHANGED vars
    <2>1. UNCHANGED <<sent, wire, heard>>
      BY <1>5 DEF Hangup, TakeReply, ReceiveEof, SendQueued, HandleWrite, vars, input
    <2>2. Got' = Got
      BY <2>1 DEF Got
    <2> QED
      BY <1>1, <2>1, <2>2 DEF HeardInv
  <1> QED
    BY <1>3, <1>4, <1>5 DEF Next

\* However many lines a relay sends and however TCP cuts them, buildTree is
\* given whole keys only, in order and each at most once.
THEOREM KeysComeWhole == Spec => []WholeKeys
  <1>1. Init => HeardInv
    <2> SUFFICES ASSUME Init PROVE HeardInv
      OBVIOUS
    <2>1. StreamInv
      BY InitStream
    <2>2. heard = <<>> /\ Len(heard) = 0 /\ heard \in Seq(Seq(LineCells))
      BY EmptyIs DEF Init
    <2> QED
      BY <2>1, <2>2 DEF HeardInv, KeysIn
  <1>2. HeardInv => WholeKeys
    <2> SUFFICES ASSUME HeardInv PROVE WholeKeys
      OBVIOUS
    <2>1. DOMAIN heard = 1 .. Len(heard)
      BY DEF HeardInv, KeysIn
    <2> QED
      BY <2>1 DEF HeardInv, KeysIn, KeyIn, WholeKeys
  <1> QED
    BY <1>1, <1>2, HeardKept, PTL DEF Spec

-----------------------------------------------------------------------------
\* Where a line lies that a packet holds whole.
LEMMA WholeIs ==
    ASSUME NEW s \in Seq(LineCells), NEW o \in Nat, InPlace(s, o), NEW n \in WholeLines(s)
    PROVE  /\ n \in Lines /\ Key(n) # <<>> /\ Len(s) \in Nat \ {0}
           /\ o <= Before[n] /\ Before[n + 1] <= o + Len(s)
  <1>1. n \in Lines /\ Key(n) # <<>> /\ ToSet(Text(n)) \subseteq ToSet(s)
    BY DEF WholeLines
  <1>2. \A i \in 1 .. Len(s) : s[i] \in LineCells /\ Pos(s[i]) = o + i
    BY DEF InPlace
  <1>3. PICK z \in Nat : z = Size[n] /\ z >= 2 /\ Before[n + 1] = Before[n] + z
    BY <1>1, SizesTyped, BeforeIs
  <1>4. PICK b \in Nat : b = Before[n]
    BY <1>1, LineEnds
  <1>5. ASSUME NEW j \in 1 .. z PROVE \E i \in 1 .. Len(s) : o + i = b + j
    <2>1. [line |-> n, at |-> j] \in ToSet(Text(n))
      BY <1>3, <1>5 DEF ToSet, Text
    <2>2. [line |-> n, at |-> j] \in ToSet(s)
      BY <1>1, <2>1
    <2>3. PICK i \in 1 .. Len(s) : s[i] = [line |-> n, at |-> j]
      BY <2>2 DEF ToSet
    <2>4. Pos(s[i]) = b + j
      BY <1>4, <2>3 DEF Pos
    <2> QED
      BY <1>2, <2>4
  <1>6. PICK f \in 1 .. Len(s) : o + f = b + 1
    <2>1. 1 \in 1 .. z
      BY <1>3
    <2> QED
      BY <1>5, <2>1
  <1>7. PICK e \in 1 .. Len(s) : o + e = b + z
    <2>1. z \in 1 .. z
      BY <1>3
    <2> QED
      BY <1>5, <2>1
  <1> QED
    BY <1>1, <1>3, <1>4, <1>6, <1>7, SMTT(30)

\* What a packet has whole is heard, but for its first line, unless that comes
\* alone and with a known prefix.
LEMMA InnerKeys ==
    ASSUME NEW s \in Seq(LineCells), NEW o \in Nat, InPlace(s, o), NEW n \in WholeLines(s),
           s[1].line = n => n \in Known /\ ~(Cardinality(Newlines(s)) > 1)
    PROVE  \E i \in 1 .. Len(Keys(s)) : Keys(s)[i] = Key(n)
  <1>1. /\ n \in Lines /\ Key(n) # <<>> /\ Len(s) \in Nat \ {0}
        /\ o <= Before[n] /\ Before[n + 1] <= o + Len(s)
    BY WholeIs
  <1>2. \A i \in 1 .. Len(s) : s[i] \in LineCells /\ Pos(s[i]) = o + i
    BY DEF InPlace
  <1>3. PICK l \in Nat : l = Len(s)
    BY <1>1
  <1>4. /\ Before[n] \in Nat /\ Before[n + 1] \in Nat /\ Before[n] + 2 <= Before[n + 1]
    BY <1>1, LineEnds
  <1>5. PICK d \in Nat : o + d = Before[n]
    <2>1. Before[n] - o \in Nat /\ o + (Before[n] - o) = Before[n]
      BY <1>1, <1>4
    <2> QED
      BY <2>1
  <1>6. PICK e \in 1 .. l : o + e = Before[n + 1]
    <2>1. Before[n + 1] - o \in 1 .. l /\ o + (Before[n + 1] - o) = Before[n + 1]
      BY <1>1, <1>3, <1>4
    <2> QED
      BY <2>1
  <1>7. d + 2 <= e /\ l > 1
    BY <1>3, <1>4, <1>5, <1>6
  <1>8. PICK ends : ends = Newlines(s)
    OBVIOUS
  <1>9. ends \subseteq 1 .. l /\ IsFiniteSet(ends)
    <2>1. ends \subseteq 1 .. l
      BY <1>3, <1>8 DEF Newlines
    <2>2. IsFiniteSet(1 .. l)
      BY FS_Interval
    <2> QED
      BY <2>1, <2>2, FS_Subset
  <1>10. ASSUME NEW m \in 1 .. Len(Size) + 1, NEW i \in 1 .. l, o + i = Before[m]
         PROVE  i \in ends
    <2>1. i \in 1 .. Len(s) /\ Newline(s[i])
      BY <1>2, <1>3, <1>10, CellBefore
    <2> QED
      BY <1>8, <2>1 DEF Newlines
  <1>11. e \in ends
    BY <1>1, <1>6, <1>10, LineEnds
  <1>12. d # 0 => d \in ends
    <2> SUFFICES ASSUME d # 0 PROVE d \in ends
      OBVIOUS
    <2>1. d \in 1 .. l
      BY <1>6, <1>7
    <2> QED
      BY <1>1, <1>5, <1>10, <2>1, LineEnds
  <1>13. s[1] \in LineCells /\ Pos(s[1]) = o + 1
    BY <1>2, <1>3, <1>7
  <1>14. CASE s[1].line # n
    <2>1. d # 0
      <3> SUFFICES ASSUME d = 0 PROVE FALSE
        OBVIOUS
      <3>1. Pos(s[1]) = Before[n] + 1 /\ 1 \in 1 .. Size[n]
        BY <1>1, <1>5, <1>13, SizesTyped
      <3>2. s[1] = [line |-> n, at |-> 1]
        BY <1>1, <1>13, <3>1, CellAt
      <3> QED
        BY <1>14, <3>2
    <2>2. Cardinality(ends) # 1
      <3>1. ~\E x : ends = {x}
        BY <1>7, <1>11, <1>12, <2>1
      <3> QED
        BY <1>9, <3>1, FS_Singleton
    <2>3. PICK a \in 1 .. l : a = Min(ends) /\ a \in ends /\ a <= d
      <3>1. ends \subseteq Nat
        BY <1>9
      <3>2. Min(ends) \in ends /\ \A u \in ends : Min(ends) <= u
        BY <1>11, <3>1, LeastIsMin
      <3> QED
        BY <1>9, <1>12, <2>1, <3>2
    <2>4. PICK c \in 1 .. l : c = Max(ends) /\ e <= c
      <3>1. Max(ends) \in ends /\ \A u \in ends : u <= Max(ends)
        BY <1>9, <1>11, GreatestIs
      <3> QED
        BY <1>9, <1>11, <3>1
    <2>5. Body(s) = SubSeq(s, a + 1, c)
      <3>1. ~(Len(s) <= 1 \/ ends = {})
        BY <1>3, <1>7, <1>11
      <3> QED
        BY <1>8, <2>2, <2>3, <2>4, <3>1 DEF Body
    <2>6. LineStart(o + a)
      <3>1. Newline(s[a]) /\ s[a] \in LineCells /\ Pos(s[a]) = o + a
        BY <1>2, <1>3, <1>8, <2>3 DEF Newlines
      <3>2. PICK q \in Lines : q = s[a].line
        BY <3>1, LineCellIs
      <3>3. o + a = Before[q + 1] /\ q + 1 \in 1 .. Len(Size) + 1
        BY <3>1, <3>2, PosIs, LineEnds
      <3> QED
        BY <3>3 DEF LineStart
    <2>7. AllKeys(Keys(s), o + a, o + c)
      <3>1. a \in 0 .. Len(s) /\ c \in 0 .. Len(s) /\ a < c
        BY <1>3, <1>6, <1>7, <2>3, <2>4
      <3> QED
        BY <2>5, <2>6, <3>1, KeysFromTo DEF BodyFromTo
    <2>8. o + a <= Before[n] /\ Before[n + 1] <= o + c
      BY <1>5, <1>6, <2>3, <2>4
    <2> QED
      BY <1>1, <2>7, <2>8 DEF AllKeys
  <1>15. CASE s[1].line = n
    <2>1. n \in Known /\ ~(Cardinality(ends) > 1)
      BY <1>8, <1>15
    <2>2. Cardinality(ends) = 1
      <3>1. Cardinality(ends) \in Nat /\ Cardinality(ends) # 0
        BY <1>9, <1>11, FS_CardinalityType, FS_EmptySet
      <3> QED
        BY <2>1, <3>1
    <2>3. ends = {e}
      BY <1>9, <1>11, <2>2, FS_Singleton
    <2>4. d = 0
      BY <1>7, <1>12, <2>3
    <2>5. StartsKnown(s)
      <3>1. s[1].at = 1
        <4>1. Pos(s[1]) = Before[n] + 1 /\ 1 \in 1 .. Size[n]
          BY <1>1, <1>5, <1>13, <2>4, SizesTyped
        <4>2. s[1] = [line |-> n, at |-> 1]
          BY <1>1, <1>13, <4>1, CellAt
        <4> QED
          BY <4>2
      <3> QED
        BY <1>15, <2>1, <3>1 DEF StartsKnown
    <2>6. Body(s) = SubSeq(s, 0 + 1, e)
      <3>1. Min(ends) = e
        <4>1. {e} \subseteq Nat /\ {e} # {}
          BY <1>6
        <4> QED
          BY <2>3, <4>1, LeastIsMin
      <3>2. ~(Len(s) <= 1 \/ ends = {}) /\ 0 + 1 = 1
        BY <1>3, <1>7, <1>11
      <3> QED
        BY <1>8, <2>2, <2>5, <3>1, <3>2 DEF Body, FirstLine
    <2>7. LineStart(o + 0)
      <3>1. o + 0 = Before[n] /\ n \in 1 .. Len(Size) + 1
        BY <1>1, <1>5, <2>4, LineEnds
      <3> QED
        BY <3>1 DEF LineStart
    <2>8. AllKeys(Keys(s), o + 0, o + e)
      <3>1. 0 \in 0 .. Len(s) /\ e \in 0 .. Len(s) /\ 0 < e
        BY <1>3, <1>6
      <3> QED
        BY <2>6, <2>7, <3>1, KeysFromTo DEF BodyFromTo
    <2>9. o + 0 <= Before[n] /\ Before[n + 1] <= o + e
      BY <1>4, <1>5, <1>6, <2>4
    <2> QED
      BY <1>1, <2>8, <2>9 DEF AllKeys
  <1> QED
    BY <1>14, <1>15

\* However TCP cuts the packets, one costs no more than its first and its last
\* line: every line that is whole between them is reported, and so is a single
\* one with a known prefix.
THEOREM InnerLinesAreHeard == Spec => InnerLinesHeard
  <1>1. HeardInv /\ [Next]_vars =>
            [Reads => \A n \in WholeLines(Packet) :
                \/ Heard(n)
                \/ Packet[1].line = n /\ (n \notin Known \/ Cardinality(Newlines(Packet)) > 1)]_vars
    <2> SUFFICES ASSUME HeardInv, Next, Reads, NEW n \in WholeLines(Packet),
                        ~(/\ Packet[1].line = n
                          /\ n \notin Known \/ Cardinality(Newlines(Packet)) > 1)
                 PROVE  Heard(n)
      OBVIOUS
    <2>1. Typed /\ OnWire /\ KeysIn(heard, 0, Got)
      BY DEF HeardInv, StreamInv
    <2>2. client = "relay" /\ Len(wire') < Len(wire)
      BY DEF Reads
    <2>3. Receive
      <3>1. Len(wire) \in Nat
        BY <2>1 DEF Typed
      <3>2. ~SendLine
        <4> SUFFICES ASSUME SendLine PROVE FALSE
          OBVIOUS
        <4>1. PICK l \in Lines : l = sent + 1
          BY <2>1, SizesTyped DEF SendLine, Typed
        <4>2. PICK w \in Seq(LineCells) : w = wire
          BY <2>1 DEF Typed
        <4>3. PICK t \in Seq(LineCells) : t = Text(l)
          BY TextsTyped
        <4>4. wire' = w \o t
          BY <4>1, <4>2, <4>3 DEF SendLine
        <4>5. Len(w \o t) = Len(w) + Len(t) /\ Len(t) \in Nat /\ Len(w) \in Nat
          OBVIOUS
        <4> QED
          BY <2>2, <4>2, <4>4, <4>5
      <3>3. wire' # wire
        BY <2>2, <3>1
      <3> QED
        BY <3>2, <3>3 DEF Next, Hangup, TakeReply, ReceiveEof, SendQueued, HandleWrite
    <2>4. PICK k \in 1 .. Len(wire) :
              wire' = SubSeq(wire, k + 1, Len(wire)) /\ HandlePacket(SubSeq(wire, 1, k))
      BY <2>2, <2>3 DEF Receive
    <2>5. UNCHANGED sent
      BY <2>3 DEF Receive, input
    <2>6. PICK chunk : chunk = SubSeq(wire, 1, k)
      OBVIOUS
    <2>7. /\ Got \in Nat /\ Got' = Got + k /\ Len(wire') = Len(wire) - k /\ Len(wire) \in Nat
          /\ chunk \in Seq(LineCells) /\ Len(chunk) = k /\ InPlace(chunk, Got)
      BY <2>1, <2>4, <2>5, <2>6, PacketIs
    <2>8. Packet = chunk
      <3>1. Len(wire) - Len(wire') = k
        BY <2>7
      <3> QED
        BY <2>6, <3>1 DEF Packet
    <2>9. PICK hs : hs = Keys(chunk)
      OBVIOUS
    <2>10. PICK i \in 1 .. Len(hs) : hs[i] = Key(n)
      BY <2>7, <2>8, <2>9, InnerKeys
    <2>11. heard' = heard \o hs
      BY <2>4, <2>6, <2>9 DEF HandlePacket
    <2>12. heard \in Seq(Seq(LineCells)) /\ hs \in Seq(Seq(LineCells))
      <3>1. Len(chunk) # 0
        BY <2>7
      <3> QED
        BY <2>1, <2>7, <2>9, <3>1, KeysWhole DEF KeysIn
    <2>13. Len(heard) + i \in DOMAIN heard' /\ heard'[Len(heard) + i] = Key(n)
      <3>1. PICK h \in Seq(Seq(LineCells)) : h = heard
        BY <2>12
      <3>2. /\ h \o hs \in Seq(Seq(LineCells)) /\ Len(h \o hs) = Len(h) + Len(hs)
            /\ \A j \in 1 .. Len(hs) : (h \o hs)[Len(h) + j] = hs[j]
        BY <2>12, JoinedIs
      <3>3. Len(h) + i \in 1 .. Len(h \o hs)
        BY <2>12, <3>2
      <3> QED
        BY <2>10, <2>11, <3>1, <3>2, <3>3, SMTT(30)
    <2> QED
      BY <2>13 DEF Heard
  <1>2. Init => HeardInv
    BY InitStream, EmptyIs DEF Init, HeardInv, KeysIn
  <1> QED
    BY <1>1, <1>2, HeardKept, PTL DEF Spec, InnerLinesHeard
===============================================================================
