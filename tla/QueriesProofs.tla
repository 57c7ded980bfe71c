---------------------------- MODULE QueriesProofs ----------------------------
(***************************************************************************)
(* What the reports rest on, proved for any clients, addresses and bucket  *)
(* width and any number of packets: the rows are true of what was stored,  *)
(* a report with a window does not deny a packet that is in it, and the    *)
(* totals of all reports are numbers of packets, which therefore agree.    *)
(***************************************************************************)
EXTENDS Queries, TLAPS, FiniteSetTheorems

-----------------------------------------------------------------------------
(* Sums.  A fold is a recursive function on the subsets of its domain; a   *)
(* set of such subsets that is not empty has a smallest member, which      *)
(* stands in for induction.                                                *)

(* The recursion of MapThenFoldSet, for a sum.                             *)
Pick(T) == CHOOSE x \in T : TRUE

IsTotal(g, f, S) ==
    g = [T \in SUBSET S |-> IF T = {} THEN 0 ELSE f[Pick(T)] + g[T \ {Pick(T)}]]

(* ... and if it has one, the sum is its value.                            *)
LEMMA SumIsTotal ==
    ASSUME NEW f, NEW g, IsTotal(g, f, DOMAIN f)
    PROVE  \E h : IsTotal(h, f, DOMAIN f) /\ SumFunction(f) = h[DOMAIN f]
<1> DEFINE total == CHOOSE h : IsTotal(h, f, DOMAIN f)
<1>1. IsTotal(total, f, DOMAIN f)
  BY Zenon
<1>2. SumFunction(f) = total[DOMAIN f]
  BY DEF SumFunction, SumFunctionOnSet, FoldFunctionOnSet, MapThenFoldSet, IsTotal, Pick
<1> QED  BY <1>1, <1>2

(* Of a non-empty set of sets, one contains no other by one element less.  *)
LEMMA SmallestSet ==
    ASSUME NEW S, IsFiniteSet(S), NEW Q \in SUBSET SUBSET S, Q # {}
    PROVE  \E T \in Q : \A x \in T : T \ {x} \notin Q
<1> DEFINE R == StrictSubsetOrdering(S)
<1>1. IsWellFoundedOn(R, SUBSET S)
  BY FS_StrictSubsetOrderingWellFounded, FS_FiniteSubsetsOfFinite
<1>2. PICK T \in Q : \A U \in Q : <<U, T>> \notin R
  BY <1>1, WFMin
<1>3. ASSUME NEW x \in T, T \ {x} \in Q PROVE FALSE
  BY <1>2, <1>3 DEF StrictSubsetOrdering
<1> QED  BY <1>2, <1>3

(* The recursion has no two solutions, ...                                 *)
LEMMA TotalIsUnique ==
    ASSUME NEW f, NEW S, IsFiniteSet(S), NEW g, NEW h, IsTotal(g, f, S), IsTotal(h, f, S)
    PROVE  g[S] = h[S]
<1> DEFINE Q == {T \in SUBSET S : g[T] # h[T]}
<1>1. CASE Q = {}
  BY <1>1
<1>2. CASE Q # {}
  <2>1. PICK T \in Q : \A x \in T : T \ {x} \notin Q
    BY <1>2, SmallestSet
  <2>2. T # {}
    BY <2>1 DEF IsTotal
  <2>3. Pick(T) \in T
    BY <2>2 DEF Pick
  <2>4. g[T \ {Pick(T)}] = h[T \ {Pick(T)}]
    BY <2>1, <2>3
  <2>5. g[T] = h[T]
    BY <2>1, <2>2, <2>4 DEF IsTotal
  <2> QED  BY <2>1, <2>5
<1> QED  BY <1>1, <1>2

LEMMA DisjointUnion ==
    ASSUME NEW A, NEW B, IsFiniteSet(A), IsFiniteSet(B), A \cap B = {}
    PROVE  Cardinality(A \cup B) = Cardinality(A) + Cardinality(B)
<1>1. Cardinality(A \cup B) = Cardinality(A) + Cardinality(B) - Cardinality(A \cap B)
  BY FS_Union
<1>2. Cardinality(A) \in Int /\ Cardinality(B) \in Int
  BY FS_CardinalityType
<1> QED  BY <1>1, <1>2, FS_EmptySet

(* The union of disjoint parts has as many members as they have together.  *)
LEMMA SumOfParts ==
    ASSUME NEW S, IsFiniteSet(S), NEW L, IsFiniteSet(L), NEW P \in [S -> SUBSET L],
           \A x, y \in S : x # y => P[x] \cap P[y] = {},
           NEW f, f = [x \in S |-> Cardinality(P[x])]
    PROVE  SumFunction(f) = Cardinality(UNION {P[x] : x \in S})
<1> DEFINE All(T) == UNION {P[x] : x \in T}
           g == [T \in SUBSET S |-> Cardinality(All(T))]
<1>1. ASSUME NEW T \in SUBSET S, NEW x \in T
      PROVE  Cardinality(All(T)) = f[x] + Cardinality(All(T \ {x}))
  <2>1. All(T) = P[x] \cup All(T \ {x}) /\ P[x] \cap All(T \ {x}) = {}
    <3>1. T = (T \ {x}) \cup {x}
      BY <1>1
    <3>2. \A y \in T \ {x} : P[x] \cap P[y] = {}
      BY <1>1
    <3>3. P[x] \cap All(T \ {x}) = {}
      BY <3>2
    <3>4. P[x] \subseteq All(T) /\ All(T \ {x}) \subseteq All(T)
      BY <1>1
    <3>5. All(T) \subseteq P[x] \cup All(T \ {x})
      BY <3>1
    <3> QED  BY <3>3, <3>4, <3>5
  <2>2. P[x] \subseteq L /\ All(T \ {x}) \subseteq L
    BY <1>1
  <2>3. IsFiniteSet(P[x]) /\ IsFiniteSet(All(T \ {x}))
    BY <2>2, FS_Subset
  <2>4. Cardinality(P[x] \cup All(T \ {x})) = Cardinality(P[x]) + Cardinality(All(T \ {x}))
    <3> HIDE DEF All
    <3> QED  BY <2>1, <2>3, DisjointUnion
  <2>5. f[x] = Cardinality(P[x])
    OBVIOUS
  <2> HIDE DEF All
  <2> QED  BY <2>1, <2>4, <2>5
<1>2. Cardinality(All({})) = 0
  BY FS_EmptySet
<1>3. IsTotal(g, f, S)
  <2> SUFFICES ASSUME NEW T \in SUBSET S
               PROVE  g[T] = IF T = {} THEN 0 ELSE f[Pick(T)] + g[T \ {Pick(T)}]
    BY DEF IsTotal
  <2>1. CASE T = {}
    BY <1>2, <2>1
  <2>2. CASE T # {}
    <3>1. Pick(T) \in T
      BY <2>2 DEF Pick
    <3>2. g[T] = f[Pick(T)] + g[T \ {Pick(T)}]
      BY <1>1, <3>1
    <3> QED  BY <2>2, <3>2
  <2> QED  BY <2>1, <2>2
<1>4. DOMAIN f = S
  OBVIOUS
<1>5. PICK h : IsTotal(h, f, S) /\ SumFunction(f) = h[S]
  BY <1>3, <1>4, SumIsTotal
<1>6. h[S] = g[S]
  BY <1>3, <1>5, TotalIsUnique
<1> QED  BY <1>5, <1>6
-----------------------------------------------------------------------------
USE NumbersAssumption DEF Times, Tables, Directions

LEMMA BucketIsInt == ASSUME NEW ts \in Times PROVE BucketOf(ts) \in Int
<1>1. ts % BucketSeconds \in Nat
  BY SMT
<1> QED  BY <1>1 DEF BucketOf

LEMMA EventFields ==
    ASSUME NEW e \in Events
    PROVE  /\ e.table \in Tables /\ e.client \in Clients /\ e.item \in Items
           /\ e.sub \in Subs /\ e.direction \in Directions /\ e.ts \in Times
BY DEF Events

(* A row made for an event has its key.                                    *)
LEMMA RowFacts ==
    ASSUME NEW e \in Events, NEW n \in Nat, NEW first \in Times, NEW last \in Times
    PROVE  LET row == Row(e, n, first, last) IN
           /\ row \in Rows
           /\ Of(e, row)
           /\ row.client = e.client
           /\ row.first_ts = first /\ row.last_ts = last
<1>1. BucketOf(e.ts) \in Int
  BY EventFields, BucketIsInt
<1>2. Row(e, n, first, last) \in Rows
  BY <1>1, EventFields DEF Row, Rows
<1> QED  BY <1>2 DEF Row, Of, Key, KeyOf

LEMMA FreshFacts ==
    ASSUME NEW e \in Events
    PROVE  /\ FreshRow(e) \in Rows
           /\ Of(e, FreshRow(e))
           /\ FreshRow(e).client = e.client
           /\ FreshRow(e).first_ts = e.ts /\ FreshRow(e).last_ts = e.ts
BY RowFacts, EventFields DEF FreshRow

(* DO UPDATE widens the span to the event.                                 *)
LEMMA MergedFacts ==
    ASSUME NEW e \in Events, NEW r \in Rows
    PROVE  /\ Merged(r, e) \in Rows
           /\ Of(e, Merged(r, e))
           /\ Merged(r, e).client = e.client
           /\ Merged(r, e).first_ts = Lesser(r.first_ts, e.ts)
           /\ Merged(r, e).last_ts = Greater(r.last_ts, e.ts)
<1>1. Lesser(r.first_ts, e.ts) \in Times /\ Greater(r.last_ts, e.ts) \in Times
  BY EventFields DEF Rows, Lesser, Greater
<1>2. r.count + 1 \in Nat
  BY DEF Rows
<1> QED  BY <1>1, <1>2, RowFacts DEF Merged

-----------------------------------------------------------------------------
(* Store: what becomes of the row of the event, and that the others stay.  *)

(* The row that has the event after it was stored.                         *)
RowOf(e) ==
    IF StoredIn(e) = {} THEN FreshRow(e) ELSE Merged(CHOOSE r \in StoredIn(e) : TRUE, e)

LEMMA StoredFacts ==
    ASSUME TypeOK, NEW e \in Events, Store(e)
    PROVE  /\ rows' = {r \in rows : ~Of(e, r)} \cup {RowOf(e)}
           /\ RowOf(e) \in Rows /\ Of(e, RowOf(e)) /\ RowOf(e).client = e.client
           /\ \A r \in rows : Of(e, r) => RowOf(e) = Merged(r, e)
           /\ (\A r \in rows : ~Of(e, r)) => RowOf(e) = FreshRow(e)
<1>1. rows \ StoredIn(e) = {r \in rows : ~Of(e, r)}
  BY DEF StoredIn
<1>2. CASE StoredIn(e) = {}
  <2>1. \A r \in rows : ~Of(e, r)
    BY <1>2 DEF StoredIn
  <2>2. RowOf(e) = FreshRow(e)
    BY <1>2 DEF RowOf
  <2>3. rows' = {r \in rows : ~Of(e, r)} \cup {FreshRow(e)}
    BY <1>1, <1>2 DEF Store
  <2> QED  BY <2>1, <2>2, <2>3, FreshFacts
<1>3. CASE StoredIn(e) # {}
  <2>1. PICK r \in StoredIn(e) : r = CHOOSE s \in StoredIn(e) : TRUE
    BY <1>3
  <2>2. r \in rows /\ Of(e, r) /\ r \in Rows
    BY <2>1 DEF StoredIn, TypeOK
  <2>3. \A s \in rows : Of(e, s) => s = r
    BY <2>2 DEF TypeOK, Of
  <2>4. StoredIn(e) = {r}
    BY <2>2, <2>3 DEF StoredIn
  <2>5. RowOf(e) = Merged(r, e)
    BY <1>3, <2>1 DEF RowOf
  <2>6. rows' = {s \in rows : ~Of(e, s)} \cup {Merged(r, e)}
    BY <1>1, <1>3, <2>4 DEF Store
  <2> QED  BY <2>2, <2>3, <2>5, <2>6, MergedFacts
<1> QED  BY <1>2, <1>3

-----------------------------------------------------------------------------
LEMMA InitTypeOK == Init => TypeOK
BY DEF Init, TypeOK

LEMMA StoreTypeOK == ASSUME TypeOK, NEW e \in Events, Store(e) PROVE TypeOK'
<1> USE StoredFacts DEF TypeOK
<1>1. names' \subseteq Clients /\ log' \subseteq Events
  BY EventFields DEF Store
<1>2. rows' \subseteq Rows
  OBVIOUS
<1>3. \A r \in rows' : r.client \in names'
  BY DEF Store
<1>4. \A r, s \in rows' : Key(r) = Key(s) => r = s
  BY DEF Of
<1> QED  BY <1>1, <1>2, <1>3, <1>4

LEMMA NextTypeOK == ASSUME TypeOK, [Next]_vars PROVE TypeOK'
<1>1. ASSUME NEW e \in Events, Store(e) PROVE TypeOK'
  BY <1>1, StoreTypeOK
<1>2. ASSUME NEW c \in Clients, StoreSession(c) PROVE TypeOK'
  BY <1>2 DEF StoreSession, TypeOK
<1>3. ASSUME NEW cutoff \in Times, NEW sessions \in SUBSET Clients, Prune(cutoff, sessions)
      PROVE TypeOK'
  BY <1>3 DEF Prune, TypeOK
<1>4. CASE UNCHANGED vars
  BY <1>4 DEF vars, TypeOK, Key
<1> QED  BY <1>1, <1>2, <1>3, <1>4 DEF Next

(* flush_aggregates, flush_dns and prune keep one row for a key, and rows  *)
(* of known clients only.                                                  *)
THEOREM QueriesTypeCorrect == Spec => []TypeOK
BY InitTypeOK, NextTypeOK, PTL DEF Spec

-----------------------------------------------------------------------------
(* e is within a row's span, and a row begins and ends with an event.      *)
Covered(e, R) == \E r \in R : Of(e, r) /\ r.first_ts =< e.ts /\ e.ts =< r.last_ts

Grounded(r, L) ==
    /\ \E e \in L : Of(e, r) /\ e.ts = r.first_ts
    /\ \E f \in L : Of(f, r) /\ f.ts = r.last_ts

LEMMA StoreRowsTrue ==
    ASSUME TypeOK, RowsTrue, NEW e \in Events, Store(e)
    PROVE  RowsTrue'
<1> DEFINE row == RowOf(e)
<1>0. /\ rows' = {r \in rows : ~Of(e, r)} \cup {row}
      /\ Of(e, row)
      /\ log' = log \cup {e}
  BY StoredFacts DEF Store
<1>1. CASE \A r \in rows : ~Of(e, r)
  <2>1. row = FreshRow(e) /\ row.first_ts = e.ts /\ row.last_ts = e.ts
    BY <1>1, StoredFacts, FreshFacts
  <2>2. rows' = rows \cup {row}
    BY <1>0, <1>1
  <2>3. Covered(e, rows') /\ Grounded(row, log')
    BY <1>0, <2>1, <2>2, EventFields DEF Covered, Grounded
  <2>4. \A f \in log : Covered(f, rows')
    BY <2>2 DEF RowsTrue, Covered
  <2>5. \A s \in rows : Grounded(s, log')
    BY <1>0 DEF RowsTrue, Grounded
  <2>6. \A f \in log' : Covered(f, rows')
    BY <1>0, <2>3, <2>4
  <2>7. \A s \in rows' : Grounded(s, log')
    BY <2>2, <2>3, <2>5
  <2> QED  BY <2>6, <2>7 DEF RowsTrue, Covered, Grounded
<1>2. ASSUME NEW r \in rows, Of(e, r) PROVE RowsTrue'
  <2>1. /\ row.first_ts = Lesser(r.first_ts, e.ts)
        /\ row.last_ts = Greater(r.last_ts, e.ts)
    BY <1>2, StoredFacts, MergedFacts DEF TypeOK
  <2>2. \A f \in Events : Of(f, r) <=> Of(f, row)
    BY <1>0, <1>2 DEF Of
  <2>3. r.first_ts \in Int /\ r.last_ts \in Int /\ e.ts \in Int
    BY <1>2, EventFields DEF TypeOK, Rows
  <2>4. \A f \in log : f \in Events /\ f.ts \in Int
    BY EventFields DEF TypeOK
  <2>5. Covered(e, rows')
    BY <1>0, <2>1, <2>3 DEF Covered, Lesser, Greater
  <2>6. ASSUME NEW f \in log PROVE Covered(f, rows')
    <3>1. PICK s \in rows : Of(f, s) /\ s.first_ts =< f.ts /\ f.ts =< s.last_ts
      BY <2>6 DEF RowsTrue
    <3>2. CASE Of(e, s)
      <4>1. s = r
        BY <1>2, <3>2 DEF TypeOK, Of
      <4>2. row.first_ts =< f.ts /\ f.ts =< row.last_ts
        BY <2>1, <2>3, <2>4, <3>1, <4>1 DEF Lesser, Greater
      <4> QED  BY <1>0, <2>2, <2>4, <3>1, <4>1, <4>2 DEF Covered
    <3>3. CASE ~Of(e, s)
      BY <1>0, <3>1, <3>3 DEF Covered
    <3> QED  BY <3>2, <3>3
  <2>7. Grounded(row, log')
    <3>1. PICK f \in log, g \in log : /\ Of(f, r) /\ f.ts = r.first_ts
                                     /\ Of(g, r) /\ g.ts = r.last_ts
      BY <1>2 DEF RowsTrue
    <3>2. \E d \in log' : Of(d, row) /\ d.ts = row.first_ts
      BY <1>0, <2>1, <2>2, <2>4, <3>1 DEF Lesser
    <3>3. \E d \in log' : Of(d, row) /\ d.ts = row.last_ts
      BY <1>0, <2>1, <2>2, <2>4, <3>1 DEF Greater
    <3> QED  BY <3>2, <3>3 DEF Grounded
  <2>8. \A s \in rows : ~Of(e, s) => Grounded(s, log')
    BY <1>0 DEF RowsTrue, Grounded
  <2>9. \A f \in log' : Covered(f, rows')
    BY <1>0, <2>5, <2>6
  <2>10. \A s \in rows' : Grounded(s, log')
    BY <1>0, <2>7, <2>8
  <2> QED  BY <2>9, <2>10 DEF RowsTrue, Covered, Grounded
<1> QED  BY <1>1, <1>2

LEMMA NextRowsTrue == ASSUME TypeOK, RowsTrue, [Next]_vars PROVE RowsTrue'
<1>1. ASSUME NEW e \in Events, Store(e) PROVE RowsTrue'
  BY <1>1, StoreRowsTrue
<1>2. ASSUME NEW c \in Clients, StoreSession(c) PROVE RowsTrue'
  BY <1>2 DEF StoreSession, RowsTrue
<1>3. ASSUME NEW cutoff \in Times, NEW sessions \in SUBSET Clients, Prune(cutoff, sessions)
      PROVE RowsTrue'
  <2>1. \A e \in log, r \in rows : Of(e, r) => r.bucket = BucketOf(e.ts)
    BY DEF Of, Key, KeyOf
  <2>2. /\ rows' = {r \in rows : r.bucket >= cutoff}
        /\ log' = {e \in log : BucketOf(e.ts) >= cutoff}
    BY <1>3 DEF Prune
  <2>3. ASSUME NEW e \in log' PROVE Covered(e, rows')
    <3>1. PICK r \in rows : Of(e, r) /\ r.first_ts =< e.ts /\ e.ts =< r.last_ts
      BY <2>2 DEF RowsTrue
    <3> QED  BY <2>1, <2>2, <3>1 DEF Covered
  <2>4. ASSUME NEW r \in rows' PROVE Grounded(r, log')
    <3>1. PICK e \in log, f \in log : /\ Of(e, r) /\ e.ts = r.first_ts
                                     /\ Of(f, r) /\ f.ts = r.last_ts
      BY <2>2 DEF RowsTrue
    <3>2. e \in log' /\ f \in log'
      BY <2>1, <2>2, <3>1
    <3> QED  BY <3>1, <3>2 DEF Grounded
  <2> QED  BY <2>3, <2>4 DEF RowsTrue, Covered, Grounded
<1>4. CASE UNCHANGED vars
  BY <1>4 DEF vars, RowsTrue
<1> QED  BY <1>1, <1>2, <1>3, <1>4 DEF Next

(* flush_aggregates, flush_dns: a row spans what went into it, exactly.    *)
THEOREM RowsAreTrue == Spec => []RowsTrue
<1>1. Init => RowsTrue
  BY DEF Init, RowsTrue
<1> QED  BY <1>1, InitTypeOK, NextTypeOK, NextRowsTrue, PTL DEF Spec

-----------------------------------------------------------------------------
(* The reports are finite, so that a limit leaves something.               *)
FInv == TypeOK /\ RowsTrue /\ IsFiniteSet(rows)

LEMMA NextFinite == ASSUME TypeOK, IsFiniteSet(rows), [Next]_vars PROVE IsFiniteSet(rows')
<1>1. ASSUME NEW e \in Events, Store(e) PROVE IsFiniteSet(rows')
  <2> DEFINE others == {r \in rows : ~Of(e, r)}
  <2>1. IsFiniteSet(others)
    BY FS_Subset
  <2>2. rows' = others \cup {RowOf(e)}
    BY <1>1, StoredFacts
  <2>3. IsFiniteSet(others \cup {RowOf(e)})
    <3> HIDE DEF others
    <3> QED  BY <2>1, FS_AddElement
  <2> QED  BY <2>2, <2>3
<1>2. ASSUME NEW cutoff \in Times, NEW sessions \in SUBSET Clients, Prune(cutoff, sessions)
      PROVE IsFiniteSet(rows')
  <2>1. rows' \subseteq rows
    BY <1>2 DEF Prune
  <2> QED  BY <2>1, FS_Subset
<1>3. ASSUME NEW c \in Clients, StoreSession(c) PROVE IsFiniteSet(rows')
  BY <1>3 DEF StoreSession
<1>4. CASE UNCHANGED vars
  BY <1>4 DEF vars
<1> QED  BY <1>1, <1>2, <1>3, <1>4 DEF Next

(* A limit of one line or more, or none, keeps a line if there is one.     *)
LEMMA LimitedKeeps ==
    ASSUME NEW lines, lines # {}, IsFiniteSet(lines), NEW n \in 0 .. 1,
           NEW S \in Limited(lines, n)
    PROVE  S # {}
<1>1. CASE n = 0
  BY <1>1 DEF Limited
<1>2. CASE n = 1
  <2>1. Cardinality(lines) \in Nat /\ Cardinality(lines) # 0
    BY FS_CardinalityType, FS_EmptySet
  <2>2. Cardinality(S) = 1
    BY <1>2, <2>1 DEF Limited, Lesser
  <2> QED  BY <2>2, FS_EmptySet
<1> QED  BY <1>1, <1>2

LEMMA GroupByFacts ==
    ASSUME NEW R, IsFiniteSet(R), R # {}, NEW columns
    PROVE  GroupBy(R, columns) # {} /\ IsFiniteSet(GroupBy(R, columns))
<1> DEFINE vals  == {At(r, columns) : r \in R}
           at    == [r \in R |-> At(r, columns)]
           group == [v \in vals |-> [by |-> v, line |-> Line({r \in R : At(r, columns) = v})]]
<1>1. at \in Surjection(R, vals)
  BY DEF Surjection
<1>2. vals # {} /\ IsFiniteSet(vals)
  BY <1>1, FS_Surjection
<1>3. GroupBy(R, columns) = {group[v] : v \in vals}
  BY DEF GroupBy
<1>4. group \in Surjection(vals, {group[v] : v \in vals})
  BY DEF Surjection
<1>5. IsFiniteSet({group[v] : v \in vals})
  <2> HIDE DEF vals, group
  <2> QED  BY <1>2, <1>4, FS_Surjection
<1> QED  BY <1>2, <1>3, <1>5

(* There is a line for every row, and a row for every line.                *)
LEMMA GroupByLines ==
    ASSUME NEW R, NEW columns
    PROVE  /\ \A r \in R : \E l \in GroupBy(R, columns) : l.by = At(r, columns)
           /\ \A l \in GroupBy(R, columns) : \E r \in R : l.by = At(r, columns)
<1>1. ASSUME NEW r \in R PROVE \E l \in GroupBy(R, columns) : l.by = At(r, columns)
  <2> DEFINE v == At(r, columns)
             l == [by |-> v, line |-> Line({s \in R : At(s, columns) = v})]
  <2>1. l \in GroupBy(R, columns)
    BY DEF GroupBy
  <2>2. l.by = v
    OBVIOUS
  <2> QED  BY <2>1, <2>2
<1>2. ASSUME NEW l \in GroupBy(R, columns) PROVE \E r \in R : l.by = At(r, columns)
  <2>1. PICK v \in {At(r, columns) : r \in R} :
           l = [by |-> v, line |-> Line({s \in R : At(s, columns) = v})]
    BY DEF GroupBy
  <2> QED  BY <2>1
<1> QED  BY <1>1, <1>2

(* A report over some rows, limited, is not empty.                         *)
LEMMA Answered ==
    ASSUME NEW R, IsFiniteSet(R), R # {}, NEW columns, NEW n \in 0 .. 1,
           NEW a \in Answers(Limited(GroupBy(R, columns), n))
    PROVE  a.code = 0
<1>1. PICK lines \in Limited(GroupBy(R, columns), n) :
          a = [lines |-> lines, code |-> IF lines = {} THEN 1 ELSE 0]
  BY DEF Answers
<1>2. lines # {}
  BY GroupByFacts, LimitedKeeps
<1> QED  BY <1>1, <1>2

(* client with --ip: the lines of the rows it asks for are there if no     *)
(* limit cut them off, or if it asks for all.                              *)
LEMMA ClientAnswered ==
    ASSUME TypeOK, IsFiniteSet(rows), NEW c \in Clients, NEW w \in Windows,
           NEW r \in Joined("traffic", w), r.client = c,
           NEW by_port \in BOOLEAN, NEW n \in 0 .. 1,
           NEW ips \in SUBSET Items, r.item \in ips, n = 0 \/ ips = Items,
           NEW a \in cmd_client(c, ips, w, by_port, n)
    PROVE  a.code = 0
<1> DEFINE R == {s \in Joined("traffic", w) : s.client = c}
           columns == IF by_port THEN {"item", "sub"} ELSE {"item"}
           lines == GroupBy(R, columns)
<1>1. r \in R /\ IsFiniteSet(R) /\ R \subseteq Rows
  <2>1. r \in R /\ R \subseteq rows
    BY DEF Joined
  <2>2. IsFiniteSet(R)
    <3> HIDE DEF R
    <3> QED  BY <2>1, FS_Subset
  <2>3. R \subseteq Rows
    BY <2>1 DEF TypeOK
  <2> QED  BY <2>1, <2>2, <2>3
<1>2. client_overview(c, w, by_port) = lines
  BY DEF client_overview
<1>3. PICK S \in Limited(lines, n) :
          LET L == {l \in S : l.by["item"] \in ips} IN
          a = [lines |-> L, code |-> IF L = {} THEN 1 ELSE 0]
  BY <1>2 DEF cmd_client, Answers
<1>4. \A s \in R : At(s, columns)["item"] = s.item
  BY DEF At
<1>5. \E l \in S : l.by["item"] \in ips
  <2>1. CASE n = 0
    <3>1. S = lines
      BY <1>3, <2>1 DEF Limited
    <3>2. \E l \in lines : l.by = At(r, columns)
      <4> HIDE DEF R, columns
      <4> QED  BY <1>1, GroupByLines
    <3> QED  BY <1>1, <1>4, <3>1, <3>2
  <2>2. CASE n = 1
    <3>1. PICK l \in S : TRUE
      BY <1>1, <1>3, GroupByFacts, LimitedKeeps
    <3>2. l \in lines
      BY <1>3, <2>2, <3>1 DEF Limited
    <3>3. \E s \in R : l.by = At(s, columns)
      <4> HIDE DEF R, columns
      <4> QED  BY <3>2, GroupByLines
    <3> QED  BY <1>1, <1>4, <2>2, <3>1, <3>3 DEF Rows
  <2> QED  BY <2>1, <2>2
<1> QED  BY <1>3, <1>5

(* A window that holds an event overlaps the row of the event.             *)
LEMMA EventJoined ==
    ASSUME TypeOK, RowsTrue, NEW e \in log, NEW w \in Windows, Within(e, w.since, w.until)
    PROVE  \E r \in Joined(e.table, w) : r.client = e.client /\ r.item = e.item
<1>1. PICK r \in rows : Of(e, r) /\ r.first_ts =< e.ts /\ e.ts =< r.last_ts
  BY DEF RowsTrue
<1>2. r.table = e.table /\ r.client = e.client /\ r.item = e.item
  BY <1>1 DEF Of, Key, KeyOf
<1>3. r.first_ts \in Int /\ r.last_ts \in Int /\ e.ts \in Int
  BY <1>1, EventFields DEF TypeOK, Rows
<1>4. TimeClause(r, w)
  BY <1>1, <1>3 DEF TimeClause, Within, Windows, Unset
<1> QED  BY <1>1, <1>2, <1>4 DEF Joined, TypeOK

LEMMA Found == FInv => NothingDenied
<1> SUFFICES ASSUME FInv, NEW e \in log, NEW w \in Windows, Within(e, w.since, w.until),
                    NEW n \in 0 .. 1
             PROVE  IF e.table = "dns"
                    THEN /\ \A a \in cmd_dns({e.client}, {e.item}, w, n) : a.code = 0
                         /\ \A a \in cmd_dns_domain(e.item, w, n) : a.code = 0
                    ELSE /\ \A a \in cmd_ip(e.item, w, n) : a.code = 0
                         /\ \A by_port \in BOOLEAN :
                               /\ \A a \in cmd_client(e.client, Items, w, by_port, n) : a.code = 0
                               /\ \A a \in cmd_client(e.client, {e.item}, w, by_port, 0) : a.code = 0
  BY DEF NothingDenied
<1>1. PICK r \in Joined(e.table, w) : r.client = e.client /\ r.item = e.item
  BY EventJoined DEF FInv
<1>2. \A t \in Tables : IsFiniteSet(Joined(t, w))
  BY FS_Subset DEF FInv, Joined
<1>3. e \in Events /\ e.client \in Clients /\ e.item \in Items /\ e.table \in Tables
  BY EventFields DEF FInv, TypeOK
<1>4. CASE e.table = "dns"
  <2>1. ASSUME NEW a \in cmd_dns({e.client}, {e.item}, w, n) PROVE a.code = 0
    <3> DEFINE R == {s \in Joined("dns", w) : s.client \in {e.client} /\ s.item \in {e.item}}
    <3>1. R # {} /\ IsFiniteSet(R)
      BY <1>1, <1>2, <1>4, FS_Subset
    <3> QED  BY <2>1, <3>1, Answered DEF cmd_dns, dns_domains
  <2>2. ASSUME NEW a \in cmd_dns_domain(e.item, w, n) PROVE a.code = 0
    <3> DEFINE R == {s \in Joined("dns", w) : s.item = e.item}
    <3>1. R # {} /\ IsFiniteSet(R)
      BY <1>1, <1>2, <1>4, FS_Subset
    <3> QED  BY <2>2, <3>1, Answered DEF cmd_dns_domain, dns_domain_clients
  <2> QED  BY <1>4, <2>1, <2>2
<1>5. CASE e.table = "traffic"
  <2>1. ASSUME NEW a \in cmd_ip(e.item, w, n) PROVE a.code = 0
    <3> DEFINE R == {s \in Joined("traffic", w) : s.item = e.item}
    <3>1. R # {} /\ IsFiniteSet(R)
      BY <1>1, <1>2, <1>5, FS_Subset
    <3> QED  BY <2>1, <3>1, Answered DEF cmd_ip, ip_overview
  <2>2. ASSUME NEW by_port \in BOOLEAN, NEW a \in cmd_client(e.client, Items, w, by_port, n)
        PROVE  a.code = 0
    BY <1>1, <1>3, <1>5, <2>2, ClientAnswered DEF FInv
  <2>3. ASSUME NEW by_port \in BOOLEAN, NEW a \in cmd_client(e.client, {e.item}, w, by_port, 0)
        PROVE  a.code = 0
    BY <1>1, <1>3, <1>5, <2>3, ClientAnswered DEF FInv
  <2> QED  BY <1>5, <2>1, <2>2, <2>3
<1> QED  BY <1>3, <1>4, <1>5

(* client, ip and dns never say "no traffic recorded", "no DNS queries     *)
(* recorded" of a window in which there was some (cli.py:311, 373, 449, 466).   *)
THEOREM NoPacketDenied == Spec => []NothingDenied
<1>1. Init => FInv
  BY InitTypeOK, FS_EmptySet DEF Init, FInv, RowsTrue
<1>2. FInv /\ [Next]_vars => FInv'
  BY NextTypeOK, NextRowsTrue, NextFinite DEF FInv
<1> QED  BY <1>1, <1>2, Found, PTL DEF Spec
-----------------------------------------------------------------------------
(* What the totals rest on: a row counts the packets or queries that are   *)
(* in it, each once, and everything is finite.                             *)
EventsIn(r, L) == {e \in L : Of(e, r)}

CountsTrue == \A r \in rows : r.count = Cardinality(EventsIn(r, log))

CInv == FInv /\ IsFiniteSet(names) /\ IsFiniteSet(log) /\ CountsTrue

LEMMA StoreCounts ==
    ASSUME CInv, NEW e \in Events, Store(e)
    PROVE  CountsTrue'
<1> DEFINE row == RowOf(e)
<1>0. /\ rows' = {r \in rows : ~Of(e, r)} \cup {row}
      /\ Of(e, row)
      /\ log' = log \cup {e} /\ e \notin log
      /\ TypeOK
  BY StoredFacts DEF Store, CInv, FInv
<1>1. ASSUME NEW r \in rows, ~Of(e, r) PROVE r.count = Cardinality(EventsIn(r, log'))
  <2>1. EventsIn(r, log') = EventsIn(r, log)
    BY <1>0, <1>1 DEF EventsIn
  <2> QED  BY <2>1 DEF CInv, CountsTrue
<1>2. row.count = Cardinality(EventsIn(row, log'))
  <2>1. CASE \A r \in rows : ~Of(e, r)
    <3>1. row.count = 1
      BY <1>0, <2>1, StoredFacts DEF FreshRow, Row
    <3>2. ASSUME NEW f \in log PROVE ~Of(f, row)
      <4>1. PICK r \in rows : Of(f, r)
        BY DEF CInv, FInv, RowsTrue
      <4> QED  BY <1>0, <2>1, <4>1 DEF Of
    <3>3. EventsIn(row, log') = {e}
      BY <1>0, <3>2 DEF EventsIn
    <3> QED  BY <3>1, <3>3, FS_Singleton
  <2>2. ASSUME NEW r \in rows, Of(e, r) PROVE row.count = Cardinality(EventsIn(row, log'))
    <3>1. row.count = r.count + 1
      BY <1>0, <2>2, StoredFacts DEF Merged, Row
    <3>2. \A f \in log : Of(f, r) <=> Of(f, row)
      BY <1>0, <2>2 DEF Of
    <3>3. EventsIn(row, log') = EventsIn(r, log) \cup {e} /\ e \notin EventsIn(r, log)
      BY <1>0, <3>2 DEF EventsIn
    <3>4. IsFiniteSet(EventsIn(r, log))
      BY FS_Subset DEF CInv, EventsIn
    <3>5. Cardinality(EventsIn(row, log')) = Cardinality(EventsIn(r, log)) + 1
      BY <3>3, <3>4, FS_AddElement
    <3> QED  BY <3>1, <3>5 DEF CInv, CountsTrue
  <2> QED  BY <2>1, <2>2
<1> QED  BY <1>0, <1>1, <1>2 DEF CountsTrue

LEMMA NextCounts == ASSUME CInv, [Next]_vars PROVE CInv'
<1>1. FInv'
  BY NextTypeOK, NextRowsTrue, NextFinite DEF CInv, FInv
<1>2. ASSUME NEW e \in Events, Store(e)
      PROVE  IsFiniteSet(names') /\ IsFiniteSet(log') /\ CountsTrue'
  BY <1>2, StoreCounts, FS_AddElement DEF Store, CInv
<1>3. ASSUME NEW c \in Clients, StoreSession(c)
      PROVE  IsFiniteSet(names') /\ IsFiniteSet(log') /\ CountsTrue'
  BY <1>3, FS_AddElement DEF StoreSession, CInv, CountsTrue
<1>4. ASSUME NEW cutoff \in Times, NEW sessions \in SUBSET Clients, Prune(cutoff, sessions)
      PROVE  IsFiniteSet(names') /\ IsFiniteSet(log') /\ CountsTrue'
  <2>1. /\ rows' = {r \in rows : r.bucket >= cutoff}
        /\ log' = {e \in log : BucketOf(e.ts) >= cutoff}
        /\ names' \subseteq names
    BY <1>4 DEF Prune
  <2>2. IsFiniteSet(names') /\ IsFiniteSet(log')
    BY <2>1, FS_Subset DEF CInv
  <2>3. ASSUME NEW r \in rows' PROVE r.count = Cardinality(EventsIn(r, log'))
    <3>1. \A e \in log : Of(e, r) => e \in log'
      BY <2>1 DEF Of, Key, KeyOf
    <3>2. EventsIn(r, log') = EventsIn(r, log)
      BY <2>1, <3>1 DEF EventsIn
    <3> QED  BY <2>1, <3>2 DEF CInv, CountsTrue
  <2> QED  BY <2>2, <2>3 DEF CountsTrue
<1>5. CASE UNCHANGED vars
  BY <1>1, <1>5 DEF vars, CInv, CountsTrue
<1> QED  BY <1>1, <1>2, <1>3, <1>4, <1>5 DEF Next, CInv

LEMMA InitCounts == Init => CInv
BY InitTypeOK, FS_EmptySet DEF Init, CInv, FInv, RowsTrue, CountsTrue

-----------------------------------------------------------------------------
(* A row or a group of rows counts its events, each once.                  *)
EventsOf(Q) == {e \in log : \E r \in Q : Of(e, r)}

LEMMA EventsFinite ==
    ASSUME CInv, NEW Q
    PROVE  /\ IsFiniteSet(EventsOf(Q))
           /\ \A E \in SUBSET log : IsFiniteSet(E)
BY FS_Subset DEF CInv, EventsOf

LEMMA OneRow ==
    ASSUME CInv, NEW e, NEW r \in rows, NEW s \in rows, Of(e, r), Of(e, s)
    PROVE  r = s
BY DEF CInv, FInv, TypeOK, Of

LEMMA CountIsEvents ==
    ASSUME CInv, NEW Q \in SUBSET rows
    PROVE  Count(Q) = Cardinality(EventsOf(Q))
<1> DEFINE P == [r \in Q |-> EventsIn(r, log)]
           f == [r \in Q |-> r.count]
<1>1. P \in [Q -> SUBSET log]
  BY DEF EventsIn
<1>2. \A r, s \in Q : r # s => P[r] \cap P[s] = {}
  BY OneRow DEF EventsIn
<1>3. f = [r \in Q |-> Cardinality(P[r])]
  BY DEF CInv, CountsTrue
<1>4. IsFiniteSet(Q) /\ IsFiniteSet(log)
  BY FS_Subset DEF CInv, FInv
<1>5. EventsOf(Q) = UNION {P[r] : r \in Q}
  BY DEF EventsOf, EventsIn
<1>6. SumFunction(f) = Cardinality(UNION {P[r] : r \in Q})
  <2> HIDE DEF P, f
  <2> QED  BY <1>1, <1>2, <1>3, <1>4, SumOfParts
<1> QED  BY <1>5, <1>6 DEF Count

(* However rows are divided, the parts count as much as the whole.         *)
LEMMA PartsCount ==
    ASSUME CInv, NEW Q \in SUBSET rows, NEW S, IsFiniteSet(S), NEW Part \in [S -> SUBSET Q],
           \A x, y \in S : x # y => Part[x] \cap Part[y] = {},
           \A r \in Q : \E x \in S : r \in Part[x],
           NEW f, f = [x \in S |-> Count(Part[x])]
    PROVE  SumFunction(f) = Count(Q)
<1> DEFINE P == [x \in S |-> EventsOf(Part[x])]
<1>1. P \in [S -> SUBSET log]
  BY DEF EventsOf
<1>2. \A x, y \in S : x # y => P[x] \cap P[y] = {}
  BY OneRow DEF EventsOf
<1>3. f = [x \in S |-> Cardinality(P[x])]
  BY CountIsEvents
<1>4. IsFiniteSet(log)
  BY DEF CInv
<1>5. EventsOf(Q) = UNION {P[x] : x \in S}
  BY DEF EventsOf
<1>6. SumFunction(f) = Cardinality(UNION {P[x] : x \in S})
  <2> HIDE DEF P
  <2> QED  BY <1>1, <1>2, <1>3, <1>4, SumOfParts
<1> QED  BY <1>5, <1>6, CountIsEvents

(* A line of a report, and the rows it is made of.                         *)
Group(R, columns, v) == {r \in R : At(r, columns) = v}

LEMMA LineFacts ==
    ASSUME NEW R, NEW columns, NEW l \in GroupBy(R, columns)
    PROVE  /\ l.line = Line(Group(R, columns, l.by))
           /\ l = [by |-> l.by, line |-> l.line]
           /\ \E r \in R : At(r, columns) = l.by
<1>1. PICK v \in {At(r, columns) : r \in R} :
         l = [by |-> v, line |-> Line({r \in R : At(r, columns) = v})]
  BY DEF GroupBy
<1> QED  BY <1>1 DEF Group

LEMMA LineTotals ==
    \A R : /\ Line(R).total = Count(R)
           /\ Line(R).out = Count({r \in R : r.direction = "out"})
           /\ Line(R).in = Count({r \in R : r.direction = "in"})
           /\ Line(R).clients = Cardinality({r.client : r \in R})
           /\ Line(R).first_seen = Min({r.first_ts : r \in R})
           /\ Line(R).last_seen = Max({r.last_ts : r \in R})
BY DEF Line

LEMMA LinesCount ==
    ASSUME CInv, NEW R \in SUBSET rows, NEW columns
    PROVE  LinesTotal(GroupBy(R, columns)) = Count(R)
<1> DEFINE lines == GroupBy(R, columns)
           Part == [l \in lines |-> Group(R, columns, l.by)]
           f == [l \in lines |-> l.line.total]
<1>1. IsFiniteSet(lines)
  <2>1. CASE R = {}
    <3>1. lines = {}
      BY <2>1 DEF GroupBy
    <3> QED  BY <3>1, FS_EmptySet
  <2>2. CASE R # {}
    BY <2>2, GroupByFacts, FS_Subset DEF CInv, FInv
  <2> QED  BY <2>1, <2>2
<1>2. Part \in [lines -> SUBSET R]
  BY DEF Group
<1>3. ASSUME NEW l \in lines, NEW m \in lines, l # m PROVE Part[l] \cap Part[m] = {}
  <2>1. l.by # m.by
    BY <1>3, LineFacts
  <2> QED  BY <2>1 DEF Group
<1>4. ASSUME NEW r \in R PROVE \E l \in lines : r \in Part[l]
  BY GroupByLines DEF Group
<1>5. f = [l \in lines |-> Count(Part[l])]
  BY LineFacts, LineTotals
<1>6. SumFunction(f) = Count(R)
  <2> HIDE DEF lines, Part, f
  <2> QED  BY <1>1, <1>2, <1>3, <1>4, <1>5, PartsCount
<1> QED  BY <1>6 DEF LinesTotal

-----------------------------------------------------------------------------
(* Buckets are in the order of their packets: one that is later is later   *)
(* by a bucket's width.                                                    *)
LEMMA BucketOrder ==
    ASSUME NEW a \in Times, NEW b \in Times, a =< b
    PROVE  BucketOf(a) =< BucketOf(b)
<1> DEFINE B == BucketSeconds
           x == a \div B
           y == b \div B
<1>1. a \in Int /\ b \in Int /\ B \in Int /\ B > 0
  OBVIOUS
<1>2. /\ x \in Int /\ a = x * B + (a % B) /\ 0 =< a % B /\ a % B < B /\ a % B \in Int
      /\ y \in Int /\ b = y * B + (b % B) /\ 0 =< b % B /\ b % B < B /\ b % B \in Int
  BY <1>1, SMT
<1> HIDE DEF x, y, B
<1>3. ~(y < x)
  <2> SUFFICES ASSUME y < x PROVE FALSE
    OBVIOUS
  <2>1. x - y - 1 \in Nat
    BY <1>2
  <2>2. (x - y - 1) * B \in Nat
    BY <1>1, <2>1
  <2>3. x * B = (x - y - 1) * B + y * B + B
    BY <1>1, <1>2
  <2> QED  BY <1>1, <1>2, <2>2, <2>3
<1>4. (y - x) * B \in Nat
  BY <1>1, <1>2, <1>3
<1>5. y * B = (y - x) * B + x * B
  BY <1>1, <1>2
<1>6. x * B =< y * B
  BY <1>1, <1>2, <1>4, <1>5
<1>7. BucketOf(a) = x * B /\ BucketOf(b) = y * B
  BY <1>1, <1>2 DEF BucketOf, B
<1> QED  BY <1>6, <1>7

(* Some timestamps, if any, have a first and a last.                       *)
LEMMA FirstTime ==
    ASSUME NEW T \in SUBSET Nat, T # {}
    PROVE  \E x \in T : \A y \in T : x =< y
<1>1. PICK x \in T : \A y \in T : <<y, x>> \notin OpToRel(<, Nat)
  BY NatLessThanWellFounded, WFMin
<1>2. ASSUME NEW y \in T, ~(x =< y) PROVE FALSE
  <2>1. y < x /\ y \in Nat /\ x \in Nat
    BY <1>2
  <2> QED  BY <1>1, <2>1 DEF OpToRel
<1> QED  BY <1>2

LEMMA LastTime ==
    ASSUME NEW T \in SUBSET Times, T # {}
    PROVE  \E x \in T : \A y \in T : y =< x
<1> DEFINE U == {MaxTime - y : y \in T}
<1>0. \A y \in T : y \in Int /\ y =< MaxTime
  OBVIOUS
<1>1. U \in SUBSET Nat /\ U # {}
  <2>1. \A y \in T : MaxTime - y \in Nat
    BY <1>0
  <2>2. ASSUME NEW u \in U PROVE u \in Nat
    BY <2>1
  <2> QED  BY <2>2
<1>2. PICK u \in U : \A v \in U : u =< v
  BY <1>1, FirstTime
<1>3. PICK x \in T : u = MaxTime - x
  OBVIOUS
<1>4. \A y \in T : MaxTime - x =< MaxTime - y
  BY <1>2, <1>3
<1>5. ASSUME NEW y \in T PROVE y =< x
  <2>1. MaxTime - x =< MaxTime - y /\ x \in Int /\ y \in Int
    BY <1>0, <1>4
  <2> QED  BY <2>1
<1> QED  BY <1>5

LEMMA MinIs ==
    ASSUME NEW T \in SUBSET Int, NEW x \in T, \A y \in T : x =< y
    PROVE  Min(T) = x
<1>1. Min(T) \in T /\ \A y \in T : Min(T) =< y
  BY DEF Min
<1>2. Min(T) \in Int /\ x \in Int /\ Min(T) =< x /\ x =< Min(T)
  BY <1>1
<1> QED  BY <1>2

LEMMA MaxIs ==
    ASSUME NEW T \in SUBSET Int, NEW x \in T, \A y \in T : y =< x
    PROVE  Max(T) = x
<1>1. Max(T) \in T /\ \A y \in T : y =< Max(T)
  BY DEF Max
<1>2. Max(T) \in Int /\ x \in Int /\ Max(T) =< x /\ x =< Max(T)
  BY <1>1
<1> QED  BY <1>2

(* What one line of a client's overview is made of: the rows of the client *)
(* and the address that the window overlaps.                               *)
OverviewRows(c, item, w) == {r \in Joined("traffic", w) : r.client = c /\ r.item = item}

LEMMA OverviewLine ==
    ASSUME CInv, NEW w, NEW c, NEW l \in client_overview(c, w, FALSE)
    PROVE  /\ l.line = Line(OverviewRows(c, l.by["item"], w))
           /\ OverviewRows(c, l.by["item"], w) # {}
           /\ OverviewRows(c, l.by["item"], w) \in SUBSET rows
<1> DEFINE R == {r \in Joined("traffic", w) : r.client = c}
           G == OverviewRows(c, l.by["item"], w)
<1>1. l \in GroupBy(R, {"item"})
  BY DEF client_overview
<1>2. /\ l.line = Line(Group(R, {"item"}, l.by))
      /\ \E r \in R : At(r, {"item"}) = l.by
  <2> HIDE DEF R
  <2> QED  BY <1>1, LineFacts
<1>3. \A r \in R : At(r, {"item"}) = [k \in {"item"} |-> r.item]
  BY DEF At
<1>4. PICK v : l.by = [k \in {"item"} |-> v]
  BY <1>2, <1>3
<1>5. ASSUME NEW r \in R PROVE At(r, {"item"}) = l.by <=> r.item = l.by["item"]
  <2>1. l.by["item"] = v /\ At(r, {"item"})["item"] = r.item
    BY <1>3, <1>4
  <2>2. r.item = v => At(r, {"item"}) = l.by
    BY <1>3, <1>4
  <2> QED  BY <2>1, <2>2
<1>6. Group(R, {"item"}, l.by) = G
  BY <1>5 DEF Group, OverviewRows
<1>7. G # {}
  BY <1>2, <1>5 DEF OverviewRows
<1> QED  BY <1>2, <1>6, <1>7 DEF Joined, OverviewRows

LEMMA Brackets == CInv => Bracketed
<1> SUFFICES ASSUME CInv, NEW w \in Windows, NEW c \in Clients,
                    NEW l \in client_overview(c, w, FALSE)
             PROVE  LET mine == {e \in log : /\ e.table = "traffic" /\ e.client = c
                                             /\ e.item = l.by["item"]} IN
        /\ l.line.total >= Cardinality({e \in mine : Within(e, w.since, w.until)})
        /\ l.line.total =< Cardinality({e \in mine :
               /\ w.since # Unset => BucketOf(e.ts) >= BucketOf(w.since)
               /\ w.until # Unset => BucketOf(e.ts) =< BucketOf(w.until)})
        /\ l.line.out + l.line.in = l.line.total
        /\ w = Always => /\ l.line.first_seen = Min({e.ts : e \in mine})
                         /\ l.line.last_seen = Max({e.ts : e \in mine})
  BY DEF Bracketed
<1> DEFINE i == l.by["item"]
           mine == {e \in log : e.table = "traffic" /\ e.client = c /\ e.item = i}
           inside == {e \in mine : Within(e, w.since, w.until)}
           near == {e \in mine :
                       /\ w.since # Unset => BucketOf(e.ts) >= BucketOf(w.since)
                       /\ w.until # Unset => BucketOf(e.ts) =< BucketOf(w.until)}
           G == OverviewRows(c, i, w)
<1>1. l.line = Line(G) /\ G # {} /\ G \in SUBSET rows
  BY OverviewLine
<1>2. /\ TypeOK /\ RowsTrue
      /\ \A e \in log : e \in Events /\ e.ts \in Times
      /\ \A r \in rows : r \in Rows /\ r.first_ts \in Times /\ r.last_ts \in Times
                         /\ r.direction \in Directions
  BY EventFields DEF CInv, FInv, TypeOK, Rows
<1>3. w.since \in Times \cup {Unset} /\ w.until \in Times \cup {Unset}
  BY DEF Windows
<1>4. l.line.total = Cardinality(EventsOf(G))
  BY <1>1, CountIsEvents, LineTotals
<1>5. ASSUME NEW e \in log, NEW r \in G, Of(e, r) PROVE e \in mine
  BY <1>5 DEF Joined, Of, Key, KeyOf, OverviewRows
<1>6. ASSUME NEW e \in mine, NEW r \in rows, Of(e, r), TimeClause(r, w) PROVE r \in G
  BY <1>2, <1>6 DEF Joined, Of, Key, KeyOf, TypeOK, OverviewRows
<1>7. inside \subseteq EventsOf(G)
  <2> SUFFICES ASSUME NEW e \in inside PROVE e \in EventsOf(G)
    OBVIOUS
  <2>1. PICK r \in rows : Of(e, r) /\ r.first_ts =< e.ts /\ e.ts =< r.last_ts
    BY <1>2 DEF RowsTrue
  <2>2. TimeClause(r, w)
    BY <1>2, <1>3, <2>1 DEF TimeClause, Within, Unset
  <2> QED  BY <1>6, <2>1, <2>2 DEF EventsOf
<1>8. EventsOf(G) \subseteq near
  <2> SUFFICES ASSUME NEW e \in EventsOf(G) PROVE e \in near
    OBVIOUS
  <2>1. PICK r \in G : Of(e, r)
    BY DEF EventsOf
  <2>2. e \in mine
    BY <1>5, <2>1 DEF EventsOf
  <2>3. PICK f \in log, g \in log : Of(f, r) /\ f.ts = r.first_ts /\ Of(g, r) /\ g.ts = r.last_ts
    BY <1>1, <1>2 DEF RowsTrue
  <2>4. BucketOf(e.ts) = BucketOf(f.ts) /\ BucketOf(e.ts) = BucketOf(g.ts)
    BY <2>1, <2>3 DEF Of, Key, KeyOf
  <2>5. TimeClause(r, w) /\ f.ts \in Times /\ g.ts \in Times
    BY <1>2 DEF Joined, OverviewRows
  <2>6. ASSUME w.since # Unset PROVE BucketOf(e.ts) >= BucketOf(w.since)
    <3>1. w.since \in Times /\ w.since =< g.ts
      BY <1>3, <2>3, <2>5, <2>6 DEF TimeClause
    <3> QED  BY <2>4, <2>5, <3>1, BucketOrder
  <2>7. ASSUME w.until # Unset PROVE BucketOf(e.ts) =< BucketOf(w.until)
    <3>1. w.until \in Times /\ f.ts =< w.until
      BY <1>3, <2>3, <2>5, <2>7 DEF TimeClause
    <3> QED  BY <2>4, <2>5, <3>1, BucketOrder
  <2> QED  BY <2>2, <2>6, <2>7
<1>9. Cardinality(inside) =< l.line.total /\ l.line.total =< Cardinality(near)
  <2>1. IsFiniteSet(EventsOf(G)) /\ IsFiniteSet(near)
    BY EventsFinite
  <2> HIDE DEF inside, near, G
  <2> QED  BY <1>4, <1>7, <1>8, <2>1, FS_Subset
<1>10. l.line.out + l.line.in = l.line.total
  <2> DEFINE O == {r \in G : r.direction = "out"}
             I == {r \in G : r.direction = "in"}
  <2>1. O \in SUBSET rows /\ I \in SUBSET rows
    BY <1>1
  <2>2. EventsOf(G) = EventsOf(O) \cup EventsOf(I)
    BY <1>1, <1>2 DEF EventsOf
  <2>3. EventsOf(O) \cap EventsOf(I) = {}
    BY <2>1, OneRow DEF EventsOf
  <2>4. l.line.out = Cardinality(EventsOf(O)) /\ l.line.in = Cardinality(EventsOf(I))
    BY <1>1, <2>1, CountIsEvents, LineTotals
  <2> HIDE DEF O, I, G
  <2> QED  BY <1>4, <2>2, <2>3, <2>4, EventsFinite, DisjointUnion
<1>11. ASSUME w = Always
       PROVE  /\ l.line.first_seen = Min({e.ts : e \in mine})
              /\ l.line.last_seen = Max({e.ts : e \in mine})
  <2> DEFINE firsts == {r.first_ts : r \in G}
             lasts == {r.last_ts : r \in G}
             stamps == {e.ts : e \in mine}
  <2>1. /\ firsts \in SUBSET Times /\ firsts # {}
        /\ lasts \in SUBSET Times /\ lasts # {}
        /\ stamps \in SUBSET Times
    BY <1>1, <1>2
  <2>2. \A r \in rows : TimeClause(r, w)
    BY <1>11 DEF Always, TimeClause
  <2>3. ASSUME NEW e \in mine
        PROVE  \E r \in G : r.first_ts =< e.ts /\ e.ts =< r.last_ts
    BY <1>2, <1>6, <2>2 DEF RowsTrue
  <2>4. ASSUME NEW r \in G PROVE r.first_ts \in stamps /\ r.last_ts \in stamps
    <3>1. PICK f \in log, g \in log : Of(f, r) /\ f.ts = r.first_ts /\ Of(g, r) /\ g.ts = r.last_ts
      BY <1>1, <1>2 DEF RowsTrue
    <3>2. f \in mine /\ g \in mine
      BY <1>5, <3>1
    <3> QED  BY <3>1, <3>2
  <2>5. Min(firsts) = Min(stamps)
    <3>1. PICK x \in firsts : \A y \in firsts : x =< y
      <4>1. firsts \in SUBSET Nat
        BY <2>1
      <4> QED  BY <2>1, <4>1, FirstTime
    <3>2. x \in stamps
      BY <2>4
    <3>3. ASSUME NEW e \in mine PROVE x =< e.ts
      <4>1. PICK r \in G : r.first_ts =< e.ts
        BY <2>3
      <4>2. x =< r.first_ts /\ x \in Int /\ r.first_ts \in Int /\ e.ts \in Int
        BY <1>2, <2>1, <3>1, <1>1
      <4> QED  BY <4>1, <4>2
    <3>4. \A y \in stamps : x =< y
      BY <3>3
    <3>5. firsts \in SUBSET Int /\ stamps \in SUBSET Int
      BY <2>1
    <3> HIDE DEF firsts, stamps
    <3> QED  BY <3>1, <3>2, <3>4, <3>5, MinIs
  <2>6. Max(lasts) = Max(stamps)
    <3>1. PICK x \in lasts : \A y \in lasts : y =< x
      BY <2>1, LastTime
    <3>2. x \in stamps
      BY <2>4
    <3>3. ASSUME NEW e \in mine PROVE e.ts =< x
      <4>1. PICK r \in G : e.ts =< r.last_ts
        BY <2>3
      <4>2. r.last_ts =< x /\ x \in Int /\ r.last_ts \in Int /\ e.ts \in Int
        BY <1>2, <2>1, <3>1, <1>1
      <4> QED  BY <4>1, <4>2
    <3>4. \A y \in stamps : y =< x
      BY <3>3
    <3>5. lasts \in SUBSET Int /\ stamps \in SUBSET Int
      BY <2>1
    <3> HIDE DEF lasts, stamps
    <3> QED  BY <3>1, <3>2, <3>4, <3>5, MaxIs
  <2> QED  BY <1>1, <2>5, <2>6, LineTotals
<1> HIDE DEF G
<1> QED  BY <1>4, <1>9, <1>10, <1>11

(* A client's overview counts every packet in the window, and of those     *)
(* outside only such as share a bucket with its beginning or its end; it   *)
(* divides them into sent and received, and without a window gives the     *)
(* first and last of them (db.py:289).                                     *)
THEOREM OverviewsBracket == Spec => []Bracketed
BY InitCounts, NextCounts, Brackets, PTL DEF Spec

-----------------------------------------------------------------------------
(* There are as many lines as values in the column that groups them.       *)
LEMMA LinesOfColumn ==
    ASSUME NEW R, IsFiniteSet(R), NEW k
    PROVE  Cardinality(GroupBy(R, {k})) = Cardinality({r[k] : r \in R})
<1> DEFINE lines == GroupBy(R, {k})
           vals == {r[k] : r \in R}
           f == [l \in lines |-> l.by[k]]
<1>1. IsFiniteSet(lines)
  <2>1. CASE R = {}
    <3>1. lines = {}
      BY <2>1 DEF GroupBy
    <3> QED  BY <3>1, FS_EmptySet
  <2>2. CASE R # {}
    BY <2>2, GroupByFacts
  <2> QED  BY <2>1, <2>2
<1>2. \A r \in R : At(r, {k}) = [c \in {k} |-> r[k]]
  BY DEF At
<1>3. ASSUME NEW l \in lines PROVE \E r \in R : l.by = [c \in {k} |-> r[k]]
  <2>1. PICK r \in R : At(r, {k}) = l.by
    BY LineFacts
  <2> QED  BY <1>2, <2>1
<1>4. f \in [lines -> vals]
  <2> SUFFICES ASSUME NEW l \in lines PROVE l.by[k] \in vals
    OBVIOUS
  <2>1. PICK r \in R : l.by = [c \in {k} |-> r[k]]
    BY <1>3
  <2> QED  BY <2>1
<1>5. ASSUME NEW l \in lines, NEW m \in lines, f[l] = f[m] PROVE l = m
  <2>1. PICK r \in R : l.by = [c \in {k} |-> r[k]]
    BY <1>3
  <2>2. PICK s \in R : m.by = [c \in {k} |-> s[k]]
    BY <1>3
  <2>3. r[k] = s[k]
    BY <1>5, <2>1, <2>2
  <2>4. l.by = m.by
    BY <2>1, <2>2, <2>3
  <2> QED  BY <2>4, LineFacts
<1>6. ASSUME NEW v \in vals PROVE \E l \in lines : f[l] = v
  <2>1. PICK r \in R : v = r[k]
    OBVIOUS
  <2>2. PICK l \in lines : l.by = At(r, {k})
    BY GroupByLines
  <2>3. l.by = [c \in {k} |-> r[k]]
    BY <1>2, <2>2
  <2>4. l.by[k] = v
    BY <2>1, <2>3
  <2> QED  BY <2>4
<1>7. f \in Bijection(lines, vals)
  <2> HIDE DEF lines, vals, f
  <2> QED  BY <1>4, <1>5, <1>6 DEF Bijection, Injection, Surjection, IsInjective
<1>8. Cardinality(vals) = Cardinality(lines)
  <2> HIDE DEF lines, vals, f
  <2> QED  BY <1>1, <1>7, FS_Bijection DEF ExistsBijection
<1> QED  BY <1>8

(* The clients that are listed, each once, with their rows.                *)
Listed(w) == {d \in names : w = Always \/ \E r \in Joined("traffic", w) : r.client = d}

LEMMA ListFacts ==
    ASSUME CInv, NEW w
    PROVE  /\ IsFiniteSet(list_clients(w))
           /\ Cardinality(list_clients(w)) = Cardinality(Listed(w))
           /\ \A l \in list_clients(w) :
                 LET R == {r \in Joined("traffic", w) : r.client = l.client} IN
                 /\ l.total = Count(R)
                 /\ l.remote_ips = Cardinality({r.item : r \in R})
           /\ \A l, m \in list_clients(w) : l.client = m.client => l = m
           /\ \A c \in Listed(w) : \E l \in list_clients(w) : l.client = c
<1> DEFINE R(c) == {r \in Joined("traffic", w) : r.client = c}
           entry(c) == [client |-> c,
                        remote_ips |-> Cardinality({r.item : r \in R(c)}),
                        total |-> Count(R(c))]
           f == [c \in Listed(w) |-> entry(c)]
<1>1. list_clients(w) = {entry(c) : c \in Listed(w)}
  BY DEF list_clients, Listed
<1>2. ASSUME NEW l \in list_clients(w) PROVE \E c \in Listed(w) : l = entry(c)
  BY <1>1
<1>3. \A c : /\ entry(c).client = c /\ entry(c).total = Count(R(c))
             /\ entry(c).remote_ips = Cardinality({r.item : r \in R(c)})
  OBVIOUS
<1>4. IsFiniteSet(Listed(w))
  BY FS_Subset DEF CInv, Listed
<1>5. f \in Bijection(Listed(w), list_clients(w))
  <2>1. f \in [Listed(w) -> list_clients(w)]
    BY <1>1
  <2>2. \A c, d \in Listed(w) : f[c] = f[d] => c = d
    BY <1>3
  <2>3. \A l \in list_clients(w) : \E c \in Listed(w) : f[c] = l
    BY <1>2
  <2> HIDE DEF f
  <2> QED  BY <2>1, <2>2, <2>3 DEF Bijection, Injection, Surjection, IsInjective
<1>6. IsFiniteSet(list_clients(w)) /\ Cardinality(list_clients(w)) = Cardinality(Listed(w))
  <2> HIDE DEF f
  <2> QED  BY <1>4, <1>5, FS_Bijection DEF ExistsBijection
<1>7. ASSUME NEW l \in list_clients(w) PROVE l = entry(l.client)
  <2>1. PICK c \in Listed(w) : l = entry(c)
    BY <1>2
  <2>2. l.client = c
    BY <1>3, <2>1
  <2> QED  BY <2>1, <2>2
<1>8. \A c \in Listed(w) : entry(c) \in list_clients(w)
  BY <1>1
<1> HIDE DEF entry
<1> QED  BY <1>3, <1>6, <1>7, <1>8

LEMMA JoinedFacts ==
    ASSUME CInv, NEW t, NEW w
    PROVE  /\ Joined(t, w) \in SUBSET rows
           /\ IsFiniteSet(Joined(t, w))
           /\ \A r \in Joined(t, w) : /\ r.table = t
                                      /\ r.client \in names /\ r.client \in Clients
                                      /\ r.item \in Items
<1>1. Joined(t, w) \in SUBSET rows
  BY DEF Joined
<1>2. IsFiniteSet(Joined(t, w))
  BY <1>1, FS_Subset DEF CInv, FInv
<1>3. \A r \in rows : r.client \in Clients /\ r.item \in Items
  BY DEF CInv, FInv, TypeOK, Rows
<1> QED  BY <1>1, <1>2, <1>3 DEF Joined

(* Some of these rows.                                                     *)
LEMMA SomeFinite ==
    ASSUME CInv, NEW Q \in SUBSET rows
    PROVE  IsFiniteSet(Q)
BY FS_Subset DEF CInv, FInv

(* The list of clients, their overviews and timelines agree.               *)
LEMMA ClientsBalance ==
    ASSUME CInv, NEW w \in Windows, NEW l \in list_clients(w)
    PROVE  /\ \A by_port \in BOOLEAN :
                 l.total = LinesTotal(client_overview(l.client, w, by_port))
           /\ l.remote_ips = Cardinality(client_overview(l.client, w, FALSE))
           /\ l.total = Count(client_timeline(l.client, Items, w))
<1> DEFINE R == {r \in Joined("traffic", w) : r.client = l.client}
<1>1. R \in SUBSET rows
  BY JoinedFacts
<1>2. l.total = Count(R) /\ l.remote_ips = Cardinality({r.item : r \in R})
  BY ListFacts
<1>3. ASSUME NEW by_port \in BOOLEAN
      PROVE  l.total = LinesTotal(client_overview(l.client, w, by_port))
  BY <1>1, <1>2, LinesCount DEF client_overview
<1>4. Cardinality(client_overview(l.client, w, FALSE)) = Cardinality({r.item : r \in R})
  <2>1. client_overview(l.client, w, FALSE) = GroupBy(R, {"item"})
    BY DEF client_overview
  <2>2. {r["item"] : r \in R} = {r.item : r \in R}
    OBVIOUS
  <2>3. IsFiniteSet(R)
    BY <1>1, SomeFinite
  <2> HIDE DEF R
  <2> QED  BY <2>1, <2>2, <2>3, LinesOfColumn
<1>5. client_timeline(l.client, Items, w) = R
  BY JoinedFacts DEF client_timeline
<1> QED  BY <1>2, <1>3, <1>4, <1>5

(* The clients' totals are those of all rows in the window, ...            *)
LEMMA ListCounts ==
    ASSUME CInv, NEW w
    PROVE  ListTotal(list_clients(w)) = Count(Joined("traffic", w))
<1> DEFINE J == Joined("traffic", w)
           list == list_clients(w)
           Part == [l \in list |-> {r \in J : r.client = l.client}]
           f == [l \in list |-> l.total]
<1>1. J \in SUBSET rows /\ IsFiniteSet(list)
  BY JoinedFacts, ListFacts
<1>2. Part \in [list -> SUBSET J]
  OBVIOUS
<1>3. \A l, m \in list : l # m => Part[l] \cap Part[m] = {}
  BY ListFacts
<1>4. ASSUME NEW r \in J PROVE \E l \in list : r \in Part[l]
  <2>1. r.client \in Listed(w)
    BY JoinedFacts DEF Listed
  <2> QED  BY <2>1, ListFacts
<1>5. f = [l \in list |-> Count(Part[l])]
  BY ListFacts
<1>6. SumFunction(f) = Count(J)
  <2> HIDE DEF J, list, Part, f
  <2> QED  BY <1>1, <1>2, <1>3, <1>4, <1>5, PartsCount
<1> QED  BY <1>6 DEF ListTotal

(* ... and so are the addresses'.                                          *)
LEMMA AddressesCount ==
    ASSUME CInv, NEW w
    PROVE  SumFunction([ip \in Items |-> LinesTotal(ip_overview(ip, w))])
              = Count(Joined("traffic", w))
<1> DEFINE J == Joined("traffic", w)
           Part == [ip \in Items |-> {r \in J : r.item = ip}]
           f == [ip \in Items |-> LinesTotal(ip_overview(ip, w))]
<1>1. J \in SUBSET rows /\ IsFiniteSet(Items)
  BY JoinedFacts, ItemsAssumption
<1>2. Part \in [Items -> SUBSET J]
  OBVIOUS
<1>3. \A i, j \in Items : i # j => Part[i] \cap Part[j] = {}
  OBVIOUS
<1>4. \A r \in J : \E ip \in Items : r \in Part[ip]
  BY JoinedFacts
<1>5. ASSUME NEW ip \in Items PROVE LinesTotal(ip_overview(ip, w)) = Count(Part[ip])
  <2>1. Part[ip] \in SUBSET rows
    BY <1>1
  <2>2. ip_overview(ip, w) = GroupBy(Part[ip], {"client"})
    BY DEF ip_overview
  <2> QED  BY <2>1, <2>2, LinesCount
<1>6. f = [ip \in Items |-> Count(Part[ip])]
  BY <1>5
<1>7. SumFunction(f) = Count(J)
  <2> HIDE DEF J, Part, f
  <2> QED  BY <1>1, <1>2, <1>3, <1>4, <1>6, PartsCount
<1> QED  BY <1>7

(* The summary counts all traffic that is stored.                          *)
LEMMA SummaryCounts ==
    ASSUME CInv
    PROVE  /\ summary.total = Cardinality({e \in log : e.table = "traffic"})
           /\ summary.total = ListTotal(list_clients(Always))
           /\ summary.clients = Cardinality(list_clients(Always))
<1> DEFINE traffic == {r \in rows : r.table = "traffic"}
<1>1. summary.total = Count(traffic) /\ summary.clients = Cardinality(names)
  BY DEF summary
<1>2. EventsOf(traffic) = {e \in log : e.table = "traffic"}
  <2>1. \A e \in log : \E r \in rows : Of(e, r)
    BY DEF CInv, FInv, RowsTrue
  <2>2. \A e \in log, r \in rows : Of(e, r) => e.table = r.table
    BY DEF Of, Key, KeyOf
  <2> QED  BY <2>1, <2>2 DEF EventsOf
<1>3. Count(traffic) = Cardinality({e \in log : e.table = "traffic"})
  BY <1>2, CountIsEvents
<1>4. Joined("traffic", Always) = traffic
  BY DEF Joined, TimeClause, Always, CInv, FInv, TypeOK
<1>5. Listed(Always) = names
  BY DEF Listed
<1> QED  BY <1>1, <1>3, <1>4, <1>5, ListCounts, ListFacts

(* The line of a domain, its clients' lines and its timeline agree.        *)
LEMMA DomainBalances ==
    ASSUME CInv, NEW w \in Windows, NEW d \in Items, NEW l \in dns_domains(Clients, {d}, w)
    PROVE  /\ l.line.total = LinesTotal(dns_domain_clients(d, w))
           /\ l.line.clients = Cardinality(dns_domain_clients(d, w))
           /\ l.line.total = Count(dns_timeline(Clients, {d}, w))
<1> DEFINE R == {r \in Joined("dns", w) : r.item = d}
<1>1. R \in SUBSET rows
  BY JoinedFacts
<1>2. \A r \in Joined("dns", w) : r.client \in Clients /\ r.item \in {d} <=> r.item = d
  BY JoinedFacts
<1>3. /\ dns_domains(Clients, {d}, w) = GroupBy(R, {"item"})
      /\ dns_timeline(Clients, {d}, w) = R
      /\ dns_domain_clients(d, w) = GroupBy(R, {"client"})
  <2>1. {r \in Joined("dns", w) : r.client \in Clients /\ r.item \in {d}} = R
    BY <1>2
  <2> QED  BY <2>1 DEF dns_domains, dns_timeline, dns_domain_clients
<1>4. l.line = Line(R)
  <2>1. \A r \in R : At(r, {"item"}) = [k \in {"item"} |-> d]
    BY DEF At
  <2>2. l.line = Line(Group(R, {"item"}, l.by)) /\ \E r \in R : At(r, {"item"}) = l.by
    <3> HIDE DEF R
    <3> QED  BY <1>3, LineFacts
  <2>3. Group(R, {"item"}, l.by) = R
    BY <2>1, <2>2 DEF Group
  <2> QED  BY <2>2, <2>3
<1>5. l.line.total = Count(R) /\ l.line.clients = Cardinality({r.client : r \in R})
  <2> HIDE DEF R
  <2> QED  BY <1>4, LineTotals
<1>6. LinesTotal(dns_domain_clients(d, w)) = Count(R)
  <2> HIDE DEF R
  <2> QED  BY <1>1, <1>3, LinesCount
<1>7. Cardinality(dns_domain_clients(d, w)) = Cardinality({r.client : r \in R})
  <2>1. {r["client"] : r \in R} = {r.client : r \in R}
    OBVIOUS
  <2>2. IsFiniteSet(R)
    BY <1>1, SomeFinite
  <2> HIDE DEF R
  <2> QED  BY <1>3, <2>1, <2>2, LinesOfColumn
<1> QED  BY <1>3, <1>5, <1>6, <1>7

LEMMA Balances == CInv => Balanced
<1> SUFFICES ASSUME CInv PROVE Balanced
  OBVIOUS
<1>1. ASSUME NEW w \in Windows, NEW ip \in Items
      PROVE  LinesTotal(ip_overview(ip, w)) = Count(ip_timeline(ip, Clients, w))
  <2> DEFINE R == {r \in Joined("traffic", w) : r.item = ip}
  <2>1. R \in SUBSET rows
    BY JoinedFacts
  <2>2. ip_timeline(ip, Clients, w) = R
    BY JoinedFacts DEF ip_timeline
  <2>3. ip_overview(ip, w) = GroupBy(R, {"client"})
    BY DEF ip_overview
  <2> QED  BY <2>1, <2>2, <2>3, LinesCount
<1>2. ASSUME NEW w \in Windows
      PROVE  ListTotal(list_clients(w)) =
                SumFunction([ip \in Items |-> LinesTotal(ip_overview(ip, w))])
  BY ListCounts, AddressesCount
<1> QED  BY <1>1, <1>2, ClientsBalance, SummaryCounts, DomainBalances DEF Balanced

(* The totals of clients, client, ip, dns and summary are made by five     *)
(* different GROUP BYs and agree, packet for packet (db.py:269-489).       *)
THEOREM BooksBalance == Spec => []Balanced
BY InitCounts, NextCounts, Balances, PTL DEF Spec
=============================================================================
