-------------------------- MODULE PaginationProofs --------------------------
(***************************************************************************)
(* Theorems about Pagination, for every number of rows, page size, scope,  *)
(* search and order of events: what a walk returns of the rows it was      *)
(* asked for.                                                              *)
(*                                                                         *)
(* The argument counts.  In an ordering by id a row has a rank among the   *)
(* rows found, the position at which every answer of the database has it.  *)
(* A walk that has read k rows' worth of pages has returned ranks up to k  *)
(* only; insertions leave the ranks of an ascending walk alone, and        *)
(* deletions only lower them.                                              *)
(***************************************************************************)
EXTENDS Pagination, FiniteSetTheorems, SequenceTheorems, FunctionTheorems,
        TLAPS

\* The rows that the client's query finds now.
Found == Where(table, query.searches)

\* The rows before those of the page, and the rows up to its end.
Offset == (page - 1) * pageSize
Reached == IF data = Null THEN Offset ELSE Offset + pageSize

\* The rows of the answers and of the page that is read but not answered.
Rows == IF data = Null THEN collected ELSE collected \o data

\* The position of x among the rows T.
Rank(T, ordering, x) == Cardinality({i \in T : Precedes(ordering, i, x)})

-----------------------------------------------------------------------------
(* The inductive invariant.                                                *)

WalkTypeOK ==
  /\ lastId \in 0 .. MaxId
  /\ table \subseteq 1 .. lastId
  /\ query \in Query \cup {Null}
  /\ page \in Nat \ {0}
  /\ data \in Seq(Ids) \cup {Null}
  /\ total \in Nat \cup {Null}
  /\ collected \in Seq(Ids)
  /\ done \in BOOLEAN
  /\ before \subseteq Ids
  /\ events \subseteq {"insert", "delete"}
  /\ done => data = Null /\ total = Null
  /\ query = Null => data = Null /\ total = Null /\ page = DEFAULT_PAGE
                     /\ collected = <<>> /\ ~done /\ events = {}

\* What is read is what the query asks for, its own page too.
ScopeHolds == RowsIn(Rows) \subseteq Scope
SearchHolds == query # Null /\ query.searches => RowsIn(Rows) \subseteq Matching

\* An ascending walk has only rows of ranks that it has reached, and a row
\* that comes later has a larger id.
AscendingHolds ==
  query # Null /\ query.ordering = "id" =>
    /\ \A m, n \in DOMAIN Rows : m < n => Rows[m] < Rows[n]
    /\ ~done => \A n \in DOMAIN Rows :
         Rows[n] <= lastId /\ Rank(Found, "id", Rows[n]) <= Reached

\* While nothing is deleted, the rows that were there come before the others,
\* and those of a rank that the walk has reached are returned.
NothingIsMissed ==
  query # Null /\ query.ordering = "id" /\ "delete" \notin events =>
    /\ before \subseteq Found
    /\ \A i \in Found \ before : \A b \in before : b < i
    /\ total # Null => Cardinality(before) <= total
    /\ ~done => \A b \in before :
         Rank(before, "id", b) <= Reached => b \in RowsIn(Rows)
    /\ done => before \subseteq RowsIn(collected)

\* While nothing happens to the table, the pages are as long as they can be,
\* and the row of each rank is at its place.
StillHolds ==
  query # Null /\ events = {} =>
    /\ Found = before
    /\ total # Null => total = Cardinality(before)
    /\ Len(Rows) = IF done THEN Cardinality(before)
                   ELSE Least(Reached, Cardinality(before))
    /\ ~done => page = 1 \/ Offset < Cardinality(before)
    /\ query.ordering \in {"id", "-id"} =>
         \A n \in DOMAIN Rows :
           /\ Rows[n] \in before
           /\ Rank(before, query.ordering, Rows[n]) = n

WalkInv ==
  /\ WalkTypeOK /\ ScopeHolds /\ SearchHolds /\ AscendingHolds
  /\ NothingIsMissed /\ StillHolds

-----------------------------------------------------------------------------
(* The page and its size.                                                  *)

\* A page has at least one row of room, in the query and in the answer.
LEMMA PageSizeIsPositive ==
  ASSUME WalkTypeOK, query # Null
  PROVE  pageSize \in Nat \ {0}
BY PaginationAssumption
   DEF WalkTypeOK, Query, pageSize, Least, Greatest

\* The place of a page, and that of the next one.
LEMMA OffsetTypes ==
  ASSUME NEW p \in Nat \ {0}, NEW z \in Nat \ {0}
  PROVE  /\ (p - 1) * z \in Nat
         /\ p = 1 => (p - 1) * z = 0
         /\ (p + 1 - 1) * z = (p - 1) * z + z
OBVIOUS

\* The query cuts its pages like the answer does.
LEMMA PagesAgree ==
  ASSUME WalkTypeOK, query # Null
  PROVE  getPagination(page, query.pageSize)
           = [skip |-> Offset, take |-> pageSize]
<1>1. Greatest(1, page) = page
  BY DEF Greatest, WalkTypeOK
<1> QED
  BY <1>1 DEF getPagination, Offset, pageSize

\* Math.ceil: there is a next page when this one does not reach the total.
LEMMA CeilingDivision ==
  ASSUME NEW n \in Nat, NEW z \in Nat \ {0}, NEW p \in Nat
  PROVE  p < (n + z - 1) \div z <=> p * z < n
OBVIOUS

LEMMA NextPageIsNeeded ==
  ASSUME WalkTypeOK, query # Null, NEW n \in Nat
  PROVE  /\ nextPage(n) = Null => n <= Offset + pageSize
         /\ nextPage(n) # Null => nextPage(n) = page + 1 /\ Offset + pageSize < n
<1>1. pageSize \in Nat \ {0} /\ page \in Nat \ {0}
  BY PageSizeIsPositive DEF WalkTypeOK
<1>2. page * pageSize = Offset + pageSize /\ Offset \in Nat
  BY <1>1, OffsetTypes DEF Offset
<1>3. page < totalPages(n) <=> Offset + pageSize < n
  BY <1>1, <1>2, CeilingDivision DEF totalPages
<1>4. page + 1 # Null
  BY <1>1, PaginationAssumption
<1> QED
  BY <1>1, <1>2, <1>3, <1>4 DEF nextPage

-----------------------------------------------------------------------------
(* Ranks.                                                                  *)

\* What a query finds is finite.
LEMMA FoundIsFinite ==
  ASSUME NEW T, T \subseteq Ids
  PROVE  IsFiniteSet(T) /\ Cardinality(T) \in Nat
<1>1. IsFiniteSet(Ids)
  BY PaginationAssumption, FS_Interval DEF Ids
<1> QED
  BY <1>1, FS_Subset, FS_CardinalityType

\* The orderings by id are total orders.
LEMMA OrderedById ==
  ASSUME NEW ordering \in {"id", "-id"}, NEW i \in Ids, NEW j \in Ids
  PROVE  /\ Precedes(ordering, i, j) \/ Precedes(ordering, j, i)
         /\ Precedes(ordering, i, j) /\ Precedes(ordering, j, i) => i = j
         /\ \A k \in Ids :
              Precedes(ordering, i, j) /\ Precedes(ordering, j, k)
                => Precedes(ordering, i, k)
BY PaginationAssumption DEF Precedes, Ids

\* What comes first has the smaller rank.
LEMMA RanksGrow ==
  ASSUME NEW T, T \subseteq Ids, NEW ordering \in {"id", "-id"},
         NEW i \in Ids, NEW j \in Ids, Precedes(ordering, i, j)
  PROVE  Rank(T, ordering, i) \in Nat /\ Rank(T, ordering, j) \in Nat
         /\ Rank(T, ordering, i) <= Rank(T, ordering, j)
<1> DEFINE U(x) == {k \in T : Precedes(ordering, k, x)}
<1>1. U(i) \subseteq U(j)
  BY OrderedById
<1>2. U(i) \subseteq Ids /\ U(j) \subseteq Ids
  OBVIOUS
<1>3. Cardinality(U(i)) <= Cardinality(U(j))
  BY <1>1, <1>2, FoundIsFinite, FS_Subset
<1> QED
  BY <1>2, <1>3, FoundIsFinite DEF Rank

\* Rows that are fewer, or more only behind x, do not give x a higher rank.
LEMMA RanksShrink ==
  ASSUME NEW T, T \subseteq Ids, NEW U, NEW ordering, NEW x,
         \A k \in U : Precedes(ordering, k, x) => k \in T
  PROVE  Rank(U, ordering, x) \in Nat
         /\ Rank(U, ordering, x) <= Rank(T, ordering, x)
<1> DEFINE V(S) == {k \in S : Precedes(ordering, k, x)}
<1>1. V(U) \subseteq V(T) /\ V(T) \subseteq Ids /\ V(U) \subseteq Ids
  OBVIOUS
<1>2. Cardinality(V(U)) <= Cardinality(V(T))
  BY <1>1, FoundIsFinite, FS_Subset
<1> QED
  BY <1>1, <1>2, FoundIsFinite DEF Rank

\* A rank is at most the number of rows.
LEMMA RanksAreBounded ==
  ASSUME NEW T, T \subseteq Ids, NEW ordering, NEW x
  PROVE  Rank(T, ordering, x) \in Nat /\ Rank(T, ordering, x) <= Cardinality(T)
<1> DEFINE V == {k \in T : Precedes(ordering, k, x)}
<1>1. V \subseteq T
  OBVIOUS
<1> QED
  BY <1>1, FoundIsFinite, FS_Subset DEF Rank

\* An arrangement is an enumeration of its rows.
LEMMA ArrangementsEnumerate ==
  ASSUME NEW T, T \subseteq Ids, NEW ordering,
         NEW s \in Arrangements(T, ordering)
  PROVE  /\ s \in Seq(T) /\ Len(s) = Cardinality(T)
         /\ \A m, n \in 1 .. Cardinality(T) : m # n => s[m] # s[n]
         /\ \A x \in T : \E n \in 1 .. Cardinality(T) : s[n] = x
<1> DEFINE N == Cardinality(T)
<1>1. N \in Nat /\ IsFiniteSet(T)
  BY FoundIsFinite
<1>2. /\ s \in [1 .. N -> T]
      /\ \A m, n \in 1 .. N : m # n => s[m] # s[n]
  BY DEF Arrangements, SetToSeqs
<1> HIDE DEF N
<1>3. s \in Injection(1 .. N, T)
  BY <1>2, Fun_IsInj
<1>4. IsFiniteSet(1 .. N) /\ Cardinality(1 .. N) = N
  BY <1>1, FS_Interval
<1>5. s \in Surjection(1 .. N, T)
  BY <1>1, <1>3, <1>4, FS_Injection DEF N
<1>6. \A x \in T : \E n \in 1 .. N : s[n] = x
  BY <1>5 DEF Surjection
<1>7. s \in Seq(T) /\ Len(s) = N
  BY <1>1, <1>2
<1> QED
  BY <1>2, <1>6, <1>7 DEF N

\* In every order that the database may return, the row at place k has rank k.
LEMMA ArrangementRanks ==
  ASSUME NEW T, T \subseteq Ids, NEW ordering \in {"id", "-id"},
         NEW s \in Arrangements(T, ordering), NEW k \in 1 .. Cardinality(T)
  PROVE  Rank(T, ordering, s[k]) = k
<1> DEFINE N == Cardinality(T)
           U == {i \in T : Precedes(ordering, i, s[k])}
           f == [m \in 1 .. k |-> s[m]]
<1>1. /\ N \in Nat /\ k \in 1 .. N /\ s \in Seq(T) /\ Len(s) = N
      /\ \A m, n \in 1 .. N : m # n => s[m] # s[n]
      /\ \A x \in T : \E n \in 1 .. N : s[n] = x
  BY FoundIsFinite, ArrangementsEnumerate
<1>2. \A m, n \in 1 .. N : m < n => Precedes(ordering, s[m], s[n])
  BY <1>1 DEF Arrangements
<1>3. \A m \in 1 .. N : s[m] \in T
  BY <1>1
<1> HIDE DEF N
<1>4. \A m \in 1 .. N : m <= k => s[m] \in U
  <2> SUFFICES ASSUME NEW m \in 1 .. N, m <= k PROVE s[m] \in U
    OBVIOUS
  <2>1. CASE m = k
    BY <1>1, <1>3, <2>1, OrderedById
  <2>2. CASE m < k
    BY <1>1, <1>2, <1>3, <2>2
  <2> QED
    BY <1>1, <2>1, <2>2
<1>5. \A m \in 1 .. N : k < m => s[m] \notin U
  <2> SUFFICES ASSUME NEW m \in 1 .. N, k < m, Precedes(ordering, s[m], s[k])
               PROVE FALSE
    OBVIOUS
  <2>1. Precedes(ordering, s[k], s[m]) /\ s[k] # s[m]
    BY <1>1, <1>2
  <2>2. s[k] \in Ids /\ s[m] \in Ids
    BY <1>1, <1>3
  <2> QED
    BY <2>1, <2>2, OrderedById
<1>6. f \in [1 .. k -> U]
  BY <1>1, <1>4
<1>7. \A m, n \in 1 .. k : f[m] = f[n] => m = n
  BY <1>1
<1>8. \A x \in U : \E m \in 1 .. k : f[m] = x
  <2> SUFFICES ASSUME NEW x \in U PROVE \E m \in 1 .. k : f[m] = x
    OBVIOUS
  <2>1. PICK n \in 1 .. N : s[n] = x
    BY <1>1
  <2>2. n <= k
    BY <1>1, <1>5, <2>1
  <2> QED
    BY <1>1, <2>1, <2>2
<1> HIDE DEF f, U
<1>9. f \in Bijection(1 .. k, U)
  BY <1>6, <1>7, <1>8, Fun_IsBij
<1>10. Cardinality(U) = k
  <2>1. ExistsBijection(1 .. k, U) /\ k \in Nat
    BY <1>1, <1>9 DEF ExistsBijection
  <2> QED
    BY <2>1, FS_CountingElements
<1> QED
  BY <1>10 DEF U, Rank

\* Two ids of the same rank are the same, and the smaller rank comes first.
LEMMA RanksTellApart ==
  ASSUME NEW T, T \subseteq Ids, NEW ordering \in {"id", "-id"},
         NEW i \in Ids, NEW j \in Ids,
         Rank(T, ordering, i) < Rank(T, ordering, j)
  PROVE  Precedes(ordering, i, j) /\ i # j
<1>1. ASSUME Precedes(ordering, j, i) PROVE FALSE
  <2>1. /\ Rank(T, ordering, i) \in Nat /\ Rank(T, ordering, j) \in Nat
        /\ Rank(T, ordering, j) <= Rank(T, ordering, i)
    BY <1>1, RanksGrow
  <2> QED
    BY <2>1
<1> QED
  BY <1>1, OrderedById

-----------------------------------------------------------------------------
(* What the steps do to the rows read.                                     *)

\* What a query finds is in the table, in the scope, and matches.
LEMMA FoundRows ==
  ASSUME NEW T, NEW searches \in BOOLEAN
  PROVE  /\ Where(T, searches) \subseteq T \cap Scope
         /\ \A U : U \subseteq T => Where(U, searches) = Where(T, searches) \cap U
         /\ \A x : Where(T \cup {x}, searches) \subseteq
                     Where(T, searches) \cup {x}
         /\ \A x : Where(T, searches) \subseteq Where(T \cup {x}, searches)
BY DEF Where

\* Only a chosen row is found to be of the type of a row.
LEMMA FoundTypes ==
  ASSUME WalkTypeOK, query # Null
  PROVE  /\ query.searches \in BOOLEAN
         /\ Found \subseteq table /\ Found \subseteq 1 .. lastId
         /\ Found \subseteq Ids /\ Found \subseteq Scope
         /\ Cardinality(Found) \in Nat
<1>1. query.searches \in BOOLEAN
  BY DEF WalkTypeOK, Query
<1>2. Found \subseteq table /\ Found \subseteq Scope
  BY <1>1, FoundRows DEF Found
<1>3. Found \subseteq 1 .. lastId /\ 1 .. lastId \subseteq Ids
  BY <1>2, PaginationAssumption DEF WalkTypeOK, Ids
<1> QED
  BY <1>1, <1>2, <1>3, FoundIsFinite

\* The page is a stretch of the rows found, in one of the orders that the
\* database may return them, and it begins where the last page ended.
LEMMA PageIsRead ==
  ASSUME WalkTypeOK, FindMany
  PROVE  /\ data = Null /\ query # Null /\ ~done
         /\ data' # Null /\ data' \in Seq(Found) /\ data' \in Seq(Ids)
         /\ Len(data') = Greatest(0, Least(Offset + pageSize,
                                           Cardinality(Found)) - Offset)
         /\ Offset \in Nat /\ pageSize \in Nat \ {0}
         /\ \E s \in Arrangements(Found, query.ordering) :
              \A j \in 1 .. Len(data') :
                /\ Offset + j \in 1 .. Cardinality(Found)
                /\ data'[j] = s[Offset + j]
<1>1. data = Null /\ query # Null /\ ~done
  BY DEF FindMany, Walking
<1>2. Offset \in Nat /\ pageSize \in Nat \ {0}
  BY <1>1, PageSizeIsPositive, OffsetTypes DEF WalkTypeOK, Offset
<1>3. PICK s \in Arrangements(Found, query.ordering) :
        data' = SubSeq(s, Offset + 1, Least(Offset + pageSize, Len(s)))
  <2> DEFINE q == getPagination(page, query.pageSize)
  <2>1. q.skip = Offset /\ q.take = pageSize
    BY <1>1, PagesAgree
  <2>2. \E s \in Arrangements(Found, query.ordering) :
          data' = SubSeq(s, q.skip + 1, Least(q.skip + q.take, Len(s)))
    BY DEF FindMany, Found
  <2> QED
    BY <2>1, <2>2
<1>4. /\ Found \subseteq Ids /\ Cardinality(Found) \in Nat
      /\ s \in Seq(Found) /\ Len(s) = Cardinality(Found)
  BY <1>1, FoundTypes, ArrangementsEnumerate
<1> DEFINE a == Offset + 1
           z == Least(Offset + pageSize, Cardinality(Found))
<1>5. a \in Nat /\ z \in Nat /\ 1 <= a /\ z <= Cardinality(Found)
  BY <1>2, <1>4 DEF Least
<1>6. data' = SubSeq(s, a, z)
  BY <1>3, <1>4
<1> HIDE DEF a, z
<1>7. \A i \in a .. z : s[i] \in Found
  BY <1>4, <1>5
<1>8. /\ data' \in Seq(Found)
      /\ Len(data') = IF a <= z THEN z - a + 1 ELSE 0
      /\ \A j \in 1 .. z - a + 1 : data'[j] = s[a + j - 1]
  BY <1>5, <1>6, <1>7, SubSeqProperties
<1>9. Len(data') = Greatest(0, z - Offset)
  BY <1>2, <1>5, <1>8 DEF a, Greatest
<1>10. \A j \in 1 .. Len(data') :
         Offset + j \in 1 .. Cardinality(Found) /\ data'[j] = s[Offset + j]
  <2> SUFFICES ASSUME NEW j \in 1 .. Len(data')
               PROVE  /\ Offset + j \in 1 .. Cardinality(Found)
                      /\ data'[j] = s[Offset + j]
    OBVIOUS
  <2>1. a <= z /\ j \in 1 .. z - a + 1
    BY <1>5, <1>8
  <2>2. a + j - 1 = Offset + j
    BY <1>2, <2>1 DEF a
  <2> QED
    BY <1>2, <1>4, <1>5, <1>8, <2>1, <2>2 DEF a
<1>11. data' \in Seq(Ids)
  BY <1>4, <1>8
<1>12. data' # Null
  BY <1>11, PaginationAssumption
<1> QED
  BY <1>1, <1>2, <1>8, <1>9, <1>10, <1>11, <1>12 DEF z

\* Reading a page adds it to the rows and reaches its end.
LEMMA ReadingExtends ==
  ASSUME WalkTypeOK, FindMany
  PROVE  /\ Rows \in Seq(Ids) /\ Rows' \in Seq(Ids)
         /\ Rows' = Rows \o data' /\ Reached' = Reached + pageSize
         /\ Reached = Offset /\ Offset' = Offset /\ pageSize' = pageSize
         /\ Len(Rows') = Len(Rows) + Len(data')
         /\ \A n \in 1 .. Len(Rows) : Rows'[n] = Rows[n]
         /\ \A n \in 1 .. Len(Rows') : n > Len(Rows) =>
              /\ n - Len(Rows) \in 1 .. Len(data')
              /\ Rows'[n] = data'[n - Len(Rows)]
<1>1. /\ data = Null /\ data' # Null /\ data' \in Seq(Ids)
      /\ query' = query /\ page' = page /\ collected' = collected
  BY PageIsRead DEF FindMany
<1>2. Offset' = Offset /\ pageSize' = pageSize
  BY <1>1 DEF Offset, pageSize
<1>3. Rows = collected /\ Rows' = collected \o data'
  BY <1>1 DEF Rows
<1>4. /\ collected \in Seq(Ids)
      /\ Rows' \in Seq(Ids) /\ Len(Rows') = Len(Rows) + Len(data')
      /\ \A n \in 1 .. Len(Rows) + Len(data') :
           Rows'[n] = IF n <= Len(Rows) THEN Rows[n] ELSE data'[n - Len(Rows)]
  BY <1>1, <1>3, ConcatProperties DEF WalkTypeOK
<1>5. Len(Rows) \in Nat /\ Len(data') \in Nat
  BY <1>1, <1>3, <1>4
<1>6. \A n \in 1 .. Len(Rows) : Rows'[n] = Rows[n]
  BY <1>4, <1>5
<1>7. \A n \in 1 .. Len(Rows') : n > Len(Rows) =>
        n - Len(Rows) \in 1 .. Len(data') /\ Rows'[n] = data'[n - Len(Rows)]
  BY <1>4, <1>5
<1> QED
  BY <1>1, <1>2, <1>3, <1>4, <1>6, <1>7 DEF Reached

\* An answer moves the page to the rows collected; the walk goes on when it
\* has not reached the total.
LEMMA AnsweringMoves ==
  ASSUME WalkTypeOK, Answer
  PROVE  /\ query # Null /\ ~done /\ data # Null /\ total \in Nat
         /\ UNCHANGED <<Rows, Found, table, lastId, query, before, events>>
         /\ data' = Null /\ total' = Null /\ collected' = Rows
         /\ Reached \in Nat /\ page \in Nat \ {0} /\ page' \in Nat \ {0}
         /\ \/ done' = FALSE /\ Reached' = Reached /\ Offset' = Reached
               /\ Reached < total
            \/ done' = TRUE /\ page' = page /\ total <= Reached
<1>1. /\ query # Null /\ ~done /\ data # Null /\ total # Null
      /\ UNCHANGED <<table, lastId, query, before, events>>
      /\ data' = Null /\ total' = Null /\ collected' = collected \o data
  BY DEF Answer, Walking, BothRead
<1>2. total \in Nat /\ page \in Nat \ {0} /\ pageSize \in Nat \ {0}
  BY <1>1, PageSizeIsPositive DEF WalkTypeOK
<1>3. Rows' = Rows /\ collected' = Rows /\ Found' = Found /\ pageSize' = pageSize
  BY <1>1 DEF Rows, Found, pageSize
<1>4. Reached = Offset + pageSize /\ Offset \in Nat
  BY <1>1, <1>2, OffsetTypes DEF Reached, Offset
<1>5. CASE nextPage(total) = Null
  <2>1. done' = TRUE /\ page' = page /\ total <= Reached
    BY <1>2, <1>1, <1>4, <1>5, NextPageIsNeeded DEF Answer
  <2> QED
    BY <1>1, <1>2, <1>3, <1>4, <2>1
<1>6. CASE nextPage(total) # Null
  <2>1. page' = page + 1 /\ done' = done /\ Reached < total
    BY <1>1, <1>2, <1>4, <1>6, NextPageIsNeeded DEF Answer
  <2>2. Offset' = Offset + pageSize
    BY <1>2, <1>3, <2>1, OffsetTypes DEF Offset
  <2>3. Reached' = Reached /\ Offset' = Reached
    BY <1>1, <1>4, <2>2 DEF Reached
  <2>4. done' = FALSE
    BY <1>1, <2>1 DEF WalkTypeOK
  <2> QED
    BY <1>1, <1>2, <1>3, <1>4, <2>1, <2>3, <2>4
<1> QED
  BY <1>5, <1>6

-----------------------------------------------------------------------------
(* The steps keep the invariant.                                           *)

LEMMA WalkStarts == Init => WalkInv
<1> SUFFICES ASSUME Init PROVE WalkInv
  OBVIOUS
<1>1. WalkTypeOK
  <2>1. <<>> \in Seq(Ids)
    BY EmptySeq
  <2>2. lastId \in 0 .. MaxId /\ table = 1 .. lastId /\ page = DEFAULT_PAGE
    BY DEF Init
  <2>3. DEFAULT_PAGE \in Nat \ {0}
    BY DEF DEFAULT_PAGE
  <2> QED
    BY <2>1, <2>2, <2>3 DEF Init, WalkTypeOK
<1>2. Rows = <<>>
  BY DEF Init, Rows
<1>3. ScopeHolds /\ SearchHolds
  BY <1>2 DEF ScopeHolds, SearchHolds, RowsIn
<1>4. query = Null
  BY DEF Init
<1> QED
  BY <1>1, <1>3, <1>4 DEF WalkInv, AscendingHolds, NothingIsMissed, StillHolds

\* Types.
LEMMA WalkTypesKeep == WalkTypeOK /\ [Next]_vars => WalkTypeOK'
<1> SUFFICES ASSUME WalkTypeOK, [Next]_vars PROVE WalkTypeOK'
  OBVIOUS
<1>1. CASE UNCHANGED vars
  BY <1>1 DEF WalkTypeOK, vars
<1>2. CASE Begin
  <2>1. query' \in Query /\ query'.searches \in BOOLEAN
    BY <1>2 DEF Begin, Query
  <2>2. before' \subseteq Ids
    BY <1>2, <2>1, FoundRows, PaginationAssumption
       DEF Begin, WalkTypeOK, Ids
  <2> QED
    BY <1>2, <2>1, <2>2 DEF Begin, WalkTypeOK
<1>3. CASE FindMany
  <2>1. data' \in Seq(Ids) /\ query # Null /\ ~done
    BY <1>3, PageIsRead
  <2> QED
    BY <1>3, <2>1 DEF FindMany, WalkTypeOK
<1>4. CASE Count
  <2>1. query # Null /\ ~done
    BY <1>4 DEF Count, Walking
  <2>2. total' \in Nat
    BY <1>4, <2>1, FoundTypes DEF Count, Found
  <2> QED
    BY <1>4, <2>1, <2>2 DEF Count, WalkTypeOK
<1>5. CASE Answer
  <2>1. /\ query # Null /\ page' \in Nat \ {0} /\ done' \in BOOLEAN
        /\ UNCHANGED <<table, lastId, query, before, events>>
        /\ data' = Null /\ total' = Null /\ collected' = Rows
    BY <1>5, AnsweringMoves
  <2>2. Rows \in Seq(Ids)
    BY ConcatProperties DEF WalkTypeOK, Rows
  <2> QED
    BY <2>1, <2>2 DEF WalkTypeOK
<1>6. CASE Insert
  BY <1>6, PaginationAssumption DEF Insert, Walking, WalkTypeOK
<1>7. CASE Delete
  BY <1>7 DEF Delete, Walking, WalkTypeOK
<1> QED
  BY <1>1, <1>2, <1>3, <1>4, <1>5, <1>6, <1>7 DEF Next

\* The steps that leave the rows read alone.
LEMMA RowsStay ==
  ASSUME WalkTypeOK, Begin \/ Count \/ Insert \/ Delete \/ UNCHANGED vars
  PROVE  /\ UNCHANGED <<Rows, done, data, page, collected>>
         /\ query # Null => UNCHANGED <<query, Offset, Reached, before>>
<1>1. UNCHANGED <<data, page, collected, done>>
  BY DEF Begin, Count, Insert, Delete, vars
<1>2. query # Null => UNCHANGED <<query, before>>
  BY DEF Begin, Count, Insert, Delete, vars
<1>3. query # Null => UNCHANGED <<Offset, Reached>>
  BY <1>1, <1>2 DEF Offset, Reached, pageSize
<1> QED
  BY <1>1, <1>2, <1>3 DEF Rows

\* The steps after which the query finds the same rows.
LEMMA FoundStays ==
  ASSUME WalkTypeOK, FindMany \/ Count \/ Answer \/ UNCHANGED vars
  PROVE  Found' = Found
BY DEF FindMany, Count, Answer, vars, Found

\* Inserted rows are found behind the others.
LEMMA InsertedComesLast ==
  ASSUME WalkTypeOK, Insert
  PROVE  /\ query # Null /\ ~done /\ lastId \in Nat /\ lastId' = lastId + 1
         /\ Found \subseteq Found' /\ Found' \subseteq Found \cup {lastId + 1}
         /\ events' = events \cup {"insert"}
<1>1. query # Null /\ ~done /\ query' = query
  BY DEF Insert, Walking
<1>2. query.searches \in BOOLEAN
  BY <1>1, FoundTypes
<1> QED
  BY <1>1, <1>2, FoundRows DEF Insert, Found, WalkTypeOK

\* Deletions only take rows away.
LEMMA DeletedIsGone ==
  ASSUME WalkTypeOK, Delete
  PROVE  /\ query # Null /\ ~done /\ lastId' = lastId
         /\ Found' \subseteq Found /\ events' = events \cup {"delete"}
<1>1. query # Null /\ ~done /\ query' = query
  BY DEF Delete, Walking
<1>2. query.searches \in BOOLEAN /\ table' \subseteq table
  BY <1>1, FoundTypes DEF Delete
<1>3. Found' = Found \cap table'
  BY <1>1, <1>2, FoundRows DEF Found
<1> QED
  BY <1>1, <1>3 DEF Delete

\* A search that is applied restricts what is found.
LEMMA ScopeStep == WalkTypeOK /\ ScopeHolds /\ [Next]_vars => ScopeHolds'
<1> SUFFICES ASSUME WalkTypeOK, ScopeHolds, [Next]_vars PROVE ScopeHolds'
  OBVIOUS
<1>1. CASE Begin \/ Count \/ Insert \/ Delete \/ UNCHANGED vars
  BY <1>1, RowsStay DEF ScopeHolds, RowsIn
<1>2. CASE FindMany
  <2>1. /\ \A n \in 1 .. Len(Rows) : Rows'[n] = Rows[n]
        /\ \A n \in 1 .. Len(Rows') : n > Len(Rows) =>
             n - Len(Rows) \in 1 .. Len(data') /\ Rows'[n] = data'[n - Len(Rows)]
        /\ Rows \in Seq(Ids) /\ Rows' \in Seq(Ids)
    BY <1>2, ReadingExtends
  <2>2. data' \in Seq(Found) /\ Found \subseteq Scope
    BY <1>2, PageIsRead, FoundTypes
  <2>3. ASSUME NEW n \in 1 .. Len(Rows') PROVE Rows'[n] \in Scope
    <3>1. CASE n <= Len(Rows)
      BY <2>1, <2>3, <3>1 DEF ScopeHolds, RowsIn
    <3>2. CASE n > Len(Rows)
      BY <2>1, <2>2, <2>3, <3>2
    <3> QED
      BY <2>1, <2>3, <3>1, <3>2
  <2> QED
    BY <2>1, <2>3 DEF ScopeHolds, RowsIn
<1>3. CASE Answer
  BY <1>3, AnsweringMoves DEF ScopeHolds, RowsIn
<1> QED
  BY <1>1, <1>2, <1>3 DEF Next

\* The name of a model of one word is found in the schema.
SearchIsPossible == Len(Model) = 1 /\ StringFields # {}

LEMMA SearchStep ==
  ASSUME SearchIsPossible
  PROVE  WalkTypeOK /\ SearchHolds /\ [Next]_vars => SearchHolds'
<1> SUFFICES ASSUME WalkTypeOK, SearchHolds, [Next]_vars,
                    query' # Null, query'.searches
             PROVE  RowsIn(Rows)' \subseteq Matching
  BY DEF SearchHolds
<1>1. CASE Begin
  <2>1. Rows = <<>> /\ Rows' = Rows
    BY <1>1, RowsStay DEF Begin, WalkTypeOK, Rows
  <2> QED
    BY <2>1 DEF RowsIn
<1>2. CASE Count \/ Insert \/ Delete \/ UNCHANGED vars
  <2>1. query' = query /\ Rows' = Rows
    BY <1>2, RowsStay DEF Count, Insert, Delete, vars
  <2> QED
    BY <2>1 DEF SearchHolds, RowsIn
<1>3. CASE FindMany
  <2>1. /\ \A n \in 1 .. Len(Rows) : Rows'[n] = Rows[n]
        /\ \A n \in 1 .. Len(Rows') : n > Len(Rows) =>
             n - Len(Rows) \in 1 .. Len(data') /\ Rows'[n] = data'[n - Len(Rows)]
        /\ Rows \in Seq(Ids) /\ Rows' \in Seq(Ids)
    BY <1>3, ReadingExtends
  <2>2. query' = query /\ data' \in Seq(Found)
    BY <1>3, PageIsRead DEF FindMany
  <2>3. Found \subseteq Matching
    BY <2>2 DEF Found, Where, SearchIsPossible, DatamodelName, toPrismaModelName
  <2>4. ASSUME NEW n \in 1 .. Len(Rows') PROVE Rows'[n] \in Matching
    <3>1. CASE n <= Len(Rows)
      BY <2>1, <2>2, <2>4, <3>1 DEF SearchHolds, RowsIn
    <3>2. CASE n > Len(Rows)
      BY <2>1, <2>2, <2>3, <2>4, <3>2
    <3> QED
      BY <2>1, <2>4, <3>1, <3>2
  <2> QED
    BY <2>1, <2>4 DEF RowsIn
<1>4. CASE Answer
  BY <1>4, AnsweringMoves DEF SearchHolds, RowsIn
<1> QED
  BY <1>1, <1>2, <1>3, <1>4 DEF Next

-----------------------------------------------------------------------------
(* Ascending walks.                                                        *)

\* The ascending rank of a row does not grow when rows with larger ids come,
\* and when rows go.
LEMMA AscendingRanksFall ==
  ASSUME WalkTypeOK, Insert \/ Delete, NEW x \in Ids, x <= lastId
  PROVE  /\ Rank(Found', "id", x) \in Nat
         /\ Rank(Found', "id", x) <= Rank(Found, "id", x)
         /\ x <= lastId'
<1>1. lastId \in Nat /\ Found \subseteq Ids /\ query # Null
  BY FoundTypes, InsertedComesLast, DeletedIsGone DEF WalkTypeOK
<1>2. x \in Int
  BY PaginationAssumption DEF Ids
<1>3. \A k \in Found' : Precedes("id", k, x) => k \in Found
  <2>1. CASE Insert
    <3>1. Found' \subseteq Found \cup {lastId + 1}
      BY <2>1, InsertedComesLast
    <3>2. ~Precedes("id", lastId + 1, x)
      BY <1>1, <1>2 DEF Precedes
    <3> QED
      BY <3>1, <3>2
  <2>2. CASE Delete
    BY <2>2, DeletedIsGone
  <2> QED
    BY <2>1, <2>2
<1>4. x <= lastId'
  BY <1>1, <1>2, InsertedComesLast, DeletedIsGone
<1> QED
  BY <1>1, <1>3, <1>4, RanksShrink

\* The rows of a page have the ranks behind those of the pages before.
LEMMA PageRanks ==
  ASSUME WalkTypeOK, FindMany, query.ordering \in {"id", "-id"},
         NEW j \in 1 .. Len(data')
  PROVE  /\ data'[j] \in Found
         /\ Rank(Found, query.ordering, data'[j]) = Offset + j
<1>1. PICK s \in Arrangements(Found, query.ordering) :
        \A i \in 1 .. Len(data') :
          Offset + i \in 1 .. Cardinality(Found) /\ data'[i] = s[Offset + i]
  BY PageIsRead
<1>2. Found \subseteq Ids /\ data' \in Seq(Found)
  BY PageIsRead, FoundTypes
<1>3. Offset + j \in 1 .. Cardinality(Found) /\ data'[j] = s[Offset + j]
  BY <1>1
<1>4. Rank(Found, query.ordering, s[Offset + j]) = Offset + j
  BY <1>2, <1>3, ArrangementRanks
<1> QED
  BY <1>2, <1>3, <1>4

LEMMA AscendingStep ==
  WalkTypeOK /\ AscendingHolds /\ [Next]_vars => AscendingHolds'
<1> SUFFICES ASSUME WalkTypeOK, AscendingHolds, [Next]_vars,
                    query' # Null, query'.ordering = "id"
             PROVE  /\ \A m, n \in DOMAIN Rows' : m < n => Rows'[m] < Rows'[n]
                    /\ ~done' => \A n \in DOMAIN Rows' :
                         /\ Rows'[n] <= lastId'
                         /\ Rank(Found', "id", Rows'[n]) <= Reached'
  BY DEF AscendingHolds
<1>0. Rows \in Seq(Ids) /\ DOMAIN Rows = 1 .. Len(Rows) /\ Len(Rows) \in Nat
  BY ConcatProperties DEF WalkTypeOK, Rows
<1>1. CASE Begin
  <2>1. Rows = <<>> /\ Rows' = Rows
    BY <1>1, RowsStay DEF Begin, WalkTypeOK, Rows
  <2> QED
    BY <2>1
<1>2. CASE Count \/ UNCHANGED vars
  <2>1. query' = query
    BY <1>2 DEF Count, vars
  <2>2. UNCHANGED <<Rows, done, Reached, Found, lastId>>
    BY <1>2, <2>1, RowsStay, FoundStays DEF Count, vars
  <2> QED
    BY <2>1, <2>2 DEF AscendingHolds
<1>3. CASE FindMany
  <2>1. /\ query' = query /\ lastId' = lastId /\ done' = done /\ ~done
        /\ query # Null /\ Found' = Found
    BY <1>3, PageIsRead, FoundStays DEF FindMany
  <2>2. /\ Rows' \in Seq(Ids) /\ Reached = Offset /\ Reached' = Reached + pageSize
        /\ Len(Rows') = Len(Rows) + Len(data')
        /\ \A n \in 1 .. Len(Rows) : Rows'[n] = Rows[n]
        /\ \A n \in 1 .. Len(Rows') : n > Len(Rows) =>
             n - Len(Rows) \in 1 .. Len(data') /\ Rows'[n] = data'[n - Len(Rows)]
    BY <1>3, ReadingExtends
  <2>3. /\ Offset \in Nat /\ pageSize \in Nat \ {0} /\ Cardinality(Found) \in Nat
        /\ Len(data') = Greatest(0, Least(Offset + pageSize, Cardinality(Found))
                                      - Offset)
    BY <1>3, <2>1, PageIsRead, FoundTypes
  <2>4. Len(data') \in Nat /\ Len(data') <= pageSize
    BY <2>3 DEF Greatest, Least
  <2>5. \A j \in 1 .. Len(data') :
          data'[j] \in Found /\ Rank(Found, "id", data'[j]) = Offset + j
    BY <1>3, <2>1, PageRanks
  <2>6. Found \subseteq 1 .. lastId /\ Found \subseteq Ids /\ lastId \in Nat
    BY <2>1, FoundTypes DEF WalkTypeOK
  <2>7. \A m, n \in 1 .. Len(Rows) : m < n => Rows[m] < Rows[n]
    BY <1>0, <2>1 DEF AscendingHolds
  <2>8. \A n \in 1 .. Len(Rows) :
          Rows[n] <= lastId /\ Rank(Found, "id", Rows[n]) <= Reached
    BY <1>0, <2>1 DEF AscendingHolds
  <2>9. \A n \in 1 .. Len(Rows) : Rows[n] \in Ids
    BY <1>0
  \* The rows of the page have higher ranks than those before it.
  <2>10. \A n \in 1 .. Len(Rows) : \A j \in 1 .. Len(data') :
           Rows[n] < data'[j]
    <3> SUFFICES ASSUME NEW n \in 1 .. Len(Rows), NEW j \in 1 .. Len(data')
                 PROVE  Rows[n] < data'[j]
      OBVIOUS
    <3>1. Rows[n] \in Ids /\ data'[j] \in Ids
      BY <2>5, <2>6, <2>9
    <3>2. Rank(Found, "id", Rows[n]) \in Nat
      BY <2>6, RanksAreBounded
    <3>3. Rank(Found, "id", Rows[n]) < Rank(Found, "id", data'[j])
      BY <2>2, <2>3, <2>5, <2>8, <3>2
    <3>4. Precedes("id", Rows[n], data'[j]) /\ Rows[n] # data'[j]
      BY <2>6, <3>1, <3>3, RanksTellApart
    <3> QED
      BY <3>1, <3>4, PaginationAssumption DEF Precedes, Ids
  <2>11. \A i, j \in 1 .. Len(data') : i < j => data'[i] < data'[j]
    <3> SUFFICES ASSUME NEW i \in 1 .. Len(data'), NEW j \in 1 .. Len(data'),
                        i < j
                 PROVE  data'[i] < data'[j]
      OBVIOUS
    <3>1. data'[i] \in Ids /\ data'[j] \in Ids
      BY <2>5, <2>6
    <3>2. Rank(Found, "id", data'[i]) < Rank(Found, "id", data'[j])
      BY <2>3, <2>5
    <3>3. Precedes("id", data'[i], data'[j]) /\ data'[i] # data'[j]
      BY <2>6, <3>1, <3>2, RanksTellApart
    <3> QED
      BY <3>1, <3>3, PaginationAssumption DEF Precedes, Ids
  <2>12. DOMAIN Rows' = 1 .. Len(Rows')
    BY <2>2
  <2>13. ASSUME NEW m \in 1 .. Len(Rows'), NEW n \in 1 .. Len(Rows'), m < n
         PROVE  Rows'[m] < Rows'[n]
    <3>1. CASE n <= Len(Rows)
      BY <1>0, <2>2, <2>7, <2>13, <3>1
    <3>2. CASE m <= Len(Rows) /\ n > Len(Rows)
      BY <1>0, <2>2, <2>10, <2>13, <3>2
    <3>3. CASE m > Len(Rows)
      <4>1. /\ m - Len(Rows) \in 1 .. Len(data')
            /\ Rows'[m] = data'[m - Len(Rows)]
        BY <2>2, <2>13, <3>3
      <4>2. /\ n - Len(Rows) \in 1 .. Len(data')
            /\ Rows'[n] = data'[n - Len(Rows)]
        BY <1>0, <2>2, <2>13, <3>3
      <4>3. m - Len(Rows) < n - Len(Rows)
        BY <1>0, <2>13
      <4> QED
        BY <2>11, <4>1, <4>2, <4>3
    <3> QED
      BY <1>0, <2>2, <2>4, <2>13, <3>1, <3>2, <3>3
  <2>14. ASSUME NEW n \in 1 .. Len(Rows')
         PROVE  /\ Rows'[n] <= lastId'
                /\ Rank(Found', "id", Rows'[n]) <= Reached'
    <3>1. CASE n <= Len(Rows)
      <4>1. n \in 1 .. Len(Rows) /\ Rows'[n] = Rows[n]
        BY <1>0, <2>2, <2>14, <3>1
      <4>2. Rank(Found, "id", Rows[n]) \in Nat
        BY <2>6, RanksAreBounded
      <4> QED
        BY <2>1, <2>2, <2>3, <2>8, <4>1, <4>2
    <3>2. CASE n > Len(Rows)
      <4>1. PICK j \in 1 .. Len(data') : Rows'[n] = data'[j]
        BY <2>2, <2>14, <3>2
      <4>2. data'[j] \in Found /\ Rank(Found, "id", data'[j]) = Offset + j
        BY <2>5
      <4>3. data'[j] \in 1 .. lastId
        BY <2>6, <4>2
      <4>4. Offset + j <= Offset + pageSize
        BY <2>3, <2>4
      <4> QED
        BY <2>1, <2>2, <2>6, <4>1, <4>2, <4>3, <4>4
    <3> QED
      BY <1>0, <2>2, <2>4, <2>14, <3>1, <3>2
  <2> QED
    BY <2>12, <2>13, <2>14
<1>4. CASE Answer
  <2>1. /\ query # Null /\ ~done /\ UNCHANGED <<Rows, Found, lastId, query>>
        /\ done' = TRUE \/ Reached' = Reached
    BY <1>4, AnsweringMoves
  <2> QED
    BY <2>1 DEF AscendingHolds
<1>5. CASE Insert \/ Delete
  <2>1. query # Null /\ ~done
    BY <1>5, InsertedComesLast, DeletedIsGone
  <2>2. UNCHANGED <<Rows, done, query, Reached>>
    BY <1>5, <2>1, RowsStay
  <2>3. /\ \A m, n \in DOMAIN Rows : m < n => Rows[m] < Rows[n]
        /\ \A n \in DOMAIN Rows :
             Rows[n] <= lastId /\ Rank(Found, "id", Rows[n]) <= Reached
    BY <2>1, <2>2 DEF AscendingHolds
  <2>4. ASSUME NEW n \in DOMAIN Rows
        PROVE  /\ Rows[n] <= lastId'
               /\ Rank(Found', "id", Rows[n]) <= Reached
    <3>1. Rows[n] \in Ids
      BY <1>0
    <3>2. /\ Rank(Found', "id", Rows[n]) \in Nat /\ Rows[n] <= lastId'
          /\ Rank(Found', "id", Rows[n]) <= Rank(Found, "id", Rows[n])
      BY <1>5, <2>3, <3>1, AscendingRanksFall
    <3>3. Rank(Found, "id", Rows[n]) \in Nat /\ Reached \in Int
      <4>1. pageSize \in Nat \ {0} /\ page \in Nat \ {0}
        BY <2>1, PageSizeIsPositive DEF WalkTypeOK
      <4>2. Reached \in Int
        BY <4>1, OffsetTypes DEF Reached, Offset
      <4> QED
        BY <2>1, <4>2, FoundTypes, RanksAreBounded
    <3> QED
      BY <2>3, <3>2, <3>3
  <2> QED
    BY <2>2, <2>3, <2>4
<1> QED
  BY <1>1, <1>2, <1>3, <1>4, <1>5 DEF Next

-----------------------------------------------------------------------------
(* Walks during which nothing is deleted.                                  *)

\* A row has at least rank 1.
LEMMA RanksArePositive ==
  ASSUME NEW T, T \subseteq Ids, NEW b \in T
  PROVE  Rank(T, "id", b) \in Nat \ {0}
<1> DEFINE V == {i \in T : Precedes("id", i, b)}
<1>1. b \in V
  BY PaginationAssumption DEF Precedes, Ids
<1>2. IsFiniteSet(V) /\ Cardinality(V) \in Nat
  BY FoundIsFinite
<1>3. Cardinality(V) # 0
  BY <1>1, <1>2, FS_EmptySet
<1> QED
  BY <1>2, <1>3 DEF Rank

\* The page of a walk that begins is the first.
LEMMA FirstPage ==
  ASSUME WalkTypeOK, Begin
  PROVE  /\ Rows' = <<>> /\ Reached' = 0 /\ ~done' /\ total' = Null
         /\ page' = 1 /\ events' = {} /\ Found' = before'
         /\ query' \in Query
<1>1. /\ query = Null /\ query' \in Query
      /\ UNCHANGED <<table, lastId, page, data, total, collected, done, events>>
      /\ before' = Where(table, query'.searches)
  BY DEF Begin
<1>2. /\ data' = Null /\ total' = Null /\ page' = 1 /\ collected' = <<>>
      /\ ~done' /\ events' = {}
  BY <1>1 DEF WalkTypeOK, DEFAULT_PAGE
<1>3. pageSize' \in Nat \ {0}
  BY <1>1, PaginationAssumption DEF Query, pageSize, Least, Greatest
<1>4. Reached' = 0
  <2>1. \A z \in Nat : (1 - 1) * z = 0
    OBVIOUS
  <2>2. (page' - 1) * pageSize' = 0
    BY <1>2, <1>3, <2>1
  <2> QED
    BY <1>2, <2>2 DEF Reached, Offset
<1>5. Found' = before'
  BY <1>1 DEF Found
<1> QED
  BY <1>1, <1>2, <1>4, <1>5 DEF Rows

LEMMA MissingStep ==
  WalkTypeOK /\ NothingIsMissed /\ [Next]_vars => NothingIsMissed'
<1> SUFFICES ASSUME WalkTypeOK, NothingIsMissed, [Next]_vars, query' # Null,
                    query'.ordering = "id", "delete" \notin events'
             PROVE  /\ before' \subseteq Found'
                    /\ \A i \in Found' \ before' : \A b \in before' : b < i
                    /\ total' # Null => Cardinality(before') <= total'
                    /\ ~done' => \A b \in before' :
                         Rank(before', "id", b) <= Reached' => b \in RowsIn(Rows')
                    /\ done' => before' \subseteq RowsIn(collected')
  BY DEF NothingIsMissed, RowsIn
<1>0. before \subseteq Ids /\ IsFiniteSet(before) /\ Cardinality(before) \in Nat
  BY FoundIsFinite DEF WalkTypeOK
<1>1. CASE Begin
  <2>1. /\ Rows' = <<>> /\ Reached' = 0 /\ ~done' /\ total' = Null
        /\ Found' = before'
    BY <1>1, FirstPage
  <2>2. before' \subseteq Ids
    BY <1>1, WalkTypesKeep DEF WalkTypeOK
  <2>3. \A b \in before' : Rank(before', "id", b) \in Nat \ {0}
    BY <2>2, RanksArePositive
  <2>4. \A b \in before' : ~(Rank(before', "id", b) <= Reached')
    BY <2>1, <2>3
  <2> QED
    BY <2>1, <2>4
<1> DEFINE Core ==
      /\ before \subseteq Found
      /\ \A i \in Found \ before : \A b \in before : b < i
      /\ total # Null => Cardinality(before) <= total
      /\ ~done => \A b \in before :
           Rank(before, "id", b) <= Reached => b \in RowsIn(Rows)
      /\ done => before \subseteq RowsIn(collected)
<1>2. CASE Count
  <2>1. /\ query # Null /\ query' = query /\ ~done /\ events' = events
        /\ total' = Cardinality(Found)
    BY <1>2 DEF Count, Walking, Found
  <2>2. Core
    BY <2>1 DEF NothingIsMissed
  <2>3. UNCHANGED <<Rows, done, Reached, Found, before, collected>>
    BY <1>2, <2>1, RowsStay, FoundStays
  <2>4. Cardinality(before) <= total'
    BY <2>1, <2>2, FoundTypes, FoundIsFinite, FS_Subset
  <2> QED
    BY <2>2, <2>3, <2>4
<1>3. CASE UNCHANGED vars
  <2>1. query' = query /\ events' = events /\ total' = total
    BY <1>3 DEF vars
  <2>2. UNCHANGED <<Rows, done, Reached, Found, before, collected>>
    BY <1>3, <2>1, RowsStay, FoundStays
  <2> QED
    BY <2>1, <2>2 DEF NothingIsMissed
<1>4. CASE FindMany
  <2>1. /\ query' = query /\ query # Null /\ done' = done /\ ~done
        /\ Found' = Found /\ UNCHANGED <<before, total, events, collected>>
    BY <1>4, PageIsRead, FoundStays DEF FindMany
  <2>2. Core
    BY <2>1 DEF NothingIsMissed
  <2>3. /\ Rows \in Seq(Ids) /\ Rows' \in Seq(Ids)
        /\ Rows' = Rows \o data' /\ Reached = Offset
        /\ Reached' = Reached + pageSize
    BY <1>4, ReadingExtends
  <2>4. /\ Offset \in Nat /\ pageSize \in Nat \ {0} /\ data' \in Seq(Ids)
        /\ Len(data') = Greatest(0, Least(Offset + pageSize, Cardinality(Found))
                                      - Offset)
        /\ Found \subseteq Ids /\ Cardinality(Found) \in Nat
    BY <1>4, <2>1, PageIsRead, FoundTypes
  <2>5. PICK s \in Arrangements(Found, "id") :
          \A j \in 1 .. Len(data') : data'[j] = s[Offset + j]
    BY <1>4, <2>1, PageIsRead
  <2>6. ASSUME NEW b \in before, Rank(before, "id", b) <= Reached'
        PROVE  b \in RowsIn(Rows')
    <3>1. CASE Rank(before, "id", b) <= Reached
      <4>1. PICK n \in DOMAIN Rows : Rows[n] = b
        BY <2>1, <2>2, <2>6, <3>1 DEF RowsIn
      <4>2. n \in DOMAIN Rows' /\ Rows'[n] = b
        BY <2>3, <2>4, <4>1
      <4> QED
        BY <4>2 DEF RowsIn
    <3>2. CASE ~(Rank(before, "id", b) <= Reached)
      <4>1. PICK k \in 1 .. Cardinality(Found) : s[k] = b
        BY <2>2, <2>4, <2>6, ArrangementsEnumerate
      <4>2. Rank(Found, "id", b) = k
        BY <2>4, <2>5, <4>1, ArrangementRanks
      \* The rows that came since do not precede b.
      <4>3. {i \in Found : Precedes("id", i, b)}
              = {i \in before : Precedes("id", i, b)}
        <5>1. \A i \in Found \ before : ~Precedes("id", i, b)
          <6> SUFFICES ASSUME NEW i \in Found \ before PROVE ~(i <= b)
            BY DEF Precedes
          <6>1. b < i /\ b \in Int /\ i \in Int
            BY <1>0, <2>2, <2>4, <2>6, PaginationAssumption DEF Ids
          <6> QED
            BY <6>1
        <5> QED
          BY <2>2, <5>1
      <4>4. Rank(before, "id", b) = k
        BY <4>2, <4>3 DEF Rank
      <4> DEFINE j == k - Offset
      <4>5. j \in 1 .. Len(data') /\ Offset + j = k
        BY <2>3, <2>4, <2>6, <3>2, <4>1, <4>4 DEF Greatest, Least
      <4>6. data'[j] = b
        BY <2>5, <4>1, <4>5
      <4>7. /\ Len(Rows) + j \in DOMAIN Rows'
            /\ Rows'[Len(Rows) + j] = b
        BY <2>3, <2>4, <4>5, <4>6
      <4> QED
        BY <4>7 DEF RowsIn
    <3> QED
      BY <3>1, <3>2
  <2> QED
    BY <2>1, <2>2, <2>6
<1>5. CASE Answer
  <2>1. /\ query # Null /\ ~done /\ total \in Nat /\ Reached \in Nat
        /\ UNCHANGED <<Rows, Found, query, before, events>>
        /\ total' = Null /\ collected' = Rows
        /\ \/ done' = FALSE /\ Reached' = Reached
           \/ done' = TRUE /\ total <= Reached
    BY <1>5, AnsweringMoves
  <2>2. Core
    BY <2>1 DEF NothingIsMissed
  <2>3. total # Null
    BY <2>1, PaginationAssumption
  <2>4. ASSUME total <= Reached, NEW b \in before PROVE b \in RowsIn(Rows)
    <3>1. /\ Rank(before, "id", b) \in Nat
          /\ Rank(before, "id", b) <= Cardinality(before)
      BY <1>0, RanksAreBounded
    <3>2. Rank(before, "id", b) <= Reached
      BY <1>0, <2>1, <2>2, <2>3, <2>4, <3>1
    <3> QED
      BY <2>1, <2>2, <3>2
  <2> QED
    BY <2>1, <2>2, <2>4
<1>6. CASE Insert
  <2>1. /\ query # Null /\ ~done /\ lastId \in Nat
        /\ Found \subseteq Found' /\ Found' \subseteq Found \cup {lastId + 1}
        /\ events' = events \cup {"insert"}
    BY <1>6, InsertedComesLast
  <2>2. UNCHANGED <<query, Rows, done, Reached, before, collected, total>>
    BY <1>6, <2>1, RowsStay DEF Insert
  <2>3. Core
    BY <2>1, <2>2 DEF NothingIsMissed
  <2>4. \A b \in before : b < lastId + 1
    <3>1. before \subseteq 1 .. lastId
      BY <2>1, <2>3, FoundTypes
    <3> QED
      BY <2>1, <3>1
  <2>5. \A i \in Found' \ before : \A b \in before : b < i
    BY <2>1, <2>3, <2>4
  <2> QED
    BY <2>1, <2>2, <2>3, <2>5
<1>7. CASE Delete
  BY <1>7, DeletedIsGone
<1> QED
  BY <1>1, <1>2, <1>3, <1>4, <1>5, <1>6, <1>7 DEF Next

-----------------------------------------------------------------------------
(* Walks over a table that stands still.                                   *)

LEMMA StillStep == WalkTypeOK /\ StillHolds /\ [Next]_vars => StillHolds'
<1> DEFINE Placed(rows, from, ordering) ==
             ordering \in {"id", "-id"} =>
               \A n \in DOMAIN rows :
                 rows[n] \in from /\ Rank(from, ordering, rows[n]) = n
<1> SUFFICES ASSUME WalkTypeOK, StillHolds, [Next]_vars,
                    query' # Null, events' = {}
             PROVE  /\ Found' = before'
                    /\ total' # Null => total' = Cardinality(before')
                    /\ Len(Rows') = IF done' THEN Cardinality(before')
                                    ELSE Least(Reached', Cardinality(before'))
                    /\ ~done' => page' = 1 \/ Offset' < Cardinality(before')
                    /\ Placed(Rows', before', query'.ordering)
  BY DEF StillHolds
<1>0. before \subseteq Ids /\ Cardinality(before) \in Nat
  BY FoundIsFinite DEF WalkTypeOK
<1> DEFINE Core ==
      /\ Found = before
      /\ total # Null => total = Cardinality(before)
      /\ Len(Rows) = IF done THEN Cardinality(before)
                     ELSE Least(Reached, Cardinality(before))
      /\ ~done => page = 1 \/ Offset < Cardinality(before)
      /\ Placed(Rows, before, query.ordering)
<1>1. CASE Begin
  <2>1. /\ Rows' = <<>> /\ Reached' = 0 /\ ~done' /\ total' = Null
        /\ Found' = before' /\ page' = 1
    BY <1>1, FirstPage
  <2>2. Cardinality(before') \in Nat
    <3>1. before' \subseteq Ids
      BY <1>1, WalkTypesKeep DEF WalkTypeOK
    <3> QED
      BY <3>1, FoundIsFinite
  <2>3. Len(Rows') = Least(Reached', Cardinality(before'))
    BY <2>1, <2>2 DEF Least
  <2> QED
    BY <2>1, <2>3
<1>2. CASE Count \/ UNCHANGED vars
  <2>1. query # Null /\ query' = query /\ events' = events
    BY <1>2 DEF Count, Walking, vars
  <2>2. Core
    BY <2>1 DEF StillHolds
  <2>3. UNCHANGED <<Rows, done, Reached, Offset, Found, before, page>>
    BY <1>2, <2>1, RowsStay, FoundStays
  <2>4. total' = Cardinality(Found) \/ total' = total
    BY <1>2 DEF Count, Found, vars
  <2> HIDE DEF Placed
  <2> QED
    BY <2>1, <2>2, <2>3, <2>4
<1>3. CASE FindMany
  <2>1. /\ query' = query /\ query # Null /\ done' = done /\ ~done
        /\ Found' = Found /\ UNCHANGED <<before, total, events, page>>
    BY <1>3, PageIsRead, FoundStays DEF FindMany
  <2>2. Core
    BY <2>1 DEF StillHolds
  <2>3. /\ Rows \in Seq(Ids) /\ Rows' \in Seq(Ids)
        /\ Rows' = Rows \o data' /\ Reached = Offset /\ Offset' = Offset
        /\ Reached' = Reached + pageSize
        /\ Len(Rows') = Len(Rows) + Len(data')
        /\ \A n \in 1 .. Len(Rows) : Rows'[n] = Rows[n]
        /\ \A n \in 1 .. Len(Rows') : n > Len(Rows) =>
             n - Len(Rows) \in 1 .. Len(data') /\ Rows'[n] = data'[n - Len(Rows)]
    BY <1>3, ReadingExtends
  <2>4. /\ Offset \in Nat /\ pageSize \in Nat \ {0} /\ data' \in Seq(Ids)
        /\ Len(data') = Greatest(0, Least(Offset + pageSize, Cardinality(before))
                                      - Offset)
    BY <1>3, <2>2, PageIsRead
  <2>5. page = 1 => Offset = 0
    BY <2>1, PageSizeIsPositive, OffsetTypes DEF WalkTypeOK, Offset
  <2>6. Len(Rows) = Offset /\ Offset <= Cardinality(before)
    BY <1>0, <2>1, <2>2, <2>3, <2>4, <2>5 DEF Least
  <2>7. Len(Rows') = Least(Reached', Cardinality(before))
    BY <1>0, <2>3, <2>4, <2>6 DEF Least, Greatest
  <2>8. ASSUME query.ordering \in {"id", "-id"}, NEW n \in DOMAIN Rows'
        PROVE  /\ Rows'[n] \in before
               /\ Rank(before, query.ordering, Rows'[n]) = n
    <3>1. n \in 1 .. Len(Rows')
      BY <2>3, <2>8
    <3>2. CASE n <= Len(Rows)
      <4>1. n \in DOMAIN Rows /\ Rows'[n] = Rows[n]
        BY <2>3, <3>1, <3>2
      <4> QED
        BY <2>2, <2>8, <4>1
    <3>3. CASE n > Len(Rows)
      <4>1. /\ n - Offset \in 1 .. Len(data')
            /\ Rows'[n] = data'[n - Offset]
        BY <2>3, <2>6, <3>1, <3>3
      <4>2. /\ data'[n - Offset] \in before
            /\ Rank(before, query.ordering, data'[n - Offset])
                 = Offset + (n - Offset)
        BY <1>3, <2>2, <2>8, <4>1, PageRanks
      <4>3. Offset + (n - Offset) = n
        BY <2>4, <3>1
      <4> QED
        BY <4>1, <4>2, <4>3
    <3> QED
      BY <2>3, <3>1, <3>2, <3>3
  <2>9. Placed(Rows', before, query.ordering)
    BY <2>8
  <2> HIDE DEF Placed
  <2> QED
    BY <2>1, <2>2, <2>3, <2>7, <2>9
<1>4. CASE Answer
  <2>1. /\ query # Null /\ ~done /\ total \in Nat /\ Reached \in Nat
        /\ UNCHANGED <<Rows, Found, query, before, events>>
        /\ total' = Null
        /\ \/ done' = FALSE /\ Reached' = Reached /\ Offset' = Reached
              /\ Reached < total
           \/ done' = TRUE /\ total <= Reached
    BY <1>4, AnsweringMoves
  <2>2. Core
    BY <2>1 DEF StillHolds
  <2>3. total = Cardinality(before)
    BY <2>1, <2>2, PaginationAssumption
  <2> HIDE DEF Placed
  <2>4. Len(Rows) = Least(Reached, Cardinality(before))
    BY <2>1, <2>2
  <2>5. done' = TRUE => Len(Rows) = Cardinality(before)
    BY <1>0, <2>1, <2>3, <2>4 DEF Least
  <2> QED
    BY <2>1, <2>2, <2>3, <2>4, <2>5
<1>5. CASE Insert
  BY <1>5, InsertedComesLast
<1>6. CASE Delete
  BY <1>6, DeletedIsGone
<1> QED
  BY <1>1, <1>2, <1>3, <1>4, <1>5, <1>6 DEF Next

\* Rows at the places of their ranks are an arrangement.
LEMMA PlacedRowsAreArranged ==
  ASSUME NEW T, T \subseteq Ids, NEW ordering \in {"id", "-id"},
         NEW rows \in Seq(Ids), Len(rows) = Cardinality(T),
         \A n \in DOMAIN rows :
           rows[n] \in T /\ Rank(T, ordering, rows[n]) = n
  PROVE  rows \in Arrangements(T, ordering)
<1> DEFINE N == Cardinality(T)
<1>1. N \in Nat /\ DOMAIN rows = 1 .. N
  BY FoundIsFinite
<1>2. rows \in [1 .. N -> T]
  BY <1>1
<1>3. \A i, j \in 1 .. N : i # j => rows[i] # rows[j]
  BY <1>1
<1>4. rows \in SetToSeqs(T)
  BY <1>2, <1>3 DEF SetToSeqs
<1>5. ASSUME NEW m \in DOMAIN rows, NEW n \in DOMAIN rows, m < n
      PROVE  Precedes(ordering, rows[m], rows[n])
  <2>1. rows[m] \in Ids /\ rows[n] \in Ids
    OBVIOUS
  <2>2. Rank(T, ordering, rows[m]) < Rank(T, ordering, rows[n])
    BY <1>5
  <2> QED
    BY <2>1, <2>2, RanksTellApart
<1> QED
  BY <1>4, <1>5 DEF Arrangements

-----------------------------------------------------------------------------
(* The theorems.                                                           *)

\* The invariant without the search, which not every model has.
CoreInv ==
  WalkTypeOK /\ ScopeHolds /\ AscendingHolds /\ NothingIsMissed /\ StillHolds

THEOREM WalkInvariant == Spec => []CoreInv
<1>1. Init => CoreInv
  BY WalkStarts DEF WalkInv, CoreInv
<1>2. CoreInv /\ [Next]_vars => CoreInv'
  BY WalkTypesKeep, ScopeStep, AscendingStep, MissingStep, StillStep DEF CoreInv
<1> QED
  BY <1>1, <1>2, PTL DEF Spec

\* A walk over a table that stands still returns as many rows as there are,
\* and every one of them in the order asked for when that is by id: paginate
\* and the interceptor cut the pages alike, for every size of page and table.
THEOREM StillWalksAreExact == Spec => []StillWalkIsExact
<1>1. CoreInv => StillWalkIsExact
  <2> SUFFICES ASSUME CoreInv, done, events = {}
               PROVE  /\ Len(collected) = Cardinality(before)
                      /\ query.ordering \in {"id", "-id"} =>
                           collected \in Arrangements(before, query.ordering)
    BY DEF StillWalkIsExact
  <2>1. query # Null /\ Rows = collected /\ collected \in Seq(Ids)
        /\ before \subseteq Ids
    BY DEF CoreInv, WalkTypeOK, Rows
  <2>2. /\ Len(collected) = Cardinality(before)
        /\ query.ordering \in {"id", "-id"} =>
             \A n \in DOMAIN collected :
               /\ collected[n] \in before
               /\ Rank(before, query.ordering, collected[n]) = n
    BY <2>1 DEF CoreInv, StillHolds
  <2> QED
    BY <2>1, <2>2, PlacedRowsAreArranged
<1> QED
  BY <1>1, WalkInvariant, PTL

\* The rows that were there when an ascending walk began are in it, whatever
\* is inserted between its pages and between the two reads of a page.
THEOREM AscendingWalksMissNothing == Spec => []AscendingMissesNothing
<1>1. CoreInv => AscendingMissesNothing
  BY DEF CoreInv, WalkTypeOK, NothingIsMissed, AscendingMissesNothing
<1> QED
  BY <1>1, WalkInvariant, PTL

\* An ascending walk returns no row twice and none out of order, whatever is
\* inserted and deleted meanwhile.
THEOREM AscendingWalksNeverRepeat == Spec => []AscendingNeverRepeats
<1>1. CoreInv => AscendingNeverRepeats
  <2> SUFFICES ASSUME CoreInv, query # Null, query.ordering = "id",
                      NEW m \in DOMAIN collected, NEW n \in DOMAIN collected,
                      m < n
               PROVE  collected[m] < collected[n]
    BY DEF AscendingNeverRepeats
  <2>1. /\ m \in DOMAIN Rows /\ n \in DOMAIN Rows
        /\ Rows[m] = collected[m] /\ Rows[n] = collected[n]
    BY ConcatProperties DEF CoreInv, WalkTypeOK, Rows
  <2> QED
    BY <2>1 DEF CoreInv, AscendingHolds
<1> QED
  BY <1>1, WalkInvariant, PTL

\* What was read and not answered is more than what was answered.
LEMMA AnsweredIsRead == WalkTypeOK => RowsIn(collected) \subseteq RowsIn(Rows)
<1> SUFFICES ASSUME WalkTypeOK, NEW n \in DOMAIN collected
             PROVE  n \in DOMAIN Rows /\ Rows[n] = collected[n]
  BY DEF RowsIn
<1> QED
  BY ConcatProperties DEF WalkTypeOK, Rows

\* Whatever the client asks for, search or not, no row outside the `where`
\* of the service is in an answer, for models of any name.
THEOREM ScopesAlwaysHold == Spec => [](RowsIn(collected) \subseteq Scope)
<1>1. CoreInv => RowsIn(collected) \subseteq Scope
  BY AnsweredIsRead DEF CoreInv, ScopeHolds
<1> QED
  BY <1>1, WalkInvariant, PTL

\* A model whose name is one word is found in the schema: its searches are
\* applied.  (That of several words is not; see the run `search`.)
THEOREM SearchesAreApplied ==
  ASSUME SearchIsPossible
  PROVE  Spec => []SearchIsApplied
<1>1. Init => WalkInv
  BY WalkStarts
<1>2. WalkInv /\ [Next]_vars => WalkInv'
  BY WalkTypesKeep, ScopeStep, SearchStep, AscendingStep, MissingStep, StillStep
     DEF WalkInv
<1>3. WalkInv => SearchIsApplied
  BY AnsweredIsRead DEF WalkInv, ScopeHolds, SearchHolds, SearchIsApplied
<1> QED
  BY <1>1, <1>2, <1>3, PTL DEF Spec

-----------------------------------------------------------------------------
(* How far a walk goes.                                                    *)

\* No page is asked for that would begin behind the last row ever given.
PagesExist ==
  query # Null =>
    /\ total # Null => total <= lastId
    /\ page = 1 \/ Offset < lastId

LEMMA PagesStep == WalkTypeOK /\ PagesExist /\ [Next]_vars => PagesExist'
<1> SUFFICES ASSUME WalkTypeOK, PagesExist, [Next]_vars, query' # Null
             PROVE  /\ total' # Null => total' <= lastId'
                    /\ page' = 1 \/ Offset' < lastId'
  BY DEF PagesExist
<1>0. lastId \in Nat
  BY DEF WalkTypeOK
<1>1. CASE Begin
  BY <1>1, FirstPage
<1>2. CASE FindMany \/ Delete \/ UNCHANGED vars
  <2>1. UNCHANGED <<query, page, total, lastId>>
    BY <1>2 DEF FindMany, Delete, vars
  <2> QED
    BY <2>1 DEF PagesExist, Offset, pageSize
<1>3. CASE Count
  <2>1. /\ query # Null /\ total' = Cardinality(Found)
        /\ UNCHANGED <<query, page, lastId>>
    BY <1>3 DEF Count, Walking, Found
  <2>2. IsFiniteSet(1 .. lastId) /\ Cardinality(1 .. lastId) = lastId
    BY <1>0, FS_Interval
  <2>3. Cardinality(Found) <= lastId
    BY <2>1, <2>2, FoundTypes, FS_Subset
  <2> QED
    BY <2>1, <2>3 DEF PagesExist, Offset, pageSize
<1>4. CASE Answer
  <2>1. /\ query # Null /\ total \in Nat /\ total' = Null /\ lastId' = lastId
        /\ query' = query /\ Reached \in Nat
        /\ \/ Offset' = Reached /\ Reached < total
           \/ page' = page
    BY <1>4, AnsweringMoves
  <2>2. total <= lastId
    BY <2>1, PaginationAssumption DEF PagesExist
  <2>3. CASE page' = page
    BY <2>1, <2>3 DEF PagesExist, Offset, pageSize
  <2> QED
    BY <1>0, <2>1, <2>2, <2>3
<1>5. CASE Insert
  <2>1. UNCHANGED <<query, page, total>> /\ lastId' = lastId + 1
    BY <1>5 DEF Insert
  <2>2. pageSize \in Nat \ {0} /\ page \in Nat \ {0} /\ Offset' = Offset
    BY <2>1, PageSizeIsPositive DEF WalkTypeOK, Offset, pageSize
  <2>3. Offset \in Nat
    BY <2>2, OffsetTypes DEF Offset
  <2>4. total # Null => total \in Nat
    BY DEF WalkTypeOK
  <2> QED
    BY <1>0, <2>1, <2>2, <2>3, <2>4 DEF PagesExist
<1> QED
  BY <1>1, <1>2, <1>3, <1>4, <1>5 DEF Next

\* A walk is bounded by the rows that are ever there: nextPage names no page
\* that would begin behind them, whatever is inserted and deleted.  (That the
\* walk ends is this and the fairness of its reads.)
THEOREM WalksAreBounded ==
  Spec => [](query # Null => page = 1 \/ (page - 1) * pageSize < MaxId)
<1>1. Init => PagesExist
  BY DEF Init, PagesExist
<1>2. CoreInv /\ PagesExist /\ [Next]_vars => PagesExist'
  BY PagesStep DEF CoreInv
<1>3. CoreInv /\ PagesExist
        => (query # Null => page = 1 \/ (page - 1) * pageSize < MaxId)
  <2> SUFFICES ASSUME CoreInv, PagesExist, query # Null, page # 1
               PROVE  (page - 1) * pageSize < MaxId
    OBVIOUS
  <2>1. Offset < lastId /\ lastId \in Nat /\ lastId <= MaxId
    BY PaginationAssumption DEF PagesExist, CoreInv, WalkTypeOK
  <2>2. pageSize \in Nat \ {0} /\ page \in Nat \ {0}
    BY PageSizeIsPositive DEF CoreInv, WalkTypeOK
  <2>3. Offset \in Nat
    BY <2>2, OffsetTypes DEF Offset
  <2> QED
    BY <2>1, <2>3, PaginationAssumption DEF Offset
<1> QED
  BY <1>1, <1>2, <1>3, WalkInvariant, PTL DEF Spec

-----------------------------------------------------------------------------

\* A model whose name has several words is never found in the schema, so no
\* search of it has an effect, whatever its string fields are.
THEOREM SearchesOfOthersAreDropped ==
  ASSUME Len(Model) # 1
  PROVE  \A T : Where(T, TRUE) = Where(T, FALSE)
<1>1. DatamodelName # toPrismaModelName
  <2>1. Len(<<Model>>) = 1
    OBVIOUS
  <2> QED
    BY <2>1 DEF DatamodelName, toPrismaModelName
<1> QED
  BY <1>1 DEF Where

=============================================================================
