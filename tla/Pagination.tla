----------------------------- MODULE Pagination -----------------------------
(***************************************************************************)
(* paginate and ResponseInterceptor: a client walks through a list by the  *)
(* nextPage of each answer, while rows are inserted and deleted.  A page   *)
(* is made of two reads in flight together, the rows and their number, and *)
(* nothing keeps the table still between the two or between two pages.     *)
(* Included relations, computed fields and prevPage are left out.          *)
(***************************************************************************)
EXTENDS Integers, Sequences, FiniteSets, SequencesExt

CONSTANTS
  MaxId,             \* bound: rows ever inserted, in the order of their ids
  keyOf,             \* the value of a column that may repeat
  Scope,             \* the rows of the `where` the service passes
  Matching,          \* the rows with the searched text in a string field
  Model,             \* the name of the delegate, as its words
  StringFields,      \* the String fields of the model
  DEFAULT_PAGE_SIZE,
  MAX_PAGE_SIZE,
  Null

Ids == 1 .. MaxId

DEFAULT_PAGE == 1

ASSUME PaginationAssumption ==
  /\ MaxId \in Nat /\ keyOf \in [Ids -> Int]
  /\ Scope \subseteq Ids /\ Matching \subseteq Ids
  /\ DEFAULT_PAGE_SIZE \in 1 .. MAX_PAGE_SIZE
  /\ Null \notin Int /\ Null \notin Seq(Ids)

\* FindAllQueryDto: what the validation lets through.
Query ==
  [pageSize : 1 .. MAX_PAGE_SIZE \cup {Null}, searches : BOOLEAN,
   ordering : {"id", "-id", "key", "-key", Null}]

VARIABLES
  table,     \* the ids of the rows
  lastId,    \* the last id given
  query,     \* what the client asks for, on every page, or Null
  page,      \* the page it asks for
  data,      \* the rows of the page once they are read, or Null
  total,     \* their number once it is read, or Null
  collected, \* the rows of the answers so far
  done,      \* the last answer had no nextPage
  before,    \* history: the rows to be found when the walk began
  events     \* history: what happened to the table since

vars == <<table, lastId, query, page, data, total, collected, done, before,
          events>>

Init ==
  /\ lastId \in 0 .. MaxId
  /\ table = 1 .. lastId
  /\ query = Null
  /\ page = DEFAULT_PAGE
  /\ data = Null /\ total = Null
  /\ collected = <<>>
  /\ done = FALSE
  /\ before = {} /\ events = {}

-----------------------------------------------------------------------------
(* The pure parts.                                                         *)

Least(m, n) == IF m <= n THEN m ELSE n
Greatest(m, n) == IF m <= n THEN n ELSE m

\* MUTANT: pages begin at 0.
PagesFromZero(p, size) ==
  LET n == IF size = Null THEN DEFAULT_PAGE_SIZE ELSE size
  IN  [skip |-> p * n, take |-> n]

\* getPagination
getPagination(p, size) ==
  LET safePageSize == Least(Greatest(1, IF size = Null THEN DEFAULT_PAGE_SIZE
                                        ELSE size), MAX_PAGE_SIZE)
      safePage == Greatest(1, p)
  IN  [skip |-> (safePage - 1) * safePageSize, take |-> safePageSize]

\* parseOrderBy and the `orderBy` of findMany: i may come before j.
Precedes(ordering, i, j) ==
  CASE ordering = "id" -> i <= j
    [] ordering = "-id" -> i >= j
    [] ordering = "key" -> keyOf[i] <= keyOf[j]
    [] ordering = "-key" -> keyOf[i] >= keyOf[j]
    [] OTHER -> TRUE

\* MUTANT: the direction is dropped.
Unordered(T, ordering) == SetToSeqs(T)

\* The orders in which the database may return T: where the ordering leaves
\* rows equal, or is missing, each query may get another one.
Arrangements(T, ordering) ==
  {s \in SetToSeqs(T) :
     \A m, n \in DOMAIN s : m < n => Precedes(ordering, s[m], s[n])}

\* The name of a model in the schema: the words of its delegate, each with a
\* capital.
DatamodelName == Model

\* toPrismaModelName: one capital, the rest in lower case, so that several
\* words become one.
toPrismaModelName ==
  IF Len(Model) = 1 THEN Model ELSE <<Model>>

\* MUTANT: the search replaces the `where` of the service.
SearchAlone(T, searches) ==
  IF searches THEN T \cap Matching ELSE T \cap Scope

\* buildWhereWithSearch
Where(T, searches) ==
  IF searches /\ DatamodelName = toPrismaModelName /\ StringFields # {}
  THEN T \cap Scope \cap Matching
  ELSE T \cap Scope

\* The interceptor reads the query again.
pageSize ==
  Least(Greatest(1, IF query.pageSize = Null THEN DEFAULT_PAGE_SIZE
                    ELSE query.pageSize), MAX_PAGE_SIZE)

\* MUTANT: the number of full pages.
FullPages(n) == n \div pageSize

\* Math.ceil(total / pageSize)
totalPages(n) == (n + pageSize - 1) \div pageSize

nextPage(n) == IF page < totalPages(n) THEN page + 1 ELSE Null

-----------------------------------------------------------------------------

Begin ==
  /\ query = Null
  /\ query' \in Query
  /\ before' = Where(table, query'.searches)
  /\ UNCHANGED <<table, lastId, page, data, total, collected, done, events>>

Walking == query # Null /\ ~done

\* modelClient.findMany
FindMany ==
  LET q == getPagination(page, query.pageSize)
  IN  /\ Walking
      /\ data = Null
      /\ \E s \in Arrangements(Where(table, query.searches), query.ordering) :
           data' = SubSeq(s, q.skip + 1, Least(q.skip + q.take, Len(s)))
      /\ UNCHANGED <<table, lastId, query, page, total, collected, done,
                     before, events>>

\* modelClient.count
Count ==
  /\ Walking
  /\ total = Null
  /\ total' = Cardinality(Where(table, query.searches))
  /\ UNCHANGED <<table, lastId, query, page, data, collected, done, before,
                 events>>

\* MUTANT: a total of 0 counts as missing.
BothTruthy == data # Null /\ total # Null /\ total # 0

\* Promise.all
BothRead == data # Null /\ total # Null

\* The answer, and the client's next step.
Answer ==
  /\ Walking
  /\ BothRead
  /\ collected' = collected \o data
  /\ LET next == nextPage(total)
     IN  IF next = Null THEN done' = TRUE /\ UNCHANGED page
         ELSE page' = next /\ UNCHANGED done
  /\ data' = Null /\ total' = Null
  /\ UNCHANGED <<table, lastId, query, before, events>>

Insert ==
  /\ Walking
  /\ lastId < MaxId
  /\ lastId' = lastId + 1
  /\ table' = table \cup {lastId + 1}
  /\ events' = events \cup {"insert"}
  /\ UNCHANGED <<query, page, data, total, collected, done, before>>

Delete ==
  /\ Walking
  /\ \E i \in table : table' = table \ {i}
  /\ events' = events \cup {"delete"}
  /\ UNCHANGED <<lastId, query, page, data, total, collected, done, before>>

Next == Begin \/ FindMany \/ Count \/ Answer \/ Insert \/ Delete

\* Both reads are answered, and the client goes on.
Spec ==
  /\ Init /\ [][Next]_vars
  /\ WF_vars(FindMany) /\ WF_vars(Count) /\ WF_vars(Answer)

-----------------------------------------------------------------------------

RowsIn(s) == {s[n] : n \in DOMAIN s}

\* A walk over a table that stands still returns as many rows as there are,
\* and each of them, in the order asked for, when the ordering is by a unique
\* column: the pages of the query and those of the answer are cut alike.
\* (With equal keys or no ordering a row may come twice and another never.)
StillWalkIsExact ==
  done /\ events = {} =>
    /\ Len(collected) = Cardinality(before)
    /\ query.ordering \in {"id", "-id"} =>
         collected \in Arrangements(before, query.ordering)

\* Rows inserted during the walk push no row of an ascending walk to another
\* page: what was there at the start is found, although the number of
\* rows and the rows are read apart.
AscendingMissesNothing ==
  done /\ query.ordering = "id" /\ "delete" \notin events =>
    before \subseteq RowsIn(collected)

\* Deletions may make an ascending walk miss rows, but neither they nor
\* insertions make it return a row twice or out of order.
AscendingNeverRepeats ==
  query # Null /\ query.ordering = "id" =>
    \A m, n \in DOMAIN collected : m < n => collected[m] < collected[n]

\* README: search, contains on string fields; and the `where` of the service
\* (the listing of a unit, the user of a file) holds with it.
SearchIsApplied ==
  /\ RowsIn(collected) \subseteq Scope
  /\ query # Null /\ query.searches => RowsIn(collected) \subseteq Matching

\* The walk ends, once nothing is inserted any more.
WalkEnds == query # Null ~> done

=============================================================================
