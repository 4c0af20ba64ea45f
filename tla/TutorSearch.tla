----------------------------- MODULE TutorSearch ----------------------------
(***************************************************************************)
(* GET /api/tutors: the search of PostgresTutorRepository, page by page,   *)
(* while profiles, reviews and the view of ratings change under it.        *)
(***************************************************************************)
EXTENDS Naturals, Sequences, SequencesExt, FiniteSets, FiniteSetsExt

CONSTANTS
  Tutors,        \* tutor ids, numbers
  Rates,         \* average hourly rates; 0 for a tutor without subjects
  Ratings,       \* average ratings in v_tutor_ratings; 0 for no review
  PerPage,       \* page_size
  MaxMoves       \* bound on the changes of the table

ASSUME TutorSearchAssumption ==
  /\ Tutors \subseteq Nat /\ Rates \subseteq Nat /\ Ratings \subseteq Nat
  /\ IsFiniteSet(Tutors) /\ PerPage \in Nat \ {0} /\ MaxMoves \in Nat

VARIABLES
  table,         \* the row of base_sql for each tutor
  moves,         \* changes so far
  asked,         \* filters and order of the walk
  at,            \* "rest", or the next statement of the request under way
  page, total,   \* page asked for, and COUNT(*) of the request
  shown,         \* tutors on the pages of the walk so far
  fresh          \* history variable: the table has not changed since page one

searchVars == <<table, moves, asked, at, page, total, shown, fresh>>

-----------------------------------------------------------------------------
TutorRows == [rate : Rates, rating : Ratings]

Orders == {"rating", "rate_asc", "newest"}

Queries == [rate : Rates, rating : Ratings, by : Orders]

\* min_rate and min_rating on the aliases of the outer query.
Matching == {t \in Tutors : table[t].rate >= asked.rate /\ table[t].rating >= asked.rating}

\* Mutant of Before: no tutor_id DESC at the end.
BeforeUntied(t, u) ==
  \/ asked.by = "rating" /\ table[t].rating > table[u].rating
  \/ asked.by = "rate_asc" /\ table[t].rate < table[u].rate

\* _SORT_OPTIONS, every one ending in tutor_id DESC.
Before(t, u) ==
  \/ asked.by = "rating" /\ table[t].rating > table[u].rating
  \/ asked.by = "rate_asc" /\ table[t].rate < table[u].rate
  \/ /\ asked.by = "rating" => table[t].rating = table[u].rating
     /\ asked.by = "rate_asc" => table[t].rate = table[u].rate
     /\ t > u

\* Every order the database may return: rows that tie come either way.
Sorted ==
  {q \in SetToSeqs(Matching) : \A j \in 1 .. Len(q) : \A i \in 1 .. j - 1 : ~Before(q[j], q[i])}

\* LIMIT and OFFSET.
PageOf(q) ==
  SubSeq(q, (page - 1) * PerPage + 1, Min({page * PerPage, Len(q)}))

\* total_pages of the reply.
TotalPages == IF total = 0 THEN 1 ELSE (total + PerPage - 1) \div PerPage

-----------------------------------------------------------------------------
SearchInit ==
  /\ table \in [Tutors -> TutorRows] /\ asked \in Queries
  /\ moves = 0 /\ at = "rest" /\ page = 1 /\ total = 0 /\ shown = <<>> /\ fresh = FALSE

\* A client opens page one of a search.
Search(q) ==
  /\ at = "rest"
  /\ at' = "count" /\ asked' = q /\ page' = 1 /\ shown' = <<>> /\ fresh' = TRUE
  /\ UNCHANGED <<table, moves, total>>

\* count_sql ...
Count ==
  /\ at = "count" /\ at' = "fetch"
  /\ total' = Cardinality(Matching)
  /\ UNCHANGED <<table, moves, asked, page, shown, fresh>>

\* ... then page_sql, and the client goes on while has_next.
Fetch ==
  /\ at = "fetch"
  /\ \E q \in Sorted : shown' = shown \o PageOf(q)
  /\ IF page < TotalPages
     THEN at' = "count" /\ page' = page + 1
     ELSE at' = "rest" /\ page' = page
  /\ UNCHANGED <<table, moves, asked, total, fresh>>

\* A tutor's subjects are replaced, or the view of ratings refreshed.
Move(t, row) ==
  /\ moves < MaxMoves /\ row # table[t]
  /\ table' = [table EXCEPT ![t] = row]
  /\ moves' = moves + 1
  /\ fresh' = FALSE
  /\ UNCHANGED <<asked, at, page, total, shown>>

SearchNext ==
  \/ \E q \in Queries : Search(q)
  \/ Count \/ Fetch
  \/ \E t \in Tutors, row \in TutorRows : Move(t, row)

SearchSpec == SearchInit /\ [][SearchNext]_searchVars

-----------------------------------------------------------------------------
\* A walk over the pages of a table at rest shows every tutor that matches,
\* once and in order, although each page is a query of its own and tutors tie
\* (postgres_tutor_repo.py:29-33, tutor_router.py:67-77).
WalkShowsEach == at = "rest" /\ fresh => shown \in Sorted
=============================================================================
