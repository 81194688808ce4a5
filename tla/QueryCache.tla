----------------------------- MODULE QueryCache -----------------------------
(* The client-side cache the console keeps its answers in.  It is the library
   @tanstack/react-query, which is not in the repository: what is stated here
   is how apps/frontend uses it, with the defaults query-provider.tsx leaves
   and sets (staleTime 0, no refetch on window focus, errors keep old data).

   An entry is what the cache holds under one query key.  A request that is
   out is `busy`; `answer` is what the server has read for it so far, so that
   the moment the server reads and the moment the page hears of it differ.
   A retried request that is still out is just `busy`. *)

CONSTANTS
  NoData,   \* nothing cached, nothing answered yet
  Failure   \* the answer of a request that failed

NewEntry == [data |-> NoData, busy |-> FALSE, answer |-> NoData, failed |-> FALSE]

\* The entries over a set of answers.
Entries(D) == [data : D \cup {NoData}, busy : BOOLEAN,
               answer : D \cup {NoData, Failure}, failed : BOOLEAN]

\* A component that mounts on a key, or changes to it, refetches: nothing is
\* ever fresh.  A request already out is joined, however old its answer is.
Mount(e) == IF e.busy THEN e ELSE [e EXCEPT !.busy = TRUE, !.answer = NoData]

\* invalidateQueries, on the key of a mounted component: the request is sent
\* again, except that one that is out while nothing is cached is joined.
Invalidate(e) ==
  IF e.busy /\ e.data = NoData
  THEN e ELSE [e EXCEPT !.busy = TRUE, !.answer = NoData]

\* cancelQueries: the answer, if one comes, is dropped.
Cancel(e) == [e EXCEPT !.busy = FALSE, !.answer = NoData]

\* setQueryData: a request that is out stays out.
SetData(e, d) == [e EXCEPT !.data = d, !.failed = FALSE]

Unanswered(e) == e.busy /\ e.answer = NoData
Answered(e) == e.busy /\ e.answer # NoData

Answer(e, d) == [e EXCEPT !.answer = d]

\* The answer reaches the page; an error keeps what was cached.
Deliver(e) ==
  IF e.answer = Failure
  THEN [Cancel(e) EXCEPT !.failed = TRUE]
  ELSE [SetData(e, e.answer) EXCEPT !.busy = FALSE, !.answer = NoData]

IsLoading(e) == e.busy /\ e.data = NoData
IsError(e) == e.failed /\ ~IsLoading(e)
AtRest(e) == ~e.busy /\ ~e.failed /\ e.data # NoData
=============================================================================
