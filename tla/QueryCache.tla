----------------------------- MODULE QueryCache -----------------------------
(***************************************************************************)
(* One query of TanStack Query 5 under the options of api/queryClient.ts:   *)
(* no staleTime, no refetch on focus, one retry.  The cache outlives the    *)
(* pages.  A request is whatever the caller keeps of it to know later which *)
(* answers are possible; the state of the component that shows the query   *)
(* enters only as its being mounted.                                       *)
(*                                                                         *)
(* A request is asked until its answer is used: a failed one until the pause *)
(* before its retry is over, when it is decided whether anybody still looks  *)
(* and what the retry carries.  Cached data is not collected (gcTime is five *)
(* minutes).                                                               *)
(***************************************************************************)
CONSTANT Nothing   \* no data yet, or no request under way

Query(Data, Request) ==
  [data : Data \cup {Nothing}, asked : Request \cup {Nothing},
   retried : BOOLEAN, failed : BOOLEAN]

EmptyQuery == [data |-> Nothing, asked |-> Nothing, retried |-> FALSE, failed |-> FALSE]

Loaded(q)    == q.data # Nothing
InFlight(q)  == q.asked # Nothing
IsLoading(q) == ~Loaded(q) /\ ~q.failed /\ InFlight(q)

Asked(q, request) ==
  [q EXCEPT !.asked = request, !.retried = FALSE, !.failed = q.failed /\ Loaded(q)]

\* A component that shows the query mounts: whatever is cached is stale, but a
\* request under way serves the newcomer too.
Mounted(q, request) == IF InFlight(q) THEN q ELSE Asked(q, request)

\* invalidateQueries() on a query on screen, and refetch(): a request under way
\* is dropped for a new one, unless nothing was ever loaded (cancelRefetch).
Refetched(q, request) == IF InFlight(q) /\ ~Loaded(q) THEN q ELSE Asked(q, request)

\* setQueryData(): a request under way goes on, and its answer will win.
Written(q, data) == [q EXCEPT !.data = data, !.failed = FALSE]

Answered(q, data) == [Written(q, data) EXCEPT !.asked = Nothing]

\* An error: one more try while somebody looks, then the query has failed and
\* keeps what it showed.
GivenUp(q) == [q EXCEPT !.asked = Nothing, !.failed = TRUE]
Failed(q, request, mounted) ==
  IF mounted /\ ~q.retried THEN [q EXCEPT !.asked = request, !.retried = TRUE] ELSE GivenUp(q)
===========================================================================
