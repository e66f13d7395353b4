----------------------------- MODULE MCProfiler -----------------------------
(***************************************************************************)
(* A small instance of Profiler: three goroutines, four requests, one sum  *)
(* of all requests and one of those that reach the search.                 *)
(***************************************************************************)
EXTENDS Profiler

TwoCounters == <<"vectorizeNs", "searchNs">>
=============================================================================
