---- MODULE MCThreadPool ----
(***************************************************************************)
(* Small instances of ThreadPool for TLC.                                  *)
(***************************************************************************)
EXTENDS ThreadPool

\* What the allocator can ever do again: the elements in their order, not the
\* names of the magazines they are in, nor what is left in unused slots.  No
\* action, fairness condition or property depends on what is left out, so
\* states with one view have the same behaviours.
InUse(m, n) == IF m = NULL THEN NULL ELSE [i \in 0 .. (n - 1) |-> stack[m][i]]
LiveView ==
    <<[p \in Pairs |-> [k \in {0, 1} |-> InUse(mags[p][k], count[p][k])]],
      [j \in DOMAIN full_list |-> stack[full_list[j]]], Len(empty_list), full_count, empty_count,
      Cardinality(fresh), op, held, panic, threadVars, run, job, refil, top_count, pool_err>>
====
