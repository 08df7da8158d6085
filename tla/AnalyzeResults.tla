--------------------------- MODULE AnalyzeResults ---------------------------
(***************************************************************************)
(* What analyze_results.py makes of the summary of a historical build: the *)
(* hits, misses and compiler calls of the builds that did not fail.        *)
(***************************************************************************)
EXTENDS HistoricalBuild, SequencesExt

hits(c) == c.ccache_hits + c.clang_hash_hits

\* Mistake: the calls that both ccache and the plugin saw count twice.
missesTwice(c) == c.ccache_misses + c.clang_hash_misses

\* In mode ccache-clang-hash, ccache counts what it passes on to the plugin as
\* misses.
misses(c) ==
  c.ccache_misses + c.clang_hash_misses
    - (IF mode = "ccache-clang-hash" THEN c.clang_hash_hits + c.clang_hash_misses ELSE 0)

\* stats: the loop over records['builds'].
Stats ==
  FoldLeft(LAMBDA st, b :
             IF b.failed THEN [st EXCEPT !.failed = @ + 1]
             ELSE [st EXCEPT !.count = @ + 1,
                             !.hits = @ + hits(b.calls),
                             !.misses = @ + misses(b.calls)],
           [failed |-> 0, count |-> 0, hits |-> 0, misses |-> 0], builds)

\* CallsCounted: the hits and misses saved for the modes with ccache are the
\* compilations of the good builds, each counted once, and the misses those that
\* really ran the back end.  (In mode clang-hash the plugin logs nothing, and
\* both are 0.)
CallsCounted ==
  script = "historical" /\ pc = "done" =>
    LET Good == {i \in 1..Len(builds) : ~Failed(i)}
        Ended(ways) == Cardinality({c \in Good \X Files :
                         c[2] \in DOMAIN builds[c[1]].calls.way /\ builds[c[1]].calls.way[c[2]] \in ways})
    IN  /\ Stats.count + Stats.failed = Len(builds)
        /\ mode \in {"ccache", "ccache-clang-hash"} =>
             Stats.misses = Ended({"compile"}) /\ Stats.hits = Ended({"hit", "stop"})
=============================================================================
