------------------------------ MODULE MCScanner ------------------------------
(* Instances of Scanner for TLC: two or three paths, up to two workers. *)
EXTENDS ScannerRounds

CONSTANTS a, b, c

\* The options of a plain start, as options.hpp sets them.
Default ==
  [retry_skipped |-> FALSE, reset_skipped |-> FALSE, skip_unavailable |-> TRUE,
   skip_accessible_errors |-> FALSE, skip_timeout |-> TRUE,
   include_private |-> FALSE, hash_check |-> TRUE, dry_run |-> FALSE,
   updated_since |-> FALSE, mem_limit |-> FALSE, single_run |-> FALSE,
   concurrency |-> 2, exclude |-> {}, check_only |-> {}, force_pull |-> {}]

UniqueLists == {<<a, b>>}
\* A list longer than the pool.
ThreePaths == {<<a, b, c>>}

\* Two workers; the third path is only excluded.
PoolOptions ==
  {[Default EXCEPT !.exclude = {c}],
   [Default EXCEPT !.skip_accessible_errors = TRUE, !.mem_limit = TRUE, !.exclude = {c}]}

\* Every option the scan reads, one or two at a time, with a single worker.
Single == [Default EXCEPT !.concurrency = 0]
EachOption ==
  {[Single EXCEPT !.retry_skipped = TRUE],
   [Single EXCEPT !.reset_skipped = TRUE],
   [Single EXCEPT !.skip_unavailable = FALSE],
   [Single EXCEPT !.skip_accessible_errors = TRUE, !.retry_skipped = TRUE],
   [Single EXCEPT !.skip_accessible_errors = TRUE, !.reset_skipped = TRUE],
   [Single EXCEPT !.include_private = TRUE, !.updated_since = TRUE],
   [Single EXCEPT !.hash_check = FALSE, !.force_pull = {a}],
   [Single EXCEPT !.check_only = {a}, !.exclude = {b}],
   [Single EXCEPT !.dry_run = TRUE],
   [Single EXCEPT !.mem_limit = TRUE, !.single_run = TRUE]}

\* Every pull outcome, few others: small enough for liveness.
PullOptions ==
  {[Default EXCEPT !.include_private = TRUE, !.hash_check = FALSE]}

\* One worker under each option, and two workers on every pull outcome.
EveryOption == EachOption \cup PullOptions
=============================================================================
