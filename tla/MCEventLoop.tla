----------------------------- MODULE MCEventLoop -----------------------------
(* Instances of EventLoop for TLC: a root and two paths, one worker. *)
EXTENDS EventLoop

CONSTANTS root, a, b

MCLists == {<<>>, <<root>>, <<a>>, <<b>>, <<a, b>>, <<b, a>>,
            <<a, root>>, <<root, b>>, <<a, b, root>>, <<a, b, a>>}

\* A dry run, and one path excluded: few outcomes of process_repo, every path
\* through the loop.
DryRun ==
  [retry_skipped |-> FALSE, reset_skipped |-> FALSE, skip_unavailable |-> TRUE,
   skip_accessible_errors |-> FALSE, skip_timeout |-> TRUE,
   include_private |-> TRUE, hash_check |-> FALSE, dry_run |-> TRUE,
   updated_since |-> FALSE, mem_limit |-> FALSE, single_run |-> FALSE,
   concurrency |-> 1, exclude |-> {b}, check_only |-> {}, force_pull |-> {}]

Plain ==
  [auto_reload |-> FALSE, rescan_new |-> FALSE, keep_first_valid |-> FALSE,
   sort_updated |-> FALSE, exit_on_timeout |-> FALSE, runtime_limit |-> FALSE,
   kill_on_sleep |-> FALSE, single_repo |-> FALSE, hotkeys |-> FALSE]

DryRuns == {DryRun}
Reloading == {[Plain EXCEPT !.auto_reload = TRUE],
              [Plain EXCEPT !.auto_reload = TRUE, !.rescan_new = TRUE]}
EachLoopOption ==
  {[Plain EXCEPT !.rescan_new = TRUE, !.keep_first_valid = TRUE, !.sort_updated = TRUE],
   [Plain EXCEPT !.auto_reload = TRUE, !.exit_on_timeout = TRUE,
                 !.runtime_limit = TRUE, !.kill_on_sleep = TRUE],
   [Plain EXCEPT !.hotkeys = TRUE, !.single_repo = TRUE]}
=============================================================================
