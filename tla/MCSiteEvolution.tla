-------------------------- MODULE MCSiteEvolution --------------------------
(***************************************************************************)
(* Bounds: five nodes put every count on both sides of the 20% and 50%     *)
(* thresholds; the job levels sit on both sides of 100, 500 and 1000 and,  *)
(* against each other, of the ratios 0.5, 0.7 and 0.9.                     *)
(***************************************************************************)
EXTENDS SiteEvolution

MCJobLevels == {0, 1, 8, 9, 10, 100, 101, 501, 1001}

MCPartitionTables ==
  { {}, {[total |-> 0, idle |-> 0]},
    {[total |-> 5, idle |-> 0], [total |-> 0, idle |-> 0]},
    {[total |-> 5, idle |-> 2]} }
=============================================================================
