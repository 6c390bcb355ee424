----------------------------- MODULE MCJobView -----------------------------
(***************************************************************************)
(* Values for the constants of JobView, chosen by the .cfg files.          *)
(***************************************************************************)
EXTENDS JobView

OnePartition  == {1}
TwoPartitions == {1, 2}
Single        == {1}
=============================================================================
