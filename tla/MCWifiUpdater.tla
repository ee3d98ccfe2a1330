--------------------------- MODULE MCWifiUpdater ---------------------------
(***************************************************************************)
(* Model-checking instance of WifiUpdater. LossyLink and Interruptible    *)
(* are set in each .cfg; the version strings are given here as sequences *)
(* of characters: the default target 19.7.7 of main(), an older release  *)
(* 19.5.4, and a release 19.7.70 whose string contains "19.7.7".         *)
(***************************************************************************)
EXTENDS WifiUpdaterRefinement

MCTarget == <<"1", "9", ".", "7", ".", "7">>

MCOlder == <<"1", "9", ".", "5", ".", "4">>

MCContaining == <<"1", "9", ".", "7", ".", "7", "0">>

=============================================================================
