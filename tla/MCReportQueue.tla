--------------------------- MODULE MCReportQueue ---------------------------
(***************************************************************************)
(* An instance of ReportQueue for TLC: an application of one user (uid 1)  *)
(* and the launcher of another (uid 2).                                    *)
(***************************************************************************)
EXTENDS ReportQueue

TwoUsers == <<"100", "101">>
=============================================================================
