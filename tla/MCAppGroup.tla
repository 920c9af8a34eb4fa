------------------------------ MODULE MCAppGroup ------------------------------
(***************************************************************************)
(* An instance of AppGroup for TLC: a bundle with its main instance, and   *)
(* the levels of its groups.                                               *)
(***************************************************************************)
EXTENDS AppGroup, TLC

OneInstance == 1 :> "app1"

\* Levels that are reached one after the other as the ticks go by.
BootLevels == <<0, 1, 2, 3>>
ScreenLevels == <<0, 0, 1, 2>>
===============================================================================
