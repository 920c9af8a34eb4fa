--------------------------- MODULE MCAppObservers ---------------------------
(***************************************************************************)
(* Instances of AppObservers for TLC: a bundle with two abilities (a, b)   *)
(* and one with a single ability (c), and a window of each.                *)
(***************************************************************************)
EXTENDS AppObservers, TLC

TwoBundles == ("a" :> "app1") @@ ("b" :> "app1") @@ ("c" :> "app2")
Owners == ("wa" :> "a") @@ ("wb" :> "b") @@ ("wc" :> "c") @@ ("wd" :> "c")
OneBundle == ("a" :> "app1") @@ ("b" :> "app1")
OneEach == ("wa" :> "a") @@ ("wb" :> "b")
=============================================================================
