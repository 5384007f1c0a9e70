------------------------------- MODULE Loader -------------------------------
(***************************************************************************)
(* The busy overlay.  Loader.start adds a full-screen view to the window   *)
(* and Loader.stop removes every such view, whoever added it.  A touch     *)
(* reaches a screen only while no overlay covers the window.               *)
(***************************************************************************)
EXTENDS Naturals

VARIABLE overlays   \* how many tagged views lie on the window

LoaderStart(n) == overlays' = overlays + n

LoaderStop == overlays' = 0

Touchable == overlays = 0

=============================================================================
