--------------------------- MODULE MCClientUpdate ---------------------------
(* Small instances of ClientUpdate for TLC. *)
EXTENDS ClientUpdate

\* One page.
OneBook == <<{1}>>

\* Nodes stay, leave and join again.
ThreeBooks == <<{1, 2}, {2, 3}, {1, 3}>>
=============================================================================
