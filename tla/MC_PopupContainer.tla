------------------------- MODULE MC_PopupContainer -------------------------
(* A 16 x 12 pixel screen with the browser window filling it, and <select> *)
(* boxes at the top left, near the top right, in the middle, at the bottom *)
(* right and along the bottom edge, so that the popup fits, opens upwards, *)
(* shrinks, and is clipped at either screen edge.  Items are 2 pixels tall *)
(* and 10 wide.                                                            *)
EXTENDS PopupContainer

MCScreen == Rect(0, 0, 16, 12)
MCWindow == Rect(0, 0, 16, 12)
MCControlRects == {Rect(1, 1, 4, 2), Rect(9, 1, 2, 2), Rect(6, 4, 3, 2), Rect(11, 8, 4, 2), Rect(0, 9, 15, 2)}
\* With a <select> wider than the screen, scrolled to start left of it.
MCControlRectsWide == MCControlRects \cup {Rect(-2, 4, 20, 2)}
MCEventPoints == {[x |-> 1, y |-> 1], [x |-> 4, y |-> 3]}
=============================================================================
