---------------------------- MODULE MCHttpDisplay ----------------------------
(***************************************************************************)
(* Instances of HttpDisplay for TLC: frames of two pictures, one page (two *)
(* would not meet: a request reads nothing another page has written), and  *)
(* up to two processes one after the other.                                *)
(***************************************************************************)
EXTENDS HttpDisplay, TLC

CONSTANTS black, green, tab

OnePage    == {tab}
MCPictures == {black, green}
=============================================================================
