------------------------------ MODULE MCMiBridge ------------------------------
(***************************************************************************)
(* The instance of MiBridge for TLC: a panel of four points, pixel by      *)
(* pixel on a turned one and in blocks on a mirrored one.                  *)
(***************************************************************************)
EXTENDS MiBridge, TLC

Red   == <<1, 0, 0>>
Green == <<0, 1, 0>>

\* One corner, and the row it is in.
Corner == [p \in Points |-> IF p = <<0, 0>> THEN Red ELSE Black]
Row    == [p \in Points |-> IF p = <<0, 0>> THEN Red ELSE IF p = <<1, 0>> THEN Green ELSE Black]
MCPictures == {Corner, Row}

Turned   == [mode |-> "pixel", rotation |-> 90, mirror_x |-> FALSE, mirror_y |-> FALSE,
             color_order |-> <<2, 3, 1>>]
Flipped  == [mode |-> "block", rotation |-> 0, mirror_x |-> FALSE, mirror_y |-> TRUE,
             color_order |-> <<1, 2, 3>>]
MCOptions == {Turned, Flipped}
=============================================================================
