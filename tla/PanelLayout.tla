----------------------------- MODULE PanelLayout -----------------------------
(***************************************************************************)
(* From a logical frame to the packets that draw it on the MI panel        *)
(* (tools/mi_ble/protocol.py): the orientation of the panel, the order of  *)
(* its colour channels, and which pixels one packet sets.                  *)
(*                                                                         *)
(* A point is <<x, y>>, a frame a function from points to colours, and a   *)
(* colour a triple of channels.                                            *)
(***************************************************************************)
EXTENDS Integers

CONSTANTS
    Side,       \* WIDTH = HEIGHT
    BlockSize   \* PIXELS_PER_BLOCK

ASSUME LayoutAssumption ==
    /\ Side \in Nat \ {0}
    /\ BlockSize \in Nat \ {0}
    /\ (Side * Side) % BlockSize = 0

Points  == (0..Side - 1) \X (0..Side - 1)
Indices == 0..Side * Side - 1
Blocks  == 0..(Side * Side) \div BlockSize - 1

Black == <<0, 0, 0>>

\* xy_to_index, backwards.
PointAt(i) == <<i % Side, i \div Side>>

Rotated(degrees, p) ==
    CASE degrees = 0   -> p
      [] degrees = 90  -> <<Side - 1 - p[2], p[1]>>
      [] degrees = 180 -> <<Side - 1 - p[1], Side - 1 - p[2]>>
      [] degrees = 270 -> <<p[2], Side - 1 - p[1]>>

Mirrored(mirror_x, mirror_y, p) ==
    <<IF mirror_x THEN Side - 1 - p[1] ELSE p[1],
      IF mirror_y THEN Side - 1 - p[2] ELSE p[2]>>

\* Where the point p of the logical frame is on the panel.
Target(o, p) == Mirrored(o.mirror_x, o.mirror_y, Rotated(o.rotation, p))

\* color_order names the channel to be sent at each place.
ReorderColor(color, order) == [i \in 1..3 |-> color[order[i]]]

\* transform_frame: a point nothing is mapped to stays black.
TransformFrame(o, frame) ==
    [q \in Points |->
        IF \E p \in Points : Target(o, p) = q
        THEN ReorderColor(frame[CHOOSE p \in Points : Target(o, p) = q], o.color_order)
        ELSE Black]

\* The packets of a mode, and the points that packet k sets.
PacketsOf(mode) == IF mode = "pixel" THEN Indices ELSE Blocks

Covered(mode, k) ==
    IF mode = "pixel"
    THEN {PointAt(k)}
    ELSE {PointAt(i) : i \in k * BlockSize..(k + 1) * BlockSize - 1}
=============================================================================
