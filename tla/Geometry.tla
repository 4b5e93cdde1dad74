------------------------------- MODULE Geometry -------------------------------
(***************************************************************************)
(* The arithmetic of pictures: rectangles of a frame                       *)
(* (src/core/frame.cpp), the cells of a status grid, the filled part of a  *)
(* bar and the pixel a sliding transition shows (src/core/renderer.cpp).   *)
(* A rectangle is [x, y, width, height]; std::size_t does not wrap in what *)
(* is computed here, for a subtraction is made only after its guard.       *)
(***************************************************************************)
EXTENDS Integers

Rect(x, y, width, height) == [x |-> x, y |-> y, width |-> width, height |-> height]

\* Frame::fill_rect accepts r on a frame of this width and height; the loader
\* asks the same of the bounds it reads.
Fits(r, width, height) ==
    /\ r.width # 0 /\ r.height # 0
    /\ r.x < width /\ r.y < height
    /\ r.width <= width - r.x /\ r.height <= height - r.y

Points(width, height) == (0..width - 1) \X (0..height - 1)

Inside(p, r) ==
    /\ r.x <= p[1] /\ p[1] < r.x + r.width
    /\ r.y <= p[2] /\ p[2] < r.y + r.height

\* `count` cells and the gaps between them have a pixel each in the extent.
CellsFit(extent, count, gap) ==
    /\ gap * (count - 1) <= extent
    /\ extent - gap * (count - 1) >= count

\* Where the i-th of `count` cells begins in what the gaps leave usable.
CellStart(usable, count, i) == (usable * i) \div count

Cell(start, extent, count, gap, i) ==
    LET usable == extent - gap * (count - 1)
        low    == CellStart(usable, count, i)
        high   == CellStart(usable, count, i + 1)
    IN  [start |-> start + low + i * gap, length |-> high - low]

\* The cell of the index-th source of a grid g: rows are as many as needed.
Rows(count, columns) == (count + columns - 1) \div columns

GridCell(g, count, index) ==
    LET rows == Rows(count, g.columns)
        h    == Cell(g.x, g.width, g.columns, g.gap, index % g.columns)
        v    == Cell(g.y, g.height, rows, g.gap, index \div g.columns)
    IN  Rect(h.start, v.start, h.length, v.length)

\* How much of an extent a bar fills at n / d of its scale, in doubles: halves are
\* rounded up, unless the doubles fall short of one.
Filled(extent, n, d, short) ==
    LET part   == IF n < 0 THEN 0 ELSE IF n > d THEN d ELSE n
        raised == 2 * part * extent + d
        nearest == IF short /\ raised % (2 * d) = 0
                   THEN raised \div (2 * d) - 1
                   ELSE raised \div (2 * d)
    IN  IF nearest > extent THEN extent ELSE nearest

\* The filled part of a bar's rectangle.
FilledRect(r, direction, filled) ==
    CASE direction = "right" -> [r EXCEPT !.width = filled]
      [] direction = "left"  -> [r EXCEPT !.width = filled, !.x = @ + r.width - filled]
      [] direction = "down"  -> [r EXCEPT !.height = filled]
      [] direction = "up"    -> [r EXCEPT !.height = filled, !.y = @ + r.height - filled]

\* How far a slide has come at n / d: the product in doubles, truncated, may fall
\* one short of a quotient that is exact.
SlideOffset(extent, n, d, short) ==
    LET offset == (n * extent) \div d
    IN  IF short /\ offset > 0 /\ (n * extent) % d = 0 THEN offset - 1
        ELSE IF offset > extent THEN extent ELSE offset

Source(which, x, y) == [frame |-> which, point |-> <<x, y>>]

\* compose_transition: the frame and the pixel of it that a slide shows at p.
SlideSource(kind, width, height, offset, p) ==
    CASE kind = "slide_left" ->
            IF p[1] + offset < width
            THEN Source("from", p[1] + offset, p[2])
            ELSE Source("to", p[1] + offset - width, p[2])
      [] kind = "slide_right" ->
            IF p[1] >= offset
            THEN Source("from", p[1] - offset, p[2])
            ELSE Source("to", width - offset + p[1], p[2])
      [] kind = "slide_up" ->
            IF p[2] + offset < height
            THEN Source("from", p[1], p[2] + offset)
            ELSE Source("to", p[1], p[2] + offset - height)
      [] OTHER ->
            IF p[2] >= offset
            THEN Source("from", p[1], p[2] - offset)
            ELSE Source("to", p[1], height - offset + p[2])
===============================================================================
