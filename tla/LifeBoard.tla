------------------------------ MODULE LifeBoard ------------------------------
(***************************************************************************)
(* HW4: the board of "ASCII Evolution", its three rules and its division   *)
(* into bands (worker/board.py, worker/rules.py, assigner/partition.py).   *)
(*                                                                         *)
(* A window is a function from 0..h+1 to rows: the h rows of a band with   *)
(* the row above it at 0 and the row below it at h+1.  Characters are      *)
(* their ASCII codes, since min() of rule 1 compares them.                 *)
(***************************************************************************)
EXTENDS Integers, Sequences, FiniteSets

CONSTANTS Height, Width,  \* 80 and 160
          N,              \* number of workers
          Era,            \* rounds played by each rule, 1000
          Full,           \* every Full-th round carries the whole band, 10
          Team,
          Canvas          \* Canvas[i] is canvas<i>.txt, i \in 0..2

ASSUME LifeAssumption ==
  /\ Width \in Nat \ {0} /\ N \in Nat \ {0} /\ Height \in Nat /\ N <= Height
  /\ Era \in Nat \ {0} /\ Full \in Nat \ {0} /\ Team \in Nat \ {0}
  /\ (3 * Era) % Full = 0

Rounds == 3 * Era
Char == 32..126
Row == [0..Width - 1 -> Char]
Picture == [0..Height - 1 -> Row]

ASSUME CanvasAssumption == Canvas \in [0..2 -> Picture]

Space == 32
Dot == 46
At == 64
Plus == 43
Ramp == <<32, 46, 58, 45, 61, 43, 42, 35, 37, 64>>   \* " .:-=+*#%@"

-----------------------------------------------------------------------------
(* Rules *)

(* The 3 x 3 cells around cell x of row i, by offset.  Columns wrap, rows do
   not: the window holds the rows above and below. *)
Offsets == {-1, 0, 1} \X {-1, 0, 1}
Patch(w, i, x) == [o \in Offsets |-> w[i + o[1]][(x + o[2]) % Width]]
Self == <<0, 0>>
Around == Offsets \ {Self}
Beside == {<<-1, 0>>, <<1, 0>>, <<0, -1>>, <<0, 1>>}

(* Life: a birth takes the colour that two of its parents share, else the least. *)
Rule1Cell(p) ==
  LET parents == {o \in Around : p[o] # Space}
      colours == {p[o] : o \in parents}
      shared(c) == Cardinality({o \in parents : p[o] = c}) >= 2
  IN  IF p[Self] # Space
      THEN IF Cardinality(parents) \in {2, 3} THEN p[Self] ELSE Space
      ELSE IF Cardinality(parents) # 3 THEN Space
      ELSE IF \E c \in colours : shared(c) THEN CHOOSE c \in colours : shared(c)
      ELSE CHOOSE c \in colours : \A d \in colours : c <= d

(* Brian's brain: on, dying, off. *)
Rule2Cell(p) ==
  CASE p[Self] = At   -> Plus
    [] p[Self] = Plus -> Space
    [] OTHER -> IF p[Self] = Space /\ Cardinality({o \in Around : p[o] = At}) = 2
                THEN At ELSE Space

(* The next brighter character of the ramp, cyclically. *)
InRamp == {Ramp[j] : j \in 1..10}
Brighter == [c \in InRamp |-> LET j == CHOOSE j \in 1..10 : Ramp[j] = c IN Ramp[(j % 10) + 1]]

Rule3Cell(p) ==
  IF \E o \in Beside : p[o] = Brighter[p[Self]] THEN Brighter[p[Self]] ELSE p[Self]

Cell(r, p) ==
  CASE r \div Era = 0 -> Rule1Cell(p)
    [] r \div Era = 1 -> Rule2Cell(p)
    [] OTHER          -> Rule3Cell(p)

Repaint(w, c) ==
  [i \in DOMAIN w |-> [x \in 0..Width - 1 |->
    IF c[i][x] \in {Space, Dot} THEN w[i][x] ELSE c[i][x]]]

ToBrian(w) ==
  [i \in DOMAIN w |-> [x \in 0..Width - 1 |-> IF w[i][x] # Space THEN At ELSE Space]]

(* The brightness of a cell depends on its row on the whole board. *)
Brightness(x, y) == Ramp[((7 * x + 3 * y + ((x * y) % 11) + Team) % 10) + 1]
ToCyclic(w, ytop) ==
  [i \in DOMAIN w |-> [x \in 0..Width - 1 |->
    IF w[i][x] \in InRamp \ {Space} THEN w[i][x] ELSE Brightness(x, (ytop + i) % Height)]]

-----------------------------------------------------------------------------
(* Bands *)

Worker == 0..N - 1
First(k) == (Height * k) \div N          \* y0
Past(k) == (Height * (k + 1)) \div N     \* y1
Size(k) == Past(k) - First(k)
WorkerBefore(k) == (k - 1) % N
WorkerAfter(k) == (k + 1) % N

(* Rows y0 - 1 .. y1 of a canvas: what a worker gets of canvas 1 and 2. *)
Slice(canvas, y0, y1) == [i \in 0..y1 - y0 + 1 |-> canvas[(y0 - 1 + i) % Height]]

Band(picture, y0, y1) == [i \in 1..y1 - y0 |-> picture[y0 - 1 + i]]

Window(rows, h, top, bottom) ==
  [i \in 0..h + 1 |-> IF i = 0 THEN top ELSE IF i = h + 1 THEN bottom ELSE rows[i]]

(* What Board.step does to the window before it computes. *)
Prepared(r, w, y0, y1) ==
  CASE r = Era     -> ToBrian(Repaint(w, Slice(Canvas[1], y0, y1)))
    [] r = 2 * Era -> ToCyclic(Repaint(w, Slice(Canvas[2], y0, y1)), (y0 - 1) % Height)
    [] OTHER       -> w

(* Board.step: the rows of band y0..y1 after round r. *)
BoardStep(r, rows, top, bottom, y0, y1) ==
  LET w == Prepared(r, Window(rows, y1 - y0, top, bottom), y0, y1)
  IN  [i \in 1..y1 - y0 |-> [x \in 0..Width - 1 |-> Cell(r, Patch(w, i, x))]]

(* The whole board as one band that is its own neighbour (reference.py). *)
WholeStep(r, picture) ==
  LET rows == BoardStep(r, Band(picture, 0, Height),
                        picture[Height - 1], picture[0], 0, Height)
  IN  [y \in 0..Height - 1 |-> rows[y + 1]]
=============================================================================
