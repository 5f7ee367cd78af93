--------------------------- MODULE MCLifeBarrier ---------------------------
EXTENDS LifeBarrier, TLC

(* Canvases of 4 rows and 3 columns: canvas 0 lives through rule 1, canvas 1
   and 2 leave gaps through which old cells show, canvas 2 also has characters
   outside the ramp. *)
Paint == << <<<<35, 64, 32>>, <<64, 32, 32>>, <<65, 35, 32>>, <<32, 64, 32>>>>,
            <<<<64, 46, 46>>, <<46, 32, 46>>, <<46, 46, 46>>, <<32, 46, 32>>>>,
            <<<<32, 65, 65>>, <<37, 46, 32>>, <<46, 32, 58>>, <<46, 32, 46>>>> >>
MCCanvas == [i \in 0..2 |-> [y \in 0..Height - 1 |-> [x \in 0..Width - 1 |->
              Paint[i + 1][y + 1][x + 1]]]]

(* @@ makes TLC evaluate a function at once. *)
Nothing == [i \in {} |-> 0]
Evaluated(picture) == [y \in 0..Height - 1 |-> picture[y] @@ Nothing] @@ Nothing

(* The boards of rounds 0..s.  A set binds b to a value that is computed once. *)
Boards[s \in 0..Rounds] ==
  IF s = 0 THEN <<Evaluated(Canvas[0])>>
  ELSE CHOOSE later \in {Append(b, Evaluated(WholeStep(s - 1, b[s]))) : b \in {Boards[s - 1]}} : TRUE

BoardHistory ==
  CHOOSE h \in {[s \in 0..Rounds |-> b[s + 1]] @@ Nothing : b \in {Boards[Rounds]}} : TRUE
(* TLC evaluates BoardHistory once, and this each time. *)
MCHistory == BoardHistory
=============================================================================
