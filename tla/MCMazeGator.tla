---------------------------- MODULE MCMazeGator ----------------------------
(***************************************************************************)
(* MazeGator on every spanning tree of a grid of 3 x 3 points.  Between    *)
(* runs the operator may put up a maze like a comb, its finish in the      *)
(* middle, or a snake.                                                     *)
(***************************************************************************)
EXTENDS MazeGator

Corridors(pairs) == {{p[1], p[2]} : p \in pairs}
Up(x, y) == << <<x, y>>, <<x, y + 1>> >>
Right(x, y) == << <<x, y>>, <<x + 1, y>> >>

Comb == [corridors |-> Corridors({Up(0, 0), Up(0, 1), Right(0, 1), Right(1, 1),
                                  Up(1, 1), Up(2, 1), Up(1, 0), Up(2, 0)}),
         start |-> <<0, 0>>, facing |-> 0, finish |-> <<1, 2>>]

Snake == [corridors |-> Corridors({Up(0, 0), Up(0, 1), Right(0, 2), Up(1, 1),
                                   Up(1, 0), Right(1, 0), Up(2, 0), Up(2, 1)}),
          start |-> <<0, 0>>, facing |-> 0, finish |-> <<2, 2>>]

MCOthers == {Comb, Snake}
=============================================================================
