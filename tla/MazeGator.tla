----------------------------- MODULE MazeGator -----------------------------
(***************************************************************************)
(* mazegatormain.c: the maze robot's program.  A left-hand run explores    *)
(* the maze and records a turn per crossing in the fixed array path; at    *)
(* the finish the record is reduced to the shortest path and saved to      *)
(* /local/Path.txt, which is emptied first.  A short run loads the file    *)
(* and replays it.                                                         *)
(*                                                                         *)
(* One step is one call of GoLeftHand or GoShort on a grid point, with     *)
(* everything it calls (intersection, inputTurn, shortestPath,             *)
(* intersectionSP); writePath is split where it opens and where it closes  *)
(* the file.  The program is a single thread: nothing interleaves with a   *)
(* call but the loss of power.                                             *)
(***************************************************************************)
EXTENDS MazeGrid, TLC

CONSTANTS
  PathSize,     \* length of the array path (100 in the code)
  Others,       \* mazes the operator may put up between runs
  NoFile        \* /local/Path.txt does not exist yet

ASSUME PathSizeAssumption == PathSize \in Nat /\ PathSize >= 3
ASSUME OthersAssumption == Others \subseteq Mazes

VARIABLES
  maze,         \* the maze the robot stands in
  mode,         \* what main is doing: see Modes
  pos, heading, \* the robot
  path, input,  \* the globals of mazegatormain.c
  file,         \* /local/Path.txt, a sequence of characters
  savedFor,     \* history: the maze that was being explored at the last save
  whole         \* history: whether that save was closed before the power went

saved == <<file, savedFor, whole>>
vars == <<maze, mode, pos, heading, path, input, saved>>

Modes == {"menu", "lefthand", "saving", "short", "lost"}
NUL   == "0"
Turns == {"L", "R", "S", "U"}
Chars == Turns \cup {"F", NUL}

(* The array as a sequence: the code's path[k] is path[k + 1] here. *)
Paths  == [1..PathSize -> Chars]
Zeroed == [k \in 1..PathSize |-> NUL]

FirstIndex(p, c) ==
  CHOOSE k \in DOMAIN p : p[k] = c /\ \A j \in 1..(k - 1) : p[j] # c

(* A path array read as a C string. *)
CString(p) == SubSeq(p, 1, FirstIndex(p, NUL) - 1)

-----------------------------------------------------------------------------
(* shortestPath *)

\* Mutant of Substitute: "SUL" becomes a left turn.
Substitute_SULisL(x, y) ==
  CASE <<x, y>> \in {<<"R", "R">>, <<"L", "L">>} -> "S"
    [] <<x, y>> \in {<<"L", "R">>, <<"R", "L">>, <<"S", "S">>} -> "U"
    [] <<x, y>> = <<"L", "S">> -> "R"
    [] <<x, y>> \in {<<"S", "R">>, <<"S", "L">>} -> "L"
    [] OTHER -> x

(* The ladder of else-ifs: turn x, U-turn, turn y becomes one turn.  A pair *)
(* the ladder does not list leaves x as it is.                              *)
Substitute(x, y) ==
  CASE <<x, y>> \in {<<"R", "R">>, <<"L", "L">>} -> "S"
    [] <<x, y>> \in {<<"L", "R">>, <<"R", "L">>, <<"S", "S">>} -> "U"
    [] <<x, y>> \in {<<"L", "S">>, <<"S", "L">>} -> "R"
    [] <<x, y>> = <<"S", "R">> -> "L"
    [] OTHER -> x

(* Where the outer loop can stop before the F: a U-turn comes next. *)
BeforeUTurn(p) == {i \in 1..(FirstIndex(p, "F") - 1) : p[i + 1] = "U"}

(* The inner while loop moves what follows down by two up to, but not      *)
(* including, the F: the F and the NUL after it are copied two places      *)
(* down, and the old F stays where it was.                                 *)
CutAt(p, i) ==
  LET end == FirstIndex(p, "F")
  IN  SubSeq(p, 1, i - 1) \o <<Substitute(p[i], p[i + 2])>>
        \o SubSeq(p, i + 3, end + 1) \o SubSeq(p, end, PathSize)

(* One turn of the outer loop, as long as it finds a U-turn. *)
Shortened[p \in Paths] ==
  IF BeforeUTurn(p) = {} THEN p
  ELSE CutAt(p, CHOOSE i \in BeforeUTurn(p) : \A j \in BeforeUTurn(p) : i <= j)

(* Each turn takes two places. *)
Reduced(p) ==
  LET after[k \in 0..(PathSize \div 2)] == IF k = 0 THEN p ELSE Shortened[after[k - 1]]
  IN  after[PathSize \div 2]

\* Mutant of shortestPath: the terminator overwrites the F.
shortestPath_CutsF(p) ==
  LET q == Reduced(p) IN [q EXCEPT ![FirstIndex(q, "F")] = NUL]

shortestPath(p) ==
  LET q == Reduced(p) IN [q EXCEPT ![FirstIndex(q, "F") + 1] = NUL]

-----------------------------------------------------------------------------
\* Mutant of inputTurn: no bound check.
inputTurn_Unbounded(turn) ==
  /\ path' = [path EXCEPT ![input + 1] = turn]
  /\ input' = input + 1
  /\ UNCHANGED saved

(* inputTurn: a turn is dropped when the array is full. *)
inputTurn(turn) ==
  IF input < PathSize - 1
  THEN /\ path' = [path EXCEPT ![input + 1] = turn]
       /\ input' = input + 1
       /\ UNCHANGED saved
  ELSE UNCHANGED <<path, input, saved>>

(* inputTurn('F'): shortestPath, then writePath as far as its fopen, which *)
(* empties the file of the last save.                                      *)
inputFinish ==
  IF input < PathSize - 1
  THEN /\ mode' = "saving"
       /\ path' = shortestPath([path EXCEPT ![input + 1] = "F", ![input + 2] = NUL])
       /\ input' = input + 1
       /\ file' = <<>>
       /\ savedFor' = maze
       /\ whole' = FALSE
  ELSE mode' = "menu" /\ UNCHANGED <<path, input, saved>>

\* Mutant of writePath: input is not rewound.
writePath_NoRewind ==
  /\ mode = "saving"
  /\ mode' = "menu"
  /\ file' = CString(path)
  /\ whole' = TRUE
  /\ UNCHANGED <<maze, pos, heading, path, input, savedFor>>

(* writePath from fprintf on: the file is whole when it is closed. *)
writePath ==
  /\ mode = "saving"
  /\ mode' = "menu"
  /\ file' = CString(path)
  /\ whole' = TRUE
  /\ input' = 0
  /\ UNCHANGED <<maze, pos, heading, path, savedFor>>

Drive(d) ==
  /\ heading' = d
  /\ pos' = Ahead(pos, d)

(* main: the menu.  The robot is put down at the start before a button is  *)
(* pressed; only readPath rewinds input.                                   *)
PutDown ==
  /\ maze' \in {maze} \cup Others
  /\ pos' = maze'.start
  /\ heading' = maze'.facing

PressLeftHand ==
  /\ mode = "menu"
  /\ mode' = "lefthand"
  /\ PutDown
  /\ UNCHANGED <<path, input, saved>>

(* readPath: the operator chooses 2:Short only when there is a file, for   *)
(* fopen's NULL is not checked.  fscanf leaves path alone when the file is *)
(* empty.                                                                  *)
PressShort ==
  /\ mode = "menu"
  /\ file # NoFile
  /\ mode' = "short"
  /\ PutDown
  /\ path' = IF file = <<>> THEN path
             ELSE file \o <<NUL>> \o SubSeq(path, Len(file) + 2, PathSize)
  /\ input' = 0
  /\ UNCHANGED saved

(***************************************************************************)
(* GoLeftHand with intersection: two reads tell the finish from a T and a  *)
(* right bend from a right branch.                                         *)
(***************************************************************************)
GoLeftHand ==
  LET error  == ErrorAt(maze, pos, heading)
      beyond == ErrorBeyond(maze, pos, heading)
  IN
  /\ mode = "lefthand"
  /\ UNCHANGED maze
  /\ \/ /\ error = Bar /\ beyond = Bar
        /\ inputFinish
        /\ UNCHANGED <<pos, heading>>
     \/ /\ error = LeftBar \/ (error = Bar /\ beyond # Bar)
        /\ inputTurn("L")
        /\ Drive(TurnLeft(maze, pos, heading))
        /\ UNCHANGED mode
     \/ /\ error = RightBar
        /\ IF beyond = NoLine
           THEN inputTurn("R") /\ Drive(TurnRight(maze, pos, heading))
           ELSE inputTurn("S") /\ Drive(heading)
        /\ UNCHANGED mode
     \/ /\ error = NoLine
        /\ inputTurn("U")
        /\ Drive(UTurn(maze, pos, heading))
        /\ UNCHANGED mode
     \/ /\ error = Centred
        /\ Drive(heading)
        /\ UNCHANGED <<mode, path, input, saved>>

\* Mutant of ReplayHeading: a recorded right turn is driven straight.
ReplayHeading_NoRight(c) ==
  CASE c = "L" -> TurnLeft(maze, pos, heading)
    [] c = "U" -> UTurn(maze, pos, heading)
    [] OTHER   -> heading

(* The heading intersectionSP leaves the crossing with. *)
ReplayHeading(c) ==
  CASE c = "L" -> TurnLeft(maze, pos, heading)
    [] c = "R" -> TurnRight(maze, pos, heading)
    [] c = "U" -> UTurn(maze, pos, heading)
    [] OTHER   -> heading

(* Driving on where no line continues: GoShort has no dead-end branch and  *)
(* the motors keep their last command.                                     *)
DriveOrLeave(d) ==
  IF Open(maze, pos, d)
  THEN Drive(d) /\ UNCHANGED mode
  ELSE mode' = "lost" /\ heading' = d /\ UNCHANGED pos

(* path[input], or whatever memory holds behind the array. *)
NextChar == IF input < PathSize THEN {path[input + 1]} ELSE Chars

(* GoShort with intersectionSP.  input is never checked against the array: *)
(* path[input] stays inside it only because the string in it ends in F.    *)
(* PathSize stands for every index behind the array.                       *)
GoShort ==
  LET error == ErrorAt(maze, pos, heading)
  IN
  /\ mode = "short"
  /\ UNCHANGED <<maze, saved>>
  /\ \/ /\ error \in {Bar, RightBar, LeftBar}
        /\ "F" \in NextChar
        /\ mode' = "menu"
        /\ path' = Zeroed            \* main, after the run
        /\ input' = PathSize
        /\ UNCHANGED <<pos, heading>>
     \/ /\ error \in {Bar, RightBar, LeftBar}
        /\ \E turn \in NextChar \ {"F"} : DriveOrLeave(ReplayHeading(turn))
        /\ input' = IF input < PathSize THEN input + 1 ELSE input
        /\ UNCHANGED path
     \/ /\ error \in {Centred, NoLine}
        /\ DriveOrLeave(heading)
        /\ UNCHANGED <<path, input>>

(* Power off and on: the globals are cleared, the file survives.  A file   *)
(* that was being written holds as much as had reached the flash.          *)
PowerCycle ==
  /\ mode' = "menu"
  /\ path' = Zeroed
  /\ input' = 0
  /\ \/ mode # "saving" /\ UNCHANGED file
     \/ /\ mode = "saving"
        /\ \E n \in 0..Len(CString(path)) : file' = SubSeq(CString(path), 1, n)
  /\ UNCHANGED <<maze, pos, heading, savedFor, whole>>

Init ==
  /\ mode = "menu"
  /\ maze \in Mazes /\ pos = maze.start /\ heading = maze.facing
  /\ path = Zeroed /\ input = 0
  /\ file = NoFile /\ savedFor = maze /\ whole = FALSE

Next ==
  PressLeftHand \/ PressShort \/ GoLeftHand \/ writePath \/ GoShort \/ PowerCycle

(* A run goes on by itself: main calls GoLeftHand, with writePath at its   *)
(* end, or GoShort in a loop.                                              *)
Fairness == WF_vars(GoLeftHand) /\ WF_vars(writePath) /\ WF_vars(GoShort)

Spec == Init /\ [][Next]_vars /\ Fairness

-----------------------------------------------------------------------------
TypeOK ==
  /\ {maze, savedFor} \subseteq Mazes
  /\ mode \in Modes
  /\ pos \in Points(maze) /\ heading \in Headings
  /\ path \in Paths /\ input \in 0..PathSize
  /\ file = NoFile \/ file \in Seq(Chars \ {NUL})
  /\ whole \in BOOLEAN

(* A function that TLC has compared it keeps as a table. *)
Table(f) == CHOOSE g \in {f} : g = f

RouteTurnsOf == Table([m \in Mazes |-> RouteTurns(m)])
RouteSetOf   == Table([m \in Mazes |-> {Route(m)[i] : i \in DOMAIN Route(m)}])

FrontOf(f, s) == Len(f) <= Len(s) /\ \A j \in 1..Len(f) : f[j] = s[j]

(* A file that was saved whole is the exact turn list of the simple route  *)
(* through the maze it was recorded in, and one that lost the power in the *)
(* middle of writePath is a front part of it: the in-place cutting of      *)
(* shortestPath, its leftover F's, earlier contents of path, an earlier    *)
(* file and a full array never spoil it.                                   *)
SavedPathIsTheRoute ==
  file # NoFile =>
    /\ FrontOf(file, RouteTurnsOf[savedFor])
    /\ whole => file = RouteTurnsOf[savedFor]

(* A short run in the maze the file was recorded in never enters a dead    *)
(* end and never runs off the lines: it stays on the simple route.  With a *)
(* file that was cut by a loss of power, that holds as far as the recorded *)
(* turns go, and no further.                                               *)
ShortStaysOnRoute ==
  /\ mode \in {"short", "lost"} /\ savedFor = maze /\ file # NoFile
  /\ whole \/ input <= Len(file)
  => mode = "short" /\ pos \in RouteSetOf[maze]

(* A short run from a file that was saved whole, whatever maze it is in,   *)
(* reads path only up to the F.  One from a file that a loss of power cut  *)
(* before its F goes on reading, past the end of path if need be.          *)
ReplayStaysInString == mode = "short" /\ whole => input < Len(file)

(* Every run ends: a left-hand run finds the finish of every tree maze and *)
(* saves, even when its array is full; a short run leaves the loop or the  *)
(* lines, unless a file without its F sends it past the end of path; and   *)
(* unless the power goes.                                                  *)
RunsEnd ==
  /\ mode \in {"lefthand", "saving"} ~> mode = "menu"
  /\ mode = "short" ~> mode \in {"menu", "lost"} \/ (~whole /\ input = PathSize)
=============================================================================
