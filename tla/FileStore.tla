----------------------------- MODULE FileStore -----------------------------
(***************************************************************************)
(* What a file system promises a program that has one file open at a time: *)
(* a call changes no file but the ones it names, a read returns what was   *)
(* written, and what was saved is there after any cut.  A card that is     *)
(* write protected stays as it is.  All ends when the file system goes     *)
(* astray, which happens to it only with a file open.                      *)
(*                                                                         *)
(* The content of a file is <<>> if there is none, else a tuple that       *)
(* starts with "file".  In what a handle holds, "any" stands for pieces    *)
(* the program never wrote, and Unknown for a file it lost track of.       *)
(***************************************************************************)
EXTENDS Naturals, Sequences

CONSTANTS Names, Pieces

VARIABLES
  files,    \* what the card has under each name
  handle,   \* the open file: its name, what the program wrote, and saved
  got,      \* the pieces the last call read
  found,    \* the names the last call asked for, the entries it found for them
  doubt,    \* files that a call that failed may still change
  up,       \* has the volume been in use since the last cut
  shut,     \* is the card write protected
  astray,   \* has the file system gone wrong in a way of which it knows nothing
  last      \* the result of the last call, and if it failed the files it named

vars == <<files, handle, got, found, doubt, up, shut, astray, last>>

Absent == <<>>
Unknown == <<"unknown">>
NothingAsked == [asked |-> {}, files |-> <<>>]
NoHandle == [name |-> "none", holds |-> Absent, saved |-> TRUE]

(* An actual content is one the program can expect.                        *)
Agrees(content, holds) ==
  \/ holds = Unknown
  \/ /\ Len(content) = Len(holds)
     /\ \A i \in DOMAIN holds : holds[i] \in {content[i], "any"}

(* What is saved is on the card, unless a failed call is still to strike.  *)
Kept ==
  handle'.name \notin {"none"} \cup doubt' /\ handle'.saved
    => Agrees(files'[handle'.name], handle'.holds)

OnlyIn(ns) ==
  /\ \A n \in Names \ (ns \cup doubt) : files'[n] = files[n]
  /\ doubt' \subseteq doubt \cup last'.names

Silent == got' = <<>> /\ found' = NothingAsked

Init == handle = NoHandle
        /\ got = <<>>
        /\ found = NothingAsked
        /\ doubt = {}
        /\ up = FALSE
        /\ astray = FALSE
        /\ last = [res |-> "OK", names |-> {}]

Open(n) ==
  /\ handle = NoHandle
  /\ handle'.name = n
  /\ n \notin doubt => handle'.holds \in {files[n], <<"file">>}
  /\ Kept
  /\ OnlyIn({n})
  /\ Silent

(* Writing, truncating, moving: what was not saved may or may not be on    *)
(* the card.                                                               *)
Use ==
  /\ handle # NoHandle
  /\ handle'.name = handle.name
  /\ Kept
  /\ OnlyIn({handle.name})
  /\ Silent

(* A read returns a stretch of what the file holds.                        *)
Read ==
  /\ handle # NoHandle
  /\ handle' = handle
  /\ Kept
  /\ OnlyIn({handle.name})
  /\ \E i \in 1..Len(handle.holds) :
       \/ handle.holds = Unknown
       \/ Agrees(got', SubSeq(handle.holds, i + 1, i + Len(got')))
  /\ found' = NothingAsked

Close ==
  /\ handle # NoHandle
  /\ handle' = NoHandle
  /\ OnlyIn({handle.name})
  /\ handle.name \notin doubt' => Agrees(files'[handle.name], handle.holds)
  /\ Silent

(* A call that names files may bring what was not saved of the open one to *)
(* the card; what it says it did is on the card.                           *)
Beside(ns) ==
  /\ handle' = handle
  /\ Kept
  /\ OnlyIn(ns \cup {handle.name})

Look == Beside({}) /\ Silent

(* The entries found are true, and without an error they are all: each     *)
(* file asked for is there once, if it exists.                             *)
List ==
  /\ Beside({})
  /\ got' = <<>>
  /\ found'.asked # {}
  /\ \A i \in DOMAIN found'.files : found'.files[i].name \in found'.asked
  /\ \A n \in found'.asked \ (doubt \cup {handle.name}) :
       LET shown == SelectSeq(found'.files, LAMBDA e : e.name = n)
           true == IF files'[n] = Absent THEN <<>>
                   ELSE <<[name |-> n, size |-> Len(files'[n]) - 1]>>
       IN \/ shown = true
          \/ shown = <<>> /\ last'.res \notin {"OK", "NO_FILE"}

FailedOpen(n) == Beside({n}) /\ last'.res # "OK" /\ Silent

Remove(n) == Beside({n}) /\ (last'.res = "OK" => files'[n] = Absent) /\ Silent

Rename(n, m) ==
  /\ Beside({n, m})
  /\ last'.res = "OK" /\ n \notin doubt => files'[m] = files[n] /\ files'[n] = Absent
  /\ Silent

(* Cut in the middle of a call: what was saved stays, but for the files    *)
(* the call names.                                                         *)
Cut ==
  /\ ~up'
  /\ handle' = NoHandle
  /\ OnlyIn(last'.names \cup IF handle.saved THEN {} ELSE {handle.name})
  /\ Silent

Next ==
  /\ shut => files' = files
  /\ astray => astray'
  /\ astray' => astray \/ handle # NoHandle
  /\ \/ astray'
     \/ \E n \in Names : Open(n) \/ FailedOpen(n) \/ Remove(n)
     \/ Look
     \/ List
     \/ Use
     \/ Read
     \/ Close
     \/ \E n, m \in Names : Rename(n, m)
     \/ Cut

Spec == Init /\ [][Next]_vars
=============================================================================
