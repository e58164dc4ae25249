---------------------------- MODULE FifoChannel ----------------------------
(***************************************************************************)
(* What a serial transmitter promises its callers: every character it      *)
(* accepted leaves on the line, once, in the order of acceptance.          *)
(***************************************************************************)
EXTENDS Sequences

CONSTANTS Chars

VARIABLES
  buffered,   \* accepted and not yet on the line, oldest first
  line        \* the last character put on the line, <<>> before the first

vars == <<buffered, line>>

Init == buffered = <<>> /\ line = <<>>

Accept(c) == buffered' = Append(buffered, c) /\ UNCHANGED line

Emit ==
  /\ buffered # <<>>
  /\ line' = <<Head(buffered)>>
  /\ buffered' = Tail(buffered)

Next == Emit \/ \E c \in Chars : Accept(c)

Spec == Init /\ [][Next]_vars
=============================================================================
