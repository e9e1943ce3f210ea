------------------------------ MODULE LogReader ------------------------------
(***************************************************************************)
(* What somebody who reads the log files of a job while they are written is *)
(* promised: of each file one piece without gaps or repetitions, which      *)
(* begins at the start of the file or, for one who asked for its last       *)
(* lines, at any place.  Characters are known by their position.            *)
(***************************************************************************)
EXTENDS Naturals, Sequences

CONSTANT Streams

VARIABLES
    length,   \* length[s]: characters in the file of stream s
    shown,    \* shown[s]: the characters the reader has been shown of s
    partial   \* whether the reader asked for the last lines only

\* The characters from first to last.
Piece(first, last) == [i \in 1 .. (last + 1) - first |-> first + i - 1]

Init ==
    /\ length = [s \in Streams |-> 0]
    /\ shown = [s \in Streams |-> <<>>]
    /\ partial = FALSE

Write(s) ==
    /\ length' = [length EXCEPT ![s] = @ + 1]
    /\ UNCHANGED <<shown, partial>>

BeginReading ==
    /\ shown' = [s \in Streams |-> <<>>]
    /\ partial' \in BOOLEAN
    /\ UNCHANGED length

Begins(s, first) ==
    IF shown[s] = <<>> THEN partial \/ first = 1
    ELSE first = shown[s][Len(shown[s])] + 1

Show(s) ==
    /\ \E first \in 1 .. length[s] + 1, last \in 0 .. length[s] :
          /\ Begins(s, first)
          /\ shown' = [shown EXCEPT ![s] = @ \o Piece(first, last)]
    /\ UNCHANGED <<length, partial>>

Next == BeginReading \/ \E s \in Streams : Write(s) \/ Show(s)

Spec == Init /\ [][Next]_<<length, shown, partial>>
==============================================================================
