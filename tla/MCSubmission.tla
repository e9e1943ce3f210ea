---------------------------- MODULE MCSubmission ----------------------------
(***************************************************************************)
(* Small instances of Submission: two people with one checkout each who     *)
(* submit the same command, or one who edits the project between calls.     *)
(***************************************************************************)
EXTENDS Submission, TLC

CONSTANTS alice, bob, old, new, h

Command(v, snapshot) ==
    [kind |-> "submit", hash |-> h, version |-> v, sync |-> TRUE, snapshot |-> snapshot]

Array(v) == [kind |-> "array", hash |-> h, version |-> v, sync |-> FALSE, snapshot |-> TRUE]

MCCalls == [c \in Clients |-> IF c = alice THEN {Command(old, TRUE), Command(new, TRUE)}
                                           ELSE {Command(new, FALSE), Array(new)}]

JobSymmetry == Permutations(Jobs)
============================================================================
