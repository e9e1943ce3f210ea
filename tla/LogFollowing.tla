---------------------------- MODULE LogFollowing ----------------------------
(***************************************************************************)
(* Reading the logs of a job while it runs (src/slurp/client.py): wait_job  *)
(* with follow_logs, `slurp logs --follow` and `slurp logs`.  The files     *)
(* grow by bytes; what is read is text, whose characters have one byte or   *)
(* two, and a read that ends within a character fails as a whole.  One      *)
(* reader at a time: readers do not disturb each other, and the offsets     *)
(* that wait_job saves are read by nobody.                                  *)
(***************************************************************************)
EXTENDS Naturals, Sequences, FiniteSetsExt

CONSTANTS
    Lines,      \* what `tail -n` gives, 100 lines, counted in characters here
    Limit,      \* what a JobResult keeps: 1024 * 1024 characters
    MaxChars    \* bound: characters in a log

ASSUME SizesAssumption == Lines \in Nat /\ Limit \in Nat /\ MaxChars \in Nat

Streams == {"out", "err"}

VARIABLES
    ends,      \* ends[s]: where each character of the log ends, in bytes
    torn,      \* torn[s]: the last character has been written in part
    ended,     \* the job has ended
    op,        \* what the reader does: "wait", "follow" or "tail"
    selected,  \* the streams it shows
    pc, at,    \* its place, and the stream it is about to read
    offset,    \* out_offset and err_offset, in bytes
    shown,     \* shown[s]: the characters it has shown, by position
    saved,     \* log_offsets.json: the offsets of the job
    result,    \* stdout and stderr of the JobResult, None while there are none
    complete   \* the streams whose final read gave the file (history)

files == <<ends, torn, ended>>
vars == <<files, op, selected, pc, at, offset, shown, saved, result, complete>>

\* The byte after which character n ends.
End(s, n) == IF n = 0 THEN 0 ELSE ends[s][n]

Chars(s) == Len(ends[s])

Boundaries(s) == {End(s, n) : n \in 0 .. Chars(s)}

\* What a reader is promised.
Log == INSTANCE LogReader WITH length <- [s \in Streams |-> Chars(s)], partial <- op = "tail"

Piece(first, last) == Log!Piece(first, last)

TypeOK ==
    /\ ends \in [Streams -> Seq(Nat)]
    /\ torn \in [Streams -> BOOLEAN] /\ ended \in BOOLEAN
    /\ op \in {"wait", "follow", "tail"} /\ selected \subseteq Streams
    /\ pc \in {"idle", "refresh", "read", "save", "sleep", "cat"} /\ at \in Streams
    /\ shown \in [Streams -> Seq(Nat)] /\ result \in [Streams -> Seq(Nat)]
    /\ complete \subseteq Streams
    /\ DOMAIN offset = Streams /\ DOMAIN saved = Streams
    /\ \A s \in Streams : {offset[s], saved[s]} \subseteq Boundaries(s)

Init ==
    /\ ends = [s \in Streams |-> <<>>]
    /\ torn = [s \in Streams |-> FALSE] /\ ended = FALSE
    /\ op = "follow" /\ selected = {} /\ pc = "idle" /\ at = "out"
    /\ offset = [s \in Streams |-> 0] /\ saved = offset
    /\ shown = [s \in Streams |-> <<>>] /\ result = shown
    /\ complete = {}

----------------------------------------------------------------------------
(* The job: it writes, and whatever it has written can be read once it ended. *)

Reader == <<op, selected, pc, at, offset, shown, saved, result, complete>>

Write(s, width) ==
    /\ ~ended /\ ~torn[s] /\ Chars(s) < MaxChars
    /\ ends' = [ends EXCEPT ![s] = Append(@, End(s, Chars(s)) + width)]
    /\ UNCHANGED <<torn, ended, Reader>>

Tear(s) ==
    /\ ~ended /\ ~torn[s] /\ Chars(s) < MaxChars
    /\ torn' = [torn EXCEPT ![s] = TRUE]
    /\ UNCHANGED <<ends, ended, Reader>>

Mend(s) ==
    /\ ~ended /\ torn[s]
    /\ ends' = [ends EXCEPT ![s] = Append(@, End(s, Chars(s)) + 2)]
    /\ torn' = [torn EXCEPT ![s] = FALSE]
    /\ UNCHANGED <<ended, Reader>>

JobEnds ==
    /\ ~ended
    /\ ended' = TRUE
    /\ UNCHANGED <<ends, torn, Reader>>

----------------------------------------------------------------------------
(* The reader *)

Begin(operation, streams, place) ==
    /\ pc = "idle"
    /\ op' = operation /\ selected' = streams
    /\ pc' = place /\ at' = "out"
    /\ offset' = [s \in Streams |-> 0]
    /\ shown' = [s \in Streams |-> <<>>] /\ result' = shown'
    /\ complete' = {}
    /\ UNCHANGED <<files, saved>>

Wait(follow_logs) == Begin("wait", IF follow_logs THEN Streams ELSE {}, "refresh")

\* The flags --stdout and --stderr; both of them, or neither, mean both streams.
JobLogs(follow, streams) ==
    /\ streams # {}
    /\ Begin(IF follow THEN "follow" ELSE "tail", streams, "read")

Goto(place, s) == pc' = place /\ at' = s

\* What comes after the stream that has just been read.
Onwards ==
    IF at = "out" THEN Goto("read", "err")
    ELSE Goto(CASE op = "wait" -> "save" [] op = "follow" -> "sleep" [] OTHER -> "idle", "out")

Still == UNCHANGED <<files, op, selected, saved>>

Skip ==
    /\ pc = "read" /\ at \notin selected
    /\ Onwards
    /\ UNCHANGED <<offset, shown, result, complete>> /\ Still

\* A timeout, a lost connection, text that is no text: the read gave nothing.
ReadFails ==
    /\ pc = "read" /\ at \in selected
    /\ Onwards
    /\ UNCHANGED <<offset, shown, result, complete>> /\ Still

\* Mutant: `tail -c +{offset}`, whose count begins at one.
BytesSkippedOffByOne(bytes) == IF bytes = 0 THEN 0 ELSE bytes - 1

\* `tail -c +{offset + 1}` leaves out the first offset bytes.
BytesSkipped(bytes) == bytes

\* The character before those that `tail` gives.
Before(s) ==
    IF op = "tail" THEN IF Chars(s) < Lines THEN 0 ELSE Chars(s) - Lines
    ELSE CHOOSE n \in 0 .. Chars(s) : End(s, n) = BytesSkipped(offset[s])

\* Mutant: the offset is advanced by the length of the text.
AdvanceByCharacters(s, first, last) == offset[s] + ((last + 1) - first)

\* _tail_remote: the offset is advanced by the bytes of the text.
Advance(s, first, last) == offset[s] + (End(s, last) - End(s, first - 1))

ReadUpTo(last) ==
    /\ pc = "read" /\ at \in selected
    /\ op # "tail" => BytesSkipped(offset[at]) \in Boundaries(at)
    /\ last >= Before(at)
    /\ LET first == Before(at) + 1
       IN /\ shown' = [shown EXCEPT ![at] = @ \o Piece(first, last)]
          /\ offset' = IF op = "tail" THEN offset
                       ELSE [offset EXCEPT ![at] = Advance(at, first, last)]
    /\ Onwards
    /\ UNCHANGED <<result, complete>> /\ Still

ReadAll(s) == at = s /\ ~torn[s] /\ ReadUpTo(Chars(s))

\* With check=False a connection that is lost on the way is no failure: what
\* has come is taken for the answer.
ReadCut == \E last \in 0 .. Chars(at) : ReadUpTo(last)

SleepEnds ==
    /\ pc = "sleep"
    /\ Goto(IF op = "wait" THEN "refresh" ELSE "read", "out")
    /\ UNCHANGED <<offset, shown, result, complete>> /\ Still

\* wait_job: the status is terminal some time after the job has ended
\* (JobTracking), and then nothing more is shown.
WaitOver ==
    /\ pc = "refresh" /\ ended
    /\ Goto("cat", "out")
    /\ UNCHANGED <<offset, shown, result, complete>> /\ Still

WaitOn ==
    /\ pc = "refresh"
    /\ Goto("read", "out")
    /\ UNCHANGED <<offset, shown, result, complete>> /\ Still

\* Mutant: what has been shown is counted in characters.
SaveCharacters ==
    /\ pc = "save"
    /\ saved' = [s \in Streams |-> Len(shown[s])]
    /\ Goto("sleep", "out")
    /\ UNCHANGED <<files, op, selected, offset, shown, result, complete>>

Save ==
    /\ pc = "save"
    /\ saved' = offset
    /\ Goto("sleep", "out")
    /\ UNCHANGED <<files, op, selected, offset, shown, result, complete>>

\* Mutant: the final read goes on where the streaming was.
KeptRest(last) == Piece(Len(shown[at]) + 1, Min({last, Limit}))

\* `cat`, of which the JobResult keeps the beginning.
Kept(last) == Piece(1, Min({last, Limit}))

AfterCat == Goto(IF at = "out" THEN "cat" ELSE "idle", IF at = "out" THEN "err" ELSE "out")

CatUpTo(last) ==
    /\ pc = "cat"
    /\ result' = [result EXCEPT ![at] = Kept(last)]
    /\ AfterCat
    /\ UNCHANGED <<offset, shown>> /\ Still

CatAll ==
    /\ ~torn[at]
    /\ CatUpTo(Chars(at))
    /\ complete' = complete \cup {at}

\* A failure leaves nothing, a lost connection what has come.
CatCut ==
    /\ \E last \in 0 .. Chars(at) : CatUpTo(last)
    /\ UNCHANGED complete

\* TimeoutError of wait_job, Ctrl+C, a consumer that has seen enough.
Stop ==
    /\ pc # "idle"
    /\ Goto("idle", "out")
    /\ UNCHANGED <<offset, shown, result, complete>> /\ Still

Proceeds ==
    \/ Skip \/ ReadFails \/ ReadCut \/ \E s \in Streams : ReadAll(s)
    \/ SleepEnds \/ WaitOver \/ WaitOn \/ Save \/ CatAll \/ CatCut

Job ==
    \/ \E s \in Streams : (\E width \in {1, 2} : Write(s, width)) \/ Tear(s) \/ Mend(s)
    \/ JobEnds

Starts ==
    \/ \E follow_logs \in BOOLEAN : Wait(follow_logs)
    \/ \E follow \in BOOLEAN, streams \in SUBSET Streams : JobLogs(follow, streams)

Next == Job \/ Starts \/ Proceeds \/ Stop

Spec == Init /\ [][Next]_vars

\* The loop of a reader goes on, and a read that is tried again and again
\* gives the whole rest of the file at last.
Fairness == WF_vars(Proceeds) /\ \A s \in Streams : SF_vars(ReadAll(s))

FairSpec == Spec /\ Fairness

----------------------------------------------------------------------------
(* Properties *)

\* A reader is shown one piece of each log, in order, with nothing left out or
\* repeated, through reads that fail, that are cut and that meet a character of
\* which half is there; one who follows, or waits, from the beginning on.
\* (_tail_remote, _follow_logs, wait_job, _tail_logs.)
ImplementsLogReader == Log!Spec

\* After the job has ended, one who follows is shown the log to its end, unless
\* that is not text.
FollowCatchesUp ==
    \A s \in Streams :
        (op = "follow" /\ pc # "idle" /\ s \in selected /\ ended /\ ~torn[s])
            ~> (op # "follow" \/ pc = "idle" \/ shown[s] = Piece(1, Chars(s)))

\* A final read that gets through puts the log as the job left it, up to the
\* limit, into the JobResult, whatever had been streamed before: it comes after
\* the status was seen to be terminal, never before.
ResultIsLog ==
    \A s \in complete : ended /\ result[s] = Piece(1, Min({Chars(s), Limit}))
=============================================================================
