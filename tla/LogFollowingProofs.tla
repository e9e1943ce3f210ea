-------------------------- MODULE LogFollowingProofs --------------------------
(***************************************************************************)
(* What a reader of logs is shown is one piece of each, for logs and limits *)
(* of any size.                                                             *)
(***************************************************************************)
EXTENDS LogFollowing, TLAPS

\* Characters have one byte at least.
Growing(e) ==
    /\ \A i \in 1 .. Len(e) : e[i] > 0
    /\ \A i, j \in 1 .. Len(e) : i < j => e[i] < e[j]

Types ==
    /\ ends \in [Streams -> Seq(Nat)]
    /\ torn \in [Streams -> BOOLEAN] /\ ended \in BOOLEAN
    /\ op \in {"wait", "follow", "tail"} /\ selected \subseteq Streams
    /\ pc \in {"idle", "refresh", "read", "save", "sleep", "cat"} /\ at \in Streams
    /\ shown \in [Streams -> Seq(Nat)] /\ result \in [Streams -> Seq(Nat)]
    /\ complete \subseteq Streams
    /\ offset \in [Streams -> Nat] /\ saved \in [Streams -> Nat]
    /\ \A s \in Streams : Growing(ends[s])

\* One who reads from the beginning has been shown what lies before the offset.
FollowsAt(s) ==
    /\ Len(shown[s]) <= Chars(s)
    /\ shown[s] = Piece(1, Len(shown[s]))
    /\ offset[s] = End(s, Len(shown[s]))

\* `tail -n` reads each log once.
TailsAt(s) ==
    /\ offset[s] = 0
    /\ pc \in {"idle", "read"}
    /\ pc = "read" /\ (at = "out" \/ s = "err") => shown[s] = <<>>

Following == \A s \in Streams : IF op = "tail" THEN TailsAt(s) ELSE FollowsAt(s)

Saving == \A s \in Streams : saved[s] \in Boundaries(s)

\* The final reads come once for each log, after the end of the job.
Concluding ==
    /\ pc = "cat" => ended /\ op # "tail"
    /\ pc = "cat" => complete \subseteq (IF at = "out" THEN {} ELSE {"out"})
    /\ pc \notin {"idle", "cat"} => complete = {}
    /\ ResultIsLog

LogInv == Types /\ Following /\ Saving /\ Concluding

\* The next piece of a log continues the one before.
LEMMA PiecesJoin ==
    ASSUME NEW n \in Nat, NEW last \in Nat, n <= last
    PROVE  /\ Piece(1, n) \o Piece(n + 1, last) = Piece(1, last)
           /\ Piece(1, last) \in Seq(Nat) /\ Len(Piece(1, last)) = last
  <1> DEFINE a == [i \in 1 .. n |-> i]
             b == [i \in 1 .. last - n |-> n + i]
             c == [i \in 1 .. last |-> i]
  <1>1. Piece(1, n) = a /\ Piece(1, last) = c
    BY DEF Piece, Log!Piece
  <1>2. Piece(n + 1, last) = b
    BY DEF Piece, Log!Piece
  <1>3. /\ a \in Seq(Nat) /\ Len(a) = n
        /\ b \in Seq(Nat) /\ Len(b) = last - n
        /\ c \in Seq(Nat) /\ Len(c) = last
    OBVIOUS
  <1>4. a \o b = c
    BY <1>3
  <1> QED
    BY <1>1, <1>2, <1>3, <1>4

\* No two characters end at the same byte.
LEMMA OneCharacter ==
    ASSUME Types, NEW s \in Streams, NEW m \in 0 .. Chars(s), NEW n \in 0 .. Chars(s),
           End(s, m) = End(s, n)
    PROVE  m = n
  <1>1. Growing(ends[s]) /\ ends[s] \in Seq(Nat)
    BY DEF Types
  <1>2. \A i \in 1 .. Chars(s) : ends[s][i] > 0
    BY <1>1 DEF Growing, Chars
  <1>3. \A i, j \in 1 .. Chars(s) : i < j => ends[s][i] < ends[s][j]
    BY <1>1 DEF Growing, Chars
  <1>4. Chars(s) \in Nat /\ \A i \in 1 .. Chars(s) : ends[s][i] \in Nat
    BY <1>1 DEF Chars
  <1>5. CASE m = 0 \/ n = 0
    BY <1>2, <1>4, <1>5 DEF End
  <1>6. CASE m # 0 /\ n # 0
    BY <1>3, <1>4, <1>6 DEF End
  <1> QED
    BY <1>5, <1>6

\* Positions in a log are numbers.
LEMMA EndIsNat ==
    ASSUME Types, NEW s \in Streams, NEW n \in 0 .. Chars(s)
    PROVE  End(s, n) \in Nat /\ Chars(s) \in Nat
  BY DEF Types, End, Chars
\* The invariant holds at the start.
LEMMA InitInvariant == Init => LogInv
  <1> SUFFICES ASSUME Init
               PROVE  LogInv
    OBVIOUS
  <1>1. \A s \in Streams : ends[s] = <<>> /\ shown[s] = <<>> /\ offset[s] = 0 /\ saved[s] = 0
    BY DEF Init
  <1>2. Types
    <2>1. <<>> \in Seq(Nat) /\ Growing(<<>>)
      BY DEF Growing
    <2>2. \A s \in Streams : Growing(ends[s])
      BY <1>1, <2>1
    <2> QED
      BY <2>1, <2>2 DEF Init, Types, Streams
  <1>3. Following
    <2>1. Piece(1, 0) = <<>>
      BY DEF Piece, Log!Piece
    <2> QED
      BY <1>1, <2>1 DEF Init, Following, FollowsAt, Chars, End
  <1>4. Saving
    BY <1>1 DEF Saving, Boundaries, Chars, End
  <1>5. Concluding
    BY DEF Init, Concluding, ResultIsLog
  <1> QED
    BY <1>2, <1>3, <1>4, <1>5 DEF LogInv

\* A log that grows by a character keeps those it has.
LEMMA Grows ==
    ASSUME Types, NEW s \in Streams, NEW width \in {1, 2},
           ends' = [ends EXCEPT ![s] = Append(@, End(s, Chars(s)) + width)]
    PROVE  /\ ends' \in [Streams -> Seq(Nat)]
           /\ \A t \in Streams : Growing(ends'[t])
           /\ \A t \in Streams : Chars(t)' = IF t = s THEN Chars(t) + 1 ELSE Chars(t)
           /\ \A t \in Streams : \A n \in 0 .. Chars(t) : End(t, n)' = End(t, n)
           /\ \A t \in Streams : Chars(t) \in Nat
  <1> DEFINE e == End(s, Chars(s)) + width
  <1>1. ends[s] \in Seq(Nat) /\ Growing(ends[s])
    BY DEF Types
  <1>2. e \in Nat /\ e > 0 /\ \A i \in 1 .. Len(ends[s]) : ends[s][i] < e
    <2>1. CASE Len(ends[s]) = 0
      BY <1>1, <2>1 DEF End, Chars
    <2>2. CASE Len(ends[s]) # 0
      <3>1. End(s, Chars(s)) = ends[s][Len(ends[s])] /\ Len(ends[s]) \in 1 .. Len(ends[s])
        BY <1>1, <2>2 DEF End, Chars
      <3>2. \A i \in 1 .. Len(ends[s]) : ends[s][i] <= ends[s][Len(ends[s])]
        BY <1>1, <3>1 DEF Growing
      <3>3. \A i \in 1 .. Len(ends[s]) : ends[s][i] \in Nat
        BY <1>1
      <3> QED
        BY <3>1, <3>2, <3>3
    <2> QED
      BY <1>1, <2>1, <2>2
  <1>3. ends'[s] = Append(ends[s], e) /\ \A t \in Streams \ {s} : ends'[t] = ends[t]
    BY DEF Types
  <1> HIDE DEF e
  <1>4. Growing(ends'[s])
    BY <1>1, <1>2, <1>3 DEF Growing
  <1>5. ends' \in [Streams -> Seq(Nat)]
    BY <1>1, <1>2 DEF Types, e
  <1>6. \A t \in Streams : Growing(ends'[t])
    BY <1>3, <1>4 DEF Types
  <1>7. \A t \in Streams : Chars(t) \in Nat
    BY DEF Types, Chars
  <1>8. \A t \in Streams : Chars(t)' = IF t = s THEN Chars(t) + 1 ELSE Chars(t)
    BY <1>1, <1>2, <1>3 DEF Chars
  <1>9. \A t \in Streams : \A n \in 0 .. Chars(t) : End(t, n)' = End(t, n)
    BY <1>1, <1>2, <1>3 DEF Chars, End
  <1> QED
    BY <1>5, <1>6, <1>7, <1>8, <1>9

\* A log that grows keeps every offset at the end of a character.
LEMMA GrowingKeeps ==
    ASSUME LogInv, NEW s \in Streams, NEW width \in {1, 2}, ~ended,
           ends' = [ends EXCEPT ![s] = Append(@, End(s, Chars(s)) + width)],
           torn' \in [Streams -> BOOLEAN], UNCHANGED <<ended, Reader>>
    PROVE  LogInv' /\ Log!Write(s)
  <1> USE DEF LogInv
  <1>1. /\ ends' \in [Streams -> Seq(Nat)]
        /\ \A t \in Streams : Growing(ends'[t])
        /\ \A t \in Streams : Chars(t)' = IF t = s THEN Chars(t) + 1 ELSE Chars(t)
        /\ \A t \in Streams : \A n \in 0 .. Chars(t) : End(t, n)' = End(t, n)
        /\ \A t \in Streams : Chars(t) \in Nat
    BY Grows
  <1>2. Types'
    BY <1>1 DEF Types, Reader
  <1>3. Following'
    <2>1. \A t \in Streams : TailsAt(t) => TailsAt(t)'
      BY DEF TailsAt, Reader
    <2>2. \A t \in Streams : FollowsAt(t) => FollowsAt(t)'
      <3> SUFFICES ASSUME NEW t \in Streams, FollowsAt(t)
                   PROVE  FollowsAt(t)'
        OBVIOUS
      <3>1. Len(shown[t]) \in 0 .. Chars(t)
        BY <1>1 DEF FollowsAt, Types
      <3>2. Chars(t) <= Chars(t)' /\ Chars(t)' \in Nat /\ shown' = shown /\ offset' = offset
        BY <1>1 DEF Reader
      <3>3. (End(t, Len(shown[t])))' = End(t, Len(shown[t]))
        BY <1>1, <3>1, <3>2 DEF End
      <3>4. (Piece(1, Len(shown[t])))' = Piece(1, Len(shown[t]))
        BY <3>2 DEF Piece, Log!Piece
      <3> QED
        BY <1>1, <3>1, <3>2, <3>3, <3>4 DEF FollowsAt
    <2> QED
      BY <2>1, <2>2 DEF Following, Reader
  <1>4. Saving'
    <2> SUFFICES ASSUME NEW t \in Streams
                 PROVE  (saved[t] \in Boundaries(t))'
      BY DEF Saving
    <2>1. PICK n \in 0 .. Chars(t) : saved[t] = End(t, n)
      BY DEF Saving, Boundaries
    <2>2. n \in 0 .. Chars(t)' /\ End(t, n)' = End(t, n)
      BY <1>1
    <2> QED
      BY <2>1, <2>2 DEF Boundaries, Reader
  <1>5. Concluding'
    BY DEF Concluding, ResultIsLog, Reader
  <1>6. Log!Write(s)
    <2>1. [t \in Streams |-> Chars(t)]' = [[t \in Streams |-> Chars(t)] EXCEPT ![s] = @ + 1]
      BY <1>1
    <2> QED
      BY <2>1 DEF Log!Write, Reader
  <1> QED
    BY <1>2, <1>3, <1>4, <1>5, <1>6
\* Following is kept by a reader that shows nothing and goes on in its turn.
LEMMA ShowsNothing ==
    ASSUME LogInv, UNCHANGED <<ends, op, offset, shown>>,
           op = "tail" => \/ pc' = "idle"
                          \/ pc' = "read" /\ pc = "read" /\ at = "out" /\ at' = "err"
    PROVE  Following'
  <1>1. \A s \in Streams : FollowsAt(s) => FollowsAt(s)'
    BY DEF FollowsAt, Chars, End, Piece, Log!Piece
  <1>2. ASSUME op = "tail", NEW s \in Streams, TailsAt(s)
        PROVE  TailsAt(s)'
    BY <1>2 DEF TailsAt, Streams
  <1> QED
    BY <1>1, <1>2 DEF LogInv, Following

\* Where logs and saved offsets stay, the offsets stay valid.
LEMMA SavingRests ==
    ASSUME Saving, UNCHANGED <<ends, saved>>
    PROVE  Saving'
  BY DEF Saving, Boundaries, Chars, End

\* Where nothing is read, what is kept of a log stays true.
LEMMA ResultRests ==
    ASSUME ResultIsLog, UNCHANGED <<ends, ended, result, complete>>
    PROVE  ResultIsLog'
  BY DEF ResultIsLog, Piece, Log!Piece, Chars

\* What Before finds is what has been shown.
LEMMA BeforeIsShown ==
    ASSUME LogInv, NEW s \in Streams, op # "tail"
    PROVE  /\ Before(s) = Len(shown[s]) /\ Len(shown[s]) \in 0 .. Chars(s)
           /\ End(s, Before(s)) = offset[s]
  <1>1. /\ Len(shown[s]) \in 0 .. Chars(s) /\ Chars(s) \in Nat
        /\ offset[s] = End(s, Len(shown[s]))
    BY DEF LogInv, Following, FollowsAt, Types, Chars
  <1>2. Before(s) = CHOOSE n \in 0 .. Chars(s) : End(s, n) = offset[s]
    BY DEF Before, BytesSkipped
  <1>3. Before(s) \in 0 .. Chars(s) /\ End(s, Before(s)) = offset[s]
    BY <1>1, <1>2
  <1> QED
    BY <1>1, <1>3, OneCharacter DEF LogInv

\* A read continues the piece and leaves the offset at its end.
LEMMA ReadShows ==
    ASSUME LogInv, NEW last \in 0 .. Chars(at), ReadUpTo(last)
    PROVE  LogInv' /\ Log!Show(at)
  <1> USE DEF LogInv
  <1> DEFINE first == Before(at) + 1
  <1>1. /\ at \in Streams /\ Chars(at) \in Nat /\ pc = "read" /\ last >= Before(at)
        /\ UNCHANGED <<files, op, selected, saved, result, complete>>
    BY DEF Types, Chars, ReadUpTo, Still
  <1>2. /\ shown' = [shown EXCEPT ![at] = @ \o Piece(first, last)]
        /\ offset' = IF op = "tail" THEN offset
                     ELSE [offset EXCEPT ![at] = Advance(at, first, last)]
    BY DEF ReadUpTo
  <1>3. /\ op = "tail" => \/ pc' = "idle"
                          \/ pc' = "read" /\ at = "out" /\ at' = "err"
        /\ pc' \in {"idle", "read", "save", "sleep"} /\ at' \in Streams
    BY DEF ReadUpTo, Onwards, Goto, Streams, Types
  <1>4. Before(at) \in 0 .. Chars(at)
    <2>1. CASE op = "tail"
      BY <1>1, <2>1, SizesAssumption DEF Before
    <2>2. CASE op # "tail"
      BY <1>1, <2>2, BeforeIsShown
    <2> QED
      BY <2>1, <2>2
  <1>5. ASSUME op = "tail"
        PROVE  /\ shown[at] = <<>>
               /\ shown'[at] = Piece(first, last) /\ shown'[at] \in Seq(Nat)
               /\ offset' = offset
               /\ Following'
    <2>1. \A s \in Streams : TailsAt(s)
      BY <1>5 DEF Following
    <2>2. shown[at] = <<>>
      BY <1>1, <2>1 DEF TailsAt, Streams
    <2>3. Piece(first, last) \in Seq(Nat)
      <3>1. (last + 1) - first \in Nat /\ first \in Nat
        BY <1>1, <1>4
      <3>2. Piece(first, last) = [i \in 1 .. (last + 1) - first |-> first + i - 1]
        BY DEF Piece, Log!Piece
      <3>3. \A i \in 1 .. (last + 1) - first : first + i - 1 \in Nat
        BY <3>1
      <3> HIDE DEF first
      <3> QED
        BY <3>1, <3>2, <3>3
    <2> HIDE DEF first
    <2>4. shown'[at] = Piece(first, last) /\ \A s \in Streams \ {at} : shown'[s] = shown[s]
      BY <1>1, <1>2, <2>2, <2>3 DEF Types
    <2>5. \A s \in Streams : TailsAt(s)'
      BY <1>1, <1>2, <1>3, <1>5, <2>1, <2>4 DEF TailsAt, Streams
    <2> QED
      BY <1>1, <1>2, <1>5, <2>2, <2>3, <2>4, <2>5 DEF Following
  <1>6. ASSUME op # "tail"
        PROVE  /\ Before(at) = Len(shown[at])
               /\ shown[at] = Piece(1, Len(shown[at]))
               /\ shown'[at] = Piece(1, last) /\ shown'[at] \in Seq(Nat)
               /\ offset' = [offset EXCEPT ![at] = End(at, last)]
               /\ Following'
    <2>1. /\ Before(at) = Len(shown[at]) /\ End(at, Before(at)) = offset[at]
          /\ shown[at] = Piece(1, Len(shown[at]))
      BY <1>1, <1>6, BeforeIsShown DEF Following, FollowsAt
    <2>2. /\ shown[at] \o Piece(first, last) = Piece(1, last)
          /\ Piece(1, last) \in Seq(Nat) /\ Len(Piece(1, last)) = last
      <3>1. Before(at) \in Nat /\ last \in Nat /\ Before(at) <= last
        BY <1>1, <1>4
      <3>2. /\ Piece(1, Before(at)) \o Piece(Before(at) + 1, last) = Piece(1, last)
            /\ Piece(1, last) \in Seq(Nat) /\ Len(Piece(1, last)) = last
        BY <3>1, PiecesJoin
      <3> QED
        BY <2>1, <3>2
    <2>3. shown'[at] = Piece(1, last) /\ \A s \in Streams \ {at} : shown'[s] = shown[s]
      BY <1>1, <1>2, <2>2 DEF Types
    <2>4. Advance(at, first, last) = End(at, last)
      <3>1. first - 1 = Before(at)
        BY <1>1, <1>4
      <3>2. End(at, last) \in Nat /\ offset[at] \in Nat
        BY <1>1, EndIsNat DEF Types
      <3> QED
        BY <2>1, <3>1, <3>2 DEF Advance
    <2>5. offset' = [offset EXCEPT ![at] = End(at, last)]
      BY <1>2, <1>6, <2>4
    <2>6. ASSUME NEW s \in Streams
          PROVE  FollowsAt(s)'
      <3>1. Chars(s)' = Chars(s) /\ \A n : End(s, n)' = End(s, n)
        BY <1>1 DEF Chars, End, files
      <3>2. CASE s = at
        <4>1. shown'[s] = Piece(1, last) /\ Len(shown'[s]) = last /\ last <= Chars(s)
          BY <1>1, <2>2, <2>3, <3>2
        <4>2. offset'[s] = End(s, last)
          BY <1>1, <2>5, <3>2 DEF Types
        <4>3. (Piece(1, Len(shown[s])))' = Piece(1, Len(shown'[s])) /\ (End(s, Len(shown[s])))' = End(s, Len(shown'[s]))
          BY <1>1 DEF Piece, Log!Piece, End, files
        <4> QED
          BY <3>1, <4>1, <4>2, <4>3 DEF FollowsAt
      <3>3. CASE s # at
        <4>1. shown'[s] = shown[s] /\ offset'[s] = offset[s]
          BY <1>1, <2>3, <2>5, <3>3 DEF Types
        <4>2. (Piece(1, Len(shown[s])))' = Piece(1, Len(shown[s])) /\ (End(s, Len(shown[s])))' = End(s, Len(shown[s]))
          BY <1>1, <4>1 DEF Piece, Log!Piece, End, files
        <4> QED
          BY <1>6, <3>1, <4>1, <4>2 DEF Following, FollowsAt
      <3> QED
        BY <3>2, <3>3
    <2> HIDE DEF first
    <2> QED
      BY <1>1, <1>6, <2>1, <2>2, <2>3, <2>5, <2>6 DEF Following
  <1>7. Types'
    <2>1. shown' \in [Streams -> Seq(Nat)]
      BY <1>1, <1>2, <1>5, <1>6 DEF Types
    <2>2. offset' \in [Streams -> Nat]
      BY <1>1, <1>5, <1>6, EndIsNat DEF Types
    <2> QED
      BY <1>1, <1>3, <2>1, <2>2 DEF Types, files
  <1>8. Saving' /\ Concluding'
    BY <1>1, <1>3, SavingRests, ResultRests DEF Concluding, files
  <1>9. Log!Show(at)
    <2>1. first \in 1 .. Chars(at) + 1 /\ last \in 0 .. Chars(at)
      BY <1>1, <1>4
    <2>2. Log!Begins(at, first)
      <3>1. CASE shown[at] = <<>>
        BY <1>6, <3>1 DEF Log!Begins
      <3>2. CASE shown[at] # <<>>
        <4>1. op # "tail"
          BY <1>5, <3>2
        <4>2. shown[at] \in Seq(Nat) /\ Len(shown[at]) \in 1 .. Len(shown[at])
          BY <1>1, <3>2 DEF Types
        <4>3. shown[at][Len(shown[at])] = Len(shown[at])
          <5>1. Piece(1, Len(shown[at])) = [i \in 1 .. Len(shown[at]) |-> i]
            BY <4>2 DEF Piece, Log!Piece
          <5> QED
            BY <1>6, <4>1, <4>2, <5>1
        <4> QED
          BY <1>6, <3>2, <4>1, <4>3 DEF Log!Begins
      <3> QED
        BY <3>1, <3>2
    <2>3. shown' = [shown EXCEPT ![at] = @ \o Log!Piece(first, last)]
      BY <1>2 DEF Piece
    <2>4. UNCHANGED <<[s \in Streams |-> Chars(s)], op = "tail">>
      BY <1>1 DEF files, Chars
    <2>5. [s \in Streams |-> Chars(s)][at] = Chars(at)
      BY <1>1
    <2> HIDE DEF first
    <2> QED
      BY <2>1, <2>2, <2>3, <2>4, <2>5 DEF Log!Show
  <1> QED
    BY <1>5, <1>6, <1>7, <1>8, <1>9
\* A reader that begins starts from nothing.
LEMMA BeginKeeps ==
    ASSUME LogInv, NEW operation \in {"wait", "follow", "tail"}, NEW streams \in SUBSET Streams,
           NEW place \in {"refresh", "read"}, operation = "tail" => place = "read",
           Begin(operation, streams, place)
    PROVE  LogInv' /\ Log!BeginReading
  <1> USE DEF LogInv
  <1>1. /\ op' = operation /\ selected' = streams /\ pc' = place /\ at' = "out"
        /\ offset' = [s \in Streams |-> 0]
        /\ shown' = [s \in Streams |-> <<>>] /\ result' = shown' /\ complete' = {}
        /\ UNCHANGED <<ends, torn, ended, saved>>
    BY DEF Begin, files
  <1>2. Types'
    <2>1. <<>> \in Seq(Nat)
      OBVIOUS
    <2> QED
      BY <1>1, <2>1 DEF Types, Streams
  <1>3. Following'
    <2>1. Piece(1, 0) = <<>>
      BY DEF Piece, Log!Piece
    <2>2. \A s \in Streams : Chars(s)' \in Nat
      BY <1>2 DEF Types, Chars
    <2>3. \A s \in Streams : FollowsAt(s)'
      BY <1>1, <2>1, <2>2 DEF FollowsAt, End, Piece, Log!Piece
    <2>4. operation = "tail" => \A s \in Streams : TailsAt(s)'
      BY <1>1 DEF TailsAt
    <2> QED
      BY <1>1, <2>3, <2>4 DEF Following
  <1>4. Saving' /\ Concluding'
    BY <1>1, SavingRests DEF Concluding, ResultIsLog
  <1>5. Log!BeginReading
    <2>1. [s \in Streams |-> Chars(s)]' = [s \in Streams |-> Chars(s)]
      BY <1>1 DEF Chars
    <2> QED
      BY <1>1, <2>1 DEF Log!BeginReading
  <1> QED
    BY <1>2, <1>3, <1>4, <1>5

\* What becomes of the log and of what is shown is as promised.
Mapped == [Log!Next]_<<[s \in Streams |-> Chars(s)], shown, op = "tail">>

\* Steps that show nothing and write nothing are stutters of LogReader.
LEMMA NothingMapped ==
    ASSUME UNCHANGED <<ends, shown, op>>
    PROVE  Mapped
  BY DEF Mapped, Chars

\* A final read keeps the beginning of the log.
LEMMA CatKeeps ==
    ASSUME LogInv, NEW last \in 0 .. Chars(at), CatUpTo(last),
           complete' = complete \/ (complete' = complete \cup {at} /\ last = Chars(at))
    PROVE  LogInv' /\ Mapped
  <1> USE DEF LogInv
  <1>1. /\ pc = "cat" /\ ended /\ at \in Streams /\ op # "tail" /\ last \in Nat
        /\ result' = [result EXCEPT ![at] = Kept(last)]
        /\ pc' \in {"cat", "idle"} /\ at' \in Streams
        /\ UNCHANGED <<ends, torn, ended, op, selected, saved, offset, shown>>
    BY DEF CatUpTo, AfterCat, Goto, Still, files, Concluding, Types, Following, TailsAt, Streams, Chars
  <1>2. Kept(last) \in Seq(Nat) /\ Kept(last) = Piece(1, Min({last, Limit}))
    <2>1. Min({last, Limit}) \in Nat
      BY <1>1, SizesAssumption DEF Min
    <2> QED
      BY <2>1, PiecesJoin DEF Kept
  <1>3. Types'
    BY <1>1, <1>2 DEF Types
  <1>4. Following' /\ Saving'
    BY <1>1, ShowsNothing, SavingRests
  <1>5. Concluding'
    <2> SUFFICES ASSUME NEW s \in complete'
                 PROVE  (ended /\ result[s] = Piece(1, Min({Chars(s), Limit})))'
      <3>1. pc' = "cat" => /\ at' = "err" /\ at = "out"
        BY DEF CatUpTo, AfterCat, Goto
      <3> QED
        BY <1>1, <3>1 DEF Concluding, ResultIsLog
    <2>1. /\ (Piece(1, Min({Chars(s), Limit})))' = Piece(1, Min({Chars(s), Limit}))
          /\ s \in Streams
      BY <1>1, <1>3 DEF Piece, Log!Piece, Chars, Types
    <2>2. CASE s = at /\ last = Chars(at)
      BY <1>1, <1>2, <2>1, <2>2 DEF Types
    <2>3. CASE s \in complete /\ s # at
      BY <1>1, <2>1, <2>3 DEF Concluding, ResultIsLog, Types
    <2>4. at \notin complete
      BY <1>1 DEF Concluding
    <2> QED
      BY <2>2, <2>3, <2>4
  <1> QED
    BY <1>1, <1>3, <1>4, <1>5, NothingMapped
\* Every step that reads nothing and begins nothing.
LEMMA OnwardsKeeps ==
    ASSUME LogInv,
           UNCHANGED <<files, op, selected, offset, shown, result, complete>>,
           saved' = saved \/ (saved' = offset /\ pc = "save"),
           pc' \in {"idle", "refresh", "read", "save", "sleep", "cat"}, at' \in Streams,
           pc' = "cat" => pc = "refresh" /\ ended,
           pc \in {"idle", "cat"} => pc' = "idle",
           op = "tail" => \/ pc' = "idle"
                          \/ pc' = "read" /\ pc = "read" /\ at = "out" /\ at' = "err"
    PROVE  LogInv' /\ Mapped
  <1> USE DEF LogInv
  <1>1. Following'
    BY ShowsNothing DEF files
  <1>2. Types'
    BY DEF Types, files
  <1>3. Saving'
    <2>1. CASE saved' = saved
      BY <2>1, SavingRests DEF files
    <2>2. CASE saved' = offset /\ pc = "save"
      <3>1. \A s \in Streams : FollowsAt(s) /\ Chars(s) \in Nat
        BY <2>2 DEF Following, TailsAt, Types, Chars
      <3>2. \A s \in Streams : offset[s] \in Boundaries(s)
        BY <3>1 DEF FollowsAt, Boundaries, Types
      <3>3. \A s \in Streams : Boundaries(s)' = Boundaries(s)
        BY DEF Boundaries, Chars, End, files
      <3> QED
        BY <2>2, <3>2, <3>3 DEF Saving
    <2> QED
      BY <2>1, <2>2
  <1>4. Concluding'
    <2>1. ResultIsLog'
      BY ResultRests DEF Concluding, files
    <2>2. pc = "refresh" => complete = {} /\ op # "tail"
      BY DEF Concluding, Following, TailsAt, Streams
    <2> QED
      BY <2>1, <2>2 DEF Concluding, files
  <1>5. Mapped
    BY NothingMapped DEF files
  <1> QED
    BY <1>1, <1>2, <1>3, <1>4, <1>5

\* Every step keeps the invariant and is one of LogReader, or a stutter.
LEMMA StepKeeps == LogInv /\ [Next]_vars => LogInv' /\ Mapped
  <1> SUFFICES ASSUME LogInv, [Next]_vars
               PROVE  LogInv' /\ Mapped
    OBVIOUS
  <1> USE DEF LogInv
  <1> DEFINE Promised == Log!Next \/ UNCHANGED <<[s \in Streams |-> Chars(s)], shown, op = "tail">>
  <1>1. Promised => Mapped
    BY DEF Mapped
  <1>2. ASSUME NEW s \in Streams, NEW width \in {1, 2}, Write(s, width)
        PROVE  LogInv' /\ Mapped
    <2>1. torn' \in [Streams -> BOOLEAN]
      BY <1>2 DEF Write, Types
    <2> QED
      BY <1>1, <1>2, <2>1, GrowingKeeps DEF Write, Log!Next
  <1>3. ASSUME NEW s \in Streams, Mend(s)
        PROVE  LogInv' /\ Mapped
    <2>1. torn' \in [Streams -> BOOLEAN]
      BY <1>3 DEF Mend, Types
    <2> QED
      BY <1>1, <1>3, <2>1, GrowingKeeps DEF Mend, Log!Next
  <1>4. ASSUME JobEnds \/ \E s \in Streams : Tear(s)
        PROVE  LogInv' /\ Mapped
    <2>1. /\ UNCHANGED <<ends, Reader>> /\ torn' \in [Streams -> BOOLEAN]
          /\ ended' \in BOOLEAN /\ (ended => ended')
      BY <1>4 DEF JobEnds, Tear, Types
    <2>2. Types'
      BY <2>1 DEF Types, Reader
    <2>3. Following'
      BY <2>1 DEF Following, TailsAt, FollowsAt, Chars, End, Piece, Log!Piece, Reader
    <2>4. Saving'
      BY <2>1, SavingRests DEF Reader
    <2>5. Concluding'
      BY <2>1 DEF Concluding, ResultIsLog, Chars, Piece, Log!Piece, Reader
    <2> QED
      BY <2>1, <2>2, <2>3, <2>4, <2>5, NothingMapped DEF Reader
  <1>5. ASSUME Starts
        PROVE  LogInv' /\ Mapped
    <2>1. ASSUME NEW follow_logs \in BOOLEAN, Wait(follow_logs)
          PROVE  LogInv' /\ Log!BeginReading
      <3> DEFINE chosen == IF follow_logs THEN Streams ELSE {}
      <3>1. chosen \in SUBSET Streams /\ Begin("wait", chosen, "refresh")
        BY <2>1 DEF Wait
      <3> HIDE DEF chosen
      <3> QED
        BY <3>1, BeginKeeps
    <2>2. ASSUME NEW follow \in BOOLEAN, NEW streams \in SUBSET Streams, JobLogs(follow, streams)
          PROVE  LogInv' /\ Log!BeginReading
      <3> DEFINE operation == IF follow THEN "follow" ELSE "tail"
      <3>1. operation \in {"follow", "tail"} /\ Begin(operation, streams, "read")
        BY <2>2 DEF JobLogs
      <3> HIDE DEF operation
      <3> QED
        BY <3>1, BeginKeeps
    <2> QED
      BY <1>1, <1>5, <2>1, <2>2 DEF Starts, Log!Next
  <1>6. ASSUME NEW last \in 0 .. Chars(at), ReadUpTo(last)
        PROVE  LogInv' /\ Mapped
    BY <1>1, <1>6, ReadShows DEF Types, Log!Next
  <1>7. CASE ReadCut \/ \E s \in Streams : ReadAll(s)
    <2>1. Chars(at) \in 0 .. Chars(at)
      BY DEF Types, Chars
    <2> QED
      BY <1>6, <1>7, <2>1 DEF ReadCut, ReadAll
  <1>8. CASE CatAll
    <2>1. Chars(at) \in 0 .. Chars(at)
      BY DEF Types, Chars
    <2> QED
      BY <1>8, <2>1, CatKeeps DEF CatAll
  <1>9. CASE CatCut
    BY <1>9, CatKeeps DEF CatCut
  <1>10. CASE Skip \/ ReadFails \/ SleepEnds \/ WaitOver \/ WaitOn \/ Save \/ Stop
    <2>1. op = "tail" => pc \in {"idle", "read"}
      BY DEF Following, TailsAt, Streams
    <2>2. CASE Skip \/ ReadFails
      <3>1. /\ pc = "read"
            /\ UNCHANGED <<files, op, selected, offset, shown, result, complete>> /\ saved' = saved
            /\ \/ pc' = "read" /\ at = "out" /\ at' = "err"
               \/ at' = "out" /\ pc' \in {"save", "sleep", "idle"} /\ (op = "tail" => pc' = "idle")
        BY <2>2 DEF Skip, ReadFails, Onwards, Goto, Still
      <3>2. at' \in Streams /\ pc' \in {"idle", "refresh", "read", "save", "sleep", "cat"}
        BY <3>1 DEF Streams
      <3>3. /\ pc' # "cat" /\ pc \notin {"idle", "cat"}
            /\ op = "tail" => \/ pc' = "idle"
                              \/ pc' = "read" /\ pc = "read" /\ at = "out" /\ at' = "err"
        BY <3>1
      <3> QED
        BY <3>1, <3>2, <3>3, OnwardsKeeps
    <2>3. CASE SleepEnds \/ WaitOver \/ WaitOn \/ Stop
      <3>1. /\ UNCHANGED <<files, op, selected, offset, shown, result, complete>> /\ saved' = saved
            /\ at' = "out"
            /\ \/ pc = "sleep" /\ pc' \in {"refresh", "read"}
               \/ pc = "refresh" /\ ended /\ pc' = "cat"
               \/ pc = "refresh" /\ pc' = "read"
               \/ pc # "idle" /\ pc' = "idle"
        BY <2>3 DEF SleepEnds, WaitOver, WaitOn, Stop, Goto, Still
      <3>2. at' \in Streams /\ pc' \in {"idle", "refresh", "read", "save", "sleep", "cat"}
        BY <3>1 DEF Streams
      <3>3. /\ pc' = "cat" => pc = "refresh" /\ ended
            /\ pc \in {"idle", "cat"} => pc' = "idle"
            /\ op = "tail" => pc' = "idle"
        BY <2>1, <3>1
      <3> QED
        BY <3>1, <3>2, <3>3, OnwardsKeeps
    <2>4. CASE Save
      BY <2>1, <2>4, OnwardsKeeps DEF Save, Goto, Streams
    <2> QED
      BY <1>10, <2>2, <2>3, <2>4
  <1>11. CASE UNCHANGED vars
    <2>1. UNCHANGED <<files, op, selected, pc, at, offset, shown, saved, result, complete>>
      BY <1>11 DEF vars
    <2>2. Following'
      BY <2>1 DEF Following, TailsAt, FollowsAt, Chars, End, Piece, Log!Piece, files
    <2>3. Types' /\ Saving' /\ Concluding'
      BY <2>1, SavingRests, ResultRests DEF Types, Concluding, files
    <2> QED
      BY <2>1, <2>2, <2>3, NothingMapped DEF files
  <1> QED
    BY <1>2, <1>3, <1>4, <1>5, <1>7, <1>8, <1>9, <1>10, <1>11 DEF Next, Job, Proceeds

\* A reader always stands where what it has shown ends, at the end of a
\* character, and the final reads come after the end of the job.
\* (wait_job, _tail_remote, _follow_logs, _tail_logs.)
THEOREM LogInvariant == Spec => []LogInv
  BY InitInvariant, StepKeeps, PTL DEF Spec

\* No offset, in use or saved in log_offsets.json, lies within a character.
THEOREM LogTypes == Spec => []TypeOK
  <1>1. LogInv => TypeOK
    <2> SUFFICES ASSUME LogInv
                 PROVE  TypeOK
      OBVIOUS
    <2>1. \A s \in Streams : saved[s] \in Boundaries(s)
      BY DEF LogInv, Saving
    <2>2. ASSUME NEW s \in Streams
          PROVE  offset[s] \in Boundaries(s)
      <3>1. Chars(s) \in Nat /\ Len(shown[s]) \in Nat
        BY DEF LogInv, Types, Chars
      <3>2. CASE op = "tail"
        <4>1. offset[s] = End(s, 0) /\ 0 \in 0 .. Chars(s)
          BY <3>1, <3>2 DEF LogInv, Following, TailsAt, End
        <4> QED
          BY <4>1 DEF Boundaries
      <3>3. CASE op # "tail"
        BY <3>1, <3>3 DEF LogInv, Following, FollowsAt, Boundaries
      <3> QED
        BY <3>2, <3>3
    <2> QED
      BY <2>1, <2>2 DEF LogInv, Types, TypeOK
  <1> QED
    BY <1>1, LogInvariant, PTL

\* What the JobResult keeps of a log that could be read is the log as the job
\* left it, up to the limit.
THEOREM ResultsAreLogs == Spec => []ResultIsLog
  <1>1. LogInv => ResultIsLog
    BY DEF LogInv, Concluding
  <1> QED
    BY <1>1, LogInvariant, PTL

\* Whoever waits, follows or asks for the last lines is shown one piece of each
\* log, in order, with nothing left out or repeated.
THEOREM ReadersSeeOnePiece == Spec => ImplementsLogReader
  <1>1. Init => Log!Init
    BY DEF Init, Log!Init, Chars
  <1>2. LogInv /\ [Next]_vars => [Log!Next]_<<[s \in Streams |-> Chars(s)], shown, op = "tail">>
    BY StepKeeps DEF Mapped
  <1> QED
    BY <1>1, <1>2, LogInvariant, PTL DEF Spec, ImplementsLogReader, Log!Spec

----------------------------------------------------------------------------
(* What catching up rests on besides fairness *)

\* The characters of log s that have not been shown.
Unread(s) == Chars(s) - Len(shown[s])

\* Whoever reads from the beginning can be given the rest of the file: the bytes
\* that `tail` is to skip are those of whole characters, and no more than there are.
CanReadOn ==
    op # "tail" => \A s \in Streams : /\ BytesSkipped(offset[s]) \in Boundaries(s)
                                      /\ Before(s) <= Chars(s)

\* After the end of the job what a follower has not been shown gets less only,
\* and the first whole read of a log leaves nothing of it.
UnreadShrinks ==
    [][op = "follow" /\ pc # "idle" /\ ended =>
          \A s \in Streams : /\ 0 <= Unread(s)' /\ Unread(s)' <= Unread(s)
                             /\ ReadAll(s) => Unread(s)' = 0]_vars

\* A read by a follower leaves what lies after its last character.
LEMMA ReadLeaves ==
    ASSUME LogInv, op # "tail", NEW last \in 0 .. Chars(at), ReadUpTo(last)
    PROVE  /\ \A s \in Streams : Unread(s)' = IF s = at THEN Chars(s) - last ELSE Unread(s)
           /\ Chars(at) - last <= Unread(at)
  <1>1. /\ at \in Streams /\ Chars(at) \in Nat /\ UNCHANGED files /\ last >= Before(at)
        /\ shown' = [shown EXCEPT ![at] = @ \o Piece(Before(at) + 1, last)]
    BY DEF LogInv, Types, Chars, ReadUpTo, Still
  <1>2. Before(at) = Len(shown[at]) /\ Len(shown[at]) \in 0 .. Chars(at)
    BY <1>1, BeforeIsShown
  <1>3. shown[at] = Piece(1, Before(at))
    BY <1>1, <1>2 DEF LogInv, Following, FollowsAt
  <1>4. /\ Piece(1, Before(at)) \o Piece(Before(at) + 1, last) = Piece(1, last)
        /\ Len(Piece(1, last)) = last
    <2>1. Before(at) \in Nat /\ last \in Nat /\ Before(at) <= last
      BY <1>1, <1>2
    <2> QED
      BY <2>1, PiecesJoin
  <1>5. shown'[at] = Piece(1, last) /\ \A s \in Streams \ {at} : shown'[s] = shown[s]
    BY <1>1, <1>3, <1>4 DEF LogInv, Types
  <1>6. \A s \in Streams : Chars(s)' = Chars(s)
    BY <1>1 DEF Chars, files
  <1>7. ASSUME NEW s \in Streams
        PROVE  Unread(s)' = IF s = at THEN Chars(s) - last ELSE Unread(s)
    <2>1. Unread(s)' = Chars(s) - Len(shown'[s])
      BY <1>6 DEF Unread
    <2> QED
      BY <1>4, <1>5, <2>1 DEF Unread
  <1>8. Chars(at) - last <= Unread(at)
    BY <1>1, <1>2 DEF Unread
  <1> QED
    BY <1>7, <1>8

\* Whatever the reads that fail, that are cut and that meet half a character, the
\* way to the end of the log stays open and gets shorter (_tail_remote, _follow_logs).
THEOREM FollowersGetOn == Spec => []CanReadOn /\ UnreadShrinks
  <1>1. LogInv /\ TypeOK => CanReadOn
    BY BeforeIsShown DEF CanReadOn, TypeOK, BytesSkipped, LogInv, Types, Chars
  <1>2. LogInv /\ [Next]_vars =>
            [op = "follow" /\ pc # "idle" /\ ended =>
                \A s \in Streams : /\ 0 <= Unread(s)' /\ Unread(s)' <= Unread(s)
                                   /\ ReadAll(s) => Unread(s)' = 0]_vars
    <2> SUFFICES ASSUME LogInv, [Next]_vars, op = "follow", pc # "idle", ended,
                        NEW s \in Streams
                 PROVE  /\ 0 <= Unread(s)' /\ Unread(s)' <= Unread(s)
                        /\ ReadAll(s) => Unread(s)' = 0
      OBVIOUS
    <2>1. /\ \A t \in Streams : Chars(t) \in Nat /\ Len(shown[t]) \in 0 .. Chars(t)
          /\ at \in Streams
      BY BeforeIsShown DEF LogInv, Types, Chars
    <2>2. CASE \E last \in 0 .. Chars(at) : ReadUpTo(last)
      <3>1. PICK last \in 0 .. Chars(at) : ReadUpTo(last)
        BY <2>2
      <3>2. /\ Unread(s)' = IF s = at THEN Chars(s) - last ELSE Unread(s)
            /\ Chars(at) - last <= Unread(at)
        BY <3>1, ReadLeaves
      <3>3. ASSUME ReadAll(s) PROVE Unread(s)' = 0
        <4>1. at = s /\ ReadUpTo(Chars(s)) /\ Chars(s) \in 0 .. Chars(s)
          BY <2>1, <3>3 DEF ReadAll
        <4>2. Unread(s)' = IF s = at THEN Chars(s) - Chars(s) ELSE Unread(s)
          BY <4>1, ReadLeaves
        <4> QED
          BY <2>1, <4>1, <4>2
      <3> QED
        BY <2>1, <3>2, <3>3 DEF Unread
    <2>3. CASE UNCHANGED <<ends, shown>>
      <3>1. Unread(s)' = Unread(s)
        BY <2>3 DEF Unread, Chars
      <3>2. ~ReadAll(s) \/ \E last \in 0 .. Chars(at) : ReadUpTo(last)
        BY <2>1 DEF ReadAll
      <3> QED
        BY <2>1, <2>2, <3>1, <3>2 DEF Unread
    <2>4. \/ \E last \in 0 .. Chars(at) : ReadUpTo(last)
          \/ UNCHANGED <<ends, shown>>
      <3>1. ~Starts /\ ~Job
        BY DEF Starts, Wait, JobLogs, Begin, Job, Write, Tear, Mend, JobEnds
      <3>2. CASE Proceeds
        <4>1. CASE ReadCut \/ \E t \in Streams : ReadAll(t)
          BY <2>1, <4>1 DEF ReadCut, ReadAll
        <4>2. CASE Skip \/ ReadFails \/ SleepEnds \/ WaitOver \/ WaitOn \/ Save
          BY <4>2 DEF Skip, ReadFails, SleepEnds, WaitOver, WaitOn, Save, Still, files
        <4>3. CASE CatAll \/ CatCut
          BY <4>3 DEF CatAll, CatCut, CatUpTo, Still, files
        <4> QED
          BY <3>2, <4>1, <4>2, <4>3 DEF Proceeds
      <3>3. CASE Stop \/ UNCHANGED vars
        BY <3>3 DEF Stop, Still, vars, files
      <3> QED
        BY <3>1, <3>2, <3>3 DEF Next
    <2> QED
      BY <2>2, <2>3, <2>4
  <1> QED
    BY <1>1, <1>2, LogInvariant, LogTypes, PTL DEF Spec, UnreadShrinks
===============================================================================
