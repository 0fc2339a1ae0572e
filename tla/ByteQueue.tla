------------------------------ MODULE ByteQueue ------------------------------
(***************************************************************************)
(* What a stream buffer promises (datachain.h:32-59 and the reference of   *)
(* rascal_read, rascal_reads and rascal_write): bytes leave it in the      *)
(* order they came, each once, whole lines if asked for lines.             *)
(***************************************************************************)
EXTENDS Integers, Sequences

CONSTANTS Bytes, CR, LF,
          MaxCall         \* the largest size passed to a call

VARIABLES queue,          \* the bytes in the buffer, oldest first
          answer          \* the last call: what it was given and what it returned

vars == <<queue, answer>>

Sizes  == 0 .. MaxCall
Blocks == UNION {[1 .. n -> Bytes] : n \in Sizes}
Flags  == SUBSET {"peek", "measure", "untrimmed"}

Upto(n)  == SubSeq(queue, 1, IF n < Len(queue) THEN n ELSE Len(queue))
Past(n)  == SubSeq(queue, n + 1, Len(queue))

Init == queue = << >> /\ answer = <<"none">>

Write(src) == answer' = <<"append", src>> /\ queue' = queue \o src

Peek(n)    == answer' = <<"data", n, Upto(n)>> /\ UNCHANGED queue

Extract(n) == answer' = <<"data", n, Upto(n)>> /\ queue' = Past(n)

Discard(n) == queue' = Past(n) /\ UNCHANGED answer

\* The lines in the buffer; the first one ends at the first LF.
LineEnds == {k \in 1 .. Len(queue) : queue[k] = LF}
IsEnd(k) == k \in LineEnds /\ \A j \in LineEnds : k =< j

NoLine == LineEnds = {} /\ answer' = <<"no data">> /\ UNCHANGED queue

Measure == \E k \in LineEnds : IsEnd(k) /\ answer' = <<"size", k>> /\ UNCHANGED queue

\* A line without the CR and LF characters it ends with, or with them.
IsText(line, text, flags) ==
  \E n \in 0 .. Len(line) :
    /\ text = SubSeq(line, 1, n)
    /\ IF "untrimmed" \in flags THEN n = Len(line)
       ELSE /\ \A j \in n + 1 .. Len(line) : line[j] \in {CR, LF}
            /\ n > 0 => line[n] \notin {CR, LF}

\* The caller gets the text if it fits with its NUL into n characters, and a
\* part from its beginning otherwise; the line leaves the buffer as a whole.
Gets(n, flags) ==
  \E k \in LineEnds, m, r \in 0 .. Len(queue) :
    LET text == SubSeq(queue, 1, m) IN
    /\ r =< m /\ (r = 0 \/ r < n) /\ (m < n => r = m)
    /\ answer' = <<"line", n, flags, SubSeq(text, 1, r)>>
    /\ IsEnd(k) /\ IsText(SubSeq(queue, 1, k), text, flags)
    /\ queue' = IF "peek" \in flags THEN queue ELSE Past(k)

Next == \/ \E src \in Blocks : Write(src)
        \/ \E n \in Sizes : Peek(n) \/ Extract(n) \/ Discard(n)
        \/ NoLine \/ Measure
        \/ \E n \in Sizes, flags \in Flags : Gets(n, flags)

Spec == Init /\ [][Next]_vars
=============================================================================
