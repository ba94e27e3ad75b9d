------------------------------- MODULE EBuffer --------------------------------
(***************************************************************************)
(* ebuffer.c: a growing array of bytes, written at `last' and read at      *)
(* `pos'.  Addresses are offsets from start, so end is Len(mem) and moving *)
(* the array leaves the cursors as they are.  A buffer belongs to one      *)
(* thread, an operation is one step.  The bytes that arrive end their      *)
(* lines in LF or CR LF, and a chunk may end anywhere, between CR and LF   *)
(* too.                                                                    *)
(***************************************************************************)
EXTENDS Integers, Sequences

CONSTANTS
  CR, LF,        \* the bytes that end a line
  Garbage,       \* what memory holds before it is written
  Chunks,        \* the sequences of bytes buffer_write is given
  Rooms,         \* the sizes of the space a caller reads into
  InitSizes,     \* the sizes of the buffer it was given at first
  MaxWritten     \* bound: the buffer is given no more bytes

VARIABLES
  mem,     \* the bytes from start to end; mem[i + 1] is at offset i
  pos,     \* the next byte to read
  last,    \* where the next byte is written
  out,     \* what the last operation copied to its caller
  room,    \* the caller's space in that operation
  torn,    \* an unfinished line was read, see Unended
  fault    \* memcpy was given a negative length

vars == <<mem, pos, last, out, room, torn, fault>>

Written == SubSeq(mem, 1, last)

(* Every CR is followed by LF, except perhaps the last byte.               *)
Paired(s) == \A i \in 1..(Len(s) - 1) : s[i] = CR => s[i + 1] = LF

Eof == pos >= last

Unread == IF Eof THEN <<>> ELSE SubSeq(mem, pos + 1, last)

(* The length of the text before the first line end, or of everything.     *)
IsEnd(b) == b \in {CR, LF}
TextLen == CHOOSE k \in 0..Len(Unread) :
             /\ k = Len(Unread) \/ IsEnd(Unread[k + 1])
             /\ \A j \in 1..k : ~IsEnd(Unread[j])
Ended == TextLen < Len(Unread)

(* Mutant: the terminating 0 is not counted.                               *)
TooLongLate(n) == TextLen > n

EndLen(b) == IF b = CR THEN 2 ELSE 1

(* The loop meets a byte, the line end included, with the space full.      *)
TooLong(n) == IF Ended THEN TextLen >= n ELSE TextLen > n

Keep == UNCHANGED <<mem, last, torn, fault>>

-----------------------------------------------------------------------------
Init ==
  /\ \E n \in InitSizes : mem = [i \in 1..n |-> Garbage]
  /\ pos = 0 /\ last = 0
  /\ out = <<>> /\ room = 0 /\ torn = FALSE /\ fault = FALSE

Read(n) ==
  /\ ~fault /\ pos <= last
  /\ out' = SubSeq(Unread, 1, IF last - pos < n THEN last - pos ELSE n)
  /\ pos' = pos + Len(out') /\ room' = n
  /\ Keep

(* last - pos is negative: the length of memcpy wraps round.               *)
ReadWild(n) ==
  /\ ~fault /\ pos > last
  /\ fault' = TRUE
  /\ UNCHANGED <<mem, pos, last, out, room, torn>>

ReadLine(n) ==
  /\ ~fault /\ Ended /\ ~TooLong(n)
  /\ out' = SubSeq(Unread, 1, TextLen) /\ room' = n
  /\ pos' = pos + TextLen + EndLen(Unread[TextLen + 1])
  /\ Keep

(* The answer is -1, pos is put back.                                      *)
Refuse(n) ==
  /\ ~fault /\ TooLong(n)
  /\ out' = <<>> /\ room' = n /\ UNCHANGED pos
  /\ Keep

(* No line end: the rest is consumed and its length returned, but nothing  *)
(* is copied.                                                              *)
Unended(n) ==
  /\ ~fault /\ ~Ended /\ ~TooLong(n)
  /\ pos' = pos + TextLen /\ torn' = (torn \/ TextLen > 0)
  /\ out' = <<>> /\ room' = n /\ UNCHANGED <<mem, last, fault>>

(* Mutants: only the unread bytes are moved; a full buffer counts as large *)
(* enough for one byte more.                                               *)
EnlargedFrom(n) == [i \in 1..(Len(mem) + n) |->
                      IF pos < i /\ i <= last THEN mem[i - pos] ELSE Garbage]
ShortOfLate(n) == Len(mem) - last < n - 1

Enlarged(n) == [i \in 1..(Len(mem) + n) |-> IF i <= last THEN mem[i] ELSE Garbage]

ShortOf(n) == Len(mem) - last < n

(* memcpy to last, in what buffer_enlarge leaves.                          *)
Store(s, m) ==
  /\ mem' = [i \in 1..Len(m) |->
               IF last < i /\ i <= last + Len(s) THEN s[i - last] ELSE m[i]]
  /\ last' = last + Len(s)
  /\ out' = <<>> /\ UNCHANGED <<pos, room, torn, fault>>

Write(s) ==
  /\ ~fault /\ last + Len(s) <= MaxWritten /\ Paired(Written \o s)
  /\ \/ ShortOf(Len(s)) /\ Store(s, Enlarged(Len(s)))
     \/ ~ShortOf(Len(s)) /\ Store(s, mem)

(* No memory for a larger array: nothing changes, the answer is -1.        *)
WriteFails(s) ==
  /\ ~fault /\ ShortOf(Len(s)) /\ Paired(Written \o s)
  /\ out' = <<>> /\ UNCHANGED <<mem, pos, last, room, torn, fault>>

Next ==
  \/ \E n \in Rooms : \/ Read(n) \/ ReadWild(n)
                      \/ ReadLine(n) \/ Refuse(n) \/ Unended(n)
  \/ \E s \in Chunks : Write(s) \/ WriteFails(s)

Spec == Init /\ [][Next]_vars

-----------------------------------------------------------------------------
(* pos passes last by one at most, and only over a CR whose LF is to come; *)
(* last never passes end (buffer_write's memcpy stays inside).             *)
TypeOK ==
  /\ last \in 0..Len(mem) /\ pos \in 0..(last + 1)
  /\ pos > last => mem[last] = CR
  /\ torn \in BOOLEAN /\ fault \in BOOLEAN

(* ebuffer.h:46-70: what is copied fits the caller's buf_size, the 0 that  *)
(* ends a line included.                                                   *)
FitsCaller ==
  \A n \in Rooms : /\ Read(n) => Len(out') <= n
                   /\ ReadLine(n) => Len(out') < n

(* Until the caller reads a line before its end has arrived, or bytes      *)
(* behind a CR whose LF is still to come, the buffer is a stream: across   *)
(* every growth, chunk and refusal no byte is lost, doubled or reordered.  *)
Stream == INSTANCE LineStream WITH
            unread <- Unread, owed <- (pos > last), torn <- (torn \/ fault)
IsStream == [Stream!StreamNext]_<<Unread, pos > last, out, torn \/ fault>>
=============================================================================
