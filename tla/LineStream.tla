------------------------------ MODULE LineStream ------------------------------
(***************************************************************************)
(* What a user of ebuffer.h reasons with: a stream of bytes, appended at   *)
(* one end and taken, piece by piece or line by line, at the other.  A     *)
(* line ends in LF or in CR LF.  When a line is taken whose CR has arrived *)
(* and whose LF has not, the LF is still owed and is dropped on arrival.   *)
(***************************************************************************)
EXTENDS Integers, Sequences

CONSTANTS
  CR, LF,   \* the two bytes that end a line
  Chunks    \* the sequences of bytes that are put at a time

VARIABLES
  unread,   \* the bytes not taken yet
  owed,     \* the LF of a line already taken is still to come
  out,      \* the bytes the last operation handed out
  torn      \* the caller has asked for what was not there

NoEnd(s) == \A i \in DOMAIN s : s[i] \notin {CR, LF}

StreamInit == unread = <<>> /\ owed = FALSE /\ out = <<>> /\ torn = FALSE

Put(s) ==
  /\ unread' = unread \o (IF owed /\ s # <<>> THEN Tail(s) ELSE s)
  /\ owed' = (owed /\ s = <<>>)
  /\ out' = <<>> /\ UNCHANGED torn

Take ==
  /\ ~owed /\ \E n \in 0..Len(unread) :
       /\ out' = SubSeq(unread, 1, n)
       /\ unread' = SubSeq(unread, n + 1, Len(unread))
  /\ UNCHANGED <<owed, torn>>

(* n bytes, then an end, which may lack its LF only at the end of all.     *)
TakeLine ==
  \E n \in 0..(Len(unread) - 1) :
    LET text == SubSeq(unread, 1, n)
        rest == SubSeq(unread, n + 2, Len(unread)) IN
    /\ NoEnd(text) /\ unread[n + 1] \in {CR, LF}
    /\ out' = text
    /\ owed' = (unread[n + 1] = CR /\ rest = <<>>)
    /\ unread' = IF unread[n + 1] = CR /\ rest # <<>> THEN Tail(rest) ELSE rest
    /\ UNCHANGED torn

(* Nothing to hand out: no byte is there, or the caller's space is short.  *)
TakeNothing == out' = <<>> /\ UNCHANGED <<unread, owed, torn>>

(* A line was asked for before its end had arrived, or bytes while the LF  *)
(* of a line was owed: after this nothing more is promised.                *)
Tear == (owed \/ (NoEnd(unread) /\ unread # <<>>)) /\ torn' = TRUE

StreamNext ==
  \/ \E s \in Chunks : Put(s)
  \/ Take \/ TakeLine \/ TakeNothing
  \/ Tear \/ torn

StreamSpec ==
  StreamInit /\ [][StreamNext]_<<unread, owed, out, torn>>
=============================================================================
