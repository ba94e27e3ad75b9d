--------------------------------- MODULE Md5 ----------------------------------
(***************************************************************************)
(* md5.c: a message arrives in pieces of any length and is digested block  *)
(* by block.  What md5_process makes of a block is left open: abcd is the  *)
(* sequence of the bytes that went through it.  A byte of the message is   *)
(* its position, so that none can stand for another.                       *)
(***************************************************************************)
EXTENDS Integers, Sequences

CONSTANTS
  BlockSize,   \* 64 bytes
  LenSize,     \* 8, the bytes of the length, of which half are a word
  ByteBits,    \* 8
  WordSize,    \* 2^32
  Pieces,      \* the lengths of pieces
  MaxBytes     \* bound: a message is no longer

VARIABLES
  lo, hi,      \* count[0] and count[1]
  abcd, buf,
  len,         \* history: the length of the message
  digested     \* md5_finish has been called

vars == <<lo, hi, abcd, buf, len, digested>>

Mark == -1
Message(n) == [i \in 1..n |-> i]
State == [lo |-> lo, hi |-> hi, abcd |-> abcd, buf |-> buf]

md5_init ==
  [lo |-> 0, hi |-> 0, abcd |-> <<>>, buf |-> [i \in 1..BlockSize |-> 0]]

md5_process(s, block) == [s EXCEPT !.abcd = @ \o block]

-----------------------------------------------------------------------------
(* Mutant: the carry is forgotten.                                         *)
CountedNoCarry(s, n) ==
  LET nbits == (n * ByteBits) % WordSize IN
  [s EXCEPT !.lo = (s.lo + nbits) % WordSize,
            !.hi = (s.hi + n \div (WordSize \div ByteBits)) % WordSize]

(* The length in bits, of two words.                                       *)
Counted(s, n) ==
  LET nbits == (n * ByteBits) % WordSize
      low   == (s.lo + nbits) % WordSize
      carry == IF low < nbits THEN 1 ELSE 0
  IN [s EXCEPT !.lo = low,
               !.hi = (s.hi + n \div (WordSize \div ByteBits) + carry)
                        % WordSize]

Offset(s) == (s.lo \div ByteBits) % BlockSize
Least(a, b) == IF a < b THEN a ELSE b

Filled(s, offset, p) ==
  [s EXCEPT !.buf = [i \in 1..BlockSize |->
     IF offset < i /\ i <= offset + Len(p) THEN p[i - offset] ELSE s.buf[i]]]

(* Mutant: the rest of a piece goes behind what is in the buffer already.  *)
BlocksKeepRest(s, p) ==
  LET full == (Len(p) \div BlockSize) * BlockSize
  IN Filled(IF full = 0 THEN s ELSE md5_process(s, SubSeq(p, 1, full)),
            Least(1, BlockSize - (Len(p) - full)), SubSeq(p, full + 1, Len(p)))

(* All the full blocks of a piece, and the rest into the buffer.           *)
Blocks(s, p) ==
  LET full == (Len(p) \div BlockSize) * BlockSize
  IN Filled(IF full = 0 THEN s ELSE md5_process(s, SubSeq(p, 1, full)),
            0, SubSeq(p, full + 1, Len(p)))

(* A block that an earlier piece began is completed first.                 *)
md5_append(s, p) ==
  LET offset == Offset(s)
      copy   == Least(BlockSize - offset, Len(p))
      t      == Filled(Counted(s, Len(p)), offset, SubSeq(p, 1, copy))
  IN IF Len(p) = 0 THEN s
     ELSE IF offset = 0 THEN Blocks(Counted(s, Len(p)), p)
     ELSE IF offset + copy < BlockSize THEN t
     ELSE Blocks(md5_process(t, t.buf), SubSeq(p, copy + 1, Len(p)))

(* Mutant: one byte less, as if the mark were not counted.                 *)
PadLenShort(s) ==
  ((BlockSize - LenSize - (s.lo \div ByteBits)) % BlockSize)
PadLen(s) ==
  ((BlockSize - LenSize - 1 - (s.lo \div ByteBits)) % BlockSize) + 1

(* The length is saved before the padding counts.                          *)
Length(l, h) == [i \in 1..LenSize |-> IF i <= LenSize \div 2 THEN l ELSE h]
md5_finish(s) ==
  md5_append(md5_append(s, [i \in 1..PadLen(s) |-> IF i = 1 THEN Mark ELSE 0]),
             Length(s.lo, s.hi))

-----------------------------------------------------------------------------
Become(s) == lo' = s.lo /\ hi' = s.hi /\ abcd' = s.abcd /\ buf' = s.buf

Init ==
  /\ lo = 0 /\ hi = 0 /\ abcd = <<>> /\ buf = [i \in 1..BlockSize |-> 0]
  /\ len = 0 /\ digested = FALSE

Begin == digested /\ Become(md5_init) /\ len' = 0 /\ digested' = FALSE

AppendPiece(n) ==
  /\ ~digested /\ len + n <= MaxBytes
  /\ Become(md5_append(State, [i \in 1..n |-> len + i]))
  /\ len' = len + n /\ UNCHANGED digested

Finish ==
  /\ ~digested /\ Become(md5_finish(State)) /\ digested' = TRUE /\ UNCHANGED len

(* lua_gen_md5, conhash_md5_digest: a string at once, on a fresh state.     *)
Whole(n) ==
  /\ digested /\ Become(md5_finish(md5_append(md5_init, Message(n))))
  /\ len' = n /\ UNCHANGED digested

Next ==
  \/ Begin \/ Finish
  \/ \E n \in Pieces : AppendPiece(n) \/ Whole(n)

Spec == Init /\ [][Next]_vars

-----------------------------------------------------------------------------
(* However the message was cut, what has been digested and what waits in   *)
(* the buffer are the message, each byte once and in its order.            *)
NothingSkipped ==
  ~digested => abcd \o SubSeq(buf, 1, Offset(State)) = Message(len)

(* RFC 1321, 3.1 and 3.2: the digest is that of the message, a mark, fewer *)
(* than a block of zeros, and its length in bits; the same for every way   *)
(* to cut the message.                                                     *)
DigestIsPadded ==
  digested =>
    \E z \in 0..(BlockSize - 1) :
      abcd = Message(len) \o <<Mark>> \o [i \in 1..z |-> 0]
             \o Length((len * ByteBits) % WordSize,
                       ((len * ByteBits) \div WordSize) % WordSize)
=============================================================================
