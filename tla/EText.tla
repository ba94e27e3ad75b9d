--------------------------------- MODULE EText --------------------------------
(***************************************************************************)
(* estring.c and file_suffix of eother.c, as operators.  A C string is the *)
(* sequence of its characters without the 0; a pointer into it is a        *)
(* position, NULL and -1 are 0.  What matters of a character is whether it *)
(* is a blank, a line end, or one of the separators.                       *)
(***************************************************************************)
EXTENDS Integers, Sequences, SequencesExt

Blank == {"blank"}             \* a space or a tab
White == {"blank", "eol"}      \* these, CR and LF
FirstN(s, n) == SubSeq(s, 1, IF n < Len(s) THEN n ELSE Len(s))
From(s, i) == SubSeq(s, i, Len(s))

is_blank(s) == \A i \in DOMAIN s : s[i] \in White

is_comment(s, c) ==
  \E i \in DOMAIN s : s[i] = c /\ \A j \in 1..(i - 1) : s[j] \in Blank

(* Blanks and tabs are dropped in front, line ends too behind.             *)
trim_str(s) ==
  IF is_blank(s) THEN <<>>
  ELSE SubSeq(s, SelectInSeq(s, LAMBDA x : x \notin Blank),
                 SelectLastInSeq(s, LAMBDA x : x \notin White))

delete_comment(s, c) ==
  IF \E i \in DOMAIN s : s[i] = c
  THEN FirstN(s, SelectInSeq(s, LAMBDA x : x = c) - 1) ELSE s

char_at(s, c) == SelectInSeq(s, LAMBDA x : x = c)

(* Mutant: the slash goes to the name.                                     *)
PathLenShort(url) ==
  LET p == SelectLastInSeq(url, LAMBDA x : x = "/") IN IF p = 0 THEN 0 ELSE p - 1

(* What is before and what is behind the last slash, each cut to its space *)
(* less the terminating 0.                                                 *)
PathLen(url) == SelectLastInSeq(url, LAMBDA x : x = "/")

split_url(url, path_size, name_size) ==
  [path |-> FirstN(FirstN(url, PathLen(url)), path_size - 1),
   name |-> FirstN(From(url, PathLen(url) + 1), name_size - 1)]

(* Behind the last dot; NULL, here "none", when that is the last character *)
(* or there is none.                                                       *)
file_suffix(name) ==
  LET d == SelectLastInSeq(name, LAMBDA x : x = ".") IN
  IF d = 0 \/ d = Len(name) THEN "none" ELSE From(name, d + 1)

(* Mutant: the common part decides alone.                                  *)
SizeOrderNone(m, n) == 0

SizeOrder(m, n) == IF m = n THEN 0 ELSE IF m > n THEN 1 ELSE -1

(* memcmp of the common part, then the sizes.                              *)
str_cmp(s, t) ==
  LET common == {i \in DOMAIN s \cap DOMAIN t : s[i] # t[i]} IN
  IF common = {} THEN SizeOrder(Len(s), Len(t))
  ELSE LET i == CHOOSE i \in common : \A j \in common : i <= j
       IN IF s[i] < t[i] THEN -1 ELSE 1
=============================================================================
