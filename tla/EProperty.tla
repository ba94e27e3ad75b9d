------------------------------- MODULE EProperty ------------------------------
(***************************************************************************)
(* property_read of eproperty.c reads a file of `key = value' lines, with  *)
(* fgets into a buffer, and calls back for each; the caller's function     *)
(* stops it by answering 0.  The other helpers are called once each, and   *)
(* looked at for what they return.                                         *)
(***************************************************************************)
EXTENDS EText, ETime

CONSTANTS
  FileTexts,    \* the contents of files, as sequences of characters
  BufferSize,   \* the size of property_read's buffer
  Urls, Spaces, Names, Strings, Times, Steps  \* what the others are given

VARIABLES
  file,        \* the file, or <<>>
  comment_char,
  at,          \* how much of it has been read
  items,       \* the calls back: what was passed, the line it came from and
               \* what had been read before that
  result,      \* the last answer of the callback, 0 at first
  closed,      \* fclose has been called
  arg, got     \* what another helper was given, and what it answered

readVars == <<file, comment_char, at, items, result, closed>>
vars == <<readVars, arg, got>>

Texts == [fn : {"split_url"}, url : Urls, p : Spaces, n : Spaces]
         \cup [fn : {"file_suffix"}, name : Names]
         \cup [fn : {"str_cmp"}, s : Strings, t : Strings]
Clocks == [fn : {"time"}, t : Times, u : Times, n : Steps]

Init ==
  /\ file \in FileTexts /\ comment_char \in {"#", "none"}
  /\ at = 0 /\ items = <<>> /\ result = 0 /\ closed = FALSE
  /\ arg = [fn |-> "none"] /\ got = <<>>

-----------------------------------------------------------------------------
(* fgets: to the line end, to the end of the file, or as far as the buffer *)
(* goes, whichever comes first.                                            *)
Fgets ==
  LET rest == From(file, at + 1)
      eol == SelectInSeq(rest, LAMBDA x : x = "eol")
  IN FirstN(rest, IF eol > 0 /\ eol < BufferSize THEN eol ELSE BufferSize - 1)

(* Mutant: the line is searched for its last =.                            *)
SplitAtLast(line) == SelectLastInSeq(line, LAMBDA x : x = "=")

Content(line) == trim_str(delete_comment(line, comment_char))

SplitAt(line) == char_at(line, "=")

(* Without a separator (position -1) key and value are the whole line; the *)
(* 0 that ends the key is then written to line[-1], a byte before the line *)
(* that no variable here holds.                                            *)
Item(line) ==
  LET c == Content(line)
      i == SplitAt(c)
  IN IF i = 0 THEN [key |-> c, value |-> c]
     ELSE [key |-> trim_str(FirstN(c, i - 1)), value |-> trim_str(From(c, i + 1))]

(* Mutant: a line without a separator is passed over.                      *)
SkippedBare(line) == is_blank(line) \/ SplitAt(Content(line)) = 0

Skipped(line) == is_blank(line) \/ is_comment(line, comment_char)

Skip ==
  /\ ~closed /\ at < Len(file) /\ Skipped(Fgets)
  /\ at' = at + Len(Fgets)
  /\ UNCHANGED <<file, comment_char, items, result, closed, arg, got>>

CallBack(r) ==
  /\ ~closed /\ at < Len(file) /\ ~Skipped(Fgets)
  /\ at' = at + Len(Fgets)
  /\ items' = Append(items, [item |-> Item(Fgets), line |-> Fgets, from |-> at])
  /\ result' = r /\ closed' = (r = 0)
  /\ UNCHANGED <<file, comment_char, arg, got>>

EndOfFile ==
  /\ ~closed /\ at = Len(file) /\ closed' = TRUE
  /\ UNCHANGED <<file, comment_char, at, items, result, arg, got>>

(* One call of another helper.                                             *)
Answer(a) ==
  CASE a.fn = "split_url" -> split_url(a.url, a.p, a.n)
    [] a.fn = "file_suffix" -> file_suffix(a.name)
    [] a.fn = "str_cmp" -> <<str_cmp(a.s, a.t), str_cmp(a.t, a.s)>>
    [] a.fn = "time" ->
         [great |-> time_great(a.t, a.u), less |-> time_less(a.t, a.u),
          delta |-> time_delta(a.t, a.u), signed |-> time_signed_delta(a.t, a.u),
          added |-> time_add(a.t, a.n),
          back |-> time_subtract(time_add(a.t, a.n), a.n)]

Call(a) ==
  /\ file = <<>> /\ comment_char = "#" /\ arg.fn = "none"
  /\ arg' = a /\ got' = Answer(a) /\ UNCHANGED readVars

Next ==
  \/ Skip \/ EndOfFile \/ \E r \in {0, 1} : CallBack(r)
  \/ \E a \in Texts \cup Clocks : Call(a)

Spec == Init /\ [][Next]_vars

-----------------------------------------------------------------------------
Bare(s) == s # <<>> => s[1] \notin Blank /\ s[Len(s)] \notin White
Without(s, c) == \A i \in DOMAIN s : s[i] # c
Whites(s) == {w \in Prefixes(s) : is_blank(w)}

(* The grammar of a line: key and value in white space around the first =, *)
(* and a comment.                                                          *)
IsItem(line, key, value) ==
  \E i \in DOMAIN line :
    /\ line[i] = "=" /\ Without(FirstN(line, i - 1), "=")
    /\ Without(FirstN(line, i - 1), comment_char)
    /\ \E e \in i..Len(line) :
         /\ e = Len(line) \/ line[e + 1] = comment_char
         /\ Without(SubSeq(line, i + 1, e), comment_char)
         /\ \E w \in Whites(SubSeq(line, i + 1, e)) :
              /\ IsPrefix(w \o value, SubSeq(line, i + 1, e))
              /\ is_blank(From(SubSeq(line, i + 1, e), Len(w \o value) + 1))
    /\ \E w \in Whites(FirstN(line, i - 1)) :
         /\ IsPrefix(w \o key, FirstN(line, i - 1))
         /\ is_blank(SubSeq(line, Len(w \o key) + 1, i - 1))

(* Every line that has a separator before a comment is called back with    *)
(* what the grammar makes of it, stripped of white space and comment.      *)
ItemsFollowGrammar ==
  \A n \in DOMAIN items :
    LET l == items[n].line  k == items[n].item.key  v == items[n].item.value IN
    ~Without(delete_comment(l, comment_char), "=") =>
       IsItem(l, k, v) /\ Bare(k) /\ Bare(v)

(* Behind the comment character, in the same line.                         *)
Commented(i) ==
  \E j \in 1..i : file[j] = comment_char /\ \A k \in j..(i - 1) : file[k] # "eol"

End(n) == items[n].from + Len(items[n].line)

(* The lines called back are the file's, in its order, once each: what was *)
(* read and not called back is blank or a comment.  A callback's 0 is the  *)
(* last call and the answer; a line longer than the buffer counts as more. *)
LinesInOrder ==
  /\ closed /\ result = 1 => at = Len(file)
  /\ items # <<>> /\ result = 0 => closed
  /\ \A n \in DOMAIN items :
       /\ items[n].line = SubSeq(file, items[n].from + 1, End(n))
       /\ End(n) <= IF n = Len(items) THEN at ELSE items[n + 1].from
  /\ \A i \in 1..at : \/ file[i] \in White \/ Commented(i)
                       \/ \E n \in DOMAIN items : i \in (items[n].from + 1)..End(n)

(* estring.h:60-81: path and name, which fit their spaces, make up the url *)
(* when these suffice; the name is what follows the last slash.            *)
SplitIsRight ==
  arg.fn = "split_url" =>
    /\ Len(got.path) < arg.p /\ Len(got.name) < arg.n
    /\ arg.p > Len(arg.url) /\ arg.n > Len(arg.url) =>
         /\ got.path \o got.name = arg.url /\ Without(got.name, "/")
         /\ got.path # <<>> => got.path[Len(got.path)] = "/"

(* estring.h:83-94: 0 for equal strings only, and the other way round when *)
(* the arguments are; a string comes behind its own beginnings.            *)
OrderIsRight ==
  arg.fn = "str_cmp" =>
    /\ got[1] = -got[2] /\ (got[1] = 0 <=> arg.s = arg.t)
    /\ IsStrictPrefix(arg.s, arg.t) => got[1] = -1

(* etime.h: differences agree with the order and are exact to less than a  *)
(* millisecond, as long as they fit an int; adding moves a time by what    *)
(* was asked, less the part below a millisecond, keeps it normal, and      *)
(* subtracting goes back.                                                  *)
TimeIsRight ==
  arg.fn = "time" =>
    LET t == arg.t  u == arg.u
        Micros(x) == x.sec * K * K + x.usec
        diff == Micros(t) - Micros(u)
        fits == diff \div K \in (1 - IntSize \div 2)..(IntSize \div 2 - 2)
        floor == Micros(t) - (Micros(t) % K)
    IN /\ fits => /\ got.signed * K - diff \in (1 - K)..(K - 1)
                  /\ got.signed > 0 => got.great = 1
                  /\ got.signed < 0 => got.less = 1
                  /\ got.delta \in {got.signed, -got.signed} /\ got.delta >= 0
       /\ floor + arg.n * K >= 0 =>
            /\ Micros(got.added) = floor + arg.n * K
            /\ got.added.usec \in 0..(K * K - 1)
            /\ Micros(got.back) = floor
=============================================================================
