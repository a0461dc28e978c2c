-------------------------------- MODULE Grep --------------------------------
(***************************************************************************)
(* user/grep.c: the matcher, against what its patterns mean, and the loop  *)
(* that finds lines in what read() returns, however it is cut up.          *)
(***************************************************************************)
EXTENDS Integers, Sequences, SequencesExt

CONSTANTS
  Chars,       \* the characters of lines; "nl" ends one
  BUF,         \* sizeof(buf)
  PATTERN,     \* bound: the length of patterns
  FILE         \* bound: the length of files

VARIABLES
  re,          \* the pattern
  file,        \* what read() has not returned yet
  buf,         \* buf[0 .. m)
  seen,        \* history: the bytes read
  out,         \* the lines written
  over         \* grep() has returned

grepvars == <<re, file, buf, seen, out, over>>

Seqs(S, n) == UNION {[1 .. k -> S] : k \in 0 .. n}

GrepTypeOK ==
  /\ re \in Seq(Chars \cup {"^", ".", "*", "$"}) /\ file \in Seq(Chars \cup {"nl"})
  /\ buf \in Seq(Chars) /\ Len(buf) < BUF
  /\ out \in Seq(Seq(Chars)) /\ over \in BOOLEAN

GrepInit ==
  /\ re \in Seqs(Chars \cup {"^", ".", "*", "$"}, PATTERN)
  /\ file \in Seqs(Chars \cup {"nl"}, FILE)
  /\ buf = <<>> /\ seen = <<>> /\ out = <<>> /\ over = FALSE
-----------------------------------------------------------------------------
RECURSIVE matchhere(_, _), matchstar(_, _, _), match(_, _)

matchstar(c, r, text) ==
  \/ matchhere(r, text)
  \/ text # <<>> /\ (Head(text) = c \/ c = ".") /\ matchstar(c, r, Tail(text))

matchhere(r, text) ==
  IF r = <<>> THEN TRUE
  ELSE IF Len(r) > 1 /\ r[2] = "*" THEN matchstar(r[1], SubSeq(r, 3, Len(r)), text)
  ELSE IF r = <<"$">> THEN text = <<>>
  ELSE text # <<>> /\ (r[1] = "." \/ r[1] = Head(text)) /\ matchhere(Tail(r), Tail(text))

match(r, text) ==
  IF r # <<>> /\ Head(r) = "^" THEN matchhere(Tail(r), text)
  ELSE \/ matchhere(r, text)
       \/ text # <<>> /\ match(r, Tail(text))
-----------------------------------------------------------------------------
(* What is left of the buffer after its last whole line, and the lines. *)
Ends(s) == {i \in DOMAIN s : s[i] = "nl"}
LineAt(s, i) ==
  LET from == {j \in Ends(s) : j < i} IN
  SubSeq(s, IF from = {} THEN 1 ELSE 1 + CHOOSE j \in from : \A k \in from : k <= j, i - 1)
Lines(s) == LET ends == SetToSortSeq(Ends(s), <) IN [k \in DOMAIN ends |-> LineAt(s, ends[k])]
Rest(s) == LineAt(s, Len(s) + 1)

Matching(lines) == LET ok(line) == match(re, line) IN SelectSeq(lines, ok)

(* Mutant: the start of a line that is not whole yet is dropped. *)
Keep_none(s) == <<>>

(* memmove() of what follows the last newline. *)
Keep(s) == Rest(s)

(* A turn of grep()'s loop: read() returns some bytes that fit; or none,    *)
(* at the end of the file, and when a line fills the buffer.                *)
grep ==
  /\ ~over
  /\ LET room == BUF - Len(buf) - 1
         most == IF room < Len(file) THEN room ELSE Len(file)
     IN \/ \E n \in 1 .. most :
             LET all == buf \o SubSeq(file, 1, n) IN
             /\ file' = SubSeq(file, n + 1, Len(file))
             /\ seen' = seen \o SubSeq(file, 1, n)
             /\ out' = out \o Matching(Lines(all))
             /\ buf' = Keep(all)
             /\ UNCHANGED over
        \/ most = 0 /\ over' = TRUE /\ UNCHANGED <<file, seen, out, buf>>
  /\ UNCHANGED re

GrepNext == grep
-----------------------------------------------------------------------------
(* The meaning of a pattern: a sequence of items, each a character that may *)
(* be starred, between anchors.                                             *)
RECURSIVE Items(_)
Items(r) ==
  IF r = <<>> THEN <<>>
  ELSE IF Len(r) > 1 /\ r[2] = "*" THEN <<[c |-> r[1], star |-> TRUE]>> \o Items(SubSeq(r, 3, Len(r)))
  ELSE <<[c |-> r[1], star |-> FALSE]>> \o Items(Tail(r))

(* Items match the text from cut[1] to the last cut: item k what is between *)
(* cut[k] and cut[k + 1].                                                   *)
Matches(items, text, cut) ==
  \A k \in DOMAIN items :
    /\ cut[k] <= cut[k + 1]
    /\ \A i \in cut[k] + 1 .. cut[k + 1] : items[k].c \in {".", text[i]}
    /\ ~items[k].star => cut[k + 1] = cut[k] + 1

Means(r, text) ==
  LET start == r # <<>> /\ r[1] = "^"
      body  == IF start THEN Tail(r) ELSE r
      all   == Items(body)
      end   == all # <<>> /\ all[Len(all)] = [c |-> "$", star |-> FALSE]
      items == IF end THEN SubSeq(all, 1, Len(all) - 1) ELSE all
      n     == Len(items)
  IN \E cut \in [1 .. n + 1 -> 0 .. Len(text)] :
       /\ Matches(items, text, cut)
       /\ start => cut[1] = 0
       /\ end => cut[n + 1] = Len(text)

(* What grep has written is the lines that it has seen the end of and that  *)
(* the pattern means, in order, each once, wherever read() cut the file.    *)
GrepLines ==
  LET ok(line) == Means(re, line) IN out = SelectSeq(Lines(seen), ok)
=============================================================================
