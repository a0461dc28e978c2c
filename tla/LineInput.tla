------------------------------ MODULE LineInput ------------------------------
(***************************************************************************)
(* What the console promises those who type and those who read: characters *)
(* collect in a line that can be edited until it is entered; what has been *)
(* entered is read in order, each byte once, a line at most at a time; an  *)
(* end-of-file ends one read, and that read returns nothing else.          *)
(***************************************************************************)
EXTENDS Sequences, Integers

CONSTANTS Readers, Keys, Size, Counts

VARIABLES
  entered,   \* bytes that can be read
  typing,    \* the line being edited
  reading    \* of each reader: the count it asked for (0: it is not reading) and its bytes

Type(c) ==
  /\ Len(entered) + Len(typing) < Size
  /\ LET line == Append(typing, c) IN
     IF c \in {"nl", "eof"} \/ Len(entered) + Len(line) = Size
     THEN entered' = entered \o line /\ typing' = <<>>
     ELSE typing' = line /\ UNCHANGED entered
  /\ UNCHANGED reading

Erase ==
  /\ \E k \in 0 .. Len(typing) : typing' = SubSeq(typing, 1, k)
  /\ UNCHANGED <<entered, reading>>

Begin(p) ==
  /\ reading[p].n = 0
  /\ \E n \in Counts : reading' = [reading EXCEPT ![p] = [n |-> n, got |-> <<>>]]
  /\ UNCHANGED <<entered, typing>>

Whole(r) == Len(r.got) = r.n \/ (r.got # <<>> /\ r.got[Len(r.got)] = "nl")

Take(p) ==
  /\ reading[p].n > 0 /\ ~Whole(reading[p])
  /\ entered # <<>> /\ Head(entered) # "eof"
  /\ entered' = Tail(entered)
  /\ reading' = [reading EXCEPT ![p].got = Append(@, Head(entered))]
  /\ UNCHANGED typing

Done == [n |-> 0, got |-> <<>>]

(* The read ends: with what it asked for, a whole line, or what there is    *)
(* before the end of the file, which an empty read takes away.              *)
Return(p) ==
  /\ reading[p].n > 0
  /\ \/ Whole(reading[p]) /\ UNCHANGED entered
     \/ /\ entered # <<>> /\ Head(entered) = "eof"
        /\ entered' = IF reading[p].got = <<>> THEN Tail(entered) ELSE entered
  /\ reading' = [reading EXCEPT ![p] = Done]
  /\ UNCHANGED typing

(* The read fails: its process was killed, or the byte has nowhere to go. *)
Fail(p) ==
  /\ reading[p].n > 0
  /\ reading' = [reading EXCEPT ![p] = Done]
  /\ entered' \in {entered} \cup (IF entered = <<>> THEN {} ELSE {Tail(entered)})
  /\ entered # entered' => Head(entered) # "eof"
  /\ UNCHANGED typing

Init == entered = <<>> /\ typing = <<>> /\ reading = [p \in Readers |-> Done]
Next == \/ Erase \/ \E c \in Keys : Type(c)
        \/ \E p \in Readers : Begin(p) \/ Take(p) \/ Return(p) \/ Fail(p)
Spec == Init /\ [][Next]_<<entered, typing, reading>>
=============================================================================
