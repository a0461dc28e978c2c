----------------------------- MODULE ShellParser -----------------------------
(***************************************************************************)
(* The parser of user/sh.c, from tokens to the tree of commands that       *)
(* runcmd() takes, against the grammar that it implements.                 *)
(*                                                                         *)
(* A token is one of gettoken()'s symbols, with "+" for ">>", or a word.   *)
(* A parser returns the tree and the tokens that are left; Panic stands    *)
(* for a call of panic(), which ends the process.                          *)
(***************************************************************************)
EXTENDS Integers, Sequences

CONSTANTS
  Words,       \* the words that are typed
  MAXARGS,
  LENGTH       \* bound: tokens of a line

VARIABLE toks  \* the line typed so far

Symbols == {"<", ">", "+", "|", "&", ";", "(", ")"}

ParserTypeOK == toks \in Seq(Words \cup Symbols) /\ Len(toks) <= LENGTH
ParserInit == toks = <<>>
ParserNext == Len(toks) < LENGTH /\ \E t \in Words \cup Symbols : toks' = Append(toks, t)

execcmd(argv)         == [type |-> "EXEC", argv |-> argv]
redircmd(cmd, fd)     == [type |-> "REDIR", cmd |-> cmd, fd |-> fd]
pipecmd(left, right)  == [type |-> "PIPE", left |-> left, right |-> right]
listcmd(left, right)  == [type |-> "LIST", left |-> left, right |-> right]
backcmd(cmd)          == [type |-> "BACK", cmd |-> cmd]

Panic == [type |-> "panic"]
-----------------------------------------------------------------------------
gettoken(s) == IF s = <<>> THEN "end" ELSE Head(s)
peek(s, set) == gettoken(s) \in set
IsWord(t) == t \in Words
Result(cmd, rest) == [type |-> "ok", cmd |-> cmd, rest |-> rest]
Failed(r) == r.type = "panic"

(* parseredirs(): the redirections at the front of s, innermost first. *)
RECURSIVE parseredirs(_, _)
parseredirs(cmd, s) ==
  IF ~peek(s, {"<", ">", "+"}) THEN Result(cmd, s)
  ELSE IF ~IsWord(gettoken(Tail(s))) THEN Panic
  ELSE parseredirs(redircmd(cmd, IF Head(s) = "<" THEN 0 ELSE 1), Tail(Tail(s)))

(* The words go to the execcmd, inside of the redirections. *)
RECURSIVE WithArg(_, _)
WithArg(cmd, word) ==
  IF cmd.type = "EXEC" THEN [cmd EXCEPT !.argv = Append(@, word)]
  ELSE [cmd EXCEPT !.cmd = WithArg(@, word)]

(* parseexec()'s loop, with argc words so far. *)
RECURSIVE parseargs(_, _)
parseargs(r, argc) ==
  IF Failed(r) THEN r
  ELSE IF peek(r.rest, {"|", ")", "&", ";", "end"}) THEN r
  ELSE IF ~IsWord(gettoken(r.rest)) \/ argc + 1 >= MAXARGS THEN Panic
  ELSE parseargs(parseredirs(WithArg(r.cmd, Head(r.rest)), Tail(r.rest)), argc + 1)

RECURSIVE parseline(_), parsepipe(_), parseexec(_), parseblock(_)

parseblock(s) ==
  LET r == parseline(Tail(s)) IN
  IF Failed(r) \/ ~peek(r.rest, {")"}) THEN Panic
  ELSE parseredirs(r.cmd, Tail(r.rest))

parseexec(s) ==
  IF peek(s, {"("}) THEN parseblock(s)
  ELSE parseargs(parseredirs(execcmd(<<>>), s), 0)

parsepipe(s) ==
  LET r == parseexec(s) IN
  IF Failed(r) \/ ~peek(r.rest, {"|"}) THEN r
  ELSE LET q == parsepipe(Tail(r.rest)) IN
       IF Failed(q) THEN q ELSE Result(pipecmd(r.cmd, q.cmd), q.rest)

RECURSIVE parseback(_)
parseback(r) ==
  IF Failed(r) \/ ~peek(r.rest, {"&"}) THEN r
  ELSE parseback(Result(backcmd(r.cmd), Tail(r.rest)))

(* Mutant: the rest of the line is in the background with its start. *)
parseline_group(s) ==
  LET r == parsepipe(s) IN
  IF Failed(r) \/ ~peek(r.rest, {";"}) THEN parseback(r)
  ELSE LET q == parseline(Tail(r.rest)) IN
       IF Failed(q) THEN q ELSE parseback(Result(listcmd(r.cmd, q.cmd), q.rest))

parseline(s) ==
  LET r == parseback(parsepipe(s)) IN
  IF Failed(r) \/ ~peek(r.rest, {";"}) THEN r
  ELSE LET q == parseline(Tail(r.rest)) IN
       IF Failed(q) THEN q ELSE Result(listcmd(r.cmd, q.cmd), q.rest)

parsecmd(s) ==
  LET r == parseline(s) IN IF Failed(r) \/ r.rest # <<>> THEN Panic ELSE r
-----------------------------------------------------------------------------
(* The grammar, as the set of trees that a sequence of tokens may mean:     *)
(*   line := jobs | jobs ; line           jobs := pipe | jobs &             *)
(*   pipe := exec | exec '|' pipe                                           *)
(*   exec := words | ( line ) | exec with a redirection added to it         *)
Pre(s, i)  == SubSeq(s, 1, i - 1)
Post(s, i) == SubSeq(s, i + 1, Len(s))

(* The last redirection is the outermost, and not inside of a block. *)
Redirs == {"<", ">", "+"}
LastRedir(s) ==
  {i \in 1 .. Len(s) - 1 : /\ s[i] \in Redirs /\ \A j \in i + 1 .. Len(s) : IsWord(s[j])
                           /\ i > 1 => s[i - 1] \notin Redirs}

RECURSIVE Line(_), Jobs(_), Pipe(_), Exec(_)
Line(s) ==
  Jobs(s) \cup UNION {{listcmd(a, b) : a \in Jobs(Pre(s, i)), b \in Line(Post(s, i))} :
                        i \in {j \in DOMAIN s : s[j] = ";"}}
Jobs(s) ==
  Pipe(s) \cup (IF s # <<>> /\ s[Len(s)] = "&" THEN {backcmd(a) : a \in Jobs(Pre(s, Len(s)))} ELSE {})
Pipe(s) ==
  Exec(s) \cup UNION {{pipecmd(a, b) : a \in Exec(Pre(s, i)), b \in Pipe(Post(s, i))} :
                        i \in {j \in DOMAIN s : s[j] = "|"}}
Exec(s) ==
  LET words == \A i \in DOMAIN s : IsWord(s[i])
      block == Len(s) > 1 /\ s[1] = "(" /\ s[Len(s)] = ")"
  IN (IF words /\ Len(s) < MAXARGS THEN {execcmd(s)} ELSE {})
     \cup (IF block THEN Line(SubSeq(s, 2, Len(s) - 1)) ELSE {})
     \cup UNION {{redircmd(a, IF s[i] = "<" THEN 0 ELSE 1) : a \in Exec(Pre(s, i) \o Post(s, i + 1))} :
                   i \in LastRedir(s)}

(* parsecmd() builds the tree that the grammar gives to a line, of which    *)
(* there is one, and panics on the lines that have none.                    *)
ParsesGrammar ==
  Line(toks) = (IF Failed(parsecmd(toks)) THEN {} ELSE {parsecmd(toks).cmd})
=============================================================================
