---------------------------- MODULE CommandLine -----------------------------
(***************************************************************************)
(* How the shell tsh.c reads a command line and takes it apart: main's     *)
(* fgets, and parseline(). Letters are "a"; a quote is "q".                *)
(***************************************************************************)
EXTENDS Naturals, Sequences, SequencesExt, FiniteSetsExt

CONSTANTS Words,        \* [text, quoted]: what the user types between spaces
          MaxWords,     \* bound: words of a line
          MAXLINE

VARIABLES at,           \* "prompt" or "exited"
          words,        \* the line the user has typed last
          stdin,        \* what of it is not read yet
          cmdline, argv, bg

vars == <<at, words, stdin, cmdline, argv, bg>>

Init == at = "prompt" /\ words = <<>> /\ stdin = <<>> /\ cmdline = <<>> /\ argv = <<>> /\ bg = FALSE

Typed(w) == (IF w.quoted THEN <<"q">> \o w.text \o <<"q">> ELSE w.text) \o <<" ">>
Line(ws) == FoldLeft(LAMBDA s, w : s \o Typed(w), <<>>, ws) \o <<"\n">>

\* A word follows a space, or two.
Type(ws, space) ==
    /\ at = "prompt" /\ stdin = <<>>
    /\ words' = ws /\ stdin' = space \o Line(ws)
    /\ UNCHANGED <<at, cmdline, argv, bg>>

-----------------------------------------------------------------------------

\* The first place from p on that holds one of these; 0 when there is none.
Find(buf, p, Is(_)) ==
    LET places == {d \in p .. Len(buf) : Is(buf[d])}
    IN  IF places = {} THEN 0 ELSE Min(places)

\* A mutant: a quoted argument ends at a space, too.
DelimAnySpace(buf, p) == Find(buf, p, LAMBDA c : c = " ")

\* The end of the argument that starts at p: the next quote after one, or a space.
Delim(buf, p) ==
    IF buf[p] = "q" THEN Find(buf, p + 1, LAMBDA c : c = "q")
    ELSE Find(buf, p, LAMBDA c : c = " ")

Arguments(buf) ==
    LET from[p \in 1 .. Len(buf) + 1] ==
            LET start == Find(buf, p, LAMBDA c : c # " ")
                end == Delim(buf, start)
            IN  IF start = 0 THEN <<>>
                ELSE IF end = 0 THEN <<>>
                ELSE <<SubSeq(buf, IF buf[start] = "q" THEN start + 1 ELSE start, end - 1)>>
                        \o from[end + 1]
    IN  from[1]

\* The last character, a newline it is hoped, is overwritten by a space. The last argument
\* goes when it starts with "&"; a blank line counts as one for the background.
parseline(line) ==
    LET args == Arguments([line EXCEPT ![Len(line)] = " "])
        ampersand == args # <<>> /\ Last(args) # <<>> /\ Head(Last(args)) = "&"
    IN  [argv |-> IF ampersand THEN Front(args) ELSE args, bg |-> args = <<>> \/ ampersand]

\* fgets() stops at a newline or when its buffer is full; eval() parses what it got.
ReadEval ==
    LET n == Min({Find(stdin, 1, LAMBDA c : c = "\n"), MAXLINE - 1})
    IN  /\ at = "prompt" /\ stdin # <<>>
        /\ cmdline' = SubSeq(stdin, 1, n)
        /\ stdin' = SubSeq(stdin, n + 1, Len(stdin))
        /\ argv' = parseline(cmdline').argv /\ bg' = parseline(cmdline').bg
        /\ UNCHANGED <<at, words>>

EndOfFile ==                    \* ctrl-d
    /\ at = "prompt" /\ stdin = <<>>
    /\ at' = "exited"
    /\ UNCHANGED <<words, stdin, cmdline, argv, bg>>

Next ==
    \/ \E ws \in SeqOf(Words, MaxWords), space \in {<<>>, <<" ">>} : Type(ws, space)
    \/ ReadEval \/ EndOfFile

\* The arguments of a line that fits the buffer are the words that were typed, quoted
\* ones whole, but for a last one that starts with "&" and sends the job to the background.
Texts == [n \in DOMAIN words |-> words[n].text]

ArgsAsTyped == (stdin = <<>> /\ Len(cmdline) >= Len(Line(words)) /\ cmdline # <<>>) =>
    LET amp == words # <<>> /\ Last(Texts) # <<>> /\ Head(Last(Texts)) = "&"
    IN  argv = (IF amp THEN Front(Texts) ELSE Texts) /\ bg = (amp \/ words = <<>>)
=============================================================================
