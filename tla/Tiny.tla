-------------------------------- MODULE Tiny --------------------------------
(***************************************************************************)
(* The web server of tiny/tiny.c: one request of one client at a time, a   *)
(* file sent back from a mapping or the output of a CGI program, which a   *)
(* child process writes straight to the client's descriptor.               *)
(*                                                                         *)
(* A file is a name with its mode and size; a header line is not looked    *)
(* into.  What a client receives is the sequence of its parts.             *)
(***************************************************************************)
EXTENDS Naturals, Sequences

CONSTANTS
    Files,      \* what stat() finds: a function from names to records
    Uris,       \* [name, cgi, slash, query]: see parse_uri
    Requests,   \* [line, uri, hdrs, ends]
    Faults      \* "client" breaks the connection, "file" vanishes after stat(),
                \* "cgi" dies before it writes; "system": accept() or fork() fails

VARIABLES
    at,         \* where the server is
    req, uri,   \* what the client sends; the uri that doit() parses
    blank,      \* buf of read_requesthdrs holds "\r\n"
    open,       \* the descriptors the server has open, and its mapping
    child,      \* the CGI program: "none", "run", "zombie"
    out,        \* what the client has received
    up

vars == <<at, req, uri, blank, open, child, out, up>>
Nothing == <<>>

Init ==
    /\ at = "accept" /\ req = Nothing /\ uri = Nothing
    /\ blank = FALSE
    /\ open = {"listenfd"} /\ child = "none" /\ out = <<>>
    /\ up = TRUE

\* To label `to`, with `parts` written to the client.
Goto(from, to) == at = from /\ at' = to
Write(parts) == out' = out \o parts

-----------------------------------------------------------------------------
(* main(), doit() and what they call up to the choice of the answer         *)

\* The client's whole request is chosen here, though it arrives later.
Accept(r) ==
    /\ Goto("accept", "request line")
    /\ req' = r /\ open' = open \cup {"connfd"} /\ out' = <<>>
    /\ UNCHANGED <<uri, blank, child, up>>

\* The method is compared before the headers are read.  A line without a uri
\* leaves that variable as the stack happens to be: a uri of some kind.  And so is
\* buf when read_requesthdrs begins.
ReadRequestLine ==
    /\ at = "request line"
    /\ \/ req.line = "end of stream" /\ at' = "close" /\ UNCHANGED <<uri, blank>>
       \/ req.line = "POST" /\ at' = "501" /\ UNCHANGED <<uri, blank>>
       \/ req.line = "GET" /\ at' = "headers" /\ uri' = req.uri /\ blank' \in BOOLEAN
       \/ req.line = "short" /\ at' = "headers" /\ uri' \in Uris /\ blank' \in BOOLEAN
    /\ UNCHANGED <<req, open, child, out, up>>

\* A mutant: no line is found to be the blank one.
ReadHeadersOn ==
    /\ at = "headers" /\ req.hdrs > 0
    /\ req' = [req EXCEPT !.hdrs = @ - 1] /\ blank' = FALSE
    /\ UNCHANGED <<at, uri, open, child, out, up>>

\* read_requesthdrs: lines up to a blank one.  At the end of the stream
\* Rio_readlineb leaves buf as it was: the last header line if there was one, or
\* what the stack held, and the loop ends only if that was a blank line.
ReadHeaders ==
    /\ at = "headers"
    /\ \/ /\ req.hdrs > 0
          /\ req' = [req EXCEPT !.hdrs = @ - 1]
          /\ blank' = FALSE /\ UNCHANGED at
       \/ /\ req.hdrs = 0 /\ req.ends = "blank line"
          /\ blank' = TRUE /\ at' = "stat" /\ UNCHANGED req
       \/ /\ req.hdrs = 0 /\ req.ends = "end of stream"
          /\ at' = IF blank THEN "stat" ELSE "headers"
          /\ UNCHANGED <<req, blank>>
    /\ UNCHANGED <<uri, open, child, out, up>>

\* parse_uri: the name is cut at the '?' only in a uri with "cgi-bin" in it, and
\* home.html appended only in one without.
parse_uri(u) ==
    [static |-> ~u.cgi,
     file |-> IF u.cgi THEN u.name
              ELSE u.name \o (IF u.query THEN "?" ELSE "") \o (IF u.slash THEN "home.html" ELSE "")]

File == Files[parse_uri(uri).file]

\* A mutant: the mode of the file is not looked at.
StatAnyMode ==
    /\ at = "stat"
    /\ at' = IF parse_uri(uri).file \notin DOMAIN Files THEN "404"
             ELSE IF parse_uri(uri).static THEN "static" ELSE "dynamic"
    /\ UNCHANGED <<req, uri, blank, open, child, out, up>>

Stat ==
    LET f == parse_uri(uri)
        mode == IF f.static THEN "r" ELSE "x"
    IN  /\ at = "stat"
        /\ at' = CASE f.file \notin DOMAIN Files -> "404"
                   [] f.file \in DOMAIN Files /\ ~(File.regular /\ mode \in File.mode) -> "403"
                   [] OTHER -> IF f.static THEN "static" ELSE "dynamic"
        /\ UNCHANGED <<req, uri, blank, open, child, out, up>>

clienterror ==
    /\ at \in {"501", "404", "403"}
    /\ Write(<<at, "type", "length", "error page">>)
    /\ at' = "close"
    /\ UNCHANGED <<req, uri, blank, open, child, up>>

-----------------------------------------------------------------------------
(* serve_static() and serve_dynamic()                                       *)

StaticHeaders ==
    /\ Goto("static", "open")
    /\ Write(<<"200", "type", "length">>)
    /\ UNCHANGED <<req, uri, blank, open, child, up>>

OpenAndMap ==                   \* Open, Mmap, Close(srcfd)
    /\ Goto("open", "body")
    /\ File.size > 0
    /\ open' = open \cup {"mapping"}
    /\ UNCHANGED <<req, uri, blank, child, out, up>>

MmapFails ==                    \* a length of 0 is an error: unix_error ends the server
    /\ at = "open" /\ File.size = 0
    /\ up' = FALSE
    /\ UNCHANGED <<at, req, uri, blank, open, child, out>>

SendBody ==                     \* Rio_writen, Munmap
    /\ Goto("body", "close")
    /\ Write(<<"body">>) /\ open' = open \ {"mapping"}
    /\ UNCHANGED <<req, uri, blank, child, up>>

DynamicHeaders ==
    /\ Goto("dynamic", "fork")
    /\ Write(<<"200", "server">>)
    /\ UNCHANGED <<req, uri, blank, open, child, up>>

Fork ==
    /\ Goto("fork", "wait")
    /\ child' = "run"
    /\ UNCHANGED <<req, uri, blank, open, out, up>>

\* Dup2, Execve, and the program, which may die before it writes.  When Execve
\* fails, exit() flushes the copy of the server's own stdout to the client.
ChildRuns ==
    /\ child = "run" /\ child' = "zombie"
    /\ \/ Write(<<"cgi output">>)
       \/ "cgi" \in Faults /\ (UNCHANGED out \/ Write(<<"server's log">>))
    /\ UNCHANGED <<at, req, uri, blank, open, up>>

Wait ==
    /\ Goto("wait", "close")
    /\ child = "zombie" /\ child' = "none"
    /\ UNCHANGED <<req, uri, blank, open, out, up>>

Close ==
    /\ Goto("close", "accept")
    /\ open' = open \ {"connfd"}
    /\ UNCHANGED <<req, uri, blank, child, out, up>>

\* What else ends the process: a failing Accept or Fork; a file gone since stat();
\* a client gone while it is read from or written to, by SIGPIPE or by the error
\* of Rio_readlineb and Rio_writen; a uri that was never set.
Dies ==
    /\ \/ at \in {"accept", "fork"} /\ "system" \in Faults
       \/ at = "open" /\ "file" \in Faults
       \/ at \notin {"accept", "stat", "open", "fork", "wait", "close"} /\ "client" \in Faults
       \/ at = "stat" /\ req.line = "short"
    /\ up' = FALSE
    /\ UNCHANGED <<at, req, uri, blank, open, child, out>>

Serve ==
    \/ ReadRequestLine \/ ReadHeaders \/ Stat \/ clienterror
    \/ StaticHeaders \/ OpenAndMap \/ MmapFails \/ SendBody
    \/ DynamicHeaders \/ Fork \/ Wait \/ Close

Next ==
    /\ up
    /\ Serve \/ ChildRuns \/ Dies \/ \E r \in Requests : Accept(r)

Spec == Init /\ [][Next]_vars

-----------------------------------------------------------------------------
(* Properties                                                               *)

\* Between two clients nothing of the last one is left: no descriptor, mapping or
\* child that could still write.
CleanBetweenClients == at = "accept" => open = {"listenfd"} /\ child = "none"

\* When the connection is closed, its client has one whole answer to what it sent:
\* one status line, before all else, with the announced body after it, or the
\* output of the program the server has run; the file's name is what was asked for.
Answers ==
    {<<s, "type", "length", "error page">> : s \in {"501", "404", "403"}}
        \cup {<<"200", "type", "length", "body">>, <<"200", "server", "cgi output">>}

OneAnswer == at = "close" =>
    /\ (out = <<>>) = (req.line = "end of stream")
    /\ out # <<>> => \/ out \in Answers
                     \/ "cgi" \in Faults /\ uri.cgi
                        /\ out \in {<<"200", "server">>, <<"200", "server", "server's log">>}
    /\ (req.line = "POST") = (out # <<>> /\ out[1] = "501")
    /\ (out # <<>> /\ out[1] = "200") =>
           /\ File.regular
           /\ IF uri.cgi THEN "x" \in File.mode ELSE "r" \in File.mode /\ out[4] = "body"

\* The server comes back for the next client unless it has died or is for ever
\* with a client that sends no line, or that ends its stream inside the headers.
Stuck ==
    \/ at = "request line" /\ req.line = "silent"
    \/ at = "headers" /\ req.hdrs = 0 /\ (req.ends = "silent" \/ (req.ends = "end of stream" /\ ~blank))

ComesBack == <>~up \/ <>[]Stuck \/ []<>(at = "accept")
=============================================================================
