------------------------------ MODULE MCServers -----------------------------
(* Small files, uris and requests for the web server of module Servers. *)
EXTENDS Servers

MCFiles == [n \in {"/a.html", "/home.html", "/empty", "/secret", "/cgi-bin/adder", "/cgi-bin"} |->
    [regular |-> n # "/cgi-bin",
     mode |-> CASE n = "/secret" -> {} [] n = "/cgi-bin/adder" -> {"r", "x"} [] OTHER -> {"r"},
     size |-> IF n = "/empty" THEN 0 ELSE 1]]

Uri(name, cgi, slash, query) == [name |-> name, cgi |-> cgi, slash |-> slash, query |-> query]

MCUris == {
    Uri("/", FALSE, TRUE, FALSE),               \* the home page
    Uri("/a.html", FALSE, FALSE, FALSE),
    Uri("/a.html", FALSE, FALSE, TRUE),         \* /a.html?x: no such file
    Uri("/a.html", TRUE, FALSE, TRUE),          \* /a.html?cgi-bin: taken for a program
    Uri("/empty", FALSE, FALSE, FALSE),
    Uri("/secret", FALSE, FALSE, FALSE),
    Uri("/cgi-bin/adder", TRUE, FALSE, TRUE),
    Uri("/cgi-bin", TRUE, FALSE, FALSE)}        \* a directory

MCRequests ==
    [line : {"GET"}, uri : MCUris, hdrs : 0 .. 1, ends : {"blank line", "end of stream", "silent"}]
        \cup [line : {"POST", "short", "end of stream", "silent"}, uri : {<<>>}, hdrs : {1},
              ends : {"blank line"}]

MCBasicList == <<"home.html", "tiny">>
MCCacheList == <<"tiny.c", "home.html">>
=============================================================================
