---------------------------- MODULE MCProxyCache ----------------------------
(***************************************************************************)
(* ProxyCache for TLC: two servers on one host, and two paths on one.      *)
(***************************************************************************)
EXTENDS ProxyCache

CONSTANTS u1, u2, p1, p2

\* One uri only.
MCRequest == [uri : {u1}, port : {p1}]

MCRequests == [uri : {u1}, port : {p1, p2}] \cup [uri : {u2}, port : {p1}]
=============================================================================
