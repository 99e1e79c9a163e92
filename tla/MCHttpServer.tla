---------------------------- MODULE MCHttpServer ----------------------------
(* Bodies that a read can end inside, requests without, no HTTP last.      *)
EXTENDS HttpServer

Get == [head |-> 2, body |-> 0, wellFormed |-> TRUE]
Post == [head |-> 2, body |-> 3, wellFormed |-> TRUE]
Put == [head |-> 3, body |-> 4, wellFormed |-> TRUE]
Junk == [head |-> 2, body |-> 1, wellFormed |-> FALSE]

MCSent == <<Post, Get, Put, Get, Post, Junk>>
=============================================================================
