------------------------------ MODULE MCServer ------------------------------
(* A small instance of Server: two HTTP/1 clients and one that speaks HTTP/2. *)
EXTENDS Server

CONSTANTS c1, c2, h
=============================================================================
