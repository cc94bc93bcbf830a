----------------------------- MODULE MCSession -----------------------------
(* Session: a file of a whole piece and a part of one.                     *)
EXTENDS Session

MCFile == <<11, 12, 13>>
=============================================================================
