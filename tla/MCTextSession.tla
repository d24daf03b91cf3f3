---- MODULE MCTextSession ----
(* Responses of one to three pieces, of which a read returns two. *)
EXTENDS TextSession
====
