-------------------------------- MODULE MCWeb --------------------------------
(* Two chats, an ingestion and up to two files in a process with two        *)
(* threads.                                                                 *)
EXTENDS Web, TLC

CONSTANTS c1, c2, ingest, f1, f2, none

(* Bound: a process in which the audit table refuses a row has no uploads,  *)
(* which no trail mentions.                                                 *)
LossesOrFiles == lost = {} \/ known = {}

=============================================================================
