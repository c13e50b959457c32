------------------------------ MODULE MCServers ------------------------------
(* A new revision of the weights' repository replaces the file.             *)
EXTENDS Servers

MCEtag == [c \in 1..Revisions |-> c]
==============================================================================
