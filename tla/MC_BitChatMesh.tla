---- MODULE MC_BitChatMesh ----
(* Three phones in range of each other.  a and c have both registered b; they
   have not exchanged their ANNOUNCEs yet, and may do so at any time. *)
EXTENDS BitChatMesh

CONSTANTS a, b, c, chat, voice, long

MCLinks == {l \in Nodes \X Nodes : l[1] # l[2]}
MCFirstRoutes == [n \in Nodes |-> IF n = b THEN {a, c} ELSE {b}]
MCSender == [m \in Messages |-> a]
MCDestination == [m \in Messages |-> IF m = chat THEN b ELSE Broadcast]
MCKind == [m \in Messages |-> IF m = chat THEN "chat" ELSE "voice"]
MCFragments == [m \in Messages |-> IF m = voice THEN 1 ELSE 2]
MCDiscovered == [n \in Nodes |-> {}]
====
