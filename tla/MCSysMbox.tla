----------------------------- MODULE MCSysMbox -----------------------------
(* An instance of SysMbox for TLC. *)
EXTENDS SysMbox, TLC

\* Two fetchers of different priority, the poster between them.
MCPrio == ("f1" :> 1) @@ ("p1" :> 2) @@ ("f2" :> 3)

\* f1 waits one tick, f2 for ever; the poster does both of what posters do.
MCWaits == ("f1" :> {0, 1}) @@ ("p1" :> {0, Forever}) @@ ("f2" :> {Forever})
=============================================================================
