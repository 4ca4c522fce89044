-------------------------- MODULE MCPluginUpgrade --------------------------
(* PluginUpgrade with two versions, one with a health route, and one session. *)
EXTENDS PluginUpgrade

CONSTANTS r1, r2, r3, u1, u2, web

MCRequests == {r1, r2, r3}
MCUpgrades == {u1, u2}
MCSessions == {web}
MCVersions == 1 .. 2
MCProbed == {2}
MCCapabilities == {"db", "media"}
(* The second version declares less. *)
MCDeclared == [v \in MCVersions |-> IF v = 1 THEN MCCapabilities ELSE {"db"}]
=============================================================================
