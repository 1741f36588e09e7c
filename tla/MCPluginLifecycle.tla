------------------------- MODULE MCPluginLifecycle -------------------------
(* Small instances of PluginLifecycle for TLC. *)
EXTENDS PluginLifecycle, TLC

CONSTANTS plugin, ping, trace

\* One plugin. The old version is official, the new one comes with or
\* without a signature and lacks the type trace.
MCOld == <<plugin, "v1">>
MCNew == <<plugin, "v2">>
MCKeys == {MCOld, MCNew}
MCModulesOf == (MCOld :> {ping, trace}) @@ (MCNew :> {ping})
MCSignersOf == (MCOld :> {None}) @@ (MCNew :> {None, "signer"})
MCOfficial == {MCOld}
MCSourceTrees == {{MCOld}, {MCNew}}

=============================================================================
