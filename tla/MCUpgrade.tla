----------------------------- MODULE MCUpgrade ------------------------------
(* Two layers over one data directory; three releases, of which two speak   *)
(* the same plugin ABI; a second plugin (or none) that has no release for   *)
(* the newer ABI.                                                          *)
EXTENDS Upgrade
CONSTANTS widget, gadget
MCLayers == {1, 2}
MCWidget == {widget}
MCBoth == {widget, gadget}
MCAbis == {1, 2}
MCAbiOf == <<1, 2, 2>>
MCPublished == (Plugins \X MCAbis) \ {<<gadget, 2>>}
=============================================================================
