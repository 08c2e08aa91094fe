----------------------------- MODULE MCFirstBoot -----------------------------
(* Small instance of FirstBoot: two source bundles and two attempts, so that *)
(* a quarantined attempt is followed by one that may be quarantined as well. *)
EXTENDS FirstBoot

CONSTANTS b1, b2

MCBundles == {b1, b2}
==============================================================================
