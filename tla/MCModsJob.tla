------------------------------ MODULE MCModsJob ------------------------------
(* Two jobs with two workers over two mods, one of which is an update.     *)
EXTENDS ModsJob

CONSTANTS flib, quality

MCItems == {flib, quality}
MCHeld == {flib}
MCPlans == {<<>>, <<quality, flib>>}
=============================================================================
