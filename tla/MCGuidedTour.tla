---------------------------- MODULE MCGuidedTour ----------------------------
(* A price edit, and an item marked as sold out.                           *)
EXTENDS GuidedTour

CONSTANTS edit, soldOut

MCWhat == (edit :> {"put", "publish", "consume"}) @@ (soldOut :> {"override"})
=============================================================================
