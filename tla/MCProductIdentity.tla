-------------------------- MODULE MCProductIdentity --------------------------
(* An instance of ProductIdentity for TLC: three listings, of which the first
   and the third match by barcode and are of two models, and the first and the
   second are of one model and conflict in their SKU. *)
EXTENDS ProductIdentity, TLC

CONSTANTS b1, k1, k2, m1, m2

Listing(barcode, sku, model, variant, brand) ==
    [f \in Fields |->
        CASE f = "barcode" -> barcode
          [] f = "sku" -> sku
          [] f = "model" -> model
          [] f = "variant" -> variant
          [] f = "brand" -> brand]

MCListings == {
    Listing(b1, k1, m1, None, None),
    Listing(None, k2, m1, None, None),
    Listing(b1, None, m2, None, None) }

PageSymmetry == Permutations(Pages)
=============================================================================
