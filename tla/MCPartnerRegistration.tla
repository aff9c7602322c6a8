----------------------- MODULE MCPartnerRegistration -----------------------
(* Addresses as model values, for TLC. *)
EXTENDS PartnerRegistration

CONSTANTS A, B, X
=============================================================================
