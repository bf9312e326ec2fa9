------------------------ MODULE MC_AnnounceHandshake -------------------------
(* Two phones that are interchangeable.                                    *)
EXTENDS AnnounceHandshake, TLC

CONSTANTS A, B

PhoneSymmetry == Permutations({A, B})
=============================================================================
