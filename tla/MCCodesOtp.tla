----------------------------- MODULE MCCodesOtp -----------------------------
(***************************************************************************)
(* Small instances of CodesOtp for TLC.                                    *)
(***************************************************************************)
EXTENDS CodesOtp, TLC

CONSTANTS s1, s2, c1, c2

Symetrie == Permutations(Session) \cup Permutations(Code)
=============================================================================
