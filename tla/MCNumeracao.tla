----------------------------- MODULE MCNumeracao -----------------------------
(* Instances of Numeracao for TLC: "lu" and "LU" are the same unit once    *)
(* upper-cased, "PIQUETE" is too long for the format.                      *)
EXTENDS Numeracao, TLC

MCMaiuscula == ("lu" :> "LU") @@ ("LU" :> "LU") @@ ("PIQUETE" :> "PIQUETE")
MCUnidades == {"lu", "LU", "PIQUETE"}
MCValidas == {"LU"}
=============================================================================
