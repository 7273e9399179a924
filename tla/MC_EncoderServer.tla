--------------------------- MODULE MC_EncoderServer ---------------------------
(* Instantiates EncoderServer for TLC: Requests are model values given in  *)
(* the cfg; the two capacities are set in the cfg as well.                *)
EXTENDS EncoderServer, TLC

================================================================================
