----------------------------- MODULE MC_Condvar -----------------------------
(* Two consumers and two producers, each of which advances the sequence     *)
(* once: started at zero the sequence never meets its limit of two, started *)
(* later it does.                                                           *)
EXTENDS Condvar
=============================================================================
