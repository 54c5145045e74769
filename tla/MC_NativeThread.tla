-------------------------- MODULE MC_NativeThread --------------------------
(* Two ids: a child, and a descendant or one that a destructor starts.      *)
EXTENDS NativeThread
=============================================================================
