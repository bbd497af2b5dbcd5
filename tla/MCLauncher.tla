----------------------------- MODULE MCLauncher -----------------------------
(* The launcher for TLC: one cartridge game and one disc game.              *)
EXTENDS Launcher

CONSTANTS c1, d1

\* Every folder is there, the catalog knows the Optimized build only, and the
\* disc game is the older one; or both builds are recorded, the Compatibility
\* one is gone, the disc was never built, and the cartridge game is the older one.
EarlierSessions ==
    {[builds |-> [g \in Carts |-> {"optimized"}], current |-> [g \in Carts |-> "optimized"],
      disk |-> Keys, recent |-> c1 :> 1 @@ d1 :> 2],
     [builds |-> [g \in Carts |-> Modes], current |-> [g \in Carts |-> "compatibility"],
      disk |-> Carts \X {"optimized"}, recent |-> d1 :> 1 @@ c1 :> 2]}
=============================================================================
