----------------------------- MODULE DarkPoolMC -----------------------------
(***************************************************************************)
(* Two buys and two sells of different sizes and limits; at a midpoint of  *)
(* 1 every order can trade, at 2 one buy and both sells can.               *)
(***************************************************************************)
EXTENDS DarkPool, TLC

CONSTANTS b1, b2, s1, s2

MCSide  == b1 :> "BUY" @@ b2 :> "BUY" @@ s1 :> "SELL" @@ s2 :> "SELL"
MCQty   == b1 :> 2 @@ b2 :> 1 @@ s1 :> 1 @@ s2 :> 2
MCLimit == b1 :> 2 @@ b2 :> 1 @@ s1 :> 1 @@ s2 :> 1
=============================================================================
