---------------------------- MODULE MCAppPlatform ----------------------------
(* An instance of AppPlatform for TLC: two handlers and the health loop,    *)
(* apps of one name registered at two or three times                        *)
EXTENDS AppPlatform

CONSTANTS h1, h2, n

MCNames == {n}
MCHandlers == {h1, h2}
MCCallers == {h1, h2, Loop}
MCApps == MCNames \X (0..MaxTime)
=============================================================================
