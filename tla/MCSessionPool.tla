--------------------------- MODULE MCSessionPool ---------------------------
(***************************************************************************)
(* Instances of the messenger session pool for TLC.                        *)
(***************************************************************************)
EXTENDS SessionPool, TLC

CONSTANTS t1, t2, t3, k1, k2, k3, p1, p2

\* Two turns of one conversation, and one of another.
TwoAndOne == (t1 :> k1) @@ (t2 :> k1) @@ (t3 :> k2)
\* The second turn of the first conversation asks for another policy.
SecondDiffers == (t1 :> p1) @@ (t2 :> p2) @@ (t3 :> p1)
OnePolicy == (t1 :> p1) @@ (t2 :> p1) @@ (t3 :> p1)
\* A conversation of its own for every turn.
OneEach == (t1 :> k1) @@ (t2 :> k2) @@ (t3 :> k3)
\* Three turns of one conversation.
AllOne == (t1 :> k1) @@ (t2 :> k1) @@ (t3 :> k1)
=============================================================================
