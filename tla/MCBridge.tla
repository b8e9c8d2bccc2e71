------------------------------ MODULE MCBridge ------------------------------
(***************************************************************************)
(* Bridge on a small block tree: G - O - R - Q, with P beside R.  R has no *)
(* activity of the lane.  Q follows R closely, but its gap to O, the last  *)
(* block with activity, is longer than the finality depth; the gap between *)
(* O and P is exactly the finality depth.                                  *)
(***************************************************************************)
EXTENDS Bridge

CONSTANTS G, O, P, Q, R

MCBlocks == {G, O, P, Q, R}
MCParent == [blk \in MCBlocks \ {G} |-> CASE blk = O -> G [] blk = Q -> R [] OTHER -> O]
MCScore == [blk \in MCBlocks |->
                CASE blk = G -> 1 [] blk = O -> 2 [] blk \in {P, R} -> 3 [] blk = Q -> 4]
MCLaneBlocks == {O, P, Q}
MCSettlingBlocks == {O, R}
MCConfigs == {[start_from |-> None, seed_depth |-> None],
              [start_from |-> None, seed_depth |-> 1],
              [start_from |-> O, seed_depth |-> None]}
=============================================================================
