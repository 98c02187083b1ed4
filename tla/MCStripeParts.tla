---------------------------- MODULE MCStripeParts ----------------------------
(***************************************************************************)
(* The two parts that a stripe is built of and that stand on their own,    *)
(* for TLC: its lists, which share the links of the slab's nodes, and its  *)
(* sketch.  They have no state in common, so a behaviour moves one of them *)
(* and leaves the other as it was constructed.                             *)
(*                                                                         *)
(* Three keys in two rows of two columns: k1 and k2 collide in row 0, k2   *)
(* and k3 in row 1, so k1 is alone in row 1 and k2 is alone nowhere.       *)
(***************************************************************************)
EXTENDS LruList, CountMinSketch

CONSTANTS k1, k2, k3

MCHash ==
    [k \in Keys |->
        CASE k = k1 -> [r \in Rows |-> 0]
          [] k = k2 -> [r \in Rows |-> r]
          [] k = k3 -> [r \in Rows |-> 1]]

VARIABLE part

PartsInit == part \in {"lists", "sketch"} /\ Init /\ CmsInit

PartsNext ==
    \/ part = "lists" /\ Next /\ UNCHANGED <<part, cmsVars>>
    \/ part = "sketch" /\ CmsNext /\ UNCHANGED <<part, vars>>

PartsSpec == PartsInit /\ [][PartsNext]_<<part, vars, cmsVars>>
=============================================================================
