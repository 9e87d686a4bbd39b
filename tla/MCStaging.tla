----------------------------- MODULE MCStaging -----------------------------
(***************************************************************************)
(* Instances of Staging: every assignment of small times and activation    *)
(* sizes to the layers, on clusters of 1 x 3, 1 x 4, 2 x 2 and more        *)
(* devices, with memories in which all, some or no stages fit.             *)
(***************************************************************************)
EXTENDS Staging

CONSTANTS Layers, MaxTime, MaxAct, Comms, Batches, Clusters, Mems

MCInputs ==
    UNION {[time : [1 .. L -> 1 .. MaxTime], param : {[l \in 1 .. L |-> 1]},
            act : [1 .. L -> 1 .. MaxAct], comm : Comms, batch : Batches,
            nodes : {c[1] : c \in Clusters}, perNode : {c[2] : c \in Clusters}, mem : Mems,
            searchAll : BOOLEAN] :
           L \in Layers}

MCClusters == {<<1, 3>>, <<1, 4>>, <<2, 2>>}
=============================================================================
