---------------------------- MODULE MCBlockStore ----------------------------
EXTENDS BlockStore, TLC

\* Three plain keys, and one that cascading puts into the file of partition 0.
MCnormal == "k0" :> 0 @@ "k1" :> 1 @@ "k2" :> 1 @@ "path" :> 1
MCalternate == [MCnormal EXCEPT !["path"] = 0]
MChome == MCalternate
MCfileOf == "k0" :> "f0" @@ "path" :> "f0" @@ "k1" :> "f1" @@ "k2" :> "f1"
=============================================================================
