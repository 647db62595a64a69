------------------------------ MODULE MCSnapshot ------------------------------
(* Snapshot with a block file of one chunk, or two once it has grown, a       *)
(* LevelDB log of half a chunk or one, a peer on the main chain and one on     *)
(* another.                                                                   *)
EXTENDS Snapshot

MCFiles == <<"blk0001.dat", "txleveldb/000003.log">>
MCIndexFiles == {"txleveldb/000003.log"}
MCSize == [f \in FileSet |-> IF f = "blk0001.dat" THEN 2 ELSE 1]
MCChainAt == [p \in Peers |-> IF p = 1 THEN "main" ELSE "other"]
=============================================================================
