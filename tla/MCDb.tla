-------------------------------- MODULE MCDb --------------------------------
(***************************************************************************)
(* Small instances of Db.                                                  *)
(***************************************************************************)
EXTENDS DbRefine, TLC

CONSTANTS k1, k2, x1, x2, y1, y2, p1, p2, p3

(* Both keys on one chain, or on two; data of two lengths under each key.  *)
OneChain  == (k1 :> 0) @@ (k2 :> 0)
TwoChains == (k1 :> 0) @@ (k2 :> 1)
KeyLens   == (k1 :> 1) @@ (k2 :> 1)
DatLens   == (x1 :> 2) @@ (x2 :> 3) @@ (y1 :> 2) @@ (y2 :> 3)
DataOf3   == (k1 :> {x1, x2}) @@ (k2 :> {y1})
DataOf4   == (k1 :> {x1, x2}) @@ (k2 :> {y1, y2})
InsRep    == [p \in Procs |-> {{"INSERT"}, {"REPLACE"}}]
InsOnly1  == [InsRep EXCEPT ![p1] = {{"INSERT"}}]

(* One writer, a reader and a process that mixes scans with fetches.       *)
OpsScan    == (p1 :> {"store", "delete"}) @@ (p2 :> {"fetch"})
                @@ (p3 :> {"fetch", "nextrec", "rewind"})
CallsScan  == (p1 :> 3) @@ (p2 :> 1) @@ (p3 :> 3)

(* Two writers on two chains and a reader.                                 *)
OpsWriters   == (p1 :> {"store", "delete"}) @@ (p2 :> {"store", "delete"})
                  @@ (p3 :> {"fetch"})
CallsWriters == (p1 :> 3) @@ (p2 :> 2) @@ (p3 :> 1)

(* The two writers only.                                                   *)
CallsRace == (p1 :> 2) @@ (p2 :> 2) @@ (p3 :> 0)

(* An inserter that may be killed, a writer, and one that scans or fetches.*)
OpsKill   == (p1 :> {"store"}) @@ (p2 :> {"store", "delete"})
               @@ (p3 :> {"fetch", "nextrec"})
CallsKill == (p1 :> 2) @@ (p2 :> 2) @@ (p3 :> 1)
=============================================================================
