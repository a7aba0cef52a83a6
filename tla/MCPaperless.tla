---------------------------- MODULE MCPaperless ----------------------------
(* What passes between the program and paperless-ngx: the documents of one  *)
(* run (Delivery), the lists the web page keeps (MetadataCache), and the    *)
(* floor under the requests that ask for more (MinimumInterval).  They      *)
(* share no state here, so a behaviour is one of the three.                 *)
EXTENDS Delivery, MetadataCache, MinimumInterval

VARIABLE part

AllNames == {"document", "fronts", "backs"}
AllKinds == {"simplex", "duplex", "multi"}
TwoSheets == [k \in AllKinds |-> IF k = "multi" THEN 1 ELSE 2]

\* Threads that render a list are alike.
Symmetry == Permutations(Requests)

paperlessVars == <<vars, metadataVars, floorVars, part>>

PaperlessInit ==
    /\ part \in {"run", "lists", "floor"}
    /\ Init /\ MetadataInit /\ FloorInit
    /\ part # "run" => kind = "simplex"
    /\ part # "lists" => exists

PaperlessNext ==
    /\ UNCHANGED part
    /\ \/ part = "run" /\ Next /\ UNCHANGED <<metadataVars, floorVars>>
       \/ part = "lists" /\ MetadataNext /\ UNCHANGED <<vars, floorVars>>
       \/ part = "floor" /\ FloorNext /\ UNCHANGED <<vars, metadataVars>>

PaperlessSpec == PaperlessInit /\ [][PaperlessNext]_paperlessVars
=============================================================================
