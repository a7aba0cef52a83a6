------------------------------ MODULE MCPasses ------------------------------
(* The passes of a document: what the operator is asked between them        *)
(* (MultiPage), and how the device is set up for each (DeviceSetup).  They  *)
(* share no state here, so a behaviour is one of the two.                   *)
EXTENDS MultiPage, DeviceSetup, TLC

VARIABLE part

MCShapes == {<<FALSE>>, <<FALSE, TRUE>>, <<TRUE>>}
MCOffers == {{"FLATBED", "FEEDER", "FEEDER_DUPLEX"}, {"AUTO"}}
MCResolutions == {"300", "600"}
MCProfiles ==
    {s \in Settings :
        /\ s.resolution = "300"
        /\ s.auto => s.source \in {"AUTO", "FLATBED"}
        /\ ~s.spelt => s.source \in {"FLATBED", "FEEDER"}}
Symmetry == Permutations(Clicks)

passesVars == <<vars, setupVars, part>>

PassesInit ==
    /\ part \in {"answers", "device"}
    /\ Init /\ SetupInit
    /\ part = "answers" => model = CHOOSE m \in Models : TRUE
    /\ part = "answers" => dev.adf = "simplex"
    /\ part = "device" => front = "web"

PassesNext ==
    /\ UNCHANGED part
    /\ \/ part = "answers" /\ Next /\ UNCHANGED setupVars
       \/ part = "device" /\ SetupNext /\ UNCHANGED vars

PassesSpec == PassesInit /\ [][PassesNext]_passesVars
=============================================================================
