----------------------------- MODULE MCRestart -----------------------------
(* What a kill leaves on disk for the next start: the job table of          *)
(* ScanWorker, and the configuration file of ProfileFile.  They share no    *)
(* state; a behaviour is one of them.                                       *)
EXTENDS ScanWorker, ProfileFile, TLC

VARIABLE part

\* Sources of a scanner, by identity, slug and kind.
Source(id, slug, kind) == [id |-> id, slug |-> slug, kind |-> kind]
Glass == Source("glass", <<"a">>, "FLATBED")
Feeder == Source("feeder", <<"b">>, "FEEDER")
BothSides == Source("both", <<"b">>, "FEEDER_DUPLEX")
Numbered == Source("numbered", <<"b", 2>>, "AUTO")
NamedDefault == Source("default", Default, "UNKNOWN")

Capabilities(sources, resolutions, range, modes) ==
    [sources |-> sources, resolutions |-> resolutions, range |-> range,
     modes |-> modes, platen |-> FALSE]
Mute == Capabilities(<<>>, <<>>, <<>>, <<>>)
TwoSided == Capabilities(<<Feeder, Glass>>, <<1, 6, 2>>, <<>>, <<"gray", "colour">>)
GenerationOnly ==
    {Capabilities(<<Numbered, Feeder, BothSides>>, <<>>, <<2, 18, 4>>, <<"gray degraded">>),
     Capabilities(<<NamedDefault, Feeder, BothSides, Numbered>>, <<>>, <<>>, <<>>)}
    \cup {Capabilities(<<Feeder>>, <<>>, range, <<"colour variant", "colour degraded">>) :
            range \in {4, 5, 9} \X {7, 11} \X {0, 3, 6} \ {9} \X {7} \X {0, 3, 6}}
FirstScanners == {Mute, TwoSided} \cup GenerationOnly
LaterScanners == {Capabilities(<<Glass>>, <<8>>, <<>>, <<>>)}

Written(id) ==
    [source |-> id, resolution |-> Target, mode |-> "colour", autoSourceMode |-> "flatbed",
     duplex |-> "none", label |-> <<"none", 0>>]
OwnWriting == Written("own")
BareWriting == Written("bare")
FirstFiles ==
    {{}, {Table(Default, BareWriting, FALSE)}, {Table(Default, OwnWriting, FALSE)},
     {Table(<<"c">>, OwnWriting, TRUE)},
     {Table(<<"b">>, OwnWriting, FALSE), Table(Default, BareWriting, TRUE)}}

\* The part that stands still starts in one state; a scanner of GenerationOnly
\* meets one file.
RestartInit ==
    /\ part \in {"jobs", "profiles"} /\ Init /\ ProfileInit
    /\ part = "jobs" => caps = Mute
    /\ part = "jobs" \/ caps \in GenerationOnly => file = {} /\ mount = "directory"
\* With its bounds spent and nobody writing, the file may stay as it is for ever.
Unwritten == part = "profiles" /\ \A w \in Writers : step[w] = "off"
RestartNext ==
    /\ UNCHANGED part
    /\ \/ part = "jobs" /\ Next /\ UNCHANGED profileVars
       \/ part = "profiles" /\ ProfileNext /\ UNCHANGED vars
       \/ Unwritten /\ UNCHANGED <<vars, profileVars>>
RestartSpec == RestartInit /\ [][RestartNext]_<<part, vars, profileVars>>

\* Job ids are interchangeable.
Symmetry == Permutations(Jobs)
=============================================================================
