----------------------------- MODULE MCServices -----------------------------
(* Hash, Fdl, Namer, Vfs, Console, Vt and the applications for TLC, one of    *)
(* them at a time: they do not meet in the models.                            *)
EXTENDS Hash, Fdl, Namer, Vfs, Console, Vt, ZMachine, ZObjects, ZText, ZFront, Hipfloat

VARIABLE part

hiptopVars == <<zmachineVars, zobjectsVars, ztextVars, zfrontVars, hipfloatVars>>
servicesVars == <<hashVars, fdlVars, namerVars, vfsVars, consoleVars, vtVars, hiptopVars, part>>

MCTableSize == <<7, 19, 43>>
MCFileSize == [f \in File |-> 7]
MCLocalsOf == <<1>>
MCDefaultOf == <<1>>
MCOperand == {[kind |-> "const", v |-> 1], [kind |-> "var", v |-> 0]}
MCPropsOf ==
    << <<[id |-> 4, size |-> 2], [id |-> 3, size |-> 4], [id |-> 1, size |-> 1]>>,
       <<[id |-> 5, size |-> 1], [id |-> 2, size |-> 3]>>, <<>> >>
MCDictWords == {<<6>>, <<6, 6>>, <<83>>, <<7, 72>>, <<72>>, <<7, 7, 6>>}
MCAbbrevs == [i \in 0..40 |-> CASE i = 0 -> <<6, 5, 5>> [] i = 33 -> <<4, 6, 7>> [] OTHER -> <<4, 7, 5>>]
MCTexts == UNION {[1..n -> {0, 1, 4, 5, 6}] : n \in 3..5} \cup {<<2, 1, 6>>, <<2, 1, 4, 6, 7>>}
MCSpecials == <<83>>
MCPrintTexts == {<<"x", "x">>, <<"x", " ", "x", "x">>, <<"nl", "nl", "nl">>}
MCRhs == ({-63, -48, -21, -17, -2} \cup 0..2 \cup {5, 10, 15, 16, 17, 18, 21, 30, 31, 32, 42, 47, 48, 61, 62, 63})
            \X (-4..0)

HiptopInit ==
    /\ ZMachineInit /\ ZObjectsInit /\ ZTextInit /\ ZFrontInit
    /\ part = "zmachine" \/ zver = 3
    /\ part = "zobjects" \/ wide
    /\ IF part = "hipfloat" THEN HipfloatInit ELSE hip = [op |-> "none", x |-> OVF, y |-> OVF, r |-> OVF]

HiptopNext ==
    \/ part = "zmachine" /\ UNCHANGED <<zobjectsVars, ztextVars, zfrontVars, hipfloatVars>> /\ ZMachineNext
    \/ part = "zobjects" /\ UNCHANGED <<zmachineVars, ztextVars, zfrontVars, hipfloatVars>> /\ ZObjectsNext
    \/ part = "ztext" /\ UNCHANGED <<zmachineVars, zobjectsVars, zfrontVars, hipfloatVars>> /\ ZTextNext
    \/ part = "zfront" /\ UNCHANGED <<zmachineVars, zobjectsVars, ztextVars, hipfloatVars>> /\ ZFrontNext
    \/ part = "hipfloat" /\ UNCHANGED <<zmachineVars, zobjectsVars, ztextVars, zfrontVars>> /\ HipfloatNext

ServicesInit ==
    /\ part \in {"hash", "fdl", "namer", "vfs", "console", "vt", "zmachine", "zobjects", "ztext", "zfront",
               "hipfloat"}
    /\ HashInit /\ FdlInit /\ NamerInit /\ VfsInit /\ ConsoleInit /\ VtInit /\ HiptopInit
    /\ part = "fdl" \/ build = "I386"

Others(p, vars) == part = p /\ UNCHANGED <<vars, part>>

ServicesNext ==
    \/ Others("hash", <<fdlVars, namerVars, vfsVars, consoleVars, vtVars, hiptopVars>>) /\ HashNext
    \/ Others("fdl", <<hashVars, namerVars, vfsVars, consoleVars, vtVars, hiptopVars>>) /\ FdlNext
    \/ Others("namer", <<hashVars, fdlVars, vfsVars, consoleVars, vtVars, hiptopVars>>) /\ NamerNext
    \/ Others("vfs", <<hashVars, fdlVars, namerVars, consoleVars, vtVars, hiptopVars>>) /\ VfsNext
    \/ Others("console", <<hashVars, fdlVars, namerVars, vfsVars, vtVars, hiptopVars>>) /\ ConsoleNext
    \/ Others("vt", <<hashVars, fdlVars, namerVars, vfsVars, consoleVars, hiptopVars>>) /\ VtNext
    \/ UNCHANGED <<hashVars, fdlVars, namerVars, vfsVars, consoleVars, vtVars, part>> /\ HiptopNext

ServicesSpec == ServicesInit /\ [][ServicesNext]_servicesVars

\* The state of a story: the frames of its routines, what save keeps of them, and its
\* objects with their properties.
StoryKept == FramesKept /\ ObjectsKept
=============================================================================
