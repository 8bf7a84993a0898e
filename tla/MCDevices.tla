----------------------------- MODULE MCDevices -----------------------------
(* Ne2000, Netboot, Disk, Network and Boot for TLC, one of them at a time:    *)
(* they do not meet in the models.                                            *)
EXTENDS Ne2000, Netboot, Disk, Network, Boot

VARIABLE part

devicesVars == <<ne2000Vars, netbootVars, diskVars, networkVars, bootVars, part>>

\* A small disk: one partition with one slice, on it a file system of 15 blocks.  File
\* 3 goes on in the indirect block and ends in a block that only a doubly indirect one
\* would have; no file's blocks are in order; the root has an entry that was made free.
MCParts == <<[name |-> "0", start |-> 2, slices |-> <<[name |-> "0a", start |-> 4]>>]>>
MCRawNames == {"raw", "0", "9"}
MCPaths == {<<"f">>, <<"g">>, <<"d">>, <<"d", "g">>, <<"x">>, <<"none">>, <<"d", "none">>, <<"none", "g">>}
MCReadAt == {0, 1, 3, 5}
MCReadLen == {1, 3, 4, 6}

MCBytes(ino, from) == <<<<"byte", ino, from>>, <<"byte", ino, from + 1>>>>
MCInode(ino) ==
    CASE ino = 2 -> <<"dir", 4, <<6, 5>>, 0>>
      [] ino = 3 -> <<"file", 9, <<9, 8>>, 10>>
      [] ino = 4 -> <<"dir", 2, <<0, 7>>, 0>>
      [] ino = 5 -> <<"file", 3, <<14, 13>>, 0>>
      [] OTHER -> <<"free", 0, <<0, 0>>, 0>>
MCBlock(b) ==
    CASE b \in 2..4 -> <<MCInode(2 * (b - 2)), MCInode(2 * (b - 2) + 1)>>
      [] b = 6  -> <<<<"entry", "f", 3>>, <<"entry", "d", 4>>>>
      [] b = 5  -> <<<<"entry", "x", 0>>, <<"entry", "g", 5>>>>
      [] b = 7  -> <<<<"entry", "g", 5>>, <<"entry", "h", 3>>>>
      [] b = 9  -> MCBytes(3, 0)
      [] b = 8  -> MCBytes(3, 2)
      [] b = 10 -> <<<<"ptr", 12>>, <<"ptr", 11>>>>
      [] b = 12 -> MCBytes(3, 4)
      [] b = 11 -> MCBytes(3, 6)
      [] b = 14 -> MCBytes(5, 0)
      [] b = 13 -> MCBytes(5, 2)
      [] OTHER  -> <<<<"super", b>>, <<"super", b, 1>>>>
MCImage == [s \in 0..33 |-> IF s < 4 THEN <<"label", s>> ELSE MCBlock((s - 4) \div 2)[(s % 2) + 1]]

\* Boot files of the usual sections, with notes and lines that say nothing, in two
\* files, without an entry for rc's file, with one program twice, with a name without
\* its bracket, with a last line that was cut, with nothing at all; and files that end
\* in a page, at its end, and after it.
MCInis ==
    LET H(name) == [kind |-> "header", name |-> name]
        P(l, r) == [kind |-> "pair", lhs |-> l, rhs |-> r]
        K(k) == [kind |-> k]
        Sec(name, type, file) == <<H(name), P("type", type), P("file", file)>>
        F(lines) == [lines |-> lines, cut |-> FALSE]
        start == Sec("boot", "boot", "b") \o Sec("kernel", "code", "k")
        base  == start \o Sec("init", "code", "i") \o Sec("rc.boot", "data", "rcb") \o Sec("vfs", "data", "v")
        usual == base \o Sec("rc", "data", "rc")
    IN  { <<F(usual)>>,
          <<F(base), F(<<K("note"), H("rc"), P("file", "v"), K("word"), P("type", "data"), P("file", "rc")>>)>>,
          <<F(usual \o Sec("namer", "code", "v")), F(Sec("vfs", "data", "k"))>>,
          <<F(start)>>,
          <<F(usual \o Sec("one", "code", "e") \o Sec("two", "data", "e"))>>,
          <<F(base \o Sec("rc", "data", "gone"))>>,
          <<F(base \o <<H("rc"), P("type", "text"), P("file", "rc")>>)>>,
          <<F(base \o <<H("rc"), P("type", "data"), P("file", "rc"), K("open"), P("file", "v")>>)>>,
          <<[lines |-> usual, cut |-> TRUE]>>, <<F(<<>>)>> }
MCBytesOf ==
    [f \in {"b", "k", "i", "rcb", "rc", "v", "e"} |->
       CASE f = "b" -> 3 [] f = "k" -> 8 [] f = "i" -> 5 [] f = "v" -> 7 [] f = "rcb" -> 2
         [] f = "e" -> 4 [] OTHER -> 1]
MCScriptOf ==
    [f \in {"rc.boot", "rc"} |-> IF f = "rc.boot" THEN <<"", "vfs", "init">>
                                 ELSE <<"", "two", "rc", "init", "gone">>]

Loads(names) == [i \in DOMAIN names |-> [cmd |-> "load", arg |-> names[i]]]
MCScripts ==
    {Rc, Loads(<<"eth", "ipv4", "arp", "ipv4", "ne">>) \o <<Rc[5], Rc[6]>>,
     Loads(<<"ne", "arp", "eth">>) \o <<[Rc[5] EXCEPT !.arg = "eth"]>>,
     Loads(<<"eth", "ne">>) \o <<Rc[6]>>, Loads(<<"eth", "ne">>) \o <<[Rc[6] EXCEPT !.digits = 2]>>,
     Loads(<<"eth", "ne", "ipv4">>) \o <<Rc[5]>>}

DevicesInit ==
    /\ part \in {"ne2000", "netboot", "disk", "network", "boot"}
    /\ Ne2000Init /\ NetbootInit /\ DiskInit /\ NetworkInit /\ BootInit
    /\ part = "network" \/ (tell.all = Rc /\ mb.free = NMb)
    /\ part = "boot" \/ ini = CHOOSE files \in InisOf : Len(files) = 1 /\ files[1].lines = <<>>

Others(p, vars) == part = p /\ UNCHANGED <<vars, part>>

DevicesNext ==
    \/ Others("ne2000", <<netbootVars, diskVars, networkVars, bootVars>>) /\ Ne2000Next
    \/ Others("netboot", <<ne2000Vars, diskVars, networkVars, bootVars>>) /\ NetbootNext
    \/ Others("disk", <<ne2000Vars, netbootVars, networkVars, bootVars>>) /\ DiskNext
    \/ Others("network", <<ne2000Vars, netbootVars, diskVars, bootVars>>) /\ NetworkNext
    \/ Others("boot", <<ne2000Vars, netbootVars, diskVars, networkVars>>) /\ BootNext

DevicesSpec == DevicesInit /\ [][DevicesNext]_devicesVars
=============================================================================
