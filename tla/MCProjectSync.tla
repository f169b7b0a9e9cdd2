---------------------------- MODULE MCProjectSync ----------------------------
(* Instances of ProjectSync for TLC: project files and what is exported. *)
EXTENDS ProjectSync

\* A project with both captions, and one of two Miniservers of which the
\* first has no inputs and a room exists twice and none can be created.
MCDevices == <<"d1", "d2">>
MCGroups == <<"g1">>
MCRoomNames == {<<"j", "J">>, <<"k", "k">>}
Empties == <<[open |-> TRUE, boxes |-> <<>>]>>
Live(ip, ins, outs) ==
    [ip |-> ip, open |-> TRUE, caps |-> [k \in CmdKinds |-> IF k = "in" THEN ins ELSE outs]]
Project(ls, places, create) ==
    [lives |-> ls, places |-> places, placesOpen |-> create, rights |-> create, next |-> 0]
MCFiles == {Project(<<Live("a", Empties, Empties)>>, <<>>, TRUE),
            Project(<<Live("a", <<>>, Empties), Live("b", Empties, Empties)>>,
                    <<<<"k", "K">>, <<"k", "K">>>>, FALSE)}
Exported(there, room) ==
    [there |-> there, signals |-> {"press"}, commands |-> {"on", "off"}, room |-> room, rev |-> 0]
MCHouses == {[o \in ToSet(Owners) |->
                Exported(o # "d2", CASE o = "d1" -> Nowhere [] o = "d2" -> <<"k", "K">>
                                     [] OTHER -> <<"k", "k">>)]}

\* A Miniserver without captions, and two devices that need one.
BareFiles == {Project(<<Live("a", <<>>, <<>>)>>, <<>>, TRUE)}
TwoDevices == {[o \in ToSet(Owners) |-> Exported(o # "g1", Nowhere)]}
=============================================================================
