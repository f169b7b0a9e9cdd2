------------------------------- MODULE MCSources -------------------------------
(***************************************************************************)
(* The parts of the two device sources, side by side: a behaviour runs one *)
(* of them, which is chosen at the start, while the others stand still.    *)
(***************************************************************************)
EXTENDS ZigbeeRadio, ZigbeeAvailability, ZigbeeConfigure, ZigbeeDelivery, MatterLink, TLC

CONSTANTS n1, n2

MCOrder == <<n1, n2>>
MCClusters == <<"onoff", "level">>
Interchangeable == Permutations(Tasks)

VARIABLE part

sourceVars == <<part, radioVars, availVars, cfgVars, deliveryVars, linkVars>>

Parts == {"radio", "availability", "configure", "delivery", "link"}

\* A part that stands still has one state to do so in.
SourcesInit ==
  /\ part \in Parts
  /\ RadioInit /\ AvailInit /\ ConfigureInit /\ DeliveryInit /\ LinkInit
  /\ part # "radio" => setting = NoStick
  /\ part # "availability" => heard = Nodes
  /\ part # "link" => registered = {}

Resting(p) ==
  /\ p # "radio" => UNCHANGED radioVars
  /\ p # "availability" => UNCHANGED availVars
  /\ p # "configure" => UNCHANGED cfgVars
  /\ p # "delivery" => UNCHANGED deliveryVars
  /\ p # "link" => UNCHANGED linkVars
  /\ UNCHANGED part

RadioRuns        == part = "radio" /\ RadioNext /\ Resting("radio")
AvailabilityRuns == part = "availability" /\ AvailNext /\ Resting("availability")
ConfigureRuns    == part = "configure" /\ ConfigureNext /\ Resting("configure")
DeliveryRuns     == part = "delivery" /\ DeliveryNext /\ Resting("delivery")
LinkRuns         == part = "link" /\ LinkNext /\ Resting("link")

SourcesNext == RadioRuns \/ AvailabilityRuns \/ ConfigureRuns \/ DeliveryRuns \/ LinkRuns

SourcesSpec == SourcesInit /\ [][SourcesNext]_sourceVars
=============================================================================
