------------------------------- MODULE MCAnswered -------------------------------
(***************************************************************************)
(* What must happen in the end in four parts of the two device sources: a  *)
(* behaviour runs one of them, which is chosen at the start.               *)
(***************************************************************************)
EXTENDS ZigbeeRadio, ZigbeeAvailability, ZigbeeConfigure, MatterLink

CONSTANTS n1, n2

MCOrder == <<n1, n2>>
MCClusters == <<"onoff", "level">>

VARIABLE part

answeredVars == <<part, radioVars, availVars, cfgVars, linkVars>>

AnsweredInit ==
  /\ part \in {"radio", "availability", "configure", "link"}
  /\ RadioInit /\ AvailInit /\ ConfigureInit /\ LinkInit
  /\ part # "radio" => setting = NoStick
  /\ part # "availability" => heard = Nodes
  /\ part # "link" => registered = {}

Resting(p) ==
  /\ p # "radio" => UNCHANGED radioVars
  /\ p # "availability" => UNCHANGED availVars
  /\ p # "configure" => UNCHANGED cfgVars
  /\ p # "link" => UNCHANGED linkVars
  /\ UNCHANGED part

AnsweredNext ==
  \/ part = "radio" /\ RadioNext /\ Resting("radio")
  \/ part = "availability" /\ AvailNext /\ Resting("availability")
  \/ part = "configure" /\ ConfigureNext /\ Resting("configure")
  \/ part = "link" /\ LinkNext /\ Resting("link")

\* The fairness of each part, as its module states it.
RadioFair ==
  WF_radioVars(part = "radio" /\ SwapStep) /\ WF_radioVars(part = "radio" /\ KeeperStep)

AvailabilityFair ==
  /\ WF_availVars(part = "availability" /\ SweepStep)
  /\ WF_availVars(part = "availability" /\ MarkStep)
  /\ WF_availVars(part = "availability" /\ BindStep)

ConfigurationFair ==
  /\ \A t \in Tasks : /\ WF_cfgVars(part = "configure" /\ (WorkStep(t) \/ Succeeds(t)))
                      /\ SF_cfgVars(part = "configure" /\ Succeeds(t))
  /\ WF_cfgVars(part = "configure" /\ Heard) /\ WF_cfgVars(part = "configure" /\ RadioBack)
  /\ WF_cfgVars(part = "configure" /\ PollStep) /\ WF_cfgVars(part = "configure" /\ Removed)

LinkFair == WF_linkVars(part = "link" /\ Supervise)

AnsweredSpec ==
  /\ AnsweredInit /\ [][AnsweredNext]_answeredVars
  /\ RadioFair /\ AvailabilityFair /\ ConfigurationFair /\ LinkFair

\* Whatever is lost, fails or is changed: the chosen stick and matter-server
\* are connected in the end (sources/supervisor.py).
LinksComeBack == StickIsConnected /\ Reconnects

=============================================================================
