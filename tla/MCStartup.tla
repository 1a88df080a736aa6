----------------------------- MODULE MCStartup ------------------------------
(* Startup with four of the roles and eleven configuration files.            *)
EXTENDS Startup

MCRoles == <<"OFF", "REQ_OFF_B", "CS_B", "D2_B">>
MCWiring == [OFF |-> 12, REQ_OFF_B |-> 5, CS_B |-> 6, D2_B |-> 26]
MCExportable == {5, 6, 12, 26, 40}
MCLegalPin == {5, 6, 12, 19, 26}
MCMemory == {0, 12, 40}

Section == [key |-> "other", sequence |-> TRUE, directory |-> TRUE, port |-> 80,
            entries |-> <<>>, delays |-> <<10, 10, 500>>, log |-> TRUE, map |-> <<>>]

Entry(role, pin) == [pin |-> pin, role |-> role, fields |-> TRUE]

Gpios(entries) == [Section EXCEPT !.key = "GPIOS", !.entries = entries]
Map(percents) == [Section EXCEPT !.key = "powermap", !.map = percents]
Reader == [Section EXCEPT !.key = "battery-level-reader"]
Web(port) == [Section EXCEPT !.key = "websocket", !.port = port]

Wired == <<Entry("OFF", 12), Entry("REQ_OFF_B", 5), Entry("CS_B", 6), Entry("D2_B", 26)>>
Crossed == <<Entry("OFF", 5), Entry("REQ_OFF_B", 12), Entry("CS_B", 26), Entry("D2_B", 6)>>
Shared == <<Entry("OFF", 12), Entry("REQ_OFF_B", 12), Entry("CS_B", 6), Entry("D2_B", 6)>>
Lacking == <<Entry("OFF", 12), Entry("CS_B", 6), Entry("D2_B", 26)>>
Absent == <<Entry("OFF", 12), Entry("REQ_OFF_B", 5), Entry("CS_B", 19), Entry("D2_B", 26)>>
Illegal == <<Entry("REQ_OFF_B", 5), Entry("REQ_OFF_B", 40)>>

MCContents ==
  {<<Gpios(Wired), Reader, Web(80), Map(<<50>>)>>,
   <<Map(<<50>>), Gpios(<<Entry("OFF", 12)>> \o Crossed), Section, Map(<<0, 0>>)>>,
   <<Gpios(Crossed), Gpios(Wired), Map(<<0, 50>>)>>,
   <<Gpios(Shared), Map(<<0, 50>>)>>,
   <<Gpios(Lacking), Map(<<50>>)>>,
   <<Gpios(Absent), Map(<<50, 50>>)>>,
   <<Gpios(Lacking), Gpios(Illegal)>>,
   <<Gpios(Wired), Web(70000)>>,
   <<[Reader EXCEPT !.delays = <<10, 10>>], Gpios(Wired)>>,
   <<Gpios(Lacking), [Reader EXCEPT !.log = FALSE]>>,
   <<Map(<<50, 0, 100>>), Gpios(Wired \o Crossed \o Lacking)>>}

MCOptions == {{}, {"l"}, {"p", "r"}, {"h", "p"}, {"p", "?"}}
MCVendor == <<"Red Oak Canyon LLC">>
MCProductId == <<"0x0001">>
MCIdents == {None, MCVendor, MCProductId \o <<"0">>}
=============================================================================
