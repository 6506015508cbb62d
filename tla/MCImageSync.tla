----------------------------- MODULE MCImageSync -----------------------------
(* The instance of ImageSync that TLC checks: Docker Hub, a registry of the   *)
(* user's with a self-signed certificate, and a private one.                  *)
EXTENDS ImageSync

HubRegistry == DefaultV2Registry
SomeHosts == HubHosts \cup {"own:5000", "private"}
SomeNets  == {Loopback}
NoNets    == [h \in SomeHosts |-> {}]
NoCerts   == [h \in SomeHosts |-> {}]

SomeServes ==
    [h \in SomeHosts |-> CASE h = "own:5000" -> {"selfsigned"}
                           [] h \in {DefaultNamespace, DefaultV1Registry} -> {}
                           [] OTHER -> {"https"}]

Repository(host, parses, insecure, prefix, creds) ==
    [host |-> host, parses |-> parses, insecure |-> insecure, prefix |-> prefix, creds |-> creds]

Hub       == Repository(HubRegistry, TRUE, FALSE, NoPrefix, FALSE)
Own       == Repository("own:5000", TRUE, TRUE, "own:5000", FALSE)
OwnSecure == Repository("own:5000", TRUE, FALSE, "own:5000", FALSE)
Members   == Repository("private", TRUE, FALSE, "private", TRUE)
Garbled   == Repository("private", FALSE, FALSE, NoPrefix, FALSE)

Both  == [versions |-> <<"v1", "v2">>, useAny |-> FALSE]
Other == [versions |-> <<"v2">>, useAny |-> FALSE]
AnyOf == [versions |-> <<>>, useAny |-> TRUE]

Config(repos, targets, recheck) == [repos |-> repos, targets |-> targets, recheck |-> recheck]

SomeConfigs ==
    {Config(<<Hub, Own>>, [app |-> Both, db |-> Other], TRUE),
     Config(<<Own, Members>>, [app |-> Both], TRUE),
     Config(<<OwnSecure, Garbled, Hub>>, [app |-> Both], FALSE),
     Config(<<Own>>, [app |-> Both, db |-> AnyOf], TRUE),
     Config(<<Hub>>, [app |-> Both], TRUE),
     Config(<<>>, [app |-> Both], TRUE)}

SomeImages == {[app |-> {}, db |-> {}], [app |-> {"v2"}, db |-> {"v2"}]}

Nothing == [h \in SomeHosts |-> [t \in Targets |-> {}]]

SomeHeld ==
    {Nothing,
     [Nothing EXCEPT !["own:5000"] = [app |-> {"v1"}, db |-> {}],
                     !["private"] = [app |-> {"v1", "v2"}, db |-> {}],
                     !["registry-1.docker.io"] = [app |-> {"v2"}, db |-> {"v2"}]]}

=============================================================================
