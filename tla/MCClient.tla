------------------------------- MODULE MCClient -------------------------------
(* The registry client and the streams under it, for TLC: one task at a time,  *)
(* each with the state of its own module, while the others rest.               *)
EXTENDS Service, Session, Pull, BytesPipe

VARIABLE task

Own == "own:5000"
Lan == "10.0.0.0/8"
SomeHosts == HubHosts \cup {Own, "near", "mirror"}
SomeNets  == {Loopback, Lan}
SomeNetsOf == [h \in SomeHosts |-> IF h = "near" THEN {Lan} ELSE {}]
SomeCerts ==
    [h \in SomeHosts |-> CASE h = "mirror" -> {"ca.crt", "client.cert", "client.key"}
                           [] h = "near" -> {"client.cert"}
                           [] OTHER -> {}]

Options(insecure, mirrors, v2only) ==
    [insecure |-> insecure, mirrors |-> mirrors, v2only |-> v2only]

SomeMirrors == <<[scheme |-> "http", host |-> "mirror"], [scheme |-> "https", host |-> Own]>>

SomeOptions ==
    {Options({}, <<>>, FALSE), Options({Own, IndexName}, SomeMirrors, FALSE),
     Options({Lan}, SomeMirrors, TRUE), Options({Lan, "mirror"}, <<>>, FALSE)}

\* The second caller is there to come in between.
TwoAndOne == [c \in Callers |-> IF c = "c1" THEN 2 ELSE 1]

SomeCalls == {"GetRemoteTag", "PushImageLayerRegistry", "PushImageJSONIndex"}

-----------------------------------------------------------------------------

clientVars == <<task, serviceVars, sessionVars, pullVars, pipeVars>>

Resting ==
    /\ service = newServiceConfig(Options({}, <<>>, FALSE))
    /\ server = IndexName /\ phase = "ok" /\ endpoints = <<>> /\ foundV2 = FALSE
    /\ scheme = "https" /\ asked = {} /\ confirmedV2 = FALSE

ClientInit ==
    /\ task \in {"service", "session", "pull", "pipe"}
    /\ IF task = "service" THEN ServiceInit ELSE Resting
    /\ SessionInit /\ (task # "session" => ~alwaysSetBasicAuth)
    /\ IF task = "pull" THEN PullInit ELSE PullFrom("closed")
    /\ PipeFrom(task # "pipe")

ClientNext ==
    \/ task = "service" /\ ServiceNext /\ UNCHANGED <<task, sessionVars, pullVars, pipeVars>>
    \/ task = "session" /\ SessionNext /\ UNCHANGED <<task, serviceVars, pullVars, pipeVars>>
    \/ task = "pull" /\ PullNext /\ UNCHANGED <<task, serviceVars, sessionVars, pipeVars>>
    \/ task = "pipe" /\ PipeNext /\ UNCHANGED <<task, serviceVars, sessionVars, pullVars>>

ClientSpec ==
    /\ ClientInit /\ [][ClientNext]_clientVars
    /\ SessionFairness
    /\ WF_pullVars(PullStep)
    /\ PipeFairness

=============================================================================
