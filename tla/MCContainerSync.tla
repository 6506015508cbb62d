--------------------------- MODULE MCContainerSync ---------------------------
(* The instances of ContainerSync that TLC checks. *)
EXTENDS ContainerSync

Target(versions, any, restart) ==
    [versions |-> versions, useAny |-> any, restartExited |-> restart]

Priority == Target(<<"v1", "v2">>, FALSE, FALSE)
Reversed == Target(<<"v2", "v1">>, FALSE, FALSE)
Anything == Target(<<"v1">>, TRUE, FALSE)
Restarts == Target(<<"v1", "v2", "latest">>, FALSE, TRUE)

Only(t) == [app |-> t]

\* The application is wanted in different ways, or not at all.
AppConfigs == {Only(Priority), Only(Reversed), Only(Anything), Only(Restarts),
               [t \in {} |-> Priority]}
PlainConfigs == {Only(Priority)}

Container(tag, state) == [target |-> "app", tag |-> tag, state |-> state]

\* None, one of the second version, and two of one target.
SomeCtrs ==
    LET none == [id \in Ids |-> Absent]
    IN  {none, [none EXCEPT ![1] = Container("v2", "running")]}
          \cup {[none EXCEPT ![1] = Container("v2", "running"), ![2] = Container(tag, state)] :
                   tag \in {"v1", "latest"}, state \in {"running", "exited"}}

SomeImages == {[app |-> {}], [app |-> {"v2", "latest"}], [app |-> {"v1", "v2"}]}
BothImages == {[app |-> {"v1", "v2"}]}

\* deviced in a container of the second version, which it is to replace.
SelfCtrs == {[[id \in Ids |-> Absent] EXCEPT ![1] = Container("v2", "running")]}

\* Either the application is managed, or deviced itself ("dev").
DevCtrs   == [[id \in Ids |-> Absent] EXCEPT
                 ![1] = [target |-> "dev", tag |-> "v2", state |-> "running"]]
DevConfig == [dev |-> Priority]
PassConfigs == AppConfigs \cup {DevConfig}
PassCtrs    == SomeCtrs \cup {DevCtrs}
PassImages  == {[app |-> has.app, dev |-> {}] : has \in SomeImages}
                  \cup {[app |-> {}, dev |-> {"v1", "v2"}]}

PassInit ==
    /\ Init
    /\ (config = DevConfig) = (ctrs = DevCtrs)
    /\ (config = DevConfig) = (images.dev # {})

PassSpec == PassInit /\ [][Next]_vars

NoFaults == {}

\* Every call of the daemon outside of a container may fail.  Those in one may
\* fail to stop and to create a container.
PassFaults == ({0} \X FaultKinds) \cup (Ids \X {"stop", "create"})

=============================================================================
