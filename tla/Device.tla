-------------------------------- MODULE Device --------------------------------
(***************************************************************************)
(* What the image worker promises of the device, whatever the registries   *)
(* do: only images that the configuration lists are fetched, only while a  *)
(* registry holds them, none is ever taken away; and the device is settled *)
(* -- it waits for nobody but the user -- only when every target is        *)
(* satisfied.                                                              *)
(***************************************************************************)
EXTENDS Naturals, Sequences

CONSTANTS
    Configs   \* what the user may ask for: a record whose field targets gives,
              \* for some targets, the versions wanted, best first, and
              \* whether any other will do

VARIABLES
    images,   \* the tags the device has of each target
    coming,   \* images that are there under another name than the target's
    held,     \* the tags each registry has of each target
    config,
    settled

vars == <<images, coming, held, config, settled>>

Listed(t, tag) ==
    /\ t \in DOMAIN config.targets
    /\ \E i \in DOMAIN config.targets[t].versions : tag = config.targets[t].versions[i]

Offered(t, tag) == \E host \in DOMAIN held : tag \in held[host][t]

\* The first of its versions, or any image where none is named and any will do.
Has(t) ==
    LET target == config.targets[t]
    IN  IF target.versions # <<>> THEN target.versions[1] \in images[t]
        ELSE target.useAny => images[t] # {}

Satisfied == \A t \in DOMAIN config.targets : Has(t)

Init ==
    /\ config \in Configs
    /\ coming = {}
    /\ settled = FALSE

\* An image arrives under its name, ...
Fetch(t, tag) ==
    /\ Listed(t, tag) /\ Offered(t, tag)
    /\ images' = [images EXCEPT ![t] = @ \cup {tag}]
    /\ UNCHANGED <<coming, held, config, settled>>

\* ... or under another one, and may later be given it.
Download(t, tag) ==
    /\ Listed(t, tag) /\ Offered(t, tag)
    /\ coming' = coming \cup {<<t, tag>>}
    /\ UNCHANGED <<images, held, config, settled>>

Deliver(t, tag) ==
    /\ <<t, tag>> \in coming
    /\ images' = [images EXCEPT ![t] = @ \cup {tag}]
    /\ UNCHANGED <<coming, held, config, settled>>

Settle ==
    /\ Satisfied
    /\ settled' = TRUE
    /\ UNCHANGED <<images, coming, held, config>>

\* The device looks whether it has something to do.
Stir ==
    /\ settled' = FALSE
    /\ UNCHANGED <<images, coming, held, config>>

Edit ==
    /\ config' \in Configs
    /\ settled' = FALSE
    /\ UNCHANGED <<images, coming, held>>

\* The registries change as they like.
Registries == UNCHANGED <<images, coming, config, settled>>

Next ==
    \/ \E t \in DOMAIN config.targets : \E i \in DOMAIN config.targets[t].versions :
          LET tag == config.targets[t].versions[i]
          IN  Fetch(t, tag) \/ Download(t, tag) \/ Deliver(t, tag)
    \/ Settle \/ Stir \/ Edit \/ Registries

Spec == Init /\ [][Next]_vars

=============================================================================
