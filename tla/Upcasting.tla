----------------------------- MODULE Upcasting -----------------------------
(***************************************************************************)
(* Event upcasting (core/src/edd/upcaster.ts). A payload is known by the   *)
(* schema version it has the shape of; step i of a chain understands shape *)
(* i only and returns shape i + 1, anything else comes out Corrupt.        *)
(***************************************************************************)
EXTENDS Naturals, Sequences

Absent  == 0    \* event.metadata.version is missing
Corrupt == 0    \* a payload that no version has

\* One chain is known by its length: the number of its steps.
Step(i, payload) == IF payload = i THEN i + 1 ELSE Corrupt

\* currentEventVersion
currentEventVersion(chain) == chain + 1

\* event.metadata?.version ?? 1
StoredVersion(event) == IF event.version = Absent THEN 1 ELSE event.version

\* upcastEvent: the steps from the stored version on; metadata.version is left as it is.
\* Mutant: every step is applied, whatever the stored version.
upcastEventFromStart(event, chain) ==
    LET payload[i \in 0 .. chain] ==
            IF i = 0 THEN event.payload ELSE Step(i, payload[i - 1])
    IN  [event EXCEPT !.payload = payload[chain]]

upcastEvent(event, chain) ==
    LET stored == StoredVersion(event)
        payload[i \in 0 .. chain] ==
            IF i < stored THEN event.payload ELSE Step(i, payload[i - 1])
    IN  IF chain = 0 \/ stored >= currentEventVersion(chain) THEN event
        ELSE [event EXCEPT !.payload = payload[chain]]

\* upcastEvents
upcastEvents(events, chain) == [i \in DOMAIN events |-> upcastEvent(events[i], chain)]
=============================================================================
