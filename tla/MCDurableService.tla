--------------------------- MODULE MCDurableService ---------------------------
(* Small instances of DurableService. *)
EXTENDS DurableService

CONSTANTS r1, r2

Cmd(r, action, target, ver, shape, ttl) ==
    [req |-> r, action |-> action, target |-> target, ver |-> ver, shape |-> shape, ttl |-> ttl]

Place     == Cmd(r1, "Place", None, 1, "ok", TRUE)
Changed   == Cmd(r1, "Place", None, 2, "ok", FALSE)
Foreign   == Cmd(r1, "Place", None, 3, "foreign", FALSE)
Stop      == Cmd(r1, "Place", None, 4, "unsupported", FALSE)
BadClient == Cmd(r1, "Place", None, 5, "invalid", FALSE)
Other     == Cmd(r2, "Place", None, 1, "ok", FALSE)
Cancel    == Cmd(r2, "Cancel", r1, 1, "ok", FALSE)

MCCommands == {Place, Changed, Foreign, Stop, BadClient, Other, Cancel}

Rec(c, kind, seq) ==
    [req |-> c.req, kind |-> kind, cmd |-> c, order |-> c.req, ordinal |-> 1, seq |-> seq]

\* A root as first boot leaves it, one whose Stage 5G package has an accepted
\* place in flight, and one with a finished place and an accepted cancel.
EmptyRoot == [slots |-> {}, journal |-> EmptyJournal, effects |-> [r \in {r1, r2} |-> 0]]

PlaceRoot ==
    [slots |-> {r1}, effects |-> [r \in {r1, r2} |-> 0],
     journal |-> Extend(EmptyJournal, Rec(Place, "RequestAccepted", 1))]

CancelRoot ==
    [slots |-> {r2}, effects |-> [r \in {r1, r2} |-> IF r = r1 THEN 1 ELSE 0],
     journal |-> LET j1 == Extend(EmptyJournal, Rec(Place, "RequestAccepted", 1))
                     j2 == Extend(j1, Rec(Place, "DispatchAttemptRecorded", 2))
                     j3 == Extend(j2, Rec(Place, "BrokerOrderObserved", 3))
                     j4 == Extend(j3, Rec(Place, "RequestFinalized", 4))
                 IN  Extend(j4, Rec(Cancel, "RequestAccepted", 1))]

MCStarts == {EmptyRoot, PlaceRoot, CancelRoot}

MCStreams ==
    {<<Place, x>> : x \in {Place, Changed, Other, Cancel, Poison}}
    \cup {<<x, Place>> : x \in {Foreign, Stop, Cancel, BadClient, Poison}}
    \cup {<<Place, Cancel, Place>>}

\* A command whose TTL may pass before it is answered, and an owed answer behind
\* a poison entry or behind a conflicting payload of a finished request.
OwedStreams == {<<Place>>, <<Poison, Cancel>>, <<Changed, Cancel>>}

OwedStarts == {PlaceRoot, CancelRoot}
==============================================================================
