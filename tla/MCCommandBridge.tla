--------------------------- MODULE MCCommandBridge ---------------------------
(* Small instances of CommandBridge. *)
EXTENDS CommandBridge

CONSTANTS r1, r2

Cmd(r, action, target, ver, shape, ttl) ==
    [req |-> r, action |-> action, target |-> target, ver |-> ver, shape |-> shape, ttl |-> ttl]

Place     == Cmd(r1, "Place", None, 1, "ok", TRUE)
Changed   == Cmd(r1, "Place", None, 2, "ok", FALSE)
Foreign   == Cmd(r1, "Place", None, 3, "foreign", FALSE)
Stop      == Cmd(r1, "Place", None, 4, "unsupported", FALSE)
BadClient == Cmd(r1, "Place", None, 5, "invalid", FALSE)
Other     == Cmd(r2, "Place", None, 1, "ok", FALSE)
Cancel    == Cmd(r2, "Cancel", r1, 1, "ok", FALSE)

\* A place as good as Place, to tell the streams with crashes from those without.
Order     == Cmd(r1, "Place", None, 6, "ok", TRUE)

MCCommands == {Place, Changed, Foreign, Stop, BadClient, Other, Cancel, Order}

\* A command and something else with its id, in both orders, a second request
\* behind it, and one longer stream.
OneProcessStreams ==
    {<<Place, x>> : x \in {Place, Changed, Foreign, Stop, BadClient, Cancel, Other, Poison}}
    \cup {<<x, Place>> : x \in {Changed, Foreign, Stop, Cancel}}
    \cup {<<Place, Poison, Cancel>>}

MortalStreams == {<<Order, Other>>, <<Order, Cancel>>, <<Order, Order>>, <<Cancel, Order>>}

ConsumerStreams == OneProcessStreams \cup MortalStreams

ExpiryStreams == {<<Place>>, <<Place, Cancel>>}

\* A command whose admission may fail on every delivery, then poison entries in
\* its page and in the next.
PageStreams == {<<Other, Poison, Poison>>}
==============================================================================
