---------------------------- MODULE MCAlertInbox ----------------------------
(***************************************************************************)
(* Small instances of AlertInbox.  Three intake threads or worker          *)
(* processes are enough for a race with a third party between two steps of *)
(* one of them; two alerts give a queue with a head and a message behind.  *)
(***************************************************************************)
EXTENDS AlertInbox, TLC

CONSTANTS h1, h2, h3, w1, w2, a1, a2, b1, b2, n1, n2, n3, north, south, none

\* Timestamps from one end of the clock to the other; a nonce used twice
\* (the request itself, repeated, and another request under its nonce), and
\* one alert id under two bodies.
MCIntakeRequests ==
    {[nonce |-> n1, ts |-> 1, alert |-> a1, body |-> b1],
     [nonce |-> n1, ts |-> 2, alert |-> a2, body |-> b1],
     [nonce |-> n2, ts |-> 1, alert |-> a1, body |-> b2],
     [nonce |-> n3, ts |-> 3, alert |-> a1, body |-> b1]}

\* Two alerts, each once: the subject is what the workers do with them.
MCWorkRequests ==
    {[nonce |-> n1, ts |-> 0, alert |-> a1, body |-> b1],
     [nonce |-> n2, ts |-> 0, alert |-> a2, body |-> b1]}

\* The process with the last name was given another customer's configuration.
MCConfigOf ==
    [p \in Handlers \cup Workers |-> IF p = h3 THEN south ELSE north]

IntakeSymmetry == Permutations({h1, h2})
=============================================================================
