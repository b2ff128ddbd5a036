--------------------------- MODULE MCEventSource ---------------------------
(***************************************************************************)
(* What the server sends in the runs of the client.                       *)
(***************************************************************************)
EXTENDS EventSource

Ev(id, retry, parts) == [id |-> id, retry |-> retry, parts |-> parts]

\* An event of two lines with everything, one without an id, what
\* SseEvent::retry makes, one with an id, one without, and one of three lines.
\* A retry together with data comes from servers that do not use SseEvent's
\* builder; the client takes it from any server.
Mixed == <<Ev(TRUE, TRUE, 2), Ev(FALSE, FALSE, 1), Ev(FALSE, TRUE, 0),
           Ev(TRUE, FALSE, 1), Ev(FALSE, TRUE, 1), Ev(TRUE, FALSE, 3)>>
=============================================================================
