---------------------------- MODULE EventFormat ----------------------------
(***************************************************************************)
(* Server-sent events on the wire: the lines EventWriter::send writes for  *)
(* an event, and the EventBuilder in which SseParser collects them.        *)
(*                                                                         *)
(* A line is known by its field; what it says is which event it is of.     *)
(* The event field, which no property tells apart, is left out.            *)
(***************************************************************************)
EXTENDS Naturals, Sequences

(* SseEvent: whether it has an id and a retry, and how many lines of data.  An
   event made by SseEvent::retry has none. *)
SseEvent == [id : BOOLEAN, retry : BOOLEAN, parts : Nat]

(* send: the id, the retry, the data, and the empty line that ends the event. *)
Lines(e) == (IF e.id THEN <<"id">> ELSE <<>>)
              \o (IF e.retry THEN <<"retry">> ELSE <<>>)
              \o [i \in 1..e.parts |-> "data"]
              \o <<"blank">>

(* EventBuilder: the events that its id, its retry and its lines of data are
   of (0 where it has none), and whether the last of them is cut short. *)
Empty == [id |-> 0, retry |-> 0, data |-> <<>>, cut |-> FALSE]

(* process_field, for a line of event n. *)
Processed(builder, field, n) ==
  CASE field = "id"    -> [builder EXCEPT !.id = n]
    [] field = "retry" -> [builder EXCEPT !.retry = n]
    [] field = "data"  -> [builder EXCEPT !.data = Append(@, n)]

(* build answers None without data. *)
Builds(builder) == builder.data # <<>>
=============================================================================
