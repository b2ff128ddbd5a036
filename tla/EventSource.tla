---------------------------- MODULE EventSource ----------------------------
(***************************************************************************)
(* The reconnecting client of wire::event_source: a                        *)
(* ReconnectingEventSourceTask, the EventSourceTask and the SseParser      *)
(* inside it, and the server it reads from, which sends the events of Log  *)
(* with an EventWriter and resumes after the Last-Event-ID of the request. *)
(*                                                                         *)
(* The client is told how a connection ends by the line it reads next, so  *)
(* a line is written when it is read.  An event is known by its number,    *)
(* which is also its id.  Comments are no part of Log: a server writes     *)
(* them when it likes, after any line.  (One that sends with EventWriter   *)
(* writes an event in one call, and comments between events only.)         *)
(***************************************************************************)
EXTENDS EventFormat

CONSTANTS
    Log,         \* the events of the server
    MaxRetries,  \* ReconnectingConfig.max_retries
    Deadline,    \* TRUE if max_reconnect_duration is set
    MaxBreaks,   \* bound: connections refused or broken
    MaxComments  \* bound: comments within events

ASSUME EventSourceAssumption ==
    /\ Log \in Seq(SseEvent)
    /\ MaxRetries \in Nat /\ MaxBreaks \in Nat /\ MaxComments \in Nat
    /\ Deadline \in BOOLEAN

VARIABLES
    state,       \* ReconnectingEventSourceTask.state
    lastId,      \* its last_event_id, or 0
    attempt,     \* its retry_state.attempt
    serverRetry, \* the event that set config.server_retry, or 0
    wait,        \* what the client waits for: the retry of that event, or 0, its own backoff
    late,        \* start_time.elapsed() > max_reconnect_duration
    inner,       \* EventSourceTask.state, or "none"
    parserId,    \* SseParser.last_event_id, or 0
    builder,     \* the EventBuilder of parse_next
    link,        \* the connection: "open", or how it ended
    resumed,     \* the Last-Event-ID with which it was opened, or 0
    sending,     \* the event the server is sending
    read,        \* how many lines of it have been read
    delivered,   \* the messages given to the consumer, each as the builder had it
    interrupted, \* the events within which a comment has been read
    comments,    \* how many such comments
    waited,      \* how many messages had been delivered when the client last waited
    failed,      \* connections lost since the client last received anything
    breaks       \* connections lost so far

taskVars   == <<state, attempt, wait, inner>>
serverVars == <<link, resumed, sending, read>>
seenVars   == <<lastId, serverRetry, parserId, delivered>>
pastVars   == <<interrupted, comments, waited>>
vars == <<taskVars, serverVars, seenVars, pastVars, late, builder, failed, breaks>>

Init == /\ state = "Init" /\ inner = "none"
        /\ lastId = 0 /\ parserId = 0
        /\ attempt = 0 /\ failed = 0 /\ breaks = 0
        /\ serverRetry = 0 /\ wait = 0
        /\ late = FALSE
        /\ builder = Empty
        /\ link = "none" /\ resumed = 0 /\ sending = 1 /\ read = 0
        /\ delivered = <<>>
        /\ interrupted = {} /\ comments = 0 /\ waited = 0

-----------------------------------------------------------------------------
(* ReconnectingEventSourceTask::next_status, outside a connection. *)

(* create_inner_task: the URL has been parsed before, so it succeeds. *)
Create == /\ state \in {"Init", "Reconnecting"}
          /\ state' = "Connected"
          /\ inner' = "Init"
          /\ UNCHANGED <<attempt, wait, serverVars, seenVars, pastVars, late, builder, failed, breaks>>

(* The executor sleeps for the duration of the Delayed. *)
Sleep == /\ state = "Waiting"
         /\ state' = "Reconnecting"
         /\ waited' = Len(delivered)
         /\ UNCHANGED <<attempt, wait, inner, serverVars, seenVars, interrupted, comments, late, builder, failed, breaks>>

(* The inner task has answered None, and not for the end of the stream. *)
GiveUp == /\ late \/ attempt >= MaxRetries
          /\ state' = "Exhausted"
          /\ UNCHANGED <<attempt, wait>>

(* A mistake: decide allows one attempt more. *)
BackOffOnceMore == /\ ~late
                   /\ attempt <= MaxRetries
                   /\ attempt' = attempt + 1
                   /\ wait' = serverRetry
                   /\ state' = "Waiting"

(* A mistake: the state decide returns is not stored. *)
BackOffForever == /\ ~late
                  /\ attempt < MaxRetries
                  /\ wait' = serverRetry
                  /\ state' = "Waiting"
                  /\ UNCHANGED attempt

BackOff == /\ ~late
           /\ attempt < MaxRetries
           /\ attempt' = attempt + 1
           /\ wait' = serverRetry
           /\ state' = "Waiting"

InnerFails == /\ GiveUp \/ BackOff
              /\ inner' = "none"
              /\ failed' = failed + 1

(* A mistake: retry_state is not renewed by an event. *)
ReceivedButTired == /\ failed' = 0
                    /\ UNCHANGED attempt

(* It has answered Ready: retry_state starts anew. *)
Received == /\ attempt' = 0
            /\ failed' = 0

-----------------------------------------------------------------------------
(* EventSourceTask::next_status. *)

Prepare == /\ inner = "Init"
           /\ inner' = "Connecting"
           /\ UNCHANGED <<state, attempt, wait, serverVars, seenVars, pastVars, late, builder, failed, breaks>>

(* A mistake: create_inner_task forgets with_last_event_id. *)
ConnectFromStart == /\ inner = "Connecting"
                    /\ inner' = "Reading"
                    /\ parserId' = 0
                    /\ builder' = Empty
                    /\ link' = "open"
                    /\ resumed' = 0
                    /\ sending' = 1
                    /\ read' = 0
                    /\ UNCHANGED <<state, attempt, wait, lastId, serverRetry, delivered, pastVars, late, failed, breaks>>

(* Every connection has a parser of its own. *)
Connect == /\ inner = "Connecting"
           /\ inner' = "Reading"
           /\ parserId' = 0
           /\ builder' = Empty
           /\ link' = "open"
           /\ resumed' = lastId
           /\ sending' = lastId + 1
           /\ read' = 0
           /\ UNCHANGED <<state, attempt, wait, lastId, serverRetry, delivered, pastVars, late, failed, breaks>>

Refused == /\ inner = "Connecting"
           /\ breaks < MaxBreaks
           /\ breaks' = breaks + 1
           /\ InnerFails
           /\ UNCHANGED <<serverVars, seenVars, pastVars, late, builder>>

-----------------------------------------------------------------------------
(* SseParser::parse_next, a line at a time.  It goes on until it has an event,
   a comment, an error or the end of the stream, and EventSourceTask hands
   that on in the same call. *)

Reading == inner = "Reading"

Arriving == link \in {"open", "cut"} /\ sending \in DOMAIN Log

Line == Lines(Log[sending])[read + 1]

ReadField == /\ Reading /\ link = "open" /\ Arriving
             /\ Line # "blank"
             /\ builder' = Processed(builder, Line, sending)
             /\ read' = read + 1
             /\ UNCHANGED <<taskVars, seenVars, pastVars, link, resumed, sending, late, failed, breaks>>

Known(id, before) == IF id = 0 THEN before ELSE id

(* build_parse_result, track_event_id. *)
Dispatch == /\ delivered' = Append(delivered, builder)
            /\ parserId' = Known(builder.id, parserId)
            /\ lastId' = Known(parserId', lastId)
            /\ serverRetry' = Known(builder.retry, serverRetry)
            /\ builder' = Empty
            /\ Received

ReadBlank == /\ Reading /\ link = "open" /\ Arriving
             /\ Line = "blank"
             /\ \/ Builds(builder) /\ Dispatch
                \/ /\ ~Builds(builder)
                   /\ builder' = Empty
                   /\ UNCHANGED <<attempt, failed, seenVars>>
             /\ sending' = sending + 1
             /\ read' = 0
             /\ UNCHANGED <<state, wait, inner, link, resumed, pastVars, late, breaks>>

(* parse_next returns with a comment wherever it stands, and what it has collected
   of an event is lost with its builder: the next call goes on with the lines that
   are left.  A comment cut short by the end of the stream is one all the same. *)
ReadComment == /\ Reading /\ link = "open"
               /\ builder' = Empty
               /\ \/ read = 0 /\ UNCHANGED <<interrupted, comments>>
                  \/ /\ read > 0 /\ comments < MaxComments
                     /\ interrupted' = interrupted \union {sending}
                     /\ comments' = comments + 1
               /\ lastId' = Known(parserId, lastId)
               /\ Received
               /\ UNCHANGED <<state, wait, inner, serverVars, serverRetry, parserId, delivered, waited, late, breaks>>

(* A line cut short by the end of the stream: what is left of a line of data is
   data, unless its colon is missing; what is left of another one comes before
   any data, so no event is built from it. *)
ReadCut == /\ Reading /\ link = "cut"
           /\ \/ UNCHANGED builder
              \/ /\ Line = "data"
                 /\ builder' = [Processed(builder, Line, sending) EXCEPT !.cut = TRUE]
           /\ link' = "eof"
           /\ UNCHANGED <<taskVars, seenVars, pastVars, resumed, sending, read, late, failed, breaks>>

(* At the end of the stream what has been collected is dispatched; without any
   the stream is over, and the client does not come back. *)
ReadEnd == /\ Reading /\ link = "eof"
           /\ \/ /\ Builds(builder) /\ Dispatch
                 /\ UNCHANGED <<state, inner>>
              \/ /\ ~Builds(builder)
                 /\ state' = "Exhausted"
                 /\ inner' = "none"
                 /\ UNCHANGED <<attempt, failed, builder, seenVars>>
           /\ UNCHANGED <<wait, serverVars, pastVars, late, breaks>>

ReadFails == /\ Reading /\ link = "broken"
             /\ InnerFails
             /\ UNCHANGED <<serverVars, seenVars, pastVars, late, builder, breaks>>

-----------------------------------------------------------------------------
(* The server, the network and the clock. *)

(* The server ends the stream, between two lines or within one. *)
Ends == /\ Reading /\ link = "open"
        /\ \/ link' = "eof"
           \/ Arriving /\ Line # "blank" /\ link' = "cut"
        /\ UNCHANGED <<taskVars, seenVars, pastVars, resumed, sending, read, late, builder, failed, breaks>>

(* The connection is lost, or a read times out. *)
Breaks == /\ Reading /\ link = "open"
          /\ breaks < MaxBreaks
          /\ breaks' = breaks + 1
          /\ link' = "broken"
          /\ UNCHANGED <<taskVars, seenVars, pastVars, resumed, sending, read, late, builder, failed>>

Elapses == /\ Deadline /\ ~late
           /\ late' = TRUE
           /\ UNCHANGED <<taskVars, seenVars, pastVars, serverVars, builder, failed, breaks>>

ClientStep == \/ Create \/ Sleep
              \/ Prepare \/ Connect \/ Refused
              \/ ReadField \/ ReadBlank \/ ReadCut \/ ReadEnd \/ ReadFails

Next == ClientStep \/ ReadComment \/ Ends \/ Breaks \/ Elapses

Spec == Init /\ [][Next]_vars

(* The executor calls the task again and again, and the server, which has
   events to send and an open connection, sends them. *)
FairSpec == Spec /\ WF_vars(ClientStep)

-----------------------------------------------------------------------------
(* Properties. *)

Events == DOMAIN Log

(* A message is of one event: the one its data is of. *)
EventOf(m) == Head(m.data)

(* What the consumer ought to get of event n. *)
Message(n) == [id    |-> IF Log[n].id THEN n ELSE 0,
               retry |-> IF Log[n].retry THEN n ELSE 0,
               data  |-> [k \in 1..Log[n].parts |-> n],
               cut   |-> FALSE]

Whole(m) == m = Message(EventOf(m))

(* A message may lack fields and data of its event, but has nothing of another. *)
Part(m) == /\ {m.id, m.retry} \subseteq {0, EventOf(m)}
           /\ \A k \in DOMAIN m.data : m.data[k] = EventOf(m)
           /\ Len(m.data) <= Log[EventOf(m)].parts

(* The messages are well-formed and the bookkeeping stays in its range: the id
   a request resumes from and the retry in force are of events that have one,
   and the attempts stay within max_retries. *)
SseTypeOK ==
    /\ state \in {"Init", "Connected", "Waiting", "Reconnecting", "Exhausted"}
    /\ inner \in {"none", "Init", "Connecting", "Reading"}
    /\ inner # "none" <=> state = "Connected"
    /\ {lastId, parserId, resumed} \subseteq {0} \union {n \in Events : Log[n].id}
    /\ {serverRetry, wait} \subseteq {0} \union {n \in Events : Log[n].retry}
    /\ attempt \in 0..MaxRetries
    /\ failed \in Nat /\ breaks \in 0..MaxBreaks
    /\ late \in BOOLEAN
    /\ link \in {"none", "open", "eof", "cut", "broken"}
    /\ sending \in 1..(Len(Log) + 1) /\ read \in Nat
    /\ builder \in [id : {0} \union Events, retry : {0} \union Events, data : Seq(Events), cut : BOOLEAN]
    /\ delivered \in Seq([id : {0} \union Events, retry : {0} \union Events,
                          data : Seq(Events) \ {<<>>}, cut : BOOLEAN])
    /\ interrupted \subseteq Events /\ comments \in 0..MaxComments
    /\ waited \in 0..Len(delivered)

(* An event with data that comes before a delivered one was delivered before it,
   whatever connections were lost in between, unless a comment came within it. *)
NothingSkipped ==
    \A i \in DOMAIN delivered : \A n \in 1..(EventOf(delivered[i]) - 1) :
        Log[n].parts > 0 /\ n \notin interrupted => \E j \in 1..(i - 1) : EventOf(delivered[j]) = n

(* After a message with an id only later events come: what has been received is
   not sent again. *)
NothingRepeated ==
    \A i, j \in DOMAIN delivered :
        i < j /\ delivered[i].id # 0 => EventOf(delivered[i]) < EventOf(delivered[j])

(* A message is all of its event, unless a comment came within it or it is the
   last one before the server ended the stream; and also then it has nothing of
   another event. *)
NothingMixed ==
    \A i \in DOMAIN delivered :
        \/ Whole(delivered[i])
        \/ /\ Part(delivered[i])
           /\ EventOf(delivered[i]) \in interrupted \/ (i = Len(delivered) /\ link = "eof")

(* EventSource resumes from the last id it has seen (connect, track_event_id,
   parse_next): over any number of lost connections, and with comments anywhere,
   the consumer gets the events in order, those with an id once, and everything
   of each in which no comment stood.  What a comment destroys is destroyed in its
   own event only. *)
ExactlyOnce == NothingSkipped /\ NothingRepeated /\ NothingMixed

(* Comments are ignored, as the feature description has it: a message is whole
   unless the server ended the stream within its event. *)
CommentsIgnored ==
    \A i \in DOMAIN delivered : Whole(delivered[i]) \/ (i = Len(delivered) /\ link = "eof")

(* The client gives up after max_retries lost connections in a row, and not
   earlier, unless it is told to by its deadline.  Nothing is said here of the
   end of the stream: see ComesBack. *)
GivesUpInTime ==
    /\ failed <= MaxRetries + 1
    /\ state = "Exhausted" => failed > MaxRetries \/ late \/ link = "eof"

(* The client comes back after an end of the stream as after an error, as the
   module documentation of reconnecting_task.rs has it. *)
ComesBack == state = "Exhausted" => failed > MaxRetries \/ late

(* The messages since the last wait. *)
Since == (waited + 1)..Len(delivered)

(* A retry that came since the client last waited is what it waits for next, the
   last one if there were several.  Nothing is said of later waits: see
   RetryForNextOnly. *)
WaitsAsTold ==
    state = "Waiting" =>
        \A i \in Since :
            delivered[i].retry # 0 /\ (\A j \in Since : j > i => delivered[j].retry = 0)
                => wait = delivered[i].retry

(* How often and after what time a client comes back (next_status, decide,
   track_event_id). *)
RetriesKept == GivesUpInTime /\ WaitsAsTold

(* A retry overrides the backoff for the next reconnection only, as the feature
   description has it: when that one has succeeded and brought something, the
   backoff is back. *)
RetryForNextOnly ==
    state = "Waiting" /\ failed = 1 /\ (\A i \in Since : delivered[i].retry = 0) => wait = 0

(* Every event with data arrives in the end, unless a comment came within it, the
   server ends the stream, or the client runs out of retries or of time. *)
EveryEventArrives ==
    <>(\/ \A n \in Events : Log[n].parts > 0 =>
             n \in interrupted \/ \E i \in DOMAIN delivered : EventOf(delivered[i]) = n
       \/ link \in {"eof", "cut"}
       \/ late
       \/ failed > MaxRetries)
=============================================================================
