------------------------------ MODULE EventStreams ------------------------------
(***************************************************************************)
(* A run's timeline, streamed.  A connection polls the timeline a page at a   *)
(* time, sends each event under its sequence number, and ends when the run    *)
(* has; the client that loses it connects again and says what it last saw.   *)
(* A workspace may hold CONCURRENT_EVENT_STREAMS connections, and a           *)
(* connection keeps its slot until the server learns that the client left.   *)
(* One more is answered 409, on which an EventSource gives up for good.       *)
(*                                                                          *)
(* A page is two statements with no transaction around them: the run's        *)
(* status, then its events.  The run goes on in between.                      *)
(***************************************************************************)
EXTENDS Integers, Sequences, FiniteSets

CONSTANTS
    Connections,          \* connections the client may have open, or have left behind
    EVENT_PAGE_MAX,
    CONCURRENT_EVENT_STREAMS,
    MAX_IDLE,             \* MAX_IDLE_SECONDS, in polls
    MaxEvents,            \* bound: events of the run
    MaxLosses,            \* bound: connections lost
    nowhere

ASSUME StreamsAssumption ==
    /\ IsFiniteSet(Connections)
    /\ nowhere \notin Connections
    /\ EVENT_PAGE_MAX \in Nat \ {0}
    /\ CONCURRENT_EVENT_STREAMS \in Nat \ {0}
    /\ MAX_IDLE \in Nat
    /\ MaxEvents \in Nat
    /\ MaxLosses \in Nat

VARIABLES
    log,        \* events on the timeline, numbered 1..log
    over,       \* the run's status is terminal
    atEnd,      \* history: the events there were when it became so
    slots,      \* EventStreamSlots._open of the workspace
    stream,     \* the generator of each connection
    wire,       \* frames of the client's connection on their way to it
    client,     \* the connection the client listens on, or none
    seen,       \* the sequence numbers it has been given, in order
    closed,     \* it was told that the run ended, and has closed
    refused,    \* it was told that the workspace holds its streams, and has given up
    losses

streamVars ==
    <<log, over, atEnd, slots, stream, wire, client, seen, closed, refused, losses>>

run == <<log, over, atEnd>>

told == <<closed, refused>>

\* A frame is an event's number, or an end frame: with the run's terminal status, or
\* with a status that is not, after too long without an event
END == 0

IDLE == -1

Numbers == 1..MaxEvents

Stream ==
    [at : {"closed", "status", "events", "sending"},
     cursor : 0..MaxEvents,     \* after_sequence of the next page
     terminal : BOOLEAN,        \* page.run_status, as it was read
     upto : 0..MaxEvents,       \* the last event of the page
     more : BOOLEAN,            \* page.has_more
     idle : 0..MAX_IDLE]

Closed ==
    [at |-> "closed", cursor |-> 0, terminal |-> FALSE, upto |-> 0, more |-> FALSE, idle |-> 0]

StreamTypeOK ==
    /\ log \in 0..MaxEvents
    /\ over \in BOOLEAN
    /\ atEnd \in 0..MaxEvents
    /\ slots \in 0..CONCURRENT_EVENT_STREAMS
    /\ stream \in [Connections -> Stream]
    /\ wire \in Seq(Numbers \cup {END, IDLE})
    /\ client \in Connections \cup {nowhere}
    /\ seen \in Seq(Numbers)
    /\ closed \in BOOLEAN
    /\ refused \in BOOLEAN
    /\ losses \in 0..MaxLosses

StreamInit ==
    /\ log = 0
    /\ over = FALSE
    /\ atEnd = 0
    /\ slots = 0
    /\ stream = [c \in Connections |-> Closed]
    /\ wire = << >>
    /\ client = nowhere
    /\ seen = << >>
    /\ closed = FALSE
    /\ refused = FALSE
    /\ losses = 0

----------------------------------------------------------------------------
\* The run, whose transactions append events whatever its status; a late answer of a
\* tool is recorded after the run has ended
Append_event ==
    /\ log < MaxEvents
    /\ log' = log + 1
    /\ UNCHANGED <<over, atEnd, slots, stream, wire, client, seen, told, losses>>

\* the verdict's events and its status are one transaction
End_run ==
    /\ ~ over
    /\ log < MaxEvents
    /\ log' = log + 1
    /\ over' = TRUE
    /\ atEnd' = log + 1
    /\ UNCHANGED <<slots, stream, wire, client, seen, told, losses>>

----------------------------------------------------------------------------
\* resume_cursor: Last-Event-ID, or after_sequence, which this client leaves at 0
resume_cursor(last) == IF last = << >> THEN 0 ELSE last[Len(last)]

\* slip: off by one at the ceiling
one_too_many == slots <= CONCURRENT_EVENT_STREAMS

\* EventStreamSlots.reserve
may_reserve == slots < CONCURRENT_EVENT_STREAMS

\* EventSource, between connections
connecting == client = nowhere /\ ~ closed /\ ~ refused

\* read_events with Accept: text/event-stream, up to the generator's first step, which
\* holds the slot
open_event_stream(c) ==
    /\ connecting
    /\ stream[c].at = "closed"
    /\ may_reserve
    /\ slots' = slots + 1
    /\ stream' = [stream EXCEPT ![c] =
                     [Closed EXCEPT !.at = "status", !.cursor = resume_cursor(seen)]]
    /\ client' = c
    /\ wire' = << >>
    /\ UNCHANGED <<run, seen, told, losses>>

\* WORKSPACE_LIMIT_EXCEEDED, a 409 before the response starts; it is not retryable, and
\* an EventSource takes any answer but 200 for the last
refuse_event_stream ==
    /\ connecting
    /\ ~ may_reserve
    /\ refused' = TRUE
    /\ UNCHANGED <<run, slots, stream, wire, client, seen, closed, losses>>

----------------------------------------------------------------------------
\* stream_events

\* _page, the run's row
read_status(c) ==
    /\ stream[c].at = "status"
    /\ stream' = [stream EXCEPT ![c].at = "events", ![c].terminal = over]
    /\ UNCHANGED <<run, slots, wire, client, seen, told, losses>>

least(a, b) == IF a <= b THEN a ELSE b

\* _page, the events: one more than the page is asked for, and is has_more
list_after(cursor) ==
    [upto |-> IF log > cursor THEN least(log, cursor + EVENT_PAGE_MAX) ELSE cursor,
     more |-> log > cursor + EVENT_PAGE_MAX]

read_events(c) ==
    /\ stream[c].at = "events"
    /\ stream' = [stream EXCEPT
                     ![c].at = "sending",
                     ![c].upto = list_after(stream[c].cursor).upto,
                     ![c].more = list_after(stream[c].cursor).more,
                     ![c].idle = IF list_after(stream[c].cursor).upto > stream[c].cursor
                                   THEN 0 ELSE @]
    /\ UNCHANGED <<run, slots, wire, client, seen, told, losses>>

\* a frame is written to the connection; nobody reads those of one left behind
push(c, frame) == wire' = IF c = client THEN Append(wire, frame) ELSE wire

send_event(c) ==
    /\ stream[c].at = "sending"
    /\ stream[c].cursor < stream[c].upto
    /\ push(c, stream[c].cursor + 1)
    /\ stream' = [stream EXCEPT ![c].cursor = @ + 1]
    /\ UNCHANGED <<run, slots, client, seen, told, losses>>

page_sent(c) == stream[c].at = "sending" /\ stream[c].cursor = stream[c].upto

\* slip: the first page after the run's end is taken for the last
ends_early(c) == stream[c].terminal

ends(c) == stream[c].terminal /\ ~ stream[c].more

\* slip: the connection goes and its slot stays counted
leak(c) ==
    /\ stream' = [stream EXCEPT ![c] = Closed]
    /\ UNCHANGED slots

\* the generator's own finally: EventStreamSlots._release
release(c) ==
    /\ stream' = [stream EXCEPT ![c] = Closed]
    /\ slots' = slots - 1

end_stream(c) ==
    /\ page_sent(c)
    /\ ends(c)
    /\ push(c, END)
    /\ release(c)
    /\ UNCHANGED <<run, client, seen, told, losses>>

next_page(c) ==
    /\ page_sent(c)
    /\ ~ ends(c)
    /\ stream[c].more
    /\ stream' = [stream EXCEPT ![c].at = "status"]
    /\ UNCHANGED <<run, slots, wire, client, seen, told, losses>>

\* the idle ending, on which the client connects again
end_idle(c) ==
    /\ page_sent(c)
    /\ ~ ends(c)
    /\ ~ stream[c].more
    /\ stream[c].idle >= MAX_IDLE
    /\ push(c, IDLE)
    /\ release(c)
    /\ UNCHANGED <<run, client, seen, told, losses>>

keepalive(c) ==
    /\ page_sent(c)
    /\ ~ ends(c)
    /\ ~ stream[c].more
    /\ stream[c].idle < MAX_IDLE
    /\ stream' = [stream EXCEPT ![c].at = "status", ![c].idle = @ + 1]
    /\ UNCHANGED <<run, slots, wire, client, seen, told, losses>>

\* The server learns that nobody listens on the connection: a write fails, or the
\* response is cancelled; aclosing ends the generator, wherever it is
disconnected(c) ==
    /\ stream[c].at # "closed"
    /\ c # client
    /\ release(c)
    /\ UNCHANGED <<run, wire, client, seen, told, losses>>

----------------------------------------------------------------------------
\* The browser's EventSource (external)

receive_event ==
    /\ wire # << >>
    /\ Head(wire) \in Numbers
    /\ seen' = Append(seen, Head(wire))
    /\ wire' = Tail(wire)
    /\ UNCHANGED <<run, slots, stream, client, told, losses>>

receive_end ==
    /\ wire # << >>
    /\ Head(wire) \in {END, IDLE}
    /\ closed' = (Head(wire) = END)
    /\ client' = nowhere
    /\ wire' = << >>
    /\ UNCHANGED <<run, slots, stream, seen, refused, losses>>

\* the connection is lost with what was on its way; the server does not know yet
lose ==
    /\ client # nowhere
    /\ losses < MaxLosses
    /\ losses' = losses + 1
    /\ client' = nowhere
    /\ wire' = << >>
    /\ UNCHANGED <<run, slots, stream, seen, told>>

----------------------------------------------------------------------------
Serve(c) ==
    \/ read_status(c) \/ read_events(c) \/ send_event(c)
    \/ end_stream(c) \/ next_page(c) \/ end_idle(c) \/ keepalive(c)
    \/ disconnected(c)

Connect == refuse_event_stream \/ \E c \in Connections : open_event_stream(c)

StreamNext ==
    \/ Append_event \/ End_run
    \/ Connect
    \/ \E c \in Connections : Serve(c)
    \/ receive_event \/ receive_end \/ lose

\* The event loop runs every generator, one left behind until its write fails or it
\* ends of itself, and an EventSource that lost its connection asks once for another and
\* is answered; nothing obliges the run to end.
Fairness ==
    /\ WF_streamVars(Connect)
    /\ \A c \in Connections : WF_streamVars(Serve(c))
    /\ WF_streamVars(receive_event \/ receive_end)

StreamSpec == StreamInit /\ [][StreamNext]_streamVars /\ Fairness

----------------------------------------------------------------------------
\* Properties

\* The client is given the timeline from its first event, in order, none twice and
\* none left out, over however many connections; and when it is told that the run
\* has ended it has every event there was at the end, however many pages that took.
EndIsComplete ==
    /\ \A n \in 1..Len(seen) : seen[n] = n
    /\ closed => Len(seen) >= atEnd

\* A run that ends is seen to end, though connections are lost, slots are held by
\* connections left behind, and idle streams are closed; or the client was turned away,
\* and that only after it had lost as many connections as the workspace has slots: what
\* ended of itself, the run's end or the idle limit, holds none.
StreamFinishes == over ~> closed \/ (refused /\ losses >= CONCURRENT_EVENT_STREAMS)
=================================================================================
