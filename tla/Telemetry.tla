------------------------------ MODULE Telemetry ------------------------------
(***************************************************************************)
(* Events: the append-only table, the event bus that listens to its        *)
(* notifications, the event streams of the clients and the dispatcher that *)
(* sends events to the notification channels.                              *)
(*                                                                         *)
(* An event's id is its place in the table and at its created_at, which    *)
(* the publisher reads before it inserts: an event may be older than, or   *)
(* as old as, one inserted before it.  A subscription is a channel with an *)
(* owner, a client or Dispatcher; its place is its identity, as the copies *)
(* that the listener sends to outlive it.                                  *)
(***************************************************************************)
EXTENDS Notifications

CONSTANTS Clients,      \* browsers with an event stream
          BufferSize,   \* notifyBufferSize: events a channel holds (100)
          MergedSize,   \* events the dispatcher's own channel holds (256)
          TailSize      \* lines kept of a step's log (16000 characters)

VARIABLES
    events,     \* the table, in the order of the commits
    queue,      \* ids notified to the listening connection and not yet received
    listener,   \* "listening", "lost" (its connection), "stopped"; "off": no process
    sending,    \* the event being handled and the channels it still goes to
    channels,   \* all of the process: [owner, project, buf, closed, held, from]
    streams,    \* client -> [state, project, last, seen, first, channel]
    merged,     \* the dispatcher's queue
    dispatched, \* what the dispatcher is done with, in order: [event, sent]
    tails,      \* step -> its log_tail
    lost        \* ghost: <<owner, event, cause>>, why an owner may miss an event

telemetryVars == <<events, queue, listener, sending, channels, streams, merged, dispatched,
                   tails, lost>>

Dispatcher == "dispatcher"
ASSUME ClientsAssumption == Dispatcher \notin Clients
ASSUME SizesAssumption == BufferSize \in Nat /\ MergedSize \in Nat /\ TailSize \in Nat

Idle == [event |-> 0, to |-> {}]
Closed == [state |-> "closed", project |-> 0, last |-> 0, seen |-> {}, first |-> 0, channel |-> 0]
NewChannel(o, p) == [owner |-> o, project |-> p, buf |-> <<>>, closed |-> FALSE, held |-> 0,
                     from |-> Len(events) + 1]

OpenChannels == {k \in DOMAIN channels : ~channels[k].closed}
(* Clients that rely on notifications for what is inserted from now on. *)
Past == {c \in Clients : streams[c].state \in {"joining", "open"}}
Listening == Past \cup {channels[k].owner : k \in OpenChannels}

-----------------------------------------------------------------------------
(* Publishing.                                                              *)

(* created_at of the next event: after, with or before the newest. *)
Newest == FoldSeq(LAMBDA e, m : IF e.at > m THEN e.at ELSE m, 1, events)
Times == {Newest + 1, Newest} \cup (IF Newest > 1 THEN {Newest - 1} ELSE {})

(* The insert and its trigger: NOTIFY reaches the connections that listen   *)
(* when it commits.                                                         *)
CreateEvents(p, name, ats) ==
    LET new == [k \in DOMAIN ats |-> Len(events) + k]
    IN /\ events' = events \o [k \in DOMAIN ats |-> [project |-> p, name |-> name, at |-> ats[k]]]
       /\ IF listener = "listening"
          THEN queue' = queue \o new /\ lost' = lost
          ELSE queue' = queue /\ lost' = lost \cup (Listening \X Range(new) \X {"outage"})

(* An event of a project that is gone violates the foreign key. *)
Publish(projects, p, name) ==
    /\ p \in Live(projects) /\ listener # "off"
    /\ \E at \in Times : CreateEvents(p, name, <<at>>)
    /\ UNCHANGED <<listener, sending, channels, streams, merged, dispatched, tails>>

(* The notification step of a pipeline: it succeeds, published or not. *)
NotificationStep(projects, p) ==
    \/ Publish(projects, p, "notification.sent")
    \/ listener # "off" /\ UNCHANGED telemetryVars

Right(s, n) == IF Len(s) <= n THEN s ELSE SubSeq(s, Len(s) - n + 1, Len(s))
AppendRunStepLogTail(step, lines) == tails' = [tails EXCEPT ![step] = Right(@ \o lines, TailSize)]

(* The log lines of a container: an event each, whose errors are ignored,   *)
(* then the step's tail.                                                    *)
HandleLogs(projects, p, step, lines) ==
    /\ listener # "off"
    /\ IF p \in Live(projects)
       THEN CreateEvents(p, "log.emitted", [k \in DOMAIN lines |-> Newest + k])
       ELSE UNCHANGED <<events, queue, lost>>
    /\ AppendRunStepLogTail(step, lines)
    /\ UNCHANGED <<listener, sending, channels, streams, merged, dispatched>>

-----------------------------------------------------------------------------
(* The listener.                                                            *)

(* A notification: the subscribers are copied under the lock and the event  *)
(* sent to the copy without it.  A client between its replay and its        *)
(* subscription is not among them.                                          *)
HandleNotification ==
    /\ listener = "listening" /\ sending = Idle /\ queue # <<>>
    /\ LET e == Head(queue)
       IN /\ sending' = [event |-> e,
                         to |-> {k \in OpenChannels : channels[k].project = events[e].project}]
          /\ lost' = lost \cup ({c \in Clients : streams[c].state = "joining"} \X {e} \X {"gap"})
    /\ queue' = Tail(queue)
    /\ UNCHANGED <<events, listener, channels, streams, merged, dispatched, tails>>

(* What is left when the process goes: the table, and what browsers know. *)
ProcessGone ==
    /\ listener' = "off"
    /\ queue' = <<>> /\ sending' = Idle /\ channels' = <<>> /\ merged' = <<>> /\ dispatched' = <<>>
    /\ streams' = [c \in Clients |-> [streams[c] EXCEPT !.state = "closed", !.channel = 0]]
    /\ lost' = {x \in lost : x[1] # Dispatcher}
    /\ UNCHANGED <<events, tails>>

(* The next channel of the copy.  A full one drops the event; one that its  *)
(* cleanup has closed meanwhile panics the listener's goroutine, and with   *)
(* it the server.                                                           *)
Full(k) == Len(channels[k].buf) >= BufferSize
SendNext ==
    \E k \in sending.to :
        /\ \A j \in sending.to : k <= j
        /\ IF channels[k].closed THEN ProcessGone
           ELSE /\ channels' = IF Full(k) THEN channels
                               ELSE [channels EXCEPT ![k].buf = Append(@, sending.event)]
                /\ lost' = IF Full(k) THEN lost \cup {<<channels[k].owner, sending.event, "full">>}
                           ELSE lost
                /\ sending' = IF sending.to = {k} THEN Idle ELSE [sending EXCEPT !.to = @ \ {k}]
                /\ UNCHANGED <<events, queue, listener, streams, merged, dispatched, tails>>
SendNone ==
    /\ sending # Idle /\ sending.to = {}
    /\ sending' = Idle
    /\ UNCHANGED <<events, queue, listener, channels, streams, merged, dispatched, tails, lost>>

(* The connection breaks, and its notifications with it. *)
ConnectionLost ==
    /\ listener = "listening"
    /\ listener' = "lost"
    /\ queue' = <<>>
    /\ lost' = lost \cup (Listening \X Range(queue) \X {"outage"})
    /\ UNCHANGED <<events, sending, channels, streams, merged, dispatched, tails>>

(* WaitForNotification fails.  Its context is cancelled before its error is *)
(* read, so that it always has one: every failure counts as the timeout.    *)
WaitCtxErr == "canceled"
Reconnect == listener' = "listening"
WaitFails ==
    /\ listener = "lost" /\ sending = Idle
    /\ IF WaitCtxErr # Nil THEN UNCHANGED listener ELSE Reconnect
    /\ UNCHANGED <<events, queue, sending, channels, streams, merged, dispatched, tails, lost>>

(* The shutdown: the dispatcher is cancelled and leaves the bus, no request  *)
(* is taken any more, and those in progress, the streams too, have 30        *)
(* seconds.                                                                  *)
DispatcherUp == \E k \in OpenChannels : channels[k].owner = Dispatcher
StopAll ==
    /\ listener \in {"listening", "lost"} /\ DispatcherUp
    /\ channels' = [k \in DOMAIN channels |->
                        [channels[k] EXCEPT !.closed = @ \/ channels[k].owner = Dispatcher]]
    /\ merged' = <<>>
    /\ UNCHANGED <<events, queue, listener, sending, streams, dispatched, tails, lost>>
(* Then the bus is closed and the process ends, or it just ends.            *)
CloseBus ==
    /\ listener \in {"listening", "lost"} /\ ~DispatcherUp /\ sending = Idle
    /\ \A c \in Clients : streams[c].state = "closed"
    /\ listener' = "stopped"
    /\ queue' = <<>>
    /\ UNCHANGED <<events, sending, channels, streams, merged, dispatched, tails, lost>>
Exit ==
    /\ listener # "off" /\ ~DispatcherUp
    /\ listener = "stopped" \/ \E c \in Clients : streams[c].state # "closed"
    /\ ProcessGone
Crash == listener \in {"listening", "lost"} /\ ProcessGone

(* The server comes up: the dispatcher subscribes to the projects there are *)
(* then, or to the nil project when there is none.                          *)
DispatcherProjects(projects) ==
    IF Live(projects) = {} THEN <<0>> ELSE SetToSeq(Live(projects))
DispatcherRun(projects) ==
    /\ listener = "off"
    /\ listener' = "listening"
    /\ channels' = [k \in DOMAIN DispatcherProjects(projects) |->
                        NewChannel(Dispatcher, DispatcherProjects(projects)[k])]
    /\ UNCHANGED <<events, queue, sending, streams, merged, dispatched, tails, lost>>

-----------------------------------------------------------------------------
(* The dispatcher.                                                          *)

(* A goroutine for each channel moves its events to the merged queue. *)
FanInTake(k) ==
    /\ channels[k].owner = Dispatcher /\ ~channels[k].closed
    /\ channels[k].held = 0 /\ channels[k].buf # <<>>
    /\ channels' = [channels EXCEPT ![k].held = Head(channels[k].buf), ![k].buf = Tail(@)]
    /\ UNCHANGED <<events, queue, listener, sending, streams, merged, dispatched, tails, lost>>
FanInPass(k) ==
    /\ channels[k].held # 0 /\ Len(merged) < MergedSize /\ ~channels[k].closed
    /\ merged' = Append(merged, channels[k].held)
    /\ channels' = [channels EXCEPT ![k].held = 0]
    /\ UNCHANGED <<events, queue, listener, sending, streams, dispatched, tails, lost>>

(* The enabled channels that ask for the event, each tried once: an error   *)
(* is logged.                                                               *)
Dispatch(configs) ==
    /\ merged # <<>>
    /\ LET e == Head(merged)
           asked == {i \in Range(ConfigRepoListEnabled(configs, events[e].project)) :
                        events[e].name \in configs[i].filter}
       IN \E answered \in SUBSET asked :
            dispatched' = Append(dispatched,
                [event |-> e, sent |-> {i \in answered : Send(configs[i], "2xx") = "ok"}])
    /\ merged' = Tail(merged)
    /\ UNCHANGED <<events, queue, listener, sending, channels, streams, tails, lost>>

-----------------------------------------------------------------------------
(* Event streams.                                                           *)

(* Mutant of GetEventsSince: off by one. *)
GetEventsSinceLater(p, after) ==
    IF after = 0 THEN {}
    ELSE {e \in DOMAIN events : events[e].project = p /\ events[e].at > events[after].at + 1}

(* created_at after the anchor's; an unknown anchor finds nothing. *)
GetEventsSince(p, after) ==
    IF after = 0 THEN {}
    ELSE {e \in DOMAIN events : events[e].project = p /\ events[e].at > events[after].at}
(* What may have been written last: ties come in any order.                 *)
Latest(shown, last) ==
    IF shown = {} THEN {last}
    ELSE {e \in shown : \A d \in shown : events[d].at <= events[e].at}

(* The request, once it is allowed.  A browser that comes back to the same  *)
(* project sends the last id it saw.                                        *)
Connect(c, p) ==
    /\ streams[c].state = "closed" /\ DispatcherUp
    /\ streams' = [streams EXCEPT ![c] =
                    IF @.project = p THEN [@ EXCEPT !.state = "replaying"]
                    ELSE [Closed EXCEPT !.state = "replaying", !.project = p,
                                        !.first = Len(events) + 1]]
    /\ UNCHANGED <<events, queue, listener, sending, channels, merged, dispatched, tails, lost>>

Unseen(c) == {e \in DOMAIN events : /\ events[e].project = streams[c].project
                                    /\ e >= streams[c].first /\ e \notin streams[c].seen}
Older(c) == {e \in Unseen(c) : streams[c].last # 0 => ~(events[e].at > events[streams[c].last].at)}

(* What was missed, up to a write that fails; left out if its query fails.  *)
Replay(c) ==
    /\ streams[c].state = "replaying"
    /\ LET missed == GetEventsSince(streams[c].project, streams[c].last)
       IN \/ \E shown \in SUBSET missed :
                /\ \A e \in shown, m \in missed : events[m].at < events[e].at => m \in shown
                /\ \E e \in Latest(shown, streams[c].last) :
                     streams' = [streams EXCEPT
                         ![c].state = IF shown = missed THEN "joining" ELSE "closed",
                         ![c].seen = @ \cup shown, ![c].last = e]
                /\ lost' = lost \cup ({c} \X Older(c) \X {"older"})
          \/ /\ missed # {}
             /\ streams' = [streams EXCEPT ![c].state = "joining"]
             /\ lost' = lost \cup ({c} \X Unseen(c) \X {"replay failed"})
    /\ UNCHANGED <<events, queue, listener, sending, channels, merged, dispatched, tails>>

Subscribe(c) ==
    /\ streams[c].state = "joining"
    /\ streams' = [streams EXCEPT ![c].state = "open", ![c].channel = Len(channels) + 1]
    /\ channels' = Append(channels, NewChannel(c, streams[c].project))
    /\ UNCHANGED <<events, queue, listener, sending, merged, dispatched, tails, lost>>

(* cleanup: out of the subscribers and closed, under the lock. *)
Leave(c) ==
    /\ streams' = [streams EXCEPT ![c].state = "closed", ![c].channel = 0]
    /\ channels' = [channels EXCEPT ![streams[c].channel].closed = TRUE]

Deliver(c) ==
    /\ streams[c].state = "open"
    /\ LET k == streams[c].channel
           e == Head(channels[k].buf)
       IN /\ channels[k].buf # <<>>
          /\ streams' = [streams EXCEPT ![c].seen = @ \cup {e}, ![c].last = e]
          /\ channels' = [channels EXCEPT ![k].buf = Tail(@)]
    /\ UNCHANGED <<events, queue, listener, sending, merged, dispatched, tails, lost>>
(* A write fails, the browser goes, or the channel was closed. *)
StreamEnds(c) ==
    /\ streams[c].state = "open"
    /\ Leave(c)
    /\ UNCHANGED <<events, queue, listener, sending, merged, dispatched, tails, lost>>

-----------------------------------------------------------------------------

TelemetryInit(projects, steps) ==
    /\ events = <<>> /\ queue = <<>> /\ sending = Idle
    /\ listener = "listening"
    /\ channels = [k \in DOMAIN DispatcherProjects(projects) |->
                        [owner |-> Dispatcher, project |-> DispatcherProjects(projects)[k],
                         buf |-> <<>>, closed |-> FALSE, held |-> 0, from |-> 1]]
    /\ streams = [c \in Clients |-> Closed]
    /\ merged = <<>> /\ dispatched = <<>>
    /\ tails = [s \in steps |-> <<>>]
    /\ lost = {}

(* The bus, the dispatcher and the streams. *)
TelemetryWork(configs) ==
    \/ HandleNotification \/ SendNone \/ WaitFails
    \/ \E k \in DOMAIN channels : FanInTake(k) \/ FanInPass(k)
    \/ Dispatch(configs)
    \/ \E c \in Clients : Replay(c) \/ Subscribe(c) \/ Deliver(c)
=============================================================================
