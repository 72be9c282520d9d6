----------------------------- MODULE EventProofs -----------------------------
(* An event reaches everyone who is to know, for any number of projects,    *)
(* clients and events, any sizes of the channels and whatever else the      *)
(* server does.                                                             *)
(*                                                                          *)
(* EventsAccounted is nearly inductive for the streams: the invariant has   *)
(* to add that an open stream's channel is its own and nobody closed it.    *)
(* That the dispatcher handles no event twice needs more: where an event    *)
(* may be at once.  It is notified once, goes to the dispatcher's one       *)
(* channel of its project, and leaves each place when it reaches the next.  *)
EXTENDS Platform, FiniteSetTheorems, SequenceTheorems, TLAPS

InRow(s) == s \in Seq(Range(s))
Apart(s) == \A i, j \in DOMAIN s : s[i] = s[j] => i = j

(* The shape of the bus.                                                    *)
ChannelRows == [owner : Clients \cup {Dispatcher}, project : Nat, buf : Seq(Nat),
                closed : BOOLEAN, held : Nat, from : Nat \ {0}]
StreamFields == {"state", "project", "last", "seen", "first", "channel"}
BusTyped ==
    /\ InRow(events) /\ queue \in Seq(Nat)
    /\ sending \in [event : Nat, to : SUBSET (DOMAIN channels)]
    /\ channels \in Seq(ChannelRows)
    /\ streams = [c \in Clients |-> streams[c]]
    /\ \A c \in Clients : StreamFields \subseteq DOMAIN streams[c] /\ streams[c].project \in Nat
    /\ merged \in Seq(Nat) /\ InRow(dispatched)
Projects == "projects" \in DOMAIN db /\ InRow(db.projects)

(* A process that is gone has left nothing; an open stream has its channel. *)
Gone == listener = "off" =>
    /\ queue = <<>> /\ channels = <<>> /\ merged = <<>> /\ dispatched = <<>> /\ sending = Idle
    /\ \A c \in Clients : streams[c].state = "closed"
HasChannel(c) ==
    streams[c].state = "open" =>
        /\ streams[c].channel \in DOMAIN channels
        /\ channels[streams[c].channel].owner = c
        /\ channels[streams[c].channel].project = streams[c].project
        /\ ~channels[streams[c].channel].closed
Subscribed == /\ \A c \in Clients : HasChannel(c)
              /\ \A k \in DOMAIN channels : channels[k].held # 0 => channels[k].owner = Dispatcher
BusSound == BusTyped /\ Gone /\ Subscribed

(* The way of an event through the dispatcher.                              *)
Feeding == {k \in DOMAIN channels : channels[k].owner = Dispatcher}
InChannel(k) == Range(channels[k].buf) \cup ({channels[k].held} \ {0})
Taken == Range(merged) \cup Handled
Known(e) == e \in DOMAIN events

OneEach == \A j, k \in Feeding : channels[j].project = channels[k].project => j = k
FitsProject(k) ==
    /\ \A e \in InChannel(k) : events[e].project = channels[k].project
    /\ k \in sending.to => events[sending.event].project = channels[k].project
AllKnown ==
    /\ \A e \in Range(queue) \cup Taken : Known(e)
    /\ sending # Idle => Known(sending.event)
    /\ \A k \in Feeding : \A e \in InChannel(k) : Known(e)
Upcoming ==
    /\ Apart(queue) /\ sending.event \notin Range(queue)
    /\ \A e \in Range(queue) : e \notin Taken /\ \A k \in Feeding : e \notin InChannel(k)
OnceOnTheWay(k) ==
    /\ k \in sending.to => sending.event \notin InChannel(k) \cup Taken
    /\ Apart(channels[k].buf) /\ channels[k].held \notin Range(channels[k].buf)
    /\ InChannel(k) \cap Taken = {}
OnceTaken ==
    /\ Apart(merged) /\ Range(merged) \cap Handled = {}
    /\ \A i, j \in DOMAIN dispatched : dispatched[i].event = dispatched[j].event => i = j
Once == /\ OneEach /\ AllKnown /\ Upcoming /\ OnceTaken
        /\ \A k \in Feeding : FitsProject(k) /\ OnceOnTheWay(k)

Told == BusSound /\ Once /\ (\A c \in Clients : StreamTold(c)) /\ DispatcherTold

-----------------------------------------------------------------------------
(* Sequences as queues.                                                     *)

LEMMA InRange == \A s, x : x \in Range(s) <=> \E i \in DOMAIN s : x = s[i]
  BY DEF Range

LEMMA RowFacts ==
  ASSUME NEW S, NEW s \in Seq(S)
  PROVE  /\ Len(s) \in Nat /\ DOMAIN s = 1..Len(s) /\ Range(s) \subseteq S /\ InRow(s)
         /\ \A i \in DOMAIN s : s[i] \in S /\ s[i] \in Range(s)
<1>1. Len(s) \in Nat /\ DOMAIN s = 1..Len(s) /\ \A i \in DOMAIN s : s[i] \in S
  BY LenProperties, ElementOfSeq
<1>2. s \in [1..Len(s) -> Range(s)]
  BY <1>1, LenProperties DEF Range
<1>3. InRow(s)
  BY <1>1, <1>2, SeqDef DEF InRow
<1> QED BY <1>1, <1>3 DEF Range

LEMMA NothingIn ==
  /\ DOMAIN <<>> = {} /\ Range(<<>>) = {} /\ Apart(<<>>) /\ InRow(<<>>) /\ \A S : <<>> \in Seq(S)
<1>1. DOMAIN <<>> = {} /\ \A S : <<>> \in Seq(S)
  OBVIOUS
<1>2. Range(<<>>) = {}
  BY <1>1 DEF Range
<1>3. Apart(<<>>)
  BY <1>1 DEF Apart
<1> QED BY <1>1, <1>2, <1>3 DEF InRow

LEMMA InRowWider == ASSUME NEW s, InRow(s), NEW S, Range(s) \subseteq S PROVE s \in Seq(S)
<1>1. Len(s) \in Nat /\ DOMAIN s = 1..Len(s) /\ \A i \in DOMAIN s : s[i] \in S
  BY RowFacts DEF InRow
<1>2. s \in [1..Len(s) -> S]
  BY <1>1, LenProperties DEF InRow
<1> QED BY <1>1, <1>2, SeqDef

LEMMA Appended ==
  ASSUME NEW S, NEW s \in Seq(S), NEW x \in S
  PROVE  /\ Append(s, x) \in Seq(S) /\ Range(Append(s, x)) = Range(s) \cup {x}
         /\ Len(Append(s, x)) = Len(s) + 1
         /\ \A i \in DOMAIN s : Append(s, x)[i] = s[i]
         /\ Append(s, x)[Len(s) + 1] = x
         /\ Apart(s) /\ x \notin Range(s) => Apart(Append(s, x))
<1>1. /\ Append(s, x) \in Seq(S) /\ Len(Append(s, x)) = Len(s) + 1 /\ Len(s) \in Nat
      /\ DOMAIN s = 1..Len(s) /\ DOMAIN Append(s, x) = 1..(Len(s) + 1)
      /\ \A i \in 1..Len(s) : Append(s, x)[i] = s[i]
      /\ Append(s, x)[Len(s) + 1] = x
  BY AppendProperties, LenProperties
<1>2. Range(Append(s, x)) = Range(s) \cup {x}
  BY <1>1 DEF Range
<1>3. Apart(s) /\ x \notin Range(s) => Apart(Append(s, x))
  BY <1>1 DEF Apart, Range
<1> QED BY <1>1, <1>2, <1>3

LEMMA AppendedNat ==
  ASSUME NEW s \in Seq(Nat), NEW x \in Nat
  PROVE  /\ Append(s, x) \in Seq(Nat) /\ Range(Append(s, x)) = Range(s) \cup {x}
         /\ Len(Append(s, x)) = Len(s) + 1
         /\ Apart(s) /\ x \notin Range(s) => Apart(Append(s, x))
<1>1. PICK S : S = Nat
  OBVIOUS
<1>2. s \in Seq(S) /\ x \in S
  BY <1>1
<1>3. /\ Append(s, x) \in Seq(S) /\ Range(Append(s, x)) = Range(s) \cup {x}
      /\ Len(Append(s, x)) = Len(s) + 1
      /\ Apart(s) /\ x \notin Range(s) => Apart(Append(s, x))
  BY <1>2, Appended
<1> QED BY <1>1, <1>3

LEMMA Beheaded ==
  ASSUME NEW S, NEW s \in Seq(S), s # <<>>
  PROVE  /\ Head(s) \in S /\ Tail(s) \in Seq(S)
         /\ Range(s) = {Head(s)} \cup Range(Tail(s))
         /\ Apart(s) => Apart(Tail(s)) /\ Head(s) \notin Range(Tail(s))
<1>1. /\ Head(s) \in S /\ Tail(s) \in Seq(S) /\ Len(s) \in Nat /\ Len(s) > 0
      /\ Len(Tail(s)) = Len(s) - 1 /\ DOMAIN s = 1..Len(s) /\ Head(s) = s[1]
      /\ \A i \in 1..Len(Tail(s)) : Tail(s)[i] = s[i + 1]
  BY HeadTailProperties, LenProperties, EmptySeq
<1>2. DOMAIN Tail(s) = 1..(Len(s) - 1)
  BY <1>1, LenProperties
<1>3. /\ \A i \in DOMAIN s : i = 1 \/ (i - 1 \in DOMAIN Tail(s) /\ Tail(s)[i - 1] = s[i])
      /\ \A i \in DOMAIN Tail(s) : i + 1 \in DOMAIN s /\ Tail(s)[i] = s[i + 1]
      /\ 1 \in DOMAIN s
  BY <1>1, <1>2
<1>4. Range(s) = {Head(s)} \cup Range(Tail(s))
  <2>1. ASSUME NEW x \in Range(s) PROVE x = Head(s) \/ x \in Range(Tail(s))
    <3>1. PICK i \in DOMAIN s : x = s[i]
      BY InRange
    <3>2. i = 1 \/ (i - 1 \in DOMAIN Tail(s) /\ Tail(s)[i - 1] = x)
      BY <1>3, <3>1
    <3> QED BY <1>1, <3>1, <3>2, InRange
  <2>2. \A x \in Range(Tail(s)) : x \in Range(s)
    BY <1>3 DEF Range
  <2>3. Head(s) \in Range(s)
    BY <1>1, <1>3 DEF Range
  <2> QED BY <2>1, <2>2, <2>3
<1>5. Apart(s) => Apart(Tail(s)) /\ Head(s) \notin Range(Tail(s))
  BY <1>1, <1>2 DEF Apart, Range
<1> QED BY <1>1, <1>4, <1>5

LEMMA Joined ==
  ASSUME NEW S, NEW s \in Seq(S), NEW t \in Seq(S)
  PROVE  /\ s \o t \in Seq(S) /\ Len(s \o t) = Len(s) + Len(t)
         /\ Range(s \o t) = Range(s) \cup Range(t)
         /\ \A i \in DOMAIN s : i \in DOMAIN (s \o t) /\ (s \o t)[i] = s[i]
         /\ Apart(s) /\ Apart(t) /\ Range(s) \cap Range(t) = {} => Apart(s \o t)
<1>1. /\ s \o t \in Seq(S) /\ Len(s \o t) = Len(s) + Len(t) /\ Len(s) \in Nat /\ Len(t) \in Nat
      /\ DOMAIN s = 1..Len(s) /\ DOMAIN t = 1..Len(t) /\ DOMAIN (s \o t) = 1..(Len(s) + Len(t))
      /\ \A i \in 1..(Len(s) + Len(t)) :
            (s \o t)[i] = IF i <= Len(s) THEN s[i] ELSE t[i - Len(s)]
  BY ConcatProperties, LenProperties
<1>2. \A i \in DOMAIN s : i \in DOMAIN (s \o t) /\ (s \o t)[i] = s[i]
  BY <1>1
<1>3. \A i \in DOMAIN t : i + Len(s) \in DOMAIN (s \o t) /\ (s \o t)[i + Len(s)] = t[i]
  BY <1>1
<1>4. \A i \in DOMAIN (s \o t) :
         \/ i \in DOMAIN s /\ (s \o t)[i] = s[i]
         \/ i - Len(s) \in DOMAIN t /\ (s \o t)[i] = t[i - Len(s)]
  BY <1>1
<1>5. Range(s \o t) = Range(s) \cup Range(t)
  <2>1. ASSUME NEW x \in Range(s \o t) PROVE x \in Range(s) \cup Range(t)
    <3>1. PICK i \in DOMAIN (s \o t) : x = (s \o t)[i]
      BY InRange
    <3> QED BY <1>4, <3>1, InRange
  <2>2. ASSUME NEW x \in Range(s) PROVE x \in Range(s \o t)
    <3>1. PICK i \in DOMAIN s : x = s[i]
      BY InRange
    <3>2. i \in DOMAIN (s \o t) /\ (s \o t)[i] = x
      BY <1>2, <3>1
    <3> QED BY <3>2, InRange
  <2>3. ASSUME NEW x \in Range(t) PROVE x \in Range(s \o t)
    <3>1. PICK i \in DOMAIN t : x = t[i]
      BY InRange
    <3>2. i + Len(s) \in DOMAIN (s \o t) /\ (s \o t)[i + Len(s)] = x
      BY <1>3, <3>1
    <3> QED BY <3>2, InRange
  <2> QED BY <2>1, <2>2, <2>3
<1>6. Apart(s) /\ Apart(t) /\ Range(s) \cap Range(t) = {} => Apart(s \o t)
  <2> SUFFICES ASSUME Apart(s), Apart(t), Range(s) \cap Range(t) = {},
                      NEW i \in DOMAIN (s \o t), NEW j \in DOMAIN (s \o t), (s \o t)[i] = (s \o t)[j]
               PROVE  i = j
    BY DEF Apart
  <2>1. CASE i \in DOMAIN s /\ j \in DOMAIN s
    BY <1>2, <2>1 DEF Apart
  <2>2. CASE i \notin DOMAIN s /\ j \notin DOMAIN s
    <3>1. i - Len(s) = j - Len(s)
      BY <1>4, <2>2 DEF Apart
    <3> QED BY <1>1, <3>1
  <2>3. CASE i \in DOMAIN s /\ j \notin DOMAIN s
    <3>1. (s \o t)[i] \in Range(s) /\ (s \o t)[j] \in Range(t)
      BY <1>2, <1>4, <2>3, InRange
    <3> QED BY <3>1
  <2>4. CASE i \notin DOMAIN s /\ j \in DOMAIN s
    <3>1. (s \o t)[i] \in Range(t) /\ (s \o t)[j] \in Range(s)
      BY <1>2, <1>4, <2>4, InRange
    <3> QED BY <3>1
  <2> QED BY <2>1, <2>2, <2>3, <2>4
<1> QED BY <1>1, <1>2, <1>5, <1>6

LEMMA Replaced ==
  ASSUME NEW S, NEW s \in Seq(S), NEW i \in DOMAIN s, NEW x \in S
  PROVE  /\ [s EXCEPT ![i] = x] \in Seq(S) /\ DOMAIN [s EXCEPT ![i] = x] = DOMAIN s
         /\ \A j \in DOMAIN s : [s EXCEPT ![i] = x][j] = IF j = i THEN x ELSE s[j]
<1>1. i \in 1..Len(s)
  BY RowFacts
<1> QED BY <1>1, ExceptSeq, RowFacts

-----------------------------------------------------------------------------
(* What the shape of the bus says of its parts.                             *)

LEMMA ToldParts ==
  ASSUME Told
  PROVE  /\ BusTyped /\ Gone /\ Subscribed /\ OneEach /\ AllKnown /\ Upcoming /\ OnceTaken
         /\ \A j \in Feeding : FitsProject(j) /\ OnceOnTheWay(j)
         /\ \A c \in Clients : StreamTold(c)
         /\ DispatcherTold
  BY DEF Told, BusSound, Once

LEMMA ChannelFacts ==
  ASSUME BusTyped
  PROVE  /\ Len(channels) \in Nat /\ DOMAIN channels = 1..Len(channels)
         /\ \A k \in DOMAIN channels :
               /\ channels[k] \in ChannelRows
               /\ channels[k].buf \in Seq(Nat) /\ channels[k].held \in Nat
               /\ channels[k].project \in Nat /\ channels[k].from \in Nat \ {0}
               /\ channels[k].closed \in BOOLEAN
         /\ sending.event \in Nat /\ sending.to \subseteq DOMAIN channels
         /\ Len(events) \in Nat /\ DOMAIN events = 1..Len(events)
         /\ Len(dispatched) \in Nat /\ DOMAIN dispatched = 1..Len(dispatched)
<1>1. Len(channels) \in Nat /\ DOMAIN channels = 1..Len(channels)
      /\ \A k \in DOMAIN channels : channels[k] \in ChannelRows
  BY RowFacts DEF BusTyped
<1>2. /\ Len(events) \in Nat /\ DOMAIN events = 1..Len(events)
      /\ Len(dispatched) \in Nat /\ DOMAIN dispatched = 1..Len(dispatched)
  BY RowFacts DEF BusTyped, InRow
<1> QED BY <1>1, <1>2 DEF BusTyped, ChannelRows

Causes == {"full", "gap", "outage", "older", "replay failed"}
LateCauses == {"gap", "outage", "older", "replay failed"}

(* A stream that does not move itself is still told when what was on its    *)
(* way is, or is now missed for a cause.                                    *)
LEMMA StillTold ==
  ASSUME NEW c \in Clients, StreamTold(c), UNCHANGED <<events, streams[c]>>, lost \subseteq lost',
         streams[c].state = "open" =>
            \A e \in Unseen(c) : OnItsWay(streams[c].channel, e) =>
                OnItsWay(streams[c].channel, e)' \/ Excused(c, e, Causes)',
         streams[c].state = "joining" =>
            \A e \in Unseen(c) : e \in Range(queue) =>
                e \in Range(queue') \/ Excused(c, e, LateCauses)'
  PROVE  StreamTold(c)'
<1>1. Unseen(c)' = Unseen(c)
  BY DEF Unseen
<1>2. \A e : /\ Excused(c, e, Causes) => Excused(c, e, Causes)'
             /\ Excused(c, e, LateCauses) => Excused(c, e, LateCauses)'
  BY DEF Excused
<1> QED BY <1>1, <1>2 DEF StreamTold, Causes, LateCauses

(* And so is the dispatcher.                                                *)
LEMMA DispatcherStillTold ==
  ASSUME DispatcherTold, UNCHANGED events, lost \subseteq lost',
         \A k \in DOMAIN channels' : channels[k].owner' = Dispatcher =>
            /\ k \in DOMAIN channels
            /\ UNCHANGED <<channels[k].owner, channels[k].project, channels[k].from>>
            /\ channels[k].closed => channels[k].closed',
         \A k \in OpenChannels : channels[k].owner = Dispatcher =>
            \A e \in DOMAIN events :
                OnItsWay(k, e) \/ e \in Range(merged) \/ e \in Handled =>
                    \/ OnItsWay(k, e)' \/ e \in Range(merged') \/ e \in Handled'
                    \/ Excused(Dispatcher, e, {"full", "outage"})',
         BusTyped
  PROVE  DispatcherTold'
<1>1. \A e : Excused(Dispatcher, e, {"full", "outage"}) => Excused(Dispatcher, e, {"full", "outage"})'
  BY DEF Excused
<1>3. SUFFICES ASSUME NEW k \in OpenChannels', channels[k].owner' = Dispatcher,
                      NEW e \in channels[k].from'..Len(events), events[e].project = channels[k].project'
               PROVE  \/ OnItsWay(k, e)' \/ e \in Range(merged') \/ e \in Handled'
                      \/ Excused(Dispatcher, e, {"full", "outage"})'
  BY DEF DispatcherTold
<1>4. /\ k \in OpenChannels /\ k \in DOMAIN channels /\ channels[k].owner = Dispatcher
      /\ e \in channels[k].from..Len(events) /\ events[e].project = channels[k].project
  BY <1>3 DEF OpenChannels
<1>5. \/ OnItsWay(k, e) \/ e \in Range(merged) \/ e \in Handled
      \/ Excused(Dispatcher, e, {"full", "outage"})
  BY <1>4 DEF DispatcherTold
<1>6. e \in DOMAIN events
  BY <1>4, ChannelFacts
<1> QED BY <1>1, <1>4, <1>5, <1>6

(* A goroutine of the dispatcher takes an event out of its channel.         *)
LEMMA TakeTells ==
  ASSUME Told, NEW k \in DOMAIN channels, FanInTake(k)
  PROVE  Told'
<1> DEFINE row == [channels[k] EXCEPT !.held = Head(channels[k].buf), !.buf = Tail(channels[k].buf)]
<1>0. /\ BusTyped /\ Gone /\ Subscribed /\ OneEach /\ AllKnown /\ Upcoming /\ OnceTaken
      /\ \A j \in Feeding : FitsProject(j) /\ OnceOnTheWay(j)
      /\ \A c \in Clients : StreamTold(c)
      /\ DispatcherTold
  BY ToldParts
<1>1. /\ channels[k].owner = Dispatcher /\ ~channels[k].closed
      /\ channels[k].held = 0 /\ channels[k].buf # <<>> /\ channels[k].buf \in Seq(Nat)
      /\ UNCHANGED <<events, queue, listener, sending, streams, merged, dispatched, tails, lost>>
      /\ channels[k] \in ChannelRows
  BY <1>0, ChannelFacts DEF FanInTake
<1>2. /\ Head(channels[k].buf) \in Nat /\ Tail(channels[k].buf) \in Seq(Nat)
      /\ Range(channels[k].buf) = {Head(channels[k].buf)} \cup Range(Tail(channels[k].buf))
      /\ Apart(channels[k].buf) => /\ Apart(Tail(channels[k].buf))
                                  /\ Head(channels[k].buf) \notin Range(Tail(channels[k].buf))
  BY <1>1, Beheaded
<1>3. row \in ChannelRows
  BY <1>1, <1>2 DEF ChannelRows
<1>4. channels' = [channels EXCEPT ![k] = row]
  BY DEF FanInTake
<1>5. /\ channels' \in Seq(ChannelRows) /\ DOMAIN channels' = DOMAIN channels
      /\ \A j \in DOMAIN channels : channels'[j] = IF j = k THEN row ELSE channels[j]
  BY <1>0, <1>3, <1>4, Replaced DEF BusTyped
<1>6. /\ row.owner = Dispatcher /\ row.project = channels[k].project /\ row.closed = channels[k].closed
      /\ row.held = Head(channels[k].buf) /\ row.buf = Tail(channels[k].buf) /\ row.from = channels[k].from
  BY <1>1 DEF ChannelRows
<1>7. \A j \in DOMAIN channels :
         /\ channels'[j].owner = channels[j].owner /\ channels'[j].project = channels[j].project
         /\ channels'[j].closed = channels[j].closed /\ channels'[j].from = channels[j].from
         /\ j # k => channels'[j] = channels[j]
  BY <1>1, <1>5, <1>6
<1>8. channels'[k].held = Head(channels[k].buf) /\ channels'[k].buf = Tail(channels[k].buf)
  BY <1>5, <1>6
<1> HIDE DEF row
<1>9. k \in Feeding /\ Head(channels[k].buf) # 0
  <2>1. k \in Feeding
    BY <1>1 DEF Feeding
  <2>2. Head(channels[k].buf) \in InChannel(k)
    BY <1>2 DEF InChannel
  <2> QED BY <1>0, <2>1, <2>2, ChannelFacts DEF AllKnown, Known
<1>10. Feeding' = Feeding /\ Taken' = Taken /\ Handled' = Handled /\ OpenChannels' = OpenChannels
  BY <1>1, <1>5, <1>7 DEF Feeding, Taken, Handled, OpenChannels
<1>11. /\ \A j \in Feeding : InChannel(j)' = InChannel(j)
       /\ \A e \in Nat \ {0} : OnItsWay(k, e) => OnItsWay(k, e)'
       /\ \A j \in DOMAIN channels : j # k => \A e : OnItsWay(j, e) => OnItsWay(j, e)'
  <2>1. \A j \in Feeding : InChannel(j)' = InChannel(j)
    <3> SUFFICES ASSUME NEW j \in Feeding PROVE InChannel(j)' = InChannel(j)
      OBVIOUS
    <3>1. CASE j = k
      BY <1>1, <1>2, <1>5, <1>7, <1>8, <1>9, <3>1 DEF InChannel, Feeding
    <3>2. CASE j # k
      BY <1>7, <3>2 DEF InChannel, Feeding
    <3> QED BY <3>1, <3>2
  <2>2. \A e \in Nat \ {0} : OnItsWay(k, e) => OnItsWay(k, e)'
    BY <1>1, <1>2, <1>5, <1>7, <1>8, <1>9 DEF OnItsWay
  <2>3. \A j \in DOMAIN channels : j # k => \A e : OnItsWay(j, e) => OnItsWay(j, e)'
    BY <1>1, <1>2, <1>5, <1>7 DEF OnItsWay
  <2> QED BY <2>1, <2>2, <2>3
<1>12. BusSound'
  <2>1. BusTyped'
    BY <1>0, <1>1, <1>5 DEF BusTyped
  <2>2. Gone'
    BY <1>0, <1>1, <1>5 DEF Gone
  <2>3. Subscribed'
    BY <1>0, <1>1, <1>5, <1>7 DEF Subscribed, HasChannel
  <2> QED BY <2>1, <2>2, <2>3 DEF BusSound
<1>13. Once'
  <2>1. OneEach' /\ AllKnown' /\ Upcoming' /\ OnceTaken'
    BY <1>0, <1>1, <1>7, <1>10, <1>11 DEF OneEach, AllKnown, Upcoming, OnceTaken, Known, Feeding
  <2>2. \A j \in Feeding : FitsProject(j)' /\ OnceOnTheWay(j)'
    BY <1>0, <1>1, <1>2, <1>7, <1>8, <1>10, <1>11 DEF FitsProject, OnceOnTheWay, Feeding
  <2> QED BY <1>10, <2>1, <2>2 DEF Once
<1>14. ASSUME NEW c \in Clients PROVE StreamTold(c)'
  <2>1. streams[c].state = "open" => streams[c].channel \in DOMAIN channels \ {k}
    BY <1>0, <1>1, ClientsAssumption DEF Subscribed, HasChannel
  <2> QED BY <1>0, <1>1, <1>11, <2>1, StillTold
<1>15. DispatcherTold'
  <2>1. \A j \in OpenChannels : \A e \in DOMAIN events : OnItsWay(j, e) => OnItsWay(j, e)'
    BY <1>0, <1>11, ChannelFacts DEF OpenChannels
  <2> QED BY <1>0, <1>1, <1>5, <1>7, <1>10, <2>1, DispatcherStillTold
<1> QED BY <1>12, <1>13, <1>14, <1>15 DEF Told

(* It puts it into the merged queue: the event is in no other channel, as   *)
(* the dispatcher has one for each project.                                 *)
LEMMA PassTells ==
  ASSUME Told, NEW k \in DOMAIN channels, FanInPass(k)
  PROVE  Told'
<1> DEFINE row == [channels[k] EXCEPT !.held = 0]
           e0 == channels[k].held
<1>0. /\ BusTyped /\ Gone /\ Subscribed /\ OneEach /\ AllKnown /\ Upcoming /\ OnceTaken
      /\ \A j \in Feeding : FitsProject(j) /\ OnceOnTheWay(j)
      /\ \A c \in Clients : StreamTold(c)
      /\ DispatcherTold
  BY ToldParts
<1>1. /\ channels[k].held # 0 /\ channels[k].held \in Nat
      /\ merged' = Append(merged, channels[k].held) /\ merged \in Seq(Nat)
      /\ UNCHANGED <<events, queue, listener, sending, streams, dispatched, tails, lost>>
      /\ channels[k] \in ChannelRows /\ channels[k].owner = Dispatcher
      /\ channels[k].buf \in Seq(Nat)
  BY <1>0, ChannelFacts DEF FanInPass, BusTyped, Subscribed
<1>2. /\ merged' \in Seq(Nat) /\ Range(merged') = Range(merged) \cup {e0}
      /\ Apart(merged) /\ e0 \notin Range(merged) => Apart(merged')
  <2>1. /\ Append(merged, e0) \in Seq(Nat) /\ Range(Append(merged, e0)) = Range(merged) \cup {e0}
        /\ Apart(merged) /\ e0 \notin Range(merged) => Apart(Append(merged, e0))
    BY <1>1, AppendedNat
  <2> QED BY <1>1, <2>1, Zenon
<1>3. row \in ChannelRows
  BY <1>1 DEF ChannelRows
<1>4. channels' = [channels EXCEPT ![k] = row]
  BY DEF FanInPass
<1>5. /\ channels' \in Seq(ChannelRows) /\ DOMAIN channels' = DOMAIN channels
      /\ \A j \in DOMAIN channels : channels'[j] = IF j = k THEN row ELSE channels[j]
  BY <1>0, <1>3, <1>4, Replaced DEF BusTyped
<1>6. /\ row.owner = Dispatcher /\ row.project = channels[k].project /\ row.closed = channels[k].closed
      /\ row.held = 0 /\ row.buf = channels[k].buf /\ row.from = channels[k].from
  BY <1>1 DEF ChannelRows
<1>7. \A j \in DOMAIN channels :
         /\ channels'[j].owner = channels[j].owner /\ channels'[j].project = channels[j].project
         /\ channels'[j].closed = channels[j].closed /\ channels'[j].from = channels[j].from
         /\ channels'[j].buf = channels[j].buf
         /\ j # k => channels'[j] = channels[j]
  BY <1>1, <1>5, <1>6
<1>8. channels'[k].held = 0
  BY <1>5, <1>6
<1> HIDE DEF row
<1>9. k \in Feeding /\ e0 \in InChannel(k)
  BY <1>1 DEF Feeding, InChannel
<1>10. /\ Feeding' = Feeding /\ Taken' = Taken \cup {e0} /\ Handled' = Handled
       /\ OpenChannels' = OpenChannels
  BY <1>1, <1>2, <1>5, <1>7 DEF Feeding, Taken, Handled, OpenChannels
<1>11. /\ InChannel(k)' = Range(channels[k].buf) /\ e0 \notin Range(channels[k].buf)
       /\ \A j \in Feeding : j # k => InChannel(j)' = InChannel(j)
       /\ \A j \in Feeding : InChannel(j)' \subseteq InChannel(j)
       /\ \A j \in DOMAIN channels : \A e : OnItsWay(j, e) => OnItsWay(j, e)' \/ e = e0
       /\ \A j \in DOMAIN channels : j # k => \A e : OnItsWay(j, e) => OnItsWay(j, e)'
  <2>1. InChannel(k)' = Range(channels[k].buf) /\ e0 \notin Range(channels[k].buf)
    BY <1>0, <1>1, <1>5, <1>7, <1>8, <1>9 DEF InChannel, OnceOnTheWay
  <2>2. /\ \A j \in Feeding : j # k => InChannel(j)' = InChannel(j)
        /\ \A j \in Feeding : InChannel(j)' \subseteq InChannel(j)
    BY <1>5, <1>7, <2>1 DEF InChannel, Feeding
  <2>3. /\ \A j \in DOMAIN channels : \A e : OnItsWay(j, e) => OnItsWay(j, e)' \/ e = e0
        /\ \A j \in DOMAIN channels : j # k => \A e : OnItsWay(j, e) => OnItsWay(j, e)'
    BY <1>1, <1>5, <1>7 DEF OnItsWay
  <2> QED BY <2>1, <2>2, <2>3
<1>12. /\ e0 \notin Taken /\ e0 \notin Range(queue)
       /\ \A j \in Feeding : j # k => e0 \notin InChannel(j)
       /\ \A j \in Feeding : j \in sending.to => sending.event # e0
  <2>1. e0 \notin Taken /\ e0 \notin Range(queue)
    BY <1>0, <1>9 DEF OnceOnTheWay, Upcoming
  <2>2. \A j \in Feeding : j # k => channels[j].project # events[e0].project
    BY <1>0, <1>9 DEF OneEach, FitsProject
  <2>3. \A j \in Feeding : j # k => e0 \notin InChannel(j)
    BY <1>0, <2>2 DEF FitsProject
  <2>4. \A j \in Feeding : j \in sending.to => sending.event # e0
    BY <1>0, <1>9, <2>2 DEF FitsProject, OnceOnTheWay
  <2> QED BY <2>1, <2>3, <2>4
<1>13. BusSound'
  <2>1. BusTyped'
    BY <1>0, <1>1, <1>2, <1>5 DEF BusTyped
  <2>2. Gone'
    BY <1>0, <1>1, <1>5 DEF Gone
  <2>3. \A c \in Clients : HasChannel(c)'
    <3>1. streams' = streams /\ \A c \in Clients : HasChannel(c)
      BY <1>0, <1>1 DEF Subscribed
    <3>2. DOMAIN channels' = DOMAIN channels
      BY <1>5
    <3> QED BY <1>7, <3>1, <3>2 DEF HasChannel
  <2>4. \A j \in DOMAIN channels : channels'[j].held # 0 => channels'[j].owner = Dispatcher
    BY <1>0, <1>7, <1>8 DEF Subscribed
  <2>5. Subscribed'
    BY <1>5, <2>3, <2>4 DEF Subscribed
  <2> QED BY <2>1, <2>2, <2>5 DEF BusSound
<1>14. Once'
  <2>1. OneEach'
    BY <1>0, <1>7, <1>10 DEF OneEach, Feeding
  <2>2. AllKnown'
    BY <1>0, <1>1, <1>9, <1>10, <1>11 DEF AllKnown, Known
  <2>3. Upcoming'
    BY <1>0, <1>1, <1>10, <1>11, <1>12 DEF Upcoming
  <2>4. OnceTaken'
    BY <1>0, <1>1, <1>2, <1>10, <1>12 DEF OnceTaken, Taken
  <2>5. ASSUME NEW j \in Feeding PROVE FitsProject(j)' /\ OnceOnTheWay(j)'
    <3>1. channels'[j].project = channels[j].project /\ channels'[j].buf = channels[j].buf
      BY <1>7 DEF Feeding
    <3>2. FitsProject(j)'
      BY <1>0, <1>1, <1>11, <3>1 DEF FitsProject
    <3>3. j \in sending.to => sending.event \notin InChannel(j)' \cup Taken'
      BY <1>0, <1>10, <1>11, <1>12 DEF OnceOnTheWay
    <3>4. InChannel(j)' \cap Taken' = {}
      BY <1>0, <1>9, <1>10, <1>11, <1>12 DEF OnceOnTheWay
    <3>5. channels'[j].held \notin Range(channels'[j].buf)
      <4>1. CASE j = k
        <5>1. 0 \notin InChannel(k)
          BY <1>0, <1>9, ChannelFacts DEF AllKnown, Known
        <5> QED BY <1>8, <3>1, <4>1, <5>1 DEF InChannel
      <4>2. CASE j # k
        BY <1>0, <1>7, <3>1, <4>2 DEF OnceOnTheWay, Feeding
      <4> QED BY <4>1, <4>2
    <3>6. Apart(channels'[j].buf)
      BY <1>0, <3>1 DEF OnceOnTheWay
    <3> QED BY <1>1, <3>2, <3>3, <3>4, <3>5, <3>6 DEF OnceOnTheWay
  <2> QED BY <1>10, <2>1, <2>2, <2>3, <2>4, <2>5 DEF Once
<1>15. ASSUME NEW c \in Clients PROVE StreamTold(c)'
  <2>1. streams[c].state = "open" => streams[c].channel \in DOMAIN channels \ {k}
    BY <1>0, <1>1, ClientsAssumption DEF Subscribed, HasChannel
  <2> QED BY <1>0, <1>1, <1>11, <2>1, StillTold
<1>16. DispatcherTold'
  <2>1. \A j \in OpenChannels : \A e \in DOMAIN events :
            OnItsWay(j, e) => OnItsWay(j, e)' \/ e \in Range(merged')
    BY <1>2, <1>11 DEF OpenChannels
  <2> QED BY <1>0, <1>1, <1>2, <1>5, <1>7, <1>10, <2>1, DispatcherStillTold
<1> QED BY <1>13, <1>14, <1>15, <1>16 DEF Told

(* The dispatcher is done with an event.                                    *)
LEMMA DispatchTells ==
  ASSUME Told, NEW configs, Dispatch(configs)
  PROVE  Told'
<1> DEFINE e0 == Head(merged)
<1>0. /\ BusTyped /\ Gone /\ Subscribed /\ OneEach /\ AllKnown /\ Upcoming /\ OnceTaken
      /\ \A j \in Feeding : FitsProject(j) /\ OnceOnTheWay(j)
      /\ \A c \in Clients : StreamTold(c)
      /\ DispatcherTold
  BY ToldParts
<1>1. /\ merged # <<>> /\ merged \in Seq(Nat) /\ merged' = Tail(merged)
      /\ UNCHANGED <<events, queue, listener, sending, channels, streams, tails, lost>>
  BY <1>0 DEF Dispatch, BusTyped
<1>2. /\ merged' \in Seq(Nat) /\ Range(merged) = {e0} \cup Range(merged')
      /\ Apart(merged) => Apart(merged') /\ e0 \notin Range(merged')
  BY <1>1, Beheaded
<1>3. PICK sent : dispatched' = Append(dispatched, [event |-> e0, sent |-> sent])
  BY DEF Dispatch
<1> DEFINE row == [event |-> e0, sent |-> sent]
           S == Range(dispatched) \cup {row}
<1>4. /\ dispatched' \in Seq(S) /\ Len(dispatched') = Len(dispatched) + 1
      /\ \A i \in DOMAIN dispatched : dispatched'[i] = dispatched[i]
      /\ dispatched'[Len(dispatched) + 1] = row
      /\ DOMAIN dispatched = 1..Len(dispatched) /\ Len(dispatched) \in Nat
      /\ DOMAIN dispatched' = 1..(Len(dispatched) + 1) /\ InRow(dispatched')
  <2>1. dispatched \in Seq(S) /\ row \in S
    BY <1>0, InRowWider DEF BusTyped
  <2>2. /\ dispatched' \in Seq(S) /\ Len(dispatched') = Len(dispatched) + 1
        /\ \A i \in DOMAIN dispatched : dispatched'[i] = dispatched[i]
        /\ dispatched'[Len(dispatched) + 1] = row
    <3>2. dispatched' = Append(dispatched, row)
      BY <1>3
    <3> HIDE DEF S, row
    <3>1. /\ Append(dispatched, row) \in Seq(S) /\ Len(Append(dispatched, row)) = Len(dispatched) + 1
          /\ \A i \in DOMAIN dispatched : Append(dispatched, row)[i] = dispatched[i]
          /\ Append(dispatched, row)[Len(dispatched) + 1] = row
      BY <2>1, Appended
    <3> QED BY <3>1, <3>2
  <2> HIDE DEF S, row
  <2>3. Len(dispatched) \in Nat /\ DOMAIN dispatched = 1..Len(dispatched)
    BY <2>1, RowFacts
  <2>4. DOMAIN dispatched' = 1..Len(dispatched') /\ InRow(dispatched')
    BY <2>2, RowFacts
  <2> QED BY <2>2, <2>3, <2>4
<1>5. row.event = e0
  OBVIOUS
<1> HIDE DEF row, S
<1>6. /\ Handled' = Handled \cup {e0} /\ Taken' = Taken
  <2>1. Handled' = Handled \cup {e0}
    <3>1. \A i \in DOMAIN dispatched : i \in DOMAIN dispatched' /\ dispatched'[i].event = dispatched[i].event
      BY <1>4
    <3>2. Len(dispatched) + 1 \in DOMAIN dispatched' /\ dispatched'[Len(dispatched) + 1].event = e0
      BY <1>4, <1>5
    <3>3. \A i \in DOMAIN dispatched' : i \in DOMAIN dispatched \/ i = Len(dispatched) + 1
      BY <1>4
    <3> QED BY <3>1, <3>2, <3>3 DEF Handled
  <2> QED BY <1>2, <2>1 DEF Taken
<1>7. Feeding' = Feeding /\ OpenChannels' = OpenChannels /\ \A j : InChannel(j)' = InChannel(j)
  BY <1>1 DEF Feeding, OpenChannels, InChannel
<1>8. BusSound'
  BY <1>0, <1>1, <1>2, <1>4 DEF BusSound, BusTyped, Gone, Subscribed, HasChannel
<1>9. Once'
  <2>1. OneEach' /\ AllKnown' /\ Upcoming'
    BY <1>0, <1>1, <1>6, <1>7 DEF OneEach, AllKnown, Upcoming, Known
  <2>2. OnceTaken'
    <3>1. Apart(merged') /\ Range(merged') \cap Handled' = {} /\ e0 \notin Handled
      BY <1>0, <1>2, <1>6 DEF OnceTaken
    <3>2. \A i \in DOMAIN dispatched : dispatched[i].event # e0
      BY <3>1 DEF Handled
    <3> QED BY <1>0, <1>4, <1>5, <3>1, <3>2 DEF OnceTaken
  <2>3. \A j \in Feeding : FitsProject(j)' /\ OnceOnTheWay(j)'
    BY <1>0, <1>1, <1>6, <1>7 DEF FitsProject, OnceOnTheWay
  <2> QED BY <1>7, <2>1, <2>2, <2>3 DEF Once
<1>10. ASSUME NEW c \in Clients PROVE StreamTold(c)'
  <2>1. \A j, e : OnItsWay(j, e) => OnItsWay(j, e)'
    BY <1>1 DEF OnItsWay
  <2> QED BY <1>0, <1>1, <2>1, StillTold
<1>11. DispatcherTold'
  <2>1. \A j, e : OnItsWay(j, e) => OnItsWay(j, e)'
    BY <1>1 DEF OnItsWay
  <2>2. \A e \in Range(merged) \cup Handled : e \in Range(merged') \/ e \in Handled'
    BY <1>2, <1>6
  <2> QED BY <1>0, <1>1, <2>1, <2>2, DispatcherStillTold
<1> QED BY <1>8, <1>9, <1>10, <1>11 DEF Told

-----------------------------------------------------------------------------
(* The streams.  What they do leaves the dispatcher's channels alone.       *)

LEMMA DispatcherAlone ==
  ASSUME Told, UNCHANGED <<events, queue, listener, sending, merged, dispatched>>, lost \subseteq lost',
         DOMAIN channels \subseteq DOMAIN channels',
         \A j \in DOMAIN channels : channels[j].owner = Dispatcher => UNCHANGED channels[j],
         \A j \in DOMAIN channels' : channels'[j].owner = Dispatcher =>
            j \in DOMAIN channels /\ channels[j].owner = Dispatcher
  PROVE  Once' /\ DispatcherTold'
<1>0. /\ BusTyped /\ OneEach /\ AllKnown /\ Upcoming /\ OnceTaken
      /\ \A j \in Feeding : FitsProject(j) /\ OnceOnTheWay(j)
      /\ DispatcherTold
  BY ToldParts
<1>1. Feeding' = Feeding /\ Taken' = Taken /\ Handled' = Handled
  BY DEF Feeding, Taken, Handled
<1>2. \A j \in Feeding : channels'[j] = channels[j] /\ InChannel(j)' = InChannel(j)
  BY DEF Feeding, InChannel
<1>3. Once'
  <2>1. OneEach' /\ AllKnown' /\ Upcoming' /\ OnceTaken'
    BY <1>0, <1>1, <1>2 DEF OneEach, AllKnown, Upcoming, OnceTaken, Known
  <2>2. \A j \in Feeding : FitsProject(j)' /\ OnceOnTheWay(j)'
    BY <1>0, <1>1, <1>2 DEF FitsProject, OnceOnTheWay
  <2> QED BY <1>1, <2>1, <2>2 DEF Once
<1>4. DispatcherTold'
  <2>1. \A k \in OpenChannels : channels[k].owner = Dispatcher =>
            \A e \in DOMAIN events : OnItsWay(k, e) => OnItsWay(k, e)'
    BY DEF OpenChannels, OnItsWay
  <2> QED BY <1>0, <1>1, <2>1, DispatcherStillTold
<1> QED BY <1>3, <1>4

LEMMA StreamSet ==
  ASSUME BusTyped, NEW c \in Clients, NEW row, streams' = [streams EXCEPT ![c] = row],
         StreamFields \subseteq DOMAIN row, row.project \in Nat
  PROVE  /\ streams'[c] = row /\ \A d \in Clients : d # c => streams'[d] = streams[d]
         /\ streams' = [d \in Clients |-> streams'[d]]
         /\ \A d \in Clients : StreamFields \subseteq DOMAIN streams'[d] /\ streams'[d].project \in Nat
<1>1. streams = [d \in Clients |-> streams[d]]
      /\ \A d \in Clients : StreamFields \subseteq DOMAIN streams[d] /\ streams[d].project \in Nat
  BY DEF BusTyped
<1>2. DOMAIN streams = Clients
  BY <1>1
<1>3. \A d \in Clients : streams'[d] = IF d = c THEN row ELSE streams[d]
  BY <1>2
<1>4. streams' = [d \in Clients |-> streams'[d]]
  BY <1>2
<1> QED BY <1>1, <1>3, <1>4

(* A stream shows the next event of its channel.                            *)
LEMMA DeliverTells ==
  ASSUME Told, NEW c \in Clients, Deliver(c)
  PROVE  Told'
<1> DEFINE k == streams[c].channel
           e0 == Head(channels[k].buf)
           row == [channels[k] EXCEPT !.buf = Tail(channels[k].buf)]
           shown == [streams[c] EXCEPT !.seen = streams[c].seen \cup {e0}, !.last = e0]
<1>0. /\ BusTyped /\ Gone /\ Subscribed /\ OneEach /\ AllKnown /\ Upcoming /\ OnceTaken
      /\ \A j \in Feeding : FitsProject(j) /\ OnceOnTheWay(j)
      /\ \A d \in Clients : StreamTold(d)
      /\ DispatcherTold
  BY ToldParts
<1>1. /\ streams[c].state = "open" /\ channels[k].buf # <<>>
      /\ streams' = [streams EXCEPT ![c] = shown]
      /\ channels' = [channels EXCEPT ![k] = row]
      /\ UNCHANGED <<events, queue, listener, sending, merged, dispatched, tails, lost>>
  BY DEF Deliver
<1>2. /\ k \in DOMAIN channels /\ channels[k].owner = c /\ channels[k].owner # Dispatcher
      /\ channels[k].buf \in Seq(Nat) /\ channels[k] \in ChannelRows
  BY <1>0, <1>1, ChannelFacts, ClientsAssumption DEF Subscribed, HasChannel
<1>3. /\ Head(channels[k].buf) \in Nat /\ Tail(channels[k].buf) \in Seq(Nat)
      /\ Range(channels[k].buf) = {e0} \cup Range(Tail(channels[k].buf))
  BY <1>1, <1>2, Beheaded
<1>4. row \in ChannelRows
  BY <1>2, <1>3 DEF ChannelRows
<1>5. /\ channels' \in Seq(ChannelRows) /\ DOMAIN channels' = DOMAIN channels
      /\ \A j \in DOMAIN channels : channels'[j] = IF j = k THEN row ELSE channels[j]
  BY <1>0, <1>1, <1>2, <1>4, Replaced DEF BusTyped
<1>6. /\ row.owner = c /\ row.project = channels[k].project /\ row.closed = channels[k].closed
      /\ row.held = channels[k].held /\ row.buf = Tail(channels[k].buf) /\ row.from = channels[k].from
  BY <1>2 DEF ChannelRows
<1>7. /\ StreamFields \subseteq DOMAIN shown /\ shown.project \in Nat
      /\ shown.state = "open" /\ shown.channel = k /\ shown.project = streams[c].project
      /\ shown.first = streams[c].first /\ shown.seen = streams[c].seen \cup {e0}
  BY <1>0, <1>1 DEF BusTyped, StreamFields
<1> HIDE DEF row, shown
<1>8. /\ streams'[c] = shown /\ \A d \in Clients : d # c => streams'[d] = streams[d]
      /\ streams' = [d \in Clients |-> streams'[d]]
      /\ \A d \in Clients : StreamFields \subseteq DOMAIN streams'[d] /\ streams'[d].project \in Nat
  BY <1>0, <1>1, <1>7, StreamSet
<1>9. BusSound'
  <2>1. BusTyped'
    BY <1>0, <1>1, <1>5, <1>8 DEF BusTyped
  <2>2. Gone'
    BY <1>0, <1>1, <1>2 DEF Gone
  <2>3. ASSUME NEW d \in Clients PROVE HasChannel(d)'
    <3>1. CASE d = c
      BY <1>0, <1>1, <1>2, <1>5, <1>6, <1>7, <1>8, <3>1 DEF Subscribed, HasChannel
    <3>2. CASE d # c
      BY <1>0, <1>2, <1>5, <1>8, <3>2 DEF Subscribed, HasChannel
    <3> QED BY <3>1, <3>2
  <2>4. \A j \in DOMAIN channels : channels'[j].held # 0 => channels'[j].owner = Dispatcher
    BY <1>0, <1>2, <1>5, <1>6 DEF Subscribed
  <2> QED BY <1>5, <2>1, <2>2, <2>3, <2>4 DEF BusSound, Subscribed
<1>10. Once' /\ DispatcherTold'
  BY <1>1, <1>2, <1>5, <1>6, ClientsAssumption, DispatcherAlone
<1>11. ASSUME NEW d \in Clients PROVE StreamTold(d)'
  <2>1. CASE d = c
    <3>1. \A e \in Unseen(c)' : e \in Unseen(c) /\ e # e0
      BY <1>1, <1>7, <1>8 DEF Unseen
    <3>2. \A e : e # e0 /\ OnItsWay(k, e) => OnItsWay(k, e)'
      BY <1>1, <1>2, <1>3, <1>5, <1>6, <1>7, <1>8 DEF OnItsWay
    <3>3. streams'[c].channel = k /\ streams'[c].state = "open"
      BY <1>7, <1>8
    <3>4. \A e \in Unseen(c)' : OnItsWay(k, e)' \/ Excused(c, e, Causes)'
      BY <1>0, <1>1, <3>1, <3>2 DEF StreamTold, Excused, Causes
    <3> QED BY <2>1, <3>3, <3>4 DEF StreamTold, Causes
  <2>2. CASE d # c
    <3>1. streams[d].state = "open" =>
              \A e : OnItsWay(streams[d].channel, e) => OnItsWay(streams[d].channel, e)'
      <4>1. streams[d].state = "open" => streams[d].channel \in DOMAIN channels \ {k}
        BY <1>0, <1>2, <2>2 DEF Subscribed, HasChannel
      <4> QED BY <1>1, <1>5, <1>8, <2>2, <4>1 DEF OnItsWay
    <3> QED BY <1>0, <1>1, <1>8, <2>2, <3>1, StillTold
  <2> QED BY <2>1, <2>2
<1> QED BY <1>9, <1>10, <1>11 DEF Told

(* A stream that ends closes its channel, and nobody else's.                *)
LEMMA EndTells ==
  ASSUME Told, NEW c \in Clients, StreamEnds(c)
  PROVE  Told'
<1>0. /\ BusTyped /\ Gone /\ Subscribed
      /\ \A d \in Clients : StreamTold(d)
  BY ToldParts
<1>1. PICK k : k = streams[c].channel
  OBVIOUS
<1> DEFINE row == [channels[k] EXCEPT !.closed = TRUE]
           left0 == [streams[c] EXCEPT !.state = "closed", !.channel = 0]
<1>2. /\ streams[c].state = "open"
      /\ streams' = [streams EXCEPT ![c] = left0]
      /\ channels' = [channels EXCEPT ![k] = row]
      /\ UNCHANGED <<events, queue, listener, sending, merged, dispatched, tails, lost>>
  BY <1>1 DEF StreamEnds, Leave
<1>3. /\ k \in DOMAIN channels /\ channels[k].owner = c /\ channels[k].owner # Dispatcher
      /\ channels[k] \in ChannelRows
  BY <1>0, <1>1, <1>2, ChannelFacts, ClientsAssumption DEF Subscribed, HasChannel
<1>4. row \in ChannelRows
  BY <1>3 DEF ChannelRows
<1>5. /\ channels' \in Seq(ChannelRows) /\ DOMAIN channels' = DOMAIN channels
      /\ \A j \in DOMAIN channels : channels'[j] = IF j = k THEN row ELSE channels[j]
  BY <1>0, <1>2, <1>3, <1>4, Replaced DEF BusTyped
<1>6. row.owner = c /\ row.held = channels[k].held
  BY <1>3 DEF ChannelRows
<1>7. /\ StreamFields \subseteq DOMAIN left0 /\ left0.project \in Nat /\ left0.state = "closed"
  BY <1>0 DEF BusTyped, StreamFields
<1> HIDE DEF row, left0
<1>8. /\ streams'[c] = left0 /\ \A d \in Clients : d # c => streams'[d] = streams[d]
      /\ streams' = [d \in Clients |-> streams'[d]]
      /\ \A d \in Clients : StreamFields \subseteq DOMAIN streams'[d] /\ streams'[d].project \in Nat
  BY <1>0, <1>2, <1>7, StreamSet
<1>9. BusSound'
  <2>1. BusTyped'
    BY <1>0, <1>2, <1>5, <1>8 DEF BusTyped
  <2>2. Gone'
    BY <1>0, <1>2 DEF Gone
  <2>3. ASSUME NEW d \in Clients PROVE HasChannel(d)'
    <3>1. CASE d = c
      BY <1>7, <1>8, <3>1 DEF HasChannel
    <3>2. CASE d # c
      BY <1>0, <1>3, <1>5, <1>8, <3>2 DEF Subscribed, HasChannel
    <3> QED BY <3>1, <3>2
  <2>4. \A j \in DOMAIN channels : channels'[j].held # 0 => channels'[j].owner = Dispatcher
    BY <1>0, <1>3, <1>5, <1>6 DEF Subscribed
  <2> QED BY <1>5, <2>1, <2>2, <2>3, <2>4 DEF BusSound, Subscribed
<1>10. Once' /\ DispatcherTold'
  BY <1>2, <1>3, <1>5, <1>6, ClientsAssumption, DispatcherAlone
<1>11. ASSUME NEW d \in Clients PROVE StreamTold(d)'
  <2>1. CASE d = c
    BY <1>7, <1>8, <2>1 DEF StreamTold
  <2>2. CASE d # c
    <3>1. streams[d].state = "open" =>
              \A e : OnItsWay(streams[d].channel, e) => OnItsWay(streams[d].channel, e)'
      <4>1. streams[d].state = "open" => streams[d].channel \in DOMAIN channels \ {k}
        BY <1>0, <1>3, <2>2 DEF Subscribed, HasChannel
      <4> QED BY <1>2, <1>5, <1>8, <2>2, <4>1 DEF OnItsWay
    <3> QED BY <1>0, <1>2, <1>8, <2>2, <3>1, StillTold
  <2> QED BY <2>1, <2>2
<1> QED BY <1>9, <1>10, <1>11 DEF Told

(* A stream gets a channel: what it has not seen is still to be notified,   *)
(* or excused.                                                              *)
LEMMA SubscribeTells ==
  ASSUME Told, NEW c \in Clients, Subscribe(c)
  PROVE  Told'
<1>0. /\ BusTyped /\ Gone /\ Subscribed
      /\ \A d \in Clients : StreamTold(d)
  BY ToldParts
<1>a. PICK n : n = Len(channels) + 1
  OBVIOUS
<1> DEFINE row == NewChannel(c, streams[c].project)
           open == [streams[c] EXCEPT !.state = "open", !.channel = n]
<1>1. /\ streams[c].state = "joining"
      /\ streams' = [streams EXCEPT ![c] = open]
      /\ channels' = Append(channels, row)
      /\ UNCHANGED <<events, queue, listener, sending, merged, dispatched, tails, lost>>
  BY <1>a DEF Subscribe
<1>2. /\ Len(channels) \in Nat /\ DOMAIN channels = 1..Len(channels)
      /\ sending.to \subseteq DOMAIN channels /\ Len(events) \in Nat
  BY <1>0, ChannelFacts
<1>3. row \in ChannelRows
  <2>1. Len(events) + 1 \in Nat \ {0} /\ streams[c].project \in Nat
    BY <1>0, <1>2 DEF BusTyped
  <2>2. <<>> \in Seq(Nat)
    OBVIOUS
  <2> QED BY <2>1, <2>2 DEF NewChannel, ChannelRows
<1>4. row.owner = c /\ row.project = streams[c].project /\ row.closed = FALSE /\ row.held = 0
  BY DEF NewChannel
<1>5. /\ StreamFields \subseteq DOMAIN open /\ open.project \in Nat /\ open.state = "open"
      /\ open.channel = n /\ open.project = streams[c].project
      /\ open.seen = streams[c].seen /\ open.first = streams[c].first
  BY <1>0 DEF BusTyped, StreamFields
<1> HIDE DEF row, open
<1>6. /\ channels' \in Seq(ChannelRows) /\ DOMAIN channels' = DOMAIN channels \cup {n}
      /\ n \notin DOMAIN channels /\ channels'[n] = row
      /\ \A j \in DOMAIN channels : channels'[j] = channels[j]
  <2>1. /\ Append(channels, row) \in Seq(ChannelRows) /\ Len(Append(channels, row)) = Len(channels) + 1
        /\ \A j \in DOMAIN channels : Append(channels, row)[j] = channels[j]
        /\ Append(channels, row)[Len(channels) + 1] = row
    BY <1>0, <1>3, Appended DEF BusTyped
  <2>2. /\ channels' \in Seq(ChannelRows) /\ Len(channels') = Len(channels) + 1
        /\ \A j \in DOMAIN channels : channels'[j] = channels[j]
        /\ channels'[Len(channels) + 1] = row
    BY <1>1, <2>1
  <2>3. DOMAIN channels' = 1..Len(channels')
    BY <2>2, RowFacts
  <2> QED BY <1>a, <1>2, <2>2, <2>3
<1>7. /\ streams'[c] = open /\ \A d \in Clients : d # c => streams'[d] = streams[d]
      /\ streams' = [d \in Clients |-> streams'[d]]
      /\ \A d \in Clients : StreamFields \subseteq DOMAIN streams'[d] /\ streams'[d].project \in Nat
  BY <1>0, <1>1, <1>5, StreamSet
<1>8. BusSound'
  <2>1. BusTyped'
    <3>1. sending \in [event : Nat, to : SUBSET (DOMAIN channels')]
      BY <1>0, <1>6 DEF BusTyped
    <3> QED BY <1>0, <1>1, <1>6, <1>7, <3>1 DEF BusTyped
  <2>2. Gone'
    BY <1>0, <1>1 DEF Gone
  <2>3. ASSUME NEW d \in Clients PROVE HasChannel(d)'
    <3>1. CASE d = c
      BY <1>4, <1>5, <1>6, <1>7, <3>1 DEF HasChannel
    <3>2. CASE d # c
      BY <1>0, <1>6, <1>7, <3>2 DEF Subscribed, HasChannel
    <3> QED BY <3>1, <3>2
  <2>4. \A j \in DOMAIN channels' : channels'[j].held # 0 => channels'[j].owner = Dispatcher
    BY <1>0, <1>4, <1>6 DEF Subscribed
  <2> QED BY <2>1, <2>2, <2>3, <2>4 DEF BusSound, Subscribed
<1>9. Once' /\ DispatcherTold'
  BY <1>1, <1>4, <1>6, ClientsAssumption, DispatcherAlone
<1>10. ASSUME NEW d \in Clients PROVE StreamTold(d)'
  <2>1. CASE d = c
    <3>1. Unseen(c)' = Unseen(c)
      BY <1>1, <1>5, <1>7 DEF Unseen
    <3>2. \A e \in Unseen(c) : e \in Range(queue) \/ Excused(c, e, LateCauses)
      BY <1>0, <1>1 DEF StreamTold, LateCauses
    <3>3. \A e \in Unseen(c) : OnItsWay(n, e)' \/ Excused(c, e, Causes)'
      BY <1>1, <3>2 DEF OnItsWay, Excused, Causes, LateCauses
    <3>4. streams'[c].state = "open" /\ streams'[c].channel = n
      BY <1>5, <1>7
    <3>5. \A e \in Unseen(c) : OnItsWay(streams[c].channel, e)' \/ Excused(c, e, Causes)'
      BY <3>3, <3>4 DEF OnItsWay
    <3> QED BY <2>1, <3>1, <3>4, <3>5 DEF StreamTold, Causes
  <2>2. CASE d # c
    <3>1. streams[d].state = "open" =>
              \A e : OnItsWay(streams[d].channel, e) => OnItsWay(streams[d].channel, e)'
      <4>1. streams[d].state = "open" => streams[d].channel \in DOMAIN channels
        BY <1>0 DEF Subscribed, HasChannel
      <4> QED BY <1>1, <1>6, <1>7, <2>2, <4>1 DEF OnItsWay
    <3> QED BY <1>0, <1>1, <1>7, <2>2, <3>1, StillTold
  <2> QED BY <2>1, <2>2
<1> QED BY <1>8, <1>9, <1>10 DEF Told

(* A step of one stream that has no channel, before it or after it.         *)
LEMMA StreamAloneTells ==
  ASSUME Told, NEW c \in Clients, NEW row, streams' = [streams EXCEPT ![c] = row],
         streams[c].state # "open", row.state # "open", listener # "off",
         StreamFields \subseteq DOMAIN row, row.project \in Nat, lost \subseteq lost',
         UNCHANGED <<events, queue, listener, sending, channels, merged, dispatched>>,
         row.state = "joining" => StreamTold(c)'
  PROVE  Told'
<1>0. /\ BusTyped /\ Gone /\ Subscribed
      /\ \A d \in Clients : StreamTold(d)
  BY ToldParts
<1>1. /\ streams'[c] = row /\ \A d \in Clients : d # c => streams'[d] = streams[d]
      /\ streams' = [d \in Clients |-> streams'[d]]
      /\ \A d \in Clients : StreamFields \subseteq DOMAIN streams'[d] /\ streams'[d].project \in Nat
  BY <1>0, StreamSet
<1>2. BusSound'
  <2>1. BusTyped'
    BY <1>0, <1>1 DEF BusTyped
  <2>2. Gone'
    BY DEF Gone
  <2>3. ASSUME NEW d \in Clients PROVE HasChannel(d)'
    <3>1. CASE d = c
      BY <1>1, <3>1 DEF HasChannel
    <3>2. CASE d # c
      BY <1>0, <1>1, <3>2 DEF Subscribed, HasChannel
    <3> QED BY <3>1, <3>2
  <2> QED BY <1>0, <2>1, <2>2, <2>3 DEF BusSound, Subscribed
<1>3. Once' /\ DispatcherTold'
  BY DispatcherAlone
<1>4. ASSUME NEW d \in Clients PROVE StreamTold(d)'
  <2>1. CASE d = c
    <3>1. CASE row.state = "joining"
      BY <2>1, <3>1
    <3>2. CASE row.state # "joining"
      BY <1>1, <2>1, <3>2 DEF StreamTold
    <3> QED BY <3>1, <3>2
  <2>2. CASE d # c
    <3>1. streams'[d] = streams[d] /\ \A j, e : OnItsWay(j, e) => OnItsWay(j, e)'
      BY <1>1, <2>2 DEF OnItsWay
    <3>2. streams[d].state = "open" =>
              \A e : OnItsWay(streams[d].channel, e) => OnItsWay(streams[d].channel, e)'
      BY <3>1
    <3> QED BY <1>0, <3>1, <3>2, StillTold
  <2> QED BY <2>1, <2>2
<1> QED BY <1>2, <1>3, <1>4 DEF Told

LEMMA ConnectTells ==
  ASSUME Told, NEW c \in Clients, NEW p \in Nat, Connect(c, p)
  PROVE  Told'
<1> DEFINE row == IF streams[c].project = p THEN [streams[c] EXCEPT !.state = "replaying"]
                  ELSE [Closed EXCEPT !.state = "replaying", !.project = p, !.first = Len(events) + 1]
<1>1. /\ streams[c].state = "closed" /\ DispatcherUp
      /\ streams' = [streams EXCEPT ![c] = row]
      /\ UNCHANGED <<events, queue, listener, sending, channels, merged, dispatched, tails, lost>>
  BY DEF Connect
<1>2. listener # "off"
  <2>1. DOMAIN channels # {}
    BY <1>1 DEF DispatcherUp, OpenChannels
  <2>2. Gone
    BY ToldParts
  <2> QED BY <2>1, <2>2 DEF Gone
<1>3. StreamFields \subseteq DOMAIN row /\ row.project \in Nat /\ row.state = "replaying"
  <2>1. StreamFields \subseteq DOMAIN streams[c] /\ streams[c].project \in Nat
    BY ToldParts DEF BusTyped
  <2>2. CASE streams[c].project = p
    BY <2>1, <2>2 DEF StreamFields
  <2>3. CASE streams[c].project # p
    BY <2>3 DEF StreamFields, Closed
  <2> QED BY <2>2, <2>3
<1> HIDE DEF row
<1> QED BY <1>1, <1>2, <1>3, StreamAloneTells

(* A replay shows what was missed: what is left is not after the last event *)
(* of the browser, or the replay failed.                                    *)
LEMMA ReplayTells ==
  ASSUME Told, NEW c \in Clients, Replay(c)
  PROVE  Told'
<1>1. PICK missed : missed = GetEventsSince(streams[c].project, streams[c].last)
  OBVIOUS
<1>0. /\ streams[c].state = "replaying"
      /\ UNCHANGED <<events, queue, listener, sending, channels, merged, dispatched, tails>>
      /\ StreamFields \subseteq DOMAIN streams[c] /\ streams[c].project \in Nat
      /\ listener # "off"
  BY ToldParts DEF Replay, BusTyped, Gone
<1>2. CASE \E shown \in SUBSET missed : \E e \in Latest(shown, streams[c].last) :
             /\ streams' = [streams EXCEPT
                         ![c].state = IF shown = missed THEN "joining" ELSE "closed",
                         ![c].seen = @ \cup shown, ![c].last = e]
             /\ lost' = lost \cup ({c} \X Older(c) \X {"older"})
  <2>a. PICK shown \in SUBSET missed : \E e \in Latest(shown, streams[c].last) :
             /\ streams' = [streams EXCEPT
                         ![c].state = IF shown = missed THEN "joining" ELSE "closed",
                         ![c].seen = @ \cup shown, ![c].last = e]
             /\ lost' = lost \cup ({c} \X Older(c) \X {"older"})
    BY <1>2
  <2>1. PICK e \in Latest(shown, streams[c].last) :
             /\ streams' = [streams EXCEPT
                         ![c].state = IF shown = missed THEN "joining" ELSE "closed",
                         ![c].seen = @ \cup shown, ![c].last = e]
             /\ lost' = lost \cup ({c} \X Older(c) \X {"older"})
    BY <2>a
  <2> DEFINE row == [streams[c] EXCEPT !.state = IF shown = missed THEN "joining" ELSE "closed",
                                       !.seen = streams[c].seen \cup shown, !.last = e]
  <2>2. streams' = [streams EXCEPT ![c] = row]
    BY <2>1
  <2>3. /\ StreamFields \subseteq DOMAIN row /\ row.project = streams[c].project
        /\ row.state = (IF shown = missed THEN "joining" ELSE "closed")
        /\ row.first = streams[c].first /\ row.seen = streams[c].seen \cup shown
    BY <1>0 DEF StreamFields
  <2> HIDE DEF row
  <2>4. streams'[c] = row
    BY <1>0, <2>2, <2>3, ToldParts, StreamSet
  <2>5. ASSUME shown = missed PROVE StreamTold(c)'
    <3>1. \A d \in Unseen(c)' : d \in Unseen(c) /\ d \notin missed
      BY <1>0, <2>3, <2>4, <2>5 DEF Unseen
    <3>2. \A d \in Unseen(c)' : d \in Older(c)
      BY <1>1, <3>1 DEF Older, Unseen, GetEventsSince
    <3>3. \A d \in Unseen(c)' : <<c, d, "older">> \in lost'
      BY <2>1, <3>2
    <3>4. streams'[c].state = "joining"
      BY <2>3, <2>4, <2>5
    <3> QED BY <3>3, <3>4 DEF StreamTold, Excused
  <2> QED BY <1>0, <2>1, <2>2, <2>3, <2>5, StreamAloneTells
<1>3. CASE /\ streams' = [streams EXCEPT ![c].state = "joining"]
           /\ lost' = lost \cup ({c} \X Unseen(c) \X {"replay failed"})
  <2> DEFINE row == [streams[c] EXCEPT !.state = "joining"]
  <2>2. streams' = [streams EXCEPT ![c] = row]
    BY <1>3
  <2>3. /\ StreamFields \subseteq DOMAIN row /\ row.project = streams[c].project
        /\ row.state = "joining" /\ row.first = streams[c].first /\ row.seen = streams[c].seen
    BY <1>0 DEF StreamFields
  <2> HIDE DEF row
  <2>4. streams'[c] = row
    BY <1>0, <2>2, <2>3, ToldParts, StreamSet
  <2>5. StreamTold(c)'
    <3>1. \A d \in Unseen(c)' : d \in Unseen(c)
      BY <1>0, <2>3, <2>4 DEF Unseen
    <3>2. \A d \in Unseen(c)' : <<c, d, "replay failed">> \in lost'
      BY <1>3, <3>1
    <3> QED BY <2>3, <2>4, <3>2 DEF StreamTold, Excused
  <2> QED BY <1>0, <1>3, <2>2, <2>3, <2>5, StreamAloneTells
<1> QED BY <1>1, <1>2, <1>3 DEF Replay

-----------------------------------------------------------------------------
(* The process goes, stops and comes back.                                  *)

LEMMA NothingLeft ==
  ASSUME Told,
         queue' = <<>>, channels' = <<>>, merged' = <<>>, dispatched' = <<>>, sending' = Idle,
         streams' = [c \in Clients |-> [streams[c] EXCEPT !.state = "closed", !.channel = 0]],
         UNCHANGED events
  PROVE  Told'
<1>1. /\ BusTyped /\ \A c \in Clients : StreamFields \subseteq DOMAIN streams[c]
      /\ \A c \in Clients : streams[c].project \in Nat
  BY ToldParts DEF BusTyped
<1>2. \A c \in Clients :
         /\ streams'[c].state = "closed" /\ streams'[c].project \in Nat
         /\ StreamFields \subseteq DOMAIN streams'[c]
  BY <1>1 DEF StreamFields
<1>3. /\ <<>> \in Seq(Nat) /\ <<>> \in Seq(ChannelRows) /\ InRow(<<>>) /\ DOMAIN <<>> = {}
      /\ Range(<<>>) = {} /\ Apart(<<>>)
  BY NothingIn
<1>4. BusSound'
  <2>1. BusTyped'
    <3>1. sending' \in [event : Nat, to : SUBSET (DOMAIN channels')]
      BY DEF Idle
    <3> QED BY <1>1, <1>2, <1>3, <3>1 DEF BusTyped
  <2>2. Gone'
    BY <1>2 DEF Gone
  <2>3. Subscribed'
    BY <1>2, <1>3 DEF Subscribed, HasChannel
  <2> QED BY <2>1, <2>2, <2>3 DEF BusSound
<1>5. Feeding' = {} /\ Taken' = {} /\ Handled' = {}
  BY <1>3 DEF Feeding, Taken, Handled
<1>6. Once'
  BY <1>3, <1>5 DEF Once, OneEach, AllKnown, Upcoming, OnceTaken, Idle
<1>7. \A c \in Clients : StreamTold(c)'
  BY <1>2 DEF StreamTold
<1>8. DispatcherTold'
  BY <1>3 DEF DispatcherTold, OpenChannels
<1> QED BY <1>4, <1>6, <1>7, <1>8 DEF Told

LEMMA GoneTells == ASSUME Told, ProcessGone PROVE Told'
  BY NothingLeft DEF ProcessGone

(* A step of the listener alone, with less in its queue or none.            *)
LEMMA ListenerTells ==
  ASSUME Told, UNCHANGED <<events, channels, streams, merged, dispatched>>,
         listener' # "off", lost \subseteq lost',
         \/ queue' = <<>> \/ queue' = queue,
         \/ sending' = sending \/ (sending.to = {} /\ sending' = Idle),
         \A e \in Range(queue) : e \in Range(queue') \/
            \A o \in Listening : <<o, e, "outage">> \in lost'
  PROVE  Told'
<1>0. /\ BusTyped /\ Gone /\ Subscribed /\ OneEach /\ AllKnown /\ Upcoming /\ OnceTaken
      /\ \A j \in Feeding : FitsProject(j) /\ OnceOnTheWay(j)
      /\ \A c \in Clients : StreamTold(c)
      /\ DispatcherTold
  BY ToldParts
<1>1. /\ <<>> \in Seq(Nat) /\ Range(<<>>) = {} /\ Apart(<<>>)
      /\ Idle \in [event : Nat, to : SUBSET (DOMAIN channels)] /\ Idle.event = 0 /\ Idle.to = {}
  BY NothingIn DEF Idle
<1>2. Range(queue') \subseteq Range(queue) /\ Apart(queue') /\ queue' \in Seq(Nat)
  BY <1>0, <1>1 DEF Upcoming, BusTyped
<1>3. sending'.to = sending.to /\ (sending' = sending \/ sending'.event = 0)
  BY <1>1
<1>4. Feeding' = Feeding /\ Taken' = Taken /\ Handled' = Handled /\ OpenChannels' = OpenChannels
      /\ \A j : InChannel(j)' = InChannel(j)
  BY DEF Feeding, Taken, Handled, OpenChannels, InChannel
<1>5. 0 \notin Range(queue)
  BY <1>0, ChannelFacts DEF AllKnown, Known
<1>6. BusSound'
  <2>1. sending' \in [event : Nat, to : SUBSET (DOMAIN channels)]
    BY <1>0, <1>1 DEF BusTyped
  <2>2. BusTyped'
    BY <1>0, <1>2, <2>1 DEF BusTyped
  <2>3. Gone'
    BY DEF Gone
  <2>4. Subscribed'
    BY <1>0 DEF Subscribed, HasChannel
  <2> QED BY <2>2, <2>3, <2>4 DEF BusSound
<1>7. Once'
  <2>1. OneEach' /\ OnceTaken'
    BY <1>0, <1>4 DEF OneEach, OnceTaken
  <2>2. AllKnown'
    BY <1>0, <1>2, <1>4 DEF AllKnown, Known
  <2>3. Upcoming'
    <3>1. sending'.event \notin Range(queue')
      BY <1>0, <1>2, <1>3, <1>5 DEF Upcoming
    <3> QED BY <1>0, <1>2, <1>4, <3>1 DEF Upcoming
  <2>4. ASSUME NEW j \in Feeding PROVE FitsProject(j)' /\ OnceOnTheWay(j)'
    <3>1. j \in sending'.to => j \in sending.to /\ sending' = sending
      BY <1>3
    <3> QED BY <1>0, <1>4, <3>1 DEF FitsProject, OnceOnTheWay
  <2> QED BY <1>4, <2>1, <2>2, <2>3, <2>4 DEF Once
<1>8. \A k, e : OnItsWay(k, e) => OnItsWay(k, e)' \/ e \in Range(queue)
  BY <1>3 DEF OnItsWay
<1>9. \A k, e : OnItsWay(k, e)' \/ (\A o \in Listening : <<o, e, "outage">> \in lost') \/ ~OnItsWay(k, e)
  BY <1>8 DEF OnItsWay
<1>10. ASSUME NEW c \in Clients PROVE StreamTold(c)'
  <2>1. streams[c].state \in {"open", "joining"} => c \in Listening
    BY DEF Listening, Past
  <2>2. streams[c].state \in {"open", "joining"} =>
            \A e : e \in Range(queue) => e \in Range(queue') \/ <<c, e, "outage">> \in lost'
    BY <2>1
  <2>3. streams[c].state = "open" =>
            \A e : OnItsWay(streams[c].channel, e) =>
                OnItsWay(streams[c].channel, e)' \/ <<c, e, "outage">> \in lost'
    BY <1>9, <2>1
  <2> QED BY <1>0, <2>2, <2>3, StillTold DEF Excused, Causes, LateCauses
<1>11. DispatcherTold'
  <2>1. ASSUME NEW k \in OpenChannels, channels[k].owner = Dispatcher, NEW e, OnItsWay(k, e)
        PROVE  OnItsWay(k, e)' \/ <<Dispatcher, e, "outage">> \in lost'
    <3>1. Dispatcher \in Listening
      BY <2>1 DEF Listening
    <3> QED BY <1>9, <2>1, <3>1
  <2>2. \A k \in OpenChannels : channels[k].owner = Dispatcher =>
            \A e \in DOMAIN events :
                OnItsWay(k, e) \/ e \in Range(merged) \/ e \in Handled =>
                    \/ OnItsWay(k, e)' \/ e \in Range(merged') \/ e \in Handled'
                    \/ Excused(Dispatcher, e, {"full", "outage"})'
    BY <1>4, <2>1 DEF Excused
  <2>3. \A k \in DOMAIN channels' : channels[k].owner' = Dispatcher =>
            /\ k \in DOMAIN channels
            /\ UNCHANGED <<channels[k].owner, channels[k].project, channels[k].from>>
            /\ channels[k].closed => channels[k].closed'
    OBVIOUS
  <2> QED BY <1>0, <2>2, <2>3, DispatcherStillTold
<1> QED BY <1>6, <1>7, <1>10, <1>11 DEF Told

(* The dispatcher leaves the bus: it closes its channels.                   *)
LEMMA StopTells ==
  ASSUME Told, StopAll
  PROVE  Told'
<1>0. /\ BusTyped /\ Gone /\ Subscribed /\ OneEach /\ AllKnown /\ Upcoming /\ OnceTaken
      /\ \A j \in Feeding : FitsProject(j) /\ OnceOnTheWay(j)
      /\ \A c \in Clients : StreamTold(c)
  BY ToldParts
<1>1. /\ listener \in {"listening", "lost"} /\ merged' = <<>>
      /\ channels' = [k \in DOMAIN channels |->
                        [channels[k] EXCEPT !.closed = channels[k].closed \/ channels[k].owner = Dispatcher]]
      /\ UNCHANGED <<events, queue, listener, sending, streams, dispatched, tails, lost>>
  BY DEF StopAll
<1>2. /\ DOMAIN channels' = DOMAIN channels
      /\ \A k \in DOMAIN channels :
            /\ channels'[k].owner = channels[k].owner /\ channels'[k].project = channels[k].project
            /\ channels'[k].buf = channels[k].buf /\ channels'[k].held = channels[k].held
            /\ channels[k].owner # Dispatcher => channels'[k] = channels[k]
            /\ channels[k].owner = Dispatcher => channels'[k].closed
            /\ channels'[k] \in ChannelRows
  <2>1. \A k \in DOMAIN channels : channels[k] \in ChannelRows
    BY <1>0, ChannelFacts
  <2>2. ASSUME NEW k \in DOMAIN channels
        PROVE  /\ channels'[k].owner = channels[k].owner /\ channels'[k].project = channels[k].project
               /\ channels'[k].buf = channels[k].buf /\ channels'[k].held = channels[k].held
               /\ channels[k].owner # Dispatcher => channels'[k] = channels[k]
               /\ channels[k].owner = Dispatcher => channels'[k].closed
               /\ channels'[k] \in ChannelRows
    <3>1. channels[k] \in ChannelRows /\ channels[k].closed \in BOOLEAN
      BY <2>1 DEF ChannelRows
    <3>2. CASE channels[k].owner = Dispatcher
      <4>1. channels'[k] = [channels[k] EXCEPT !.closed = TRUE]
        BY <1>1, <3>1, <3>2
      <4> QED BY <3>1, <3>2, <4>1 DEF ChannelRows
    <3>3. CASE channels[k].owner # Dispatcher
      <4>1. channels'[k] = [channels[k] EXCEPT !.closed = channels[k].closed]
        BY <1>1, <3>1, <3>3
      <4>2. channels'[k] = channels[k]
        BY <3>1, <4>1 DEF ChannelRows
      <4> QED BY <3>1, <3>3, <4>2
    <3> QED BY <3>2, <3>3
  <2> QED BY <1>1, <2>2
<1>3. channels' \in Seq(ChannelRows)
  <2>1. Len(channels) \in Nat /\ DOMAIN channels = 1..Len(channels)
    BY <1>0, ChannelFacts
  <2>2. channels' \in [1..Len(channels) -> ChannelRows]
    BY <1>1, <1>2, <2>1
  <2> QED BY <2>1, <2>2, SeqDef
<1>4. Feeding' = Feeding /\ Handled' = Handled /\ Taken' = Handled /\ Handled \subseteq Taken
      /\ \A j \in Feeding : InChannel(j)' = InChannel(j)
  <2>1. Feeding' = Feeding /\ \A j \in Feeding : InChannel(j)' = InChannel(j)
    BY <1>1, <1>2 DEF Feeding, InChannel
  <2> QED BY <1>1, <2>1, NothingIn DEF Taken, Handled
<1>5. BusSound'
  <2>1. BusTyped'
    BY <1>0, <1>1, <1>2, <1>3, NothingIn DEF BusTyped
  <2>2. Gone'
    BY <1>1 DEF Gone
  <2>3. ASSUME NEW c \in Clients PROVE HasChannel(c)'
    <3>1. streams' = streams
      BY <1>1
    <3>2. CASE streams[c].state # "open"
      BY <3>1, <3>2 DEF HasChannel
    <3>3. CASE streams[c].state = "open"
      <4>1. HasChannel(c)
        BY <1>0 DEF Subscribed
      <4>2. streams[c].channel \in DOMAIN channels /\ channels[streams[c].channel].owner # Dispatcher
        BY <3>3, <4>1, ClientsAssumption DEF HasChannel
      <4>3. channels'[streams[c].channel] = channels[streams[c].channel]
        BY <1>2, <4>2
      <4> QED BY <1>2, <3>1, <4>1, <4>3 DEF HasChannel
    <3> QED BY <3>2, <3>3
  <2> QED BY <1>0, <1>2, <2>1, <2>2, <2>3 DEF BusSound, Subscribed
<1>6. Once'
  <2>1. OneEach'
    BY <1>0, <1>2, <1>4 DEF OneEach, Feeding
  <2>2. AllKnown' /\ Upcoming'
    BY <1>0, <1>1, <1>4 DEF AllKnown, Upcoming, Known
  <2>3. OnceTaken'
    BY <1>0, <1>1, <1>4, NothingIn DEF OnceTaken
  <2>4. ASSUME NEW j \in Feeding PROVE FitsProject(j)' /\ OnceOnTheWay(j)'
    <3>1. j \in DOMAIN channels /\ channels'[j].project = channels[j].project
          /\ channels'[j].buf = channels[j].buf /\ channels'[j].held = channels[j].held
      BY <1>2 DEF Feeding
    <3>2. FitsProject(j)'
      BY <1>0, <1>1, <1>4, <3>1 DEF FitsProject
    <3>3. OnceOnTheWay(j)'
      BY <1>0, <1>1, <1>4, <3>1 DEF OnceOnTheWay
    <3> QED BY <3>2, <3>3
  <2> QED BY <1>4, <2>1, <2>2, <2>3, <2>4 DEF Once
<1>7. ASSUME NEW c \in Clients PROVE StreamTold(c)'
  <2>1. streams[c].state = "open" => streams[c].channel \in DOMAIN channels
    BY <1>0 DEF Subscribed, HasChannel
  <2>2. \A j \in DOMAIN channels : \A e : OnItsWay(j, e) => OnItsWay(j, e)'
    BY <1>1, <1>2 DEF OnItsWay
  <2> QED BY <1>0, <1>1, <2>1, <2>2, StillTold
<1>8. DispatcherTold'
  BY <1>2 DEF DispatcherTold, OpenChannels
<1> QED BY <1>5, <1>6, <1>7, <1>8 DEF Told

-----------------------------------------------------------------------------
(* The listener.                                                            *)

(* It copies the subscribers of the event's project: all of them, but those *)
(* between their replay and their subscription.                             *)
LEMMA NotificationTells ==
  ASSUME Told, HandleNotification
  PROVE  Told'
<1>0. /\ BusTyped /\ Gone /\ Subscribed /\ OneEach /\ AllKnown /\ Upcoming /\ OnceTaken
      /\ \A j \in Feeding : FitsProject(j) /\ OnceOnTheWay(j)
      /\ \A c \in Clients : StreamTold(c)
      /\ DispatcherTold
  BY ToldParts
<1>1. PICK e0 : e0 = Head(queue)
  OBVIOUS
<1>2. PICK to : to = {k \in OpenChannels : channels[k].project = events[e0].project}
  OBVIOUS
<1>3. /\ listener = "listening" /\ sending = Idle /\ queue # <<>> /\ queue' = Tail(queue)
      /\ sending' = [event |-> e0, to |-> to]
      /\ lost' = lost \cup ({c \in Clients : streams[c].state = "joining"} \X {e0} \X {"gap"})
      /\ UNCHANGED <<events, listener, channels, streams, merged, dispatched, tails>>
  BY <1>1, <1>2 DEF HandleNotification
<1>4. /\ e0 \in Nat /\ queue' \in Seq(Nat) /\ Range(queue) = {e0} \cup Range(queue')
      /\ Apart(queue') /\ e0 \notin Range(queue')
  BY <1>0, <1>1, <1>3, Beheaded DEF BusTyped, Upcoming
<1>5. sending'.event = e0 /\ sending'.to = to /\ sending.to = {} /\ to \subseteq DOMAIN channels
  BY <1>2, <1>3 DEF Idle, OpenChannels
<1>6. /\ Feeding' = Feeding /\ Taken' = Taken /\ Handled' = Handled /\ OpenChannels' = OpenChannels
      /\ \A j : InChannel(j)' = InChannel(j)
  BY <1>3 DEF Feeding, Taken, Handled, OpenChannels, InChannel
<1>7. BusSound'
  <2>1. sending' \in [event : Nat, to : SUBSET (DOMAIN channels)]
    BY <1>3, <1>4, <1>5
  <2>2. BusTyped'
    BY <1>0, <1>3, <1>4, <2>1 DEF BusTyped
  <2>3. Gone'
    BY <1>3 DEF Gone
  <2>4. Subscribed'
    BY <1>0, <1>3 DEF Subscribed, HasChannel
  <2> QED BY <2>2, <2>3, <2>4 DEF BusSound
<1>8. Once'
  <2>1. OneEach' /\ OnceTaken'
    BY <1>0, <1>3, <1>6 DEF OneEach, OnceTaken
  <2>2. AllKnown'
    BY <1>0, <1>3, <1>4, <1>5, <1>6 DEF AllKnown, Known
  <2>3. Upcoming'
    BY <1>0, <1>4, <1>5, <1>6 DEF Upcoming
  <2>4. ASSUME NEW j \in Feeding PROVE FitsProject(j)' /\ OnceOnTheWay(j)'
    <3>1. FitsProject(j)'
      BY <1>0, <1>2, <1>3, <1>5, <1>6 DEF FitsProject
    <3>2. e0 \notin InChannel(j) \cup Taken
      BY <1>0, <1>4 DEF Upcoming
    <3> QED BY <1>0, <1>3, <1>5, <1>6, <3>1, <3>2 DEF OnceOnTheWay
  <2> QED BY <1>6, <2>1, <2>2, <2>3, <2>4 DEF Once
<1>9. \A k \in OpenChannels : \A e :
         events[e].project = channels[k].project /\ OnItsWay(k, e) => OnItsWay(k, e)'
  BY <1>2, <1>3, <1>4, <1>5 DEF OnItsWay
<1>10. ASSUME NEW c \in Clients PROVE StreamTold(c)'
  <2>1. streams[c].state = "open" =>
            /\ streams[c].channel \in OpenChannels
            /\ channels[streams[c].channel].project = streams[c].project
    BY <1>0 DEF Subscribed, HasChannel, OpenChannels
  <2>2. streams[c].state = "open" =>
            \A e \in Unseen(c) : OnItsWay(streams[c].channel, e) => OnItsWay(streams[c].channel, e)'
    BY <1>3, <1>9, <2>1 DEF Unseen
  <2>3. streams[c].state = "joining" =>
            \A e : e \in Range(queue) => e \in Range(queue') \/ <<c, e, "gap">> \in lost'
    BY <1>3, <1>4
  <2> QED BY <1>0, <1>3, <2>2, <2>3, StillTold DEF Excused, LateCauses
<1>11. DispatcherTold'
  <2>1. SUFFICES ASSUME NEW k \in OpenChannels, channels[k].owner = Dispatcher,
                        NEW e \in channels[k].from..Len(events), events[e].project = channels[k].project
                 PROVE  \/ OnItsWay(k, e)' \/ e \in Range(merged) \/ e \in Handled
                        \/ Excused(Dispatcher, e, {"full", "outage"})'
    BY <1>3, <1>6 DEF DispatcherTold
  <2>2. \/ OnItsWay(k, e) \/ e \in Range(merged) \/ e \in Handled
        \/ Excused(Dispatcher, e, {"full", "outage"})
    BY <1>0, <2>1 DEF DispatcherTold
  <2> QED BY <1>3, <1>9, <2>1, <2>2 DEF Excused
<1> QED BY <1>7, <1>8, <1>10, <1>11 DEF Told

(* It sends the event to the next channel of the copy, drops it when that   *)
(* is full, or dies on one that was closed meanwhile.                       *)
LEMMA SendTells ==
  ASSUME Told, SendNext
  PROVE  Told'
<1>0. /\ BusTyped /\ Gone /\ Subscribed /\ OneEach /\ AllKnown /\ Upcoming /\ OnceTaken
      /\ \A j \in Feeding : FitsProject(j) /\ OnceOnTheWay(j)
      /\ \A c \in Clients : StreamTold(c)
      /\ DispatcherTold
  BY ToldParts
<1>1. PICK k \in sending.to :
         IF channels[k].closed THEN ProcessGone
         ELSE /\ channels' = IF Full(k) THEN channels
                             ELSE [channels EXCEPT ![k].buf = Append(channels[k].buf, sending.event)]
              /\ lost' = IF Full(k) THEN lost \cup {<<channels[k].owner, sending.event, "full">>}
                         ELSE lost
              /\ sending' = IF sending.to = {k} THEN Idle
                            ELSE [sending EXCEPT !.to = sending.to \ {k}]
              /\ UNCHANGED <<events, queue, listener, streams, merged, dispatched, tails>>
  BY DEF SendNext
<1>2. CASE channels[k].closed
  BY <1>1, <1>2, GoneTells
<1>3. CASE ~channels[k].closed
  <2>1. PICK e0 : e0 = sending.event
    OBVIOUS
  <2>2. /\ e0 \in Nat /\ sending # Idle /\ Known(e0) /\ e0 # 0 /\ k \in DOMAIN channels
        /\ sending.to \subseteq DOMAIN channels
        /\ channels[k] \in ChannelRows /\ channels[k].buf \in Seq(Nat)
    <3>1. sending # Idle
      BY DEF Idle
    <3> QED BY <1>0, <2>1, <3>1, ChannelFacts DEF AllKnown, Known
  <2>3. /\ UNCHANGED <<events, queue, listener, streams, merged, dispatched>>
        /\ lost \subseteq lost'
    BY <1>1, <1>3
  <2>4. /\ sending'.to = sending.to \ {k} /\ (sending'.event = e0 \/ (sending'.event = 0 /\ sending'.to = {}))
        /\ sending' \in [event : Nat, to : SUBSET (DOMAIN channels)]
        /\ sending' # Idle => sending'.event = e0
    <3>1. sending \in [event : Nat, to : SUBSET (DOMAIN channels)]
      BY <1>0 DEF BusTyped
    <3>2. CASE sending.to = {k}
      BY <1>1, <1>3, <3>2 DEF Idle
    <3>3. CASE sending.to # {k}
      BY <1>1, <1>3, <2>1, <3>1, <3>3
    <3> QED BY <3>2, <3>3
  <2>5. /\ channels' \in Seq(ChannelRows) /\ DOMAIN channels' = DOMAIN channels
        /\ \A j \in DOMAIN channels :
              /\ channels'[j].owner = channels[j].owner /\ channels'[j].project = channels[j].project
              /\ channels'[j].closed = channels[j].closed /\ channels'[j].from = channels[j].from
              /\ channels'[j].held = channels[j].held
              /\ j # k => channels'[j] = channels[j]
        /\ \/ channels'[k].buf = channels[k].buf /\ <<channels[k].owner, e0, "full">> \in lost'
           \/ /\ Range(channels'[k].buf) = Range(channels[k].buf) \cup {e0}
              /\ Apart(channels[k].buf) /\ e0 \notin Range(channels[k].buf) => Apart(channels'[k].buf)
    <3>1. CASE Full(k)
      BY <1>0, <1>1, <1>3, <2>1, <3>1 DEF BusTyped
    <3>2. CASE ~Full(k)
      <4> DEFINE row == [channels[k] EXCEPT !.buf = Append(channels[k].buf, e0)]
      <4>1. /\ Append(channels[k].buf, e0) \in Seq(Nat)
            /\ Range(Append(channels[k].buf, e0)) = Range(channels[k].buf) \cup {e0}
            /\ Apart(channels[k].buf) /\ e0 \notin Range(channels[k].buf)
                  => Apart(Append(channels[k].buf, e0))
        BY <2>2, AppendedNat
      <4>2. row \in ChannelRows
        BY <2>2, <4>1 DEF ChannelRows
      <4>3. channels' = [channels EXCEPT ![k] = row]
        BY <1>1, <1>3, <2>1, <3>2
      <4>4. /\ channels' \in Seq(ChannelRows) /\ DOMAIN channels' = DOMAIN channels
            /\ \A j \in DOMAIN channels : channels'[j] = IF j = k THEN row ELSE channels[j]
        BY <1>0, <2>2, <4>2, <4>3, Replaced DEF BusTyped
      <4>5. /\ row.owner = channels[k].owner /\ row.project = channels[k].project
            /\ row.closed = channels[k].closed /\ row.held = channels[k].held
            /\ row.from = channels[k].from /\ row.buf = Append(channels[k].buf, e0)
        BY <2>2 DEF ChannelRows
      <4> HIDE DEF row
      <4> QED BY <2>2, <4>1, <4>4, <4>5
    <3> QED BY <3>1, <3>2
  <2>6. Feeding' = Feeding /\ Taken' = Taken /\ Handled' = Handled /\ OpenChannels' = OpenChannels
    BY <2>3, <2>5 DEF Feeding, Taken, Handled, OpenChannels
  <2>7. \A j \in DOMAIN channels : /\ j # k => InChannel(j)' = InChannel(j)
                                   /\ InChannel(j)' \subseteq InChannel(j) \cup {e0}
    BY <2>2, <2>5 DEF InChannel
  <2>8. /\ \A j \in DOMAIN channels \ {k} : \A e : OnItsWay(j, e) => OnItsWay(j, e)'
        /\ \A e : OnItsWay(k, e) => OnItsWay(k, e)' \/ (e = e0 /\ <<channels[k].owner, e0, "full">> \in lost')
    <3>1. ASSUME NEW j \in DOMAIN channels \ {k}, NEW e, OnItsWay(j, e) PROVE OnItsWay(j, e)'
      <4>1. sending.event = e /\ j \in sending.to => sending'.event = e /\ j \in sending'.to
        BY <2>1, <2>4
      <4> QED BY <2>3, <2>5, <3>1, <4>1 DEF OnItsWay
    <3>2. ASSUME NEW e, OnItsWay(k, e)
          PROVE  OnItsWay(k, e)' \/ (e = e0 /\ <<channels[k].owner, e0, "full">> \in lost')
      BY <2>1, <2>2, <2>3, <2>5, <3>2 DEF OnItsWay
    <3> QED BY <3>1, <3>2
  <2>9. BusSound'
    <3>1. BusTyped'
      BY <1>0, <2>3, <2>4, <2>5 DEF BusTyped
    <3>2. Gone'
      BY <1>0, <2>2, <2>3 DEF Gone
    <3>3. ASSUME NEW c \in Clients PROVE HasChannel(c)'
      BY <1>0, <2>3, <2>5 DEF Subscribed, HasChannel
    <3> QED BY <1>0, <2>5, <3>1, <3>2, <3>3 DEF BusSound, Subscribed
  <2>10. Once'
    <3>1. OneEach'
      BY <1>0, <2>5, <2>6 DEF OneEach, Feeding
    <3>2. AllKnown'
      <4>1. \A j \in Feeding : \A e \in InChannel(j)' : e \in DOMAIN events
        BY <1>0, <2>2, <2>7 DEF AllKnown, Known, Feeding
      <4> QED BY <1>0, <2>2, <2>3, <2>4, <2>6, <4>1 DEF AllKnown, Known
    <3>3. Upcoming'
      <4>1. e0 \notin Range(queue) /\ 0 \notin Range(queue)
        BY <1>0, <2>1, ChannelFacts DEF Upcoming, AllKnown, Known
      <4>2. \A j \in Feeding : \A e \in Range(queue) : e \notin InChannel(j)'
        BY <1>0, <2>7, <4>1 DEF Upcoming, Feeding
      <4>3. sending'.event \notin Range(queue)
        BY <2>4, <4>1
      <4> QED BY <1>0, <2>3, <2>6, <4>2, <4>3 DEF Upcoming
    <3>4. OnceTaken'
      BY <1>0, <2>3, <2>6 DEF OnceTaken
    <3>5. ASSUME NEW j \in Feeding PROVE FitsProject(j)' /\ OnceOnTheWay(j)'
      <4>0. j \in DOMAIN channels
        BY DEF Feeding
      <4>1. CASE j # k
        <5>1. channels'[j] = channels[j] /\ InChannel(j)' = InChannel(j)
          BY <2>5, <2>7, <4>0, <4>1
        <5>2. j \in sending'.to => j \in sending.to /\ sending'.event = sending.event
          BY <2>1, <2>4
        <5> QED BY <1>0, <2>3, <2>6, <5>1, <5>2 DEF FitsProject, OnceOnTheWay
      <4>2. CASE j = k
        <5>1. k \notin sending'.to /\ events[e0].project = channels[k].project
          BY <1>0, <2>1, <2>4, <4>2 DEF FitsProject
        <5>2. FitsProject(k)'
          BY <1>0, <2>3, <2>5, <2>7, <4>0, <4>2, <5>1 DEF FitsProject
        <5>3. e0 \notin InChannel(k) /\ e0 \notin Taken
          BY <1>0, <2>1, <4>2 DEF OnceOnTheWay
        <5>4. e0 \notin Range(channels[k].buf) /\ e0 # channels[k].held
          BY <2>2, <5>3 DEF InChannel
        <5>5. Apart(channels'[k].buf) /\ channels'[k].held \notin Range(channels'[k].buf)
          BY <1>0, <2>5, <4>0, <4>2, <5>4 DEF OnceOnTheWay
        <5>6. InChannel(k)' \cap Taken' = {}
          BY <1>0, <2>6, <2>7, <4>0, <4>2, <5>3 DEF OnceOnTheWay
        <5> QED BY <4>2, <5>1, <5>2, <5>5, <5>6 DEF OnceOnTheWay
      <4> QED BY <4>1, <4>2
    <3> QED BY <2>6, <3>1, <3>2, <3>3, <3>4, <3>5 DEF Once
  <2>11. ASSUME NEW c \in Clients PROVE StreamTold(c)'
    <3>1. streams[c].state = "open" =>
              streams[c].channel \in DOMAIN channels /\ channels[streams[c].channel].owner = c
      BY <1>0 DEF Subscribed, HasChannel
    <3>2. streams[c].state = "open" =>
              \A e \in Unseen(c) : OnItsWay(streams[c].channel, e) =>
                  OnItsWay(streams[c].channel, e)' \/ <<c, e, "full">> \in lost'
      BY <2>3, <2>8, <3>1
    <3> QED BY <1>0, <2>3, <3>2, StillTold DEF Excused, Causes
  <2>12. DispatcherTold'
    <3>1. ASSUME NEW j \in OpenChannels, channels[j].owner = Dispatcher, NEW e, OnItsWay(j, e)
          PROVE  OnItsWay(j, e)' \/ <<Dispatcher, e, "full">> \in lost'
      BY <2>8, <3>1 DEF OpenChannels
    <3>2. \A j \in OpenChannels : channels[j].owner = Dispatcher =>
              \A e \in DOMAIN events :
                  OnItsWay(j, e) \/ e \in Range(merged) \/ e \in Handled =>
                      \/ OnItsWay(j, e)' \/ e \in Range(merged') \/ e \in Handled'
                      \/ Excused(Dispatcher, e, {"full", "outage"})'
      BY <2>3, <2>6, <3>1 DEF Excused
    <3> QED BY <1>0, <2>3, <2>5, <3>2, DispatcherStillTold
  <2> QED BY <2>9, <2>10, <2>11, <2>12 DEF Told
<1> QED BY <1>2, <1>3

-----------------------------------------------------------------------------
(* The dispatcher subscribes to each project once.                          *)
LEMMA EachProjectOnce ==
  ASSUME NEW T, InRow(T)
  PROVE  DispatcherProjects(T) \in Seq(Nat) /\ Apart(DispatcherProjects(T))
<1>1. CASE Live(T) = {}
  <2>1. DispatcherProjects(T) = <<0>>
    BY <1>1 DEF DispatcherProjects
  <2> QED BY <2>1 DEF Apart
<1>2. CASE Live(T) # {}
  <2>1. Len(T) \in Nat /\ DOMAIN T = 1..Len(T)
    BY RowFacts DEF InRow
  <2>2. Live(T) \subseteq 1..Len(T)
    BY <2>1 DEF Live
  <2>3. IsFiniteSet(Live(T))
    <3>1. PICK I : I = 1..Len(T)
      OBVIOUS
    <3>2. IsFiniteSet(I)
      BY <2>1, <3>1, FS_Interval
    <3>3. Live(T) \in SUBSET I
      BY <2>2, <3>1
    <3> QED BY <3>2, <3>3, FS_Subset
  <2>4. PICK n \in Nat : ExistsBijection(1..n, Live(T))
    BY <2>3, FS_NatBijection
  <2>5. Cardinality(Live(T)) = n
    BY <2>4, FS_CountingElements
  <2>6. \E f \in [1..n -> Live(T)] : IsInjective(f)
    BY <2>4 DEF ExistsBijection, Bijection, Injection
  <2>7. /\ SetToSeq(Live(T)) \in [1..n -> Live(T)] /\ IsInjective(SetToSeq(Live(T)))
    BY <2>5, <2>6 DEF SetToSeq
  <2>8. DispatcherProjects(T) = SetToSeq(Live(T))
    BY <1>2 DEF DispatcherProjects
  <2>9. DispatcherProjects(T) \in [1..n -> Nat]
    BY <2>1, <2>2, <2>7, <2>8
  <2>10. DispatcherProjects(T) \in Seq(Nat)
    BY <2>9, SeqDef
  <2> QED BY <2>7, <2>8, <2>10 DEF Apart, IsInjective
<1> QED BY <1>1, <1>2

LEMMA FreshChannels ==
  ASSUME NEW T, InRow(T), NEW n \in Nat \ {0},
         NEW fresh,
         fresh = [k \in DOMAIN DispatcherProjects(T) |->
                    [owner |-> Dispatcher, project |-> DispatcherProjects(T)[k],
                     buf |-> <<>>, closed |-> FALSE, held |-> 0, from |-> n]]
  PROVE  /\ fresh \in Seq(ChannelRows)
         /\ \A k \in DOMAIN fresh :
               /\ fresh[k].owner = Dispatcher /\ fresh[k].buf = <<>>
               /\ fresh[k].held = 0 /\ fresh[k].from = n
         /\ \A j, k \in DOMAIN fresh : fresh[j].project = fresh[k].project => j = k
<1>1. PICK s : s = DispatcherProjects(T)
  OBVIOUS
<1>2. s \in Seq(Nat) /\ Apart(s)
  BY <1>1, EachProjectOnce
<1>3. Len(s) \in Nat /\ DOMAIN s = 1..Len(s) /\ \A k \in DOMAIN s : s[k] \in Nat
  BY <1>2, RowFacts
<1>4. /\ DOMAIN fresh = DOMAIN s
      /\ \A k \in DOMAIN s :
            fresh[k] = [owner |-> Dispatcher, project |-> s[k], buf |-> <<>>, closed |-> FALSE,
                        held |-> 0, from |-> n]
  BY <1>1
<1>5. \A k \in DOMAIN s : /\ fresh[k].owner = Dispatcher /\ fresh[k].buf = <<>> /\ fresh[k].held = 0
                          /\ fresh[k].from = n /\ fresh[k].project = s[k]
  BY <1>4
<1>6. \A k \in DOMAIN s : fresh[k] \in ChannelRows
  BY <1>3, <1>4, NothingIn DEF ChannelRows
<1>7. fresh \in [1..Len(s) -> ChannelRows]
  BY <1>1, <1>3, <1>4, <1>6
<1>8. fresh \in Seq(ChannelRows)
  BY <1>3, <1>7, SeqDef
<1> QED BY <1>2, <1>4, <1>5, <1>8 DEF Apart

LEMMA RunTells ==
  ASSUME Told, InRow(db.projects), DispatcherRun(db.projects)
  PROVE  Told'
<1>0. BusTyped /\ Gone
  BY ToldParts
<1>1. /\ listener' # "off" /\ queue = <<>> /\ sending = Idle /\ merged = <<>> /\ dispatched = <<>>
      /\ \A c \in Clients : streams[c].state = "closed"
      /\ UNCHANGED <<events, queue, sending, streams, merged, dispatched, tails, lost>>
  BY <1>0 DEF DispatcherRun, Gone
<1>2. PICK n \in Nat \ {0} : n = Len(events) + 1
  BY <1>0, ChannelFacts
<1>3. /\ channels' \in Seq(ChannelRows)
      /\ \A k \in DOMAIN channels' :
            /\ channels'[k].owner = Dispatcher /\ channels'[k].buf = <<>>
            /\ channels'[k].held = 0 /\ channels'[k].from = n
      /\ \A j, k \in DOMAIN channels' : channels'[j].project = channels'[k].project => j = k
  <2>1. channels' = [k \in DOMAIN DispatcherProjects(db.projects) |->
                      [owner |-> Dispatcher, project |-> DispatcherProjects(db.projects)[k],
                       buf |-> <<>>, closed |-> FALSE, held |-> 0, from |-> n]]
    BY <1>2 DEF DispatcherRun, NewChannel
  <2> QED BY <2>1, FreshChannels
<1>4. sending'.event = 0 /\ sending'.to = {} /\ sending' = Idle
      /\ sending' \in [event : Nat, to : SUBSET (DOMAIN channels')]
  BY <1>1 DEF Idle
<1>5. BusSound'
  <2>1. BusTyped'
    BY <1>0, <1>1, <1>3, <1>4 DEF BusTyped
  <2>2. Gone'
    BY <1>1 DEF Gone
  <2>3. Subscribed'
    BY <1>1, <1>3 DEF Subscribed, HasChannel
  <2> QED BY <2>1, <2>2, <2>3 DEF BusSound
<1>6. Taken' = {} /\ \A k \in DOMAIN channels' : InChannel(k)' = {}
  BY <1>1, <1>3, NothingIn DEF Taken, Handled, InChannel
<1>7. Once'
  <2>1. OneEach'
    BY <1>3 DEF OneEach, Feeding
  <2>2. AllKnown' /\ Upcoming' /\ OnceTaken'
    BY <1>1, <1>4, <1>6, NothingIn DEF AllKnown, Upcoming, OnceTaken, Taken, Feeding
  <2>3. \A k \in Feeding' : FitsProject(k)' /\ OnceOnTheWay(k)'
    BY <1>3, <1>4, <1>6, NothingIn DEF FitsProject, OnceOnTheWay, Feeding
  <2> QED BY <2>1, <2>2, <2>3 DEF Once
<1>8. \A c \in Clients : StreamTold(c)'
  BY <1>1 DEF StreamTold
<1>9. DispatcherTold'
  <2>1. ASSUME NEW k \in OpenChannels', NEW e \in channels[k].from'..Len(events)' PROVE FALSE
    <3>1. e \in n..Len(events) /\ Len(events) \in Nat
      BY <1>0, <1>1, <1>3, <2>1, ChannelFacts DEF OpenChannels
    <3> QED BY <1>2, <3>1
  <2> QED BY <2>1 DEF DispatcherTold
<1> QED BY <1>5, <1>7, <1>8, <1>9 DEF Told

LEMMA StartTells ==
  ASSUME Init
  PROVE  Told
<1>1. PICK s \in Scenarios : /\ AdminInit(s.db, s.plan)
                             /\ TelemetryInit(s.db.projects, DOMAIN s.db.steps)
  BY DEF Init
<1>2. /\ events = <<>> /\ queue = <<>> /\ sending = Idle /\ merged = <<>> /\ dispatched = <<>>
      /\ listener # "off" /\ streams = [c \in Clients |-> Closed]
  BY <1>1 DEF TelemetryInit
<1>3. /\ channels \in Seq(ChannelRows)
      /\ \A k \in DOMAIN channels :
            /\ channels[k].owner = Dispatcher /\ channels[k].buf = <<>>
            /\ channels[k].held = 0 /\ channels[k].from = 1
      /\ \A j, k \in DOMAIN channels : channels[j].project = channels[k].project => j = k
  <2>1. channels = [k \in DOMAIN DispatcherProjects(s.db.projects) |->
                      [owner |-> Dispatcher, project |-> DispatcherProjects(s.db.projects)[k],
                       buf |-> <<>>, closed |-> FALSE, held |-> 0, from |-> 1]]
    BY <1>1 DEF TelemetryInit
  <2>2. InRow(s.db.projects)
    BY ScenariosAssumption DEF InRow, Fits, ProjectsFit, Rows
  <2>3. 1 \in Nat \ {0}
    OBVIOUS
  <2> QED BY <2>1, <2>2, <2>3, FreshChannels
<1>4. /\ sending.event = 0 /\ sending.to = {}
      /\ sending \in [event : Nat, to : SUBSET (DOMAIN channels)]
  BY <1>2 DEF Idle
<1>5. \A c \in Clients : /\ streams[c].state = "closed" /\ streams[c].project \in Nat
                         /\ StreamFields \subseteq DOMAIN streams[c]
  BY <1>2 DEF Closed, StreamFields
<1>6. BusSound
  <2>1. BusTyped
    BY <1>2, <1>3, <1>4, <1>5, NothingIn DEF BusTyped
  <2>2. Gone
    BY <1>2 DEF Gone
  <2>3. Subscribed
    BY <1>3, <1>5 DEF Subscribed, HasChannel
  <2> QED BY <2>1, <2>2, <2>3 DEF BusSound
<1>7. Taken = {} /\ \A k \in DOMAIN channels : InChannel(k) = {}
  BY <1>2, <1>3, NothingIn DEF Taken, Handled, InChannel
<1>8. Once
  <2>1. OneEach
    BY <1>3 DEF OneEach, Feeding
  <2>2. AllKnown /\ Upcoming /\ OnceTaken
    BY <1>2, <1>4, <1>7, NothingIn DEF AllKnown, Upcoming, OnceTaken, Taken, Feeding
  <2>3. \A k \in Feeding : FitsProject(k) /\ OnceOnTheWay(k)
    BY <1>3, <1>4, <1>7, NothingIn DEF FitsProject, OnceOnTheWay, Feeding
  <2> QED BY <2>1, <2>2, <2>3 DEF Once
<1>9. \A c \in Clients : StreamTold(c)
  BY <1>5 DEF StreamTold
<1>10. DispatcherTold
  <2>1. ASSUME NEW k \in OpenChannels, NEW e \in channels[k].from..Len(events) PROVE FALSE
    <3>1. e \in 1..Len(events) /\ Len(events) = 0
      BY <1>2, <1>3, <2>1 DEF OpenChannels
    <3> QED BY <3>1
  <2> QED BY <2>1 DEF DispatcherTold
<1> QED BY <1>6, <1>8, <1>9, <1>10 DEF Told

-----------------------------------------------------------------------------
(* Publishing: new events are notified, or lost for whoever listens.        *)
LEMMA CreateTells ==
  ASSUME Told, NEW p, NEW name, NEW ats, InRow(ats), CreateEvents(p, name, ats), listener # "off",
         UNCHANGED <<listener, sending, channels, streams, merged, dispatched>>
  PROVE  Told'
<1>0. /\ BusTyped /\ Gone /\ Subscribed /\ OneEach /\ AllKnown /\ Upcoming /\ OnceTaken
      /\ \A j \in Feeding : FitsProject(j) /\ OnceOnTheWay(j)
      /\ \A c \in Clients : StreamTold(c)
      /\ DispatcherTold
  BY ToldParts
<1> DEFINE rows == [k \in DOMAIN ats |-> [project |-> p, name |-> name, at |-> ats[k]]]
           ids == [k \in DOMAIN ats |-> Len(events) + k]
<1>1. /\ events' = events \o rows
      /\ \/ listener = "listening" /\ queue' = queue \o ids /\ lost' = lost
         \/ queue' = queue /\ lost' = lost \cup (Listening \X Range(ids) \X {"outage"})
  BY DEF CreateEvents
<1>2. PICK m, n : /\ m = Len(ats) /\ n = Len(events) /\ m \in Nat /\ n \in Nat
                  /\ DOMAIN ats = 1..m /\ DOMAIN events = 1..n
  <2>1. Len(ats) \in Nat /\ DOMAIN ats = 1..Len(ats)
    BY RowFacts DEF InRow
  <2>2. Len(events) \in Nat /\ DOMAIN events = 1..Len(events)
    BY <1>0, RowFacts DEF InRow, BusTyped
  <2> QED BY <2>1, <2>2
<1>3. /\ events' \in Seq(Range(events) \cup Range(rows)) /\ Len(events') = n + m
      /\ \A e \in DOMAIN events : events'[e] = events[e]
  <2>1. PICK S : S = Range(events) \cup Range(rows)
    OBVIOUS
  <2>2. events \in Seq(S)
    BY <1>0, <2>1, InRowWider DEF BusTyped
  <2>3. rows \in Seq(S) /\ Len(rows) = m
    <3>1. DOMAIN rows = 1..m /\ \A k \in 1..m : rows[k] \in Range(rows)
      BY <1>2 DEF Range
    <3> HIDE DEF rows
    <3>2. \A k \in 1..m : rows[k] \in S
      BY <2>1, <3>1
    <3>3. rows = [k \in 1..m |-> rows[k]]
      BY <1>2 DEF rows
    <3>4. rows \in [1..m -> S]
      BY <3>2, <3>3
    <3>5. rows \in Seq(S)
      BY <1>2, <3>4, SeqDef
    <3> QED BY <1>2, <3>1, <3>5, RowFacts
  <2> HIDE DEF rows
  <2>4. /\ events \o rows \in Seq(S) /\ Len(events \o rows) = Len(events) + Len(rows)
        /\ \A e \in DOMAIN events : (events \o rows)[e] = events[e]
    BY <2>2, <2>3, Joined
  <2> QED BY <1>1, <1>2, <2>1, <2>3, <2>4
<1>4. /\ InRow(events') /\ DOMAIN events' = 1..(n + m)
  BY <1>3, RowFacts
<1>5. /\ ids \in Seq(Nat) /\ Apart(ids) /\ \A e : e \in Range(ids) <=> e \in (n + 1)..(n + m)
  <2>1. ids \in [1..m -> Nat]
    BY <1>2
  <2>2. ids \in Seq(Nat)
    BY <1>2, <2>1, SeqDef
  <2>3. Apart(ids)
    BY <1>2 DEF Apart
  <2>4. ASSUME NEW e \in (n + 1)..(n + m) PROVE e \in Range(ids)
    <3>1. e - n \in DOMAIN ids /\ ids[e - n] = e
      BY <1>2
    <3> HIDE DEF ids
    <3> QED BY <3>1, InRange
  <2>5. ASSUME NEW e \in Range(ids) PROVE e \in (n + 1)..(n + m)
    <3>1. PICK k \in DOMAIN ids : e = ids[k]
      BY InRange
    <3> QED BY <1>2, <3>1
  <2> QED BY <2>2, <2>3, <2>4, <2>5
<1> HIDE DEF rows, ids
<1>6. \A e \in Range(ids) : /\ e \notin DOMAIN events /\ e # 0 /\ e \in DOMAIN events'
                            /\ e \notin Range(queue) /\ e \notin Taken /\ e # sending.event
                            /\ \A k \in Feeding : e \notin InChannel(k)
  <2>1. \A e \in Range(ids) : e \notin DOMAIN events /\ e # 0 /\ e \in DOMAIN events'
    BY <1>2, <1>4, <1>5
  <2>2. sending = Idle => sending.event = 0
    BY DEF Idle
  <2> QED BY <1>0, <2>1, <2>2 DEF AllKnown, Known
<1>7. /\ queue' \in Seq(Nat) /\ Apart(queue') /\ lost \subseteq lost'
      /\ \/ Range(queue') = Range(queue) \cup Range(ids)
         \/ /\ Range(queue') = Range(queue)
            /\ \A o \in Listening, e \in Range(ids) : <<o, e, "outage">> \in lost'
  <2>1. CASE queue' = queue \o ids /\ lost' = lost
    <3>1. /\ queue \in Seq(Nat) /\ ids \in Seq(Nat) /\ Apart(queue) /\ Apart(ids)
          /\ Range(queue) \cap Range(ids) = {}
      BY <1>0, <1>5, <1>6 DEF BusTyped, Upcoming
    <3>2. /\ queue \o ids \in Seq(Nat) /\ Range(queue \o ids) = Range(queue) \cup Range(ids)
          /\ Apart(queue \o ids)
      BY <3>1, Joined
    <3> QED BY <2>1, <3>2
  <2>2. CASE queue' = queue /\ lost' = lost \cup (Listening \X Range(ids) \X {"outage"})
    BY <1>0, <2>2 DEF BusTyped, Upcoming
  <2> QED BY <1>1, <2>1, <2>2
<1>8. /\ Feeding' = Feeding /\ Taken' = Taken /\ Handled' = Handled /\ OpenChannels' = OpenChannels
      /\ \A j : InChannel(j)' = InChannel(j)
      /\ DOMAIN events \subseteq DOMAIN events'
  BY <1>2, <1>4 DEF Feeding, Taken, Handled, OpenChannels, InChannel
<1>9. BusSound'
  <2>1. BusTyped'
    BY <1>0, <1>4, <1>7 DEF BusTyped
  <2>2. Gone'
    BY DEF Gone
  <2>3. Subscribed'
    BY <1>0 DEF Subscribed, HasChannel
  <2> QED BY <2>1, <2>2, <2>3 DEF BusSound
<1>10. Once'
  <2>1. OneEach' /\ OnceTaken'
    BY <1>0, <1>8 DEF OneEach, OnceTaken
  <2>2. AllKnown'
    BY <1>0, <1>6, <1>7, <1>8 DEF AllKnown, Known
  <2>3. Upcoming'
    BY <1>0, <1>6, <1>7, <1>8 DEF Upcoming
  <2>4. ASSUME NEW j \in Feeding PROVE FitsProject(j)' /\ OnceOnTheWay(j)'
    <3>1. \A e \in InChannel(j) : events'[e] = events[e]
      BY <1>0, <1>3 DEF AllKnown, Known
    <3>2. j \in sending.to => events'[sending.event] = events[sending.event]
      BY <1>0, <1>3 DEF AllKnown, Known, Idle
    <3> QED BY <1>0, <1>8, <3>1, <3>2 DEF FitsProject, OnceOnTheWay
  <2> QED BY <1>8, <2>1, <2>2, <2>3, <2>4 DEF Once
<1>11. \A e \in DOMAIN events' : e \in DOMAIN events \/ e \in Range(ids)
  BY <1>2, <1>4, <1>5
<1>12. /\ \A k, e : OnItsWay(k, e) => OnItsWay(k, e)'
       /\ \A o \in Listening, e \in Range(ids) : e \in Range(queue') \/ <<o, e, "outage">> \in lost'
  BY <1>7 DEF OnItsWay
<1>13. \A o, e, C : Excused(o, e, C) => Excused(o, e, C)'
  BY <1>7 DEF Excused
<1>14. ASSUME NEW c \in Clients PROVE StreamTold(c)'
  <2>1. SUFFICES ASSUME NEW e \in Unseen(c)', streams[c].state \in {"open", "joining"}
                 PROVE  /\ streams[c].state = "open" =>
                              OnItsWay(streams[c].channel, e)' \/ Excused(c, e, Causes)'
                        /\ streams[c].state = "joining" =>
                              e \in Range(queue') \/ Excused(c, e, LateCauses)'
    BY DEF StreamTold, Causes, LateCauses
  <2>2. CASE e \in DOMAIN events
    <3>1. e \in Unseen(c)
      BY <1>3, <2>1, <2>2 DEF Unseen
    <3>2. /\ streams[c].state = "open" =>
                OnItsWay(streams[c].channel, e) \/ Excused(c, e, Causes)
          /\ streams[c].state = "joining" => e \in Range(queue) \/ Excused(c, e, LateCauses)
      BY <1>0, <3>1 DEF StreamTold, Causes, LateCauses
    <3>3. Range(queue) \subseteq Range(queue')
      BY <1>7
    <3> QED BY <1>12, <1>13, <3>2, <3>3
  <2>3. CASE e \notin DOMAIN events
    <3>1. e \in Range(ids) /\ c \in Listening
      BY <1>11, <2>1, <2>3 DEF Unseen, Listening, Past
    <3>2. e \in Range(queue') \/ <<c, e, "outage">> \in lost'
      BY <1>12, <3>1
    <3> QED BY <3>2 DEF OnItsWay, Excused, Causes, LateCauses
  <2> QED BY <2>2, <2>3
<1>15. DispatcherTold'
  <2>1. SUFFICES ASSUME NEW k \in OpenChannels, channels[k].owner = Dispatcher,
                        NEW e \in channels[k].from..Len(events'),
                        events'[e].project = channels[k].project
                 PROVE  \/ OnItsWay(k, e)' \/ e \in Range(merged) \/ e \in Handled
                        \/ Excused(Dispatcher, e, {"full", "outage"})'
    BY <1>8 DEF DispatcherTold
  <2>2. e \in DOMAIN events' /\ channels[k].from \in Nat \ {0}
    BY <1>0, <1>2, <1>3, <1>4, <2>1, ChannelFacts DEF OpenChannels
  <2>3. CASE e \in DOMAIN events
    <3>1. e \in channels[k].from..Len(events) /\ events[e].project = channels[k].project
      BY <1>2, <1>3, <2>1, <2>2, <2>3
    <3>2. \/ OnItsWay(k, e) \/ e \in Range(merged) \/ e \in Handled
          \/ Excused(Dispatcher, e, {"full", "outage"})
      BY <1>0, <2>1, <3>1 DEF DispatcherTold
    <3> QED BY <1>12, <1>13, <3>2
  <2>4. CASE e \notin DOMAIN events
    <3>1. e \in Range(ids) /\ Dispatcher \in Listening
      BY <1>11, <2>1, <2>2, <2>4 DEF Listening
    <3>2. e \in Range(queue') \/ <<Dispatcher, e, "outage">> \in lost'
      BY <1>12, <3>1
    <3> QED BY <3>2 DEF OnItsWay, Excused
  <2> QED BY <2>3, <2>4
<1> QED BY <1>9, <1>10, <1>14, <1>15 DEF Told

LEMMA PublishTells ==
  ASSUME Told, NEW projects, NEW p, NEW name, Publish(projects, p, name)
  PROVE  Told'
<1>1. PICK at : CreateEvents(p, name, <<at>>)
  BY DEF Publish
<1>2. InRow(<<at>>)
  <2>1. <<at>> \in Seq({at})
    OBVIOUS
  <2> QED BY <2>1, RowFacts
<1> QED BY <1>1, <1>2, CreateTells DEF Publish

LEMMA UntouchedTells == ASSUME Told, UNCHANGED telemetryVars PROVE Told'
<1>1. Feeding' = Feeding /\ Taken' = Taken /\ Handled' = Handled /\ OpenChannels' = OpenChannels
      /\ (\A j : InChannel(j)' = InChannel(j)) /\ (\A k, e : OnItsWay(k, e)' = OnItsWay(k, e))
  BY DEF telemetryVars, Feeding, Taken, Handled, OpenChannels, InChannel, OnItsWay
<1>2. BusSound'
  BY DEF Told, telemetryVars, BusSound, BusTyped, Gone, Subscribed, HasChannel
<1>3. Once'
  <2>1. OneEach' /\ AllKnown' /\ Upcoming' /\ OnceTaken'
    BY <1>1, ToldParts DEF telemetryVars, OneEach, AllKnown, Upcoming, OnceTaken, Known
  <2>2. \A j \in Feeding : FitsProject(j)' /\ OnceOnTheWay(j)'
    BY <1>1, ToldParts DEF telemetryVars, FitsProject, OnceOnTheWay
  <2> QED BY <1>1, <2>1, <2>2 DEF Once
<1>4. ASSUME NEW c \in Clients PROVE StreamTold(c)'
  <2>1. \A e : OnItsWay(streams[c].channel, e) => OnItsWay(streams[c].channel, e)'
    BY DEF telemetryVars, OnItsWay
  <2> QED BY <2>1, ToldParts, StillTold DEF telemetryVars
<1>5. DispatcherTold'
  BY <1>1, ToldParts, DispatcherStillTold DEF telemetryVars
<1> QED BY <1>2, <1>3, <1>4, <1>5 DEF Told

LEMMA NotifyTells ==
  ASSUME Told, NEW projects, NEW p, NotificationStep(projects, p)
  PROVE  Told'
BY PublishTells, UntouchedTells DEF NotificationStep

LEMMA LogsTell ==
  ASSUME Told, NEW projects, NEW p, NEW step, NEW lines \in Inputs.lines,
         HandleLogs(projects, p, step, lines)
  PROVE  Told'
<1>1. /\ listener # "off"
      /\ UNCHANGED <<listener, sending, channels, streams, merged, dispatched>>
  BY DEF HandleLogs
<1>2. CASE p \in Live(projects)
  <2>1. PICK ats : ats = [k \in DOMAIN lines |-> Newest + k]
    OBVIOUS
  <2>2. InRow(ats)
    <3>1. Len(lines) \in Nat /\ DOMAIN lines = 1..Len(lines)
      BY InputsAssumption, RowFacts
    <3>2. DOMAIN ats = 1..Len(lines) /\ \A k \in DOMAIN ats : ats[k] \in Range(ats)
      BY <2>1, <3>1 DEF Range
    <3>3. ats = [k \in 1..Len(lines) |-> ats[k]]
      BY <2>1, <3>1
    <3>4. ats \in [1..Len(lines) -> Range(ats)]
      BY <3>2, <3>3
    <3> QED BY <3>1, <3>4, SeqDef DEF InRow
  <2>3. CreateEvents(p, "log.emitted", ats)
    BY <1>2, <2>1 DEF HandleLogs
  <2> QED BY <1>1, <2>2, <2>3, CreateTells
<1>3. CASE p \notin Live(projects)
  <2>1. UNCHANGED <<events, queue, lost>>
    BY <1>3 DEF HandleLogs
  <2>2. \A e \in Range(queue) : e \in Range(queue')
    BY <2>1
  <2> QED BY <1>1, <2>1, <2>2, ListenerTells
<1> QED BY <1>2, <1>3

LEMMA CloseTells ==
  ASSUME Told, CloseBus
  PROVE  Told'
<1>1. /\ UNCHANGED <<events, sending, channels, streams, merged, dispatched, lost>>
      /\ listener' = "stopped" /\ queue' = <<>>
      /\ ~DispatcherUp /\ \A c \in Clients : streams[c].state = "closed"
  BY DEF CloseBus
<1>2. /\ BusTyped /\ Subscribed /\ OneEach /\ AllKnown /\ Upcoming /\ OnceTaken
      /\ \A j \in Feeding : FitsProject(j) /\ OnceOnTheWay(j)
  BY ToldParts
<1>3. /\ Feeding' = Feeding /\ Taken' = Taken /\ Handled' = Handled /\ OpenChannels' = OpenChannels
      /\ \A j : InChannel(j)' = InChannel(j)
  BY <1>1 DEF Feeding, Taken, Handled, OpenChannels, InChannel
<1>4. BusSound'
  <2>1. BusTyped'
    BY <1>1, <1>2, NothingIn DEF BusTyped
  <2>2. Gone' /\ Subscribed'
    BY <1>1, <1>2 DEF Gone, Subscribed, HasChannel
  <2> QED BY <2>1, <2>2 DEF BusSound
<1>5. Once'
  <2>1. OneEach' /\ AllKnown' /\ Upcoming' /\ OnceTaken'
    BY <1>1, <1>2, <1>3, NothingIn DEF OneEach, AllKnown, Upcoming, OnceTaken, Known
  <2>2. \A j \in Feeding : FitsProject(j)' /\ OnceOnTheWay(j)'
    BY <1>1, <1>2, <1>3 DEF FitsProject, OnceOnTheWay
  <2> QED BY <1>3, <2>1, <2>2 DEF Once
<1>6. \A c \in Clients : StreamTold(c)'
  BY <1>1 DEF StreamTold
<1>7. DispatcherTold'
  BY <1>1, <1>3 DEF DispatcherTold, DispatcherUp
<1> QED BY <1>4, <1>5, <1>6, <1>7 DEF Told

LEMMA LostTells ==
  ASSUME Told, ConnectionLost
  PROVE  Told'
<1>1. \A e \in Range(queue) : \A o \in Listening : <<o, e, "outage">> \in lost'
  BY DEF ConnectionLost
<1>2. /\ UNCHANGED <<events, channels, streams, merged, dispatched>> /\ listener' # "off"
      /\ lost \subseteq lost' /\ queue' = <<>> /\ sending' = sending
  BY DEF ConnectionLost
<1> QED BY <1>1, <1>2, ListenerTells

(* The bus, the dispatcher and the streams at work.                         *)
LEMMA WorkTells ==
  ASSUME Told, NEW configs, TelemetryWork(configs)
  PROVE  Told'
<1>1. CASE SendNone
  <2>1. /\ UNCHANGED <<events, queue, channels, streams, merged, dispatched>> /\ lost' = lost
        /\ sending.to = {} /\ sending' = Idle /\ sending # Idle /\ listener' = listener
    BY <1>1 DEF SendNone
  <2>2. listener' # "off"
    BY <2>1, ToldParts DEF Gone
  <2>3. \A e \in Range(queue) : e \in Range(queue')
    BY <2>1
  <2> QED BY <2>1, <2>2, <2>3, ListenerTells
<1>2. CASE WaitFails
  <2>1. /\ UNCHANGED <<events, queue, sending, channels, streams, merged, dispatched>> /\ lost' = lost
        /\ listener' # "off"
    BY <1>2 DEF WaitFails, Reconnect
  <2>2. \A e \in Range(queue) : e \in Range(queue')
    BY <2>1
  <2> QED BY <2>1, <2>2, ListenerTells
<1>3. CASE HandleNotification
  BY <1>3, NotificationTells
<1>4. ASSUME NEW k \in DOMAIN channels, FanInTake(k) \/ FanInPass(k) PROVE Told'
  BY <1>4, TakeTells, PassTells
<1>5. CASE Dispatch(configs)
  BY <1>5, DispatchTells
<1>6. ASSUME NEW c \in Clients, Replay(c) \/ Subscribe(c) \/ Deliver(c) PROVE Told'
  BY <1>6, ReplayTells, SubscribeTells, DeliverTells
<1> QED BY <1>1, <1>2, <1>3, <1>4, <1>5, <1>6 DEF TelemetryWork

(* As many events are handled as were dispatched: none twice.               *)
LEMMA CountedOnce ==
  ASSUME BusTyped, OnceTaken
  PROVE  Cardinality(Handled) = Len(dispatched)
<1>1. PICK n \in Nat : n = Len(dispatched) /\ DOMAIN dispatched = 1..n
  BY ChannelFacts
<1>2. PICK f : f = [i \in 1..n |-> dispatched[i].event]
  OBVIOUS
<1>3. Handled = {f[i] : i \in 1..n}
  BY <1>1, <1>2 DEF Handled
<1>4. \A i, j \in 1..n : f[i] = f[j] => i = j
  BY <1>1, <1>2 DEF OnceTaken
<1>5. f \in [1..n -> Handled] /\ \A e \in Handled : \E i \in 1..n : f[i] = e
  BY <1>2, <1>3
<1>6. f \in Bijection(1..n, Handled)
  <2>1. f \in Injection(1..n, Handled)
    BY <1>2, <1>4, <1>5 DEF Injection, IsInjective
  <2>2. f \in Surjection(1..n, Handled)
    BY <1>5 DEF Surjection
  <2> QED BY <2>1, <2>2 DEF Bijection
<1>7. ExistsBijection(1..n, Handled)
  BY <1>6 DEF ExistsBijection
<1> QED BY <1>1, <1>7, FS_CountingElements

-----------------------------------------------------------------------------
(* The projects stay a table, whatever the requests do.                     *)
LEMMA RowPut ==
  ASSUME NEW T, InRow(T), NEW row
  PROVE  /\ InRow(Append(T, row)) /\ \A i \in DOMAIN T : InRow([T EXCEPT ![i] = row])
         /\ \A i : InRow([j \in DOMAIN T |-> [T[j] EXCEPT !.live = @ /\ j # i]])
<1>1. PICK S : S = Range(T) \cup {row}
  OBVIOUS
<1>2. T \in Seq(S) /\ row \in S
  BY <1>1, InRowWider
<1>3. Len(T) \in Nat /\ DOMAIN T = 1..Len(T)
  BY <1>2, RowFacts
<1>4. InRow(Append(T, row))
  BY <1>2, Appended, RowFacts
<1>5. ASSUME NEW i \in DOMAIN T PROVE InRow([T EXCEPT ![i] = row])
  <2>1. [T EXCEPT ![i] = row] \in Seq(S)
    BY <1>2, Replaced
  <2> QED BY <2>1, RowFacts
<1>6. ASSUME NEW i PROVE InRow([j \in DOMAIN T |-> [T[j] EXCEPT !.live = @ /\ j # i]])
  <2>1. PICK g : g = [j \in DOMAIN T |-> [T[j] EXCEPT !.live = @ /\ j # i]]
    OBVIOUS
  <2>2. g = [j \in 1..Len(T) |-> g[j]] /\ \A j \in 1..Len(T) : g[j] \in Range(g)
    BY <1>3, <2>1 DEF Range
  <2>3. g \in [1..Len(T) -> Range(g)]
    BY <2>2
  <2> QED BY <1>3, <2>1, <2>3, SeqDef DEF InRow
<1> QED BY <1>4, <1>5, <1>6

(* What a repository or a service returns, and what a handler makes of it.  *)
Whole(o) == {"t", "err"} \subseteq DOMAIN o /\ InRow(o.t)
LEMMA HandledRow ==
  ASSUME NEW T, InRow(T), NEW role, NEW o, Whole(o), NEW success
  PROVE  InRow(Handle(T, role, o, success).t)
<1>1. CASE role = "admin"
  BY <1>1 DEF Handle, AsAdmin, Whole
<1>2. CASE role # "admin"
  <2>1. AsAdmin(role, o).err = "forbidden"
    BY <1>2 DEF AsAdmin, Whole
  <2> QED BY <2>1 DEF Handle, Ok
<1> QED BY <1>1, <1>2

LEMMA RefusedRow ==
  ASSUME NEW T, InRow(T)
  PROVE  \A err : Whole(Refused(T, err))
BY DEF Refused, Outcome, Whole

LEMMA MappedRow ==
  ASSUME NEW q, Whole(q)
  PROVE  Whole(Repo(q)) /\ Whole(RepoExec(q))
<1>1. ASSUME NEW e PROVE Whole([q EXCEPT !.err = e])
  <2>1. "t" \in DOMAIN q /\ "err" \in DOMAIN q /\ InRow(q.t)
    BY DEF Whole
  <2> QED BY <2>1 DEF Whole
<1> QED BY <1>1 DEF Repo, RepoExec

LEMMA Created ==
  ASSUME NEW P, InRow(P), NEW who, NEW p
  PROVE  InRow(CreateProjectRequest(P, who, p).t)
<1>1. ASSUME NEW q PROVE Whole(CreateProject(P, q))
  BY RowPut, RefusedRow DEF CreateProject, Insert, Outcome, Whole
<1>2. \A q : Whole(ProjectServiceCreate(P, q))
  BY <1>1, MappedRow, RefusedRow DEF ProjectServiceCreate, ProjectRepoCreate, Invalid
<1> QED BY <1>2, HandledRow DEF CreateProjectRequest

LEMMA Updated ==
  ASSUME NEW P, InRow(P), NEW who, NEW i, NEW row, NEW patch
  PROVE  InRow(UpdateProjectRequest(P, who, i, row, patch).t)
<1>1. ASSUME NEW q PROVE Whole(UpdateProject(P, i, q))
  BY RowPut, RefusedRow DEF UpdateProject, Change, Outcome, Whole, Live
<1>2. Whole(ProjectServiceSave(P, i, row, patch))
  BY <1>1, MappedRow, RefusedRow DEF ProjectServiceSave, ProjectRepoUpdate, Invalid
<1> QED BY <1>2, HandledRow DEF UpdateProjectRequest

LEMMA Erased ==
  ASSUME NEW P, InRow(P), NEW who, NEW i, NEW hasEvents
  PROVE  InRow(DeleteProjectRequest(P, who, i, hasEvents).t)
<1>1. Whole(DeleteProject(P, i, hasEvents))
  BY RowPut, RefusedRow DEF DeleteProject, Erase, Outcome, Whole
<1>2. Whole(GetProject(P, i))
  BY RefusedRow DEF GetProject, Outcome, Whole
<1>3. Whole(ProjectServiceDelete(P, i, hasEvents))
  BY <1>1, <1>2, MappedRow DEF ProjectServiceDelete, ProjectRepoDelete, ProjectRepoGetByID
<1> QED BY <1>3, HandledRow DEF DeleteProjectRequest

(* Another table is written.                                                *)
Beside == db' = db \/ \E n, T : n # "projects" /\ db' = [db EXCEPT ![n] = T]
LEMMA BesideKeeps == ASSUME Projects, Beside PROVE Projects'
BY DEF Projects, Beside

LEMMA PutBeside ==
  ASSUME NEW n, n # "projects", NEW r, Put(n, r)
  PROVE  Beside
BY DEF Put, Beside

LEMMA RequestsKeepProjects ==
  ASSUME Projects, Requests
  PROVE  Projects'
<1>b. ASSUME NEW withEvents, AdminRequests(withEvents)
      PROVE  Projects'
  <2>1. CASE UNCHANGED db
    BY <2>1 DEF Projects
  <2>2. ASSUME NEW n \in {"users", "revoked", "resets", "members", "keys", "pipelines", "agents",
                          "environments", "configs"},
               NEW r, Put(n, r)
        PROVE  Projects'
    BY <2>2, PutBeside, BesideKeeps
  <2>3. CASE LoginUser
    <3>1. \E o : db' = [db EXCEPT !.sessions = o]
      BY <2>3 DEF LoginUser
    <3> QED BY <3>1, BesideKeeps DEF Beside
  <2>4. CASE Expire
    <3>1. \/ \E o : db' = [db EXCEPT !.sessions = o]
          \/ \E o : db' = [db EXCEPT !.resets = o]
      BY <2>4 DEF Expire
    <3> QED BY <3>1, BesideKeeps DEF Beside
  <2>5. CASE Purge
    <3>1. \E o : db' = [db EXCEPT !.revoked = o]
      BY <2>5 DEF Purge
    <3> QED BY <3>1, BesideKeeps DEF Beside
  <2>6. CASE CreateProjectBegin
    <3>1. PICK who, p : Put("projects", CreateProjectRequest(db.projects, who, p))
      BY <2>6 DEF CreateProjectBegin
    <3>2. db' = [db EXCEPT !.projects = CreateProjectRequest(db.projects, who, p).t]
      BY <3>1 DEF Put
    <3> QED BY <3>2, Created DEF Projects
  <2>7. CASE DeleteProjectNow(withEvents)
    <3>1. PICK who \in Admins, p \in DOMAIN db.projects :
            LET r == DeleteProjectRequest(db.projects, who, p, p \in withEvents)
            IN db' = IF r.status = 204 THEN Cascade([db EXCEPT !.projects = r.t], p) ELSE db
      BY <2>7 DEF DeleteProjectNow
    <3>2. PICK d : d = [db EXCEPT !.projects =
                          DeleteProjectRequest(db.projects, who, p, p \in withEvents).t]
      OBVIOUS
    <3>3. db' = Cascade(d, p) \/ db' = db
      BY <3>1, <3>2
    <3>4. "projects" \in DOMAIN d /\ InRow(d.projects)
      BY <3>2, Erased DEF Projects
    <3>5. "projects" \in DOMAIN Cascade(d, p) /\ Cascade(d, p).projects = d.projects
      BY <3>4 DEF Cascade, WithoutAgents
    <3> QED BY <3>3, <3>4, <3>5 DEF Projects
  <2>8. CASE DeleteAgentNow
    <3>1. PICK who \in Callers, i \in Live(db.agents) :
            LET r == DeleteAgentRequest(db.agents, who, i)
            IN db' = IF r.status = 204 THEN WithoutAgents([db EXCEPT !.agents = r.t], {i}) ELSE db
      BY <2>8 DEF DeleteAgentNow
    <3>2. PICK d : d = [db EXCEPT !.agents = DeleteAgentRequest(db.agents, who, i).t]
      OBVIOUS
    <3>3. db' = WithoutAgents(d, {i}) \/ db' = db
      BY <3>1, <3>2
    <3>4. "projects" \in DOMAIN d /\ d.projects = db.projects
      BY <3>2 DEF Projects
    <3>5. "projects" \in DOMAIN WithoutAgents(d, {i}) /\ WithoutAgents(d, {i}).projects = d.projects
      BY <3>4 DEF WithoutAgents
    <3> QED BY <3>3, <3>4, <3>5 DEF Projects
  <2>9. RegisterUser \/ LogoutUser \/ ForgotPasswordMail \/ DeleteUserNow => Projects'
    BY <2>2 DEF RegisterUser, LogoutUser, ForgotPasswordMail, DeleteUserNow
  <2>10. ChangeMembers \/ ChangeKeys \/ UpdatePipeline \/ CreateAgentNow => Projects'
    BY <2>2 DEF ChangeMembers, ChangeKeys, UpdatePipeline, CreateAgentNow
  <2>11. DeleteEnvironmentNow \/ ChangeChannels => Projects'
    BY <2>2 DEF DeleteEnvironmentNow, ChangeChannels
  <2>12. \/ ResetBegin \/ UpdateUserBegin \/ UpdateProfileBegin \/ ChangePasswordBegin
         \/ UpdateProjectBegin \/ UpdateAgentBegin \/ PutEnvironmentBegin
         => UNCHANGED db
    BY DEF ResetBegin, UpdateUserBegin, UpdateProfileBegin, ChangePasswordBegin,
           UpdateProjectBegin, UpdateAgentBegin, PutEnvironmentBegin
  <2> QED BY <1>b, <2>1, <2>3, <2>4, <2>5, <2>6, <2>7, <2>8, <2>9, <2>10, <2>11, <2>12
          DEF AdminRequests
<1>e. ASSUME NEW s \in Slots,
        \/ ResetSave(s) \/ ResetMark(s) \/ UpdateUserEnd(s) \/ UpdateProfileEnd(s)
        \/ ChangePasswordEnd(s) \/ CreateProjectEnd(s) \/ UpdateProjectEnd(s)
        \/ UpdateAgentEnd(s) \/ PutEnvironmentEnd(s)
      PROVE  Projects'
  <2>1. CASE UNCHANGED db
    BY <2>1 DEF Projects
  <2>2. ASSUME NEW n \in {"users", "resets", "pipelines", "agents", "environments"},
               NEW T, db' = [db EXCEPT ![n] = T]
        PROVE  Projects'
    BY <2>2, BesideKeeps DEF Beside
  <2>3. CASE UpdateProjectEnd(s)
    <3>1. PICK who, i, row, patch :
            db' = [db EXCEPT !.projects = UpdateProjectRequest(db.projects, who, i, row, patch).t]
      BY <2>3 DEF UpdateProjectEnd, Put
    <3> QED BY <3>1, Updated DEF Projects
  <2>4. CASE ResetSave(s)
    <3>1. (\E T : db' = [db EXCEPT !.users = T]) \/ UNCHANGED db
      BY <2>4 DEF ResetSave
    <3> QED BY <2>1, <2>2, <3>1
  <2>5. CASE ResetMark(s)
    <3>1. \E T : db' = [db EXCEPT !.resets = T]
      BY <2>5 DEF ResetMark
    <3> QED BY <2>2, <3>1
  <2>6. CASE UpdateUserEnd(s) \/ UpdateProfileEnd(s) \/ ChangePasswordEnd(s)
    <3>1. \E T : db' = [db EXCEPT !.users = T]
      BY <2>6 DEF UpdateUserEnd, UpdateProfileEnd, ChangePasswordEnd, Put
    <3> QED BY <2>2, <3>1
  <2>7. CASE CreateProjectEnd(s)
    <3>1. \E T : db' = [db EXCEPT !.pipelines = T]
      BY <2>7 DEF CreateProjectEnd
    <3> QED BY <2>2, <3>1
  <2>8. CASE UpdateAgentEnd(s)
    <3>1. \E T : db' = [db EXCEPT !.agents = T]
      BY <2>8 DEF UpdateAgentEnd, Put
    <3> QED BY <2>2, <3>1
  <2>9. CASE PutEnvironmentEnd(s)
    <3>1. \E T : db' = [db EXCEPT !.environments = T]
      BY <2>9 DEF PutEnvironmentEnd, Put
    <3> QED BY <2>2, <3>1
  <2> QED BY <1>e, <2>3, <2>4, <2>5, <2>6, <2>7, <2>8, <2>9
<1> QED BY <1>b, <1>e DEF Requests, AdminSteps

LEMMA ReportsKeepProjects ==
  ASSUME Projects, Reports
  PROVE  Projects'
<1>1. ASSUME NEW n \in {"costs", "stories"}, NEW T, db' = [db EXCEPT ![n] = T]
      PROVE  Projects'
  BY <1>1, BesideKeeps DEF Beside
<1>2. CASE RecordCost
  <2>1. (\E T : db' = [db EXCEPT !.costs = T]) \/ db' = db
    BY <1>2 DEF RecordCost, NewCosts
  <2> QED BY <1>1, <2>1, BesideKeeps DEF Beside
<1>3. CASE CostCallback \/ DayPasses
  <2>1. \E T : db' = [db EXCEPT !.costs = T]
    BY <1>3 DEF CostCallback, DayPasses, Put
  <2> QED BY <1>1, <2>1
<1>4. CASE StoryDeleted
  <2>1. \E T : db' = [db EXCEPT !.stories = T]
    BY <1>4 DEF StoryDeleted, Put
  <2> QED BY <1>1, <2>1
<1> QED BY <1>2, <1>3, <1>4 DEF Reports

-----------------------------------------------------------------------------
EventsInv == Projects /\ Told

LEMMA InitEvents == Init => EventsInv
<1>1. ASSUME Init PROVE Projects
  BY <1>1, ScenariosAssumption DEF Init, AdminInit, Projects, InRow, Fits, ProjectsFit, Rows
<1> QED BY <1>1, StartTells DEF EventsInv

LEMMA NextEvents == EventsInv /\ [Next]_vars => EventsInv'
<1> SUFFICES ASSUME Projects, Told, [Next]_vars
             PROVE  Projects' /\ Told'
  BY DEF EventsInv
<1>a. UNCHANGED adminVars => Projects'
  BY DEF adminVars, Projects
<1>b. CallsLost => Projects'
  BY DEF CallsLost, Projects
<1>1. CASE Requests
  BY <1>1, RequestsKeepProjects, UntouchedTells DEF Requests
<1>2. CASE PublishEvent
  BY <1>2, <1>a, PublishTells DEF PublishEvent
<1>3. CASE NotifyStep
  BY <1>3, <1>a, NotifyTells DEF NotifyStep
<1>4. CASE LogLines
  BY <1>4, <1>a, LogsTell DEF LogLines
<1>5. CASE Reports
  <2>1. UNCHANGED telemetryVars
    BY <1>5 DEF Reports, RecordCost, CostCallback, DayPasses, StoryDeleted
  <2> QED BY <1>5, <2>1, ReportsKeepProjects, UntouchedTells
<1>6. CASE OpenStream
  <2>1. DOMAIN db.projects \subseteq Nat
    BY RowFacts DEF Projects, InRow
  <2> QED BY <1>6, <1>a, <2>1, ConnectTells DEF OpenStream
<1>7. CASE EndStream
  BY <1>7, <1>a, EndTells DEF EndStream
<1>8. CASE BusWork
  BY <1>8, <1>a, WorkTells DEF BusWork
<1>9. CASE SendToCopy
  BY <1>9, <1>a, <1>b, SendTells DEF SendToCopy
<1>10. CASE Faults
  <2>1. CASE ConnectionLost /\ UNCHANGED adminVars
    BY <2>1, <1>a, LostTells
  <2>2. CASE Crash /\ CallsLost
    BY <2>2, <1>b, GoneTells DEF Crash
  <2>3. CASE StopAll /\ UNCHANGED adminVars
    BY <2>3, <1>a, StopTells
  <2>4. CASE CloseBus /\ UNCHANGED adminVars
    BY <2>4, <1>a, CloseTells
  <2>5. CASE (\E s \in Slots : SeedFails(s)) /\ UNCHANGED telemetryVars
    BY <2>5, UntouchedTells DEF SeedFails, Projects
  <2>6. CASE Exit /\ CallsLost
    BY <2>6, <1>b, GoneTells DEF Exit
  <2> QED BY <1>10, <2>1, <2>2, <2>3, <2>4, <2>5, <2>6 DEF Faults
<1>11. CASE Restart
  <2>1. DispatcherRun(db.projects) /\ \E T : db' = [db EXCEPT !.stacks = T]
    BY <1>11 DEF Restart, Started
  <2>2. Projects'
    BY <2>1, BesideKeeps DEF Beside
  <2> QED BY <2>1, <2>2, RunTells DEF Projects
<1>12. CASE UNCHANGED vars
  BY <1>12, <1>a, UntouchedTells DEF vars
<1> QED BY <1>1, <1>2, <1>3, <1>4, <1>5, <1>6, <1>7, <1>8, <1>9, <1>10, <1>11, <1>12 DEF Next

(* An event is on its way to whoever is to know of it, has reached them, or *)
(* is missed for a cause, and the dispatcher handles none twice: whatever   *)
(* the listener loses, whoever comes and goes, however full the channels    *)
(* are and whenever the process dies.                                       *)
THEOREM EventsAreAccounted == Spec => []EventsAccounted
<1>1. EventsInv => EventsAccounted
  <2>1. Told => BusTyped /\ OnceTaken /\ (\A c \in Clients : StreamTold(c)) /\ DispatcherTold
    BY ToldParts
  <2> QED BY <2>1, CountedOnce DEF EventsInv, EventsAccounted
<1> QED BY <1>1, InitEvents, NextEvents, PTL DEF Spec
=============================================================================
