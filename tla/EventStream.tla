----------------------------- MODULE EventStream -----------------------------
(***************************************************************************)
(* What a client sees of one ride: the status events its transitions       *)
(* publish over Redis pub/sub, the hub that copies them to an SSE stream,  *)
(* and the state lookup a client starts from.                              *)
(*                                                                         *)
(* Pub/sub keeps nothing.  A client loads the state, and subscribes a few  *)
(* round-trips later; each request publishes on its own after its commit,  *)
(* so events may overtake each other; a stream that is cut is opened again *)
(* without a new lookup.  Location, OTP and payment events share the       *)
(* channel and its hazards, and are left out, as is the drivers' channel.  *)
(***************************************************************************)
EXTENDS Naturals, Sequences

CONSTANTS
  Worker,       \* requests in flight at the same time (a bound)
  Client,       \* browsers that follow the ride
  MaxVersion,   \* the ride's transitions; after the last one it is terminal
  None

ASSUME EventStreamAssumption ==
  /\ MaxVersion \in Nat
  /\ None \notin 0 .. MaxVersion

VARIABLES
  version,   \* the ride's row, by the number of its transition
  proc,      \* Worker -> the transition it has still to publish, or None
  page,      \* Client -> how far it has come
  queue,     \* Client -> events on their way to it, in order
  view,      \* Client -> the status it shows, or None
  astray     \* Client -> a newer event went past it (history)

streamVars == <<version, proc, page, queue, view, astray>>

Version == 0 .. MaxVersion

At(place) == [at |-> place]

\* The ride is looked up and then loaded; the page shows it, asks for the
\* stream, and is live once Redis has acknowledged the subscription.
Page ==
  [at : {"away", "found", "opening", "asked", "live"}]
    \cup [at : {"loaded"}, found : Version]

EventsTypeOK ==
  /\ version \in Version
  /\ proc \in [Worker -> (1 .. MaxVersion) \cup {None}]
  /\ page \in [Client -> Page]
  /\ queue \in [Client -> Seq(Version)]
  /\ view \in [Client -> Version \cup {None}]
  /\ astray \in [Client -> BOOLEAN]
  /\ \A c \in Client : queue[c] # <<>> => page[c].at \in {"asked", "live"}

Streaming(c) == page[c] \in {At("asked"), At("live")}

\* The client has a state of the ride: it follows from here.
HasLoaded(c) == page[c] \notin {At("away"), At("found")}

InFlight(u) == \E w \in Worker : proc[w] = u

\* The status the client comes to once it has all that was sent to it.
Latest(c) ==
  IF queue[c] # <<>> THEN queue[c][Len(queue[c])]
  ELSE IF page[c].at = "loaded" THEN page[c].found
  ELSE view[c]

\* Every event newer than v has still to come.
Newest(v) == \A u \in v + 1 .. version : InFlight(u)

Turn(c, p) == page' = [page EXCEPT ![c] = p]

(***************************************************************************)
(* The publisher: after a commit, by the request that made it.             *)
(***************************************************************************)

Commit(w) ==
  /\ proc[w] = None
  /\ version < MaxVersion
  /\ version' = version + 1
  /\ proc' = [proc EXCEPT ![w] = version + 1]
  /\ UNCHANGED <<page, queue, view, astray>>

\* Redis hands an event to those subscribed at that moment.
publish(v) ==
  queue' = [c \in Client |-> IF page[c] = At("live") THEN Append(queue[c], v) ELSE queue[c]]

PublishRideEvent(w) ==
  /\ proc[w] # None
  /\ proc' = [proc EXCEPT ![w] = None]
  /\ publish(proc[w])
  /\ astray' = [c \in Client |->
                  IF page[c] = At("live") THEN ~Newest(proc[w])
                  ELSE astray[c] \/ (HasLoaded(c) /\ proc[w] > Latest(c))]
  /\ UNCHANGED <<version, page, view>>

\* The error is logged, or the process stops before it publishes.
PublishFails(w) ==
  /\ proc[w] # None
  /\ proc' = [proc EXCEPT ![w] = None]
  /\ astray' = [c \in Client |-> astray[c] \/ (HasLoaded(c) /\ proc[w] > Latest(c))]
  /\ UNCHANGED <<version, page, queue, view>>

(***************************************************************************)
(* A client's start: the lookup of its ride, in two reads.                 *)
(***************************************************************************)

\* The ride is found as long as it is not terminal.
ActiveFor == version < MaxVersion

riderState(c) ==
  /\ page[c] = At("away")
  /\ ActiveFor
  /\ Turn(c, At("found"))
  /\ UNCHANGED <<version, proc, queue, view, astray>>

\* Mutant: the lookup may answer from the cache.
LoadView_Cached(c) ==
  /\ page[c] = At("found")
  /\ \E v \in 0 .. version : Turn(c, [at |-> "loaded", found |-> v])
  /\ astray' = [astray EXCEPT ![c] = FALSE]
  /\ UNCHANGED <<version, proc, queue, view>>

LoadView(c) ==
  /\ page[c] = At("found")
  /\ Turn(c, [at |-> "loaded", found |-> version])
  /\ astray' = [astray EXCEPT ![c] = FALSE]
  /\ UNCHANGED <<version, proc, queue, view>>

\* The answer arrives, is shown, and the stream is opened.
ShowState(c) ==
  /\ page[c].at = "loaded"
  /\ view' = [view EXCEPT ![c] = page[c].found]
  /\ Turn(c, At("opening"))
  /\ UNCHANGED <<version, proc, queue, astray>>

(***************************************************************************)
(* The stream: request, subscription, frames.                              *)
(***************************************************************************)

\* The headers are sent, and Redis is asked for the channel.
serveSSE(c) == Turn(c, At("asked"))

\* The ride is loaded to authorize the client, not to bring it up to date.
streamRideEvents(c) ==
  /\ page[c] = At("opening")
  /\ serveSSE(c)
  /\ UNCHANGED <<version, proc, queue, view, astray>>

Acknowledged(c) ==
  /\ page[c] = At("asked")
  /\ Turn(c, At("live"))
  /\ UNCHANGED <<version, proc, queue, view, astray>>

\* A frame is written, flushed, and shown.
Deliver(c) ==
  /\ queue[c] # <<>>
  /\ view' = [view EXCEPT ![c] = Head(queue[c])]
  /\ queue' = [queue EXCEPT ![c] = Tail(@)]
  /\ UNCHANGED <<version, proc, page, astray>>

\* The connection to Redis is lost and the library subscribes again; frames it
\* has read are still written.
Resubscribe(c) ==
  /\ page[c] = At("live")
  /\ Turn(c, At("asked"))
  /\ UNCHANGED <<version, proc, queue, view, astray>>

\* The stream ends, by either side; the client opens another after a moment and
\* goes on from what it shows.
Cut(c) ==
  /\ Streaming(c)
  /\ Turn(c, At("opening"))
  /\ queue' = [queue EXCEPT ![c] = <<>>]
  /\ astray' = [astray EXCEPT ![c] = @ \/ queue[c] # <<>>]
  /\ UNCHANGED <<version, proc, view>>

\* Mutant: the old stream outlives the page.
Close_KeepsFrames(c) ==
  /\ page[c] # At("away")
  /\ Turn(c, At("away"))
  /\ view' = [view EXCEPT ![c] = None]
  /\ UNCHANGED <<version, proc, queue, astray>>

\* The page is left or loaded again, or its lookup failed.
Close(c) ==
  /\ page[c] # At("away")
  /\ Turn(c, At("away"))
  /\ queue' = [queue EXCEPT ![c] = <<>>]
  /\ view' = [view EXCEPT ![c] = None]
  /\ UNCHANGED <<version, proc, astray>>

StreamInit ==
  /\ version = 0
  /\ proc = [w \in Worker |-> None]
  /\ page = [c \in Client |-> At("away")]
  /\ queue = [c \in Client |-> <<>>]
  /\ view = [c \in Client |-> None]
  /\ astray = [c \in Client |-> FALSE]

StreamNext ==
  \/ \E w \in Worker : Commit(w) \/ PublishRideEvent(w) \/ PublishFails(w)
  \/ \E c \in Client :
       \/ riderState(c) \/ LoadView(c) \/ ShowState(c) \/ Close(c)
       \/ streamRideEvents(c) \/ Acknowledged(c) \/ Deliver(c)
       \/ Resubscribe(c) \/ Cut(c)

StreamSpec == StreamInit /\ [][StreamNext]_streamVars

(***************************************************************************)
(* Properties.                                                             *)
(***************************************************************************)

\* A page shows the ride as it is, or is about to, or a newer event has still
\* to be published, unless one went past it: published while its subscription
\* was not acknowledged, lost with a stream that was cut, never published, or
\* overtaken by an older one.  The next event it gets in order, or a reload,
\* puts it right.
ViewFollows == \A c \in Client : HasLoaded(c) /\ ~astray[c] => Newest(Latest(c))

\* A page that has come past its lookup shows a status, until it is left.
PageShowsStatus ==
  \A c \in Client : HasLoaded(c) /\ page[c].at # "loaded" => view[c] # None

\* The inductive invariant: what is in flight, queued and shown are versions, so
\* that Latest is one of them wherever ViewFollows asks for it.
StreamInv == EventsTypeOK /\ PageShowsStatus /\ ViewFollows

=============================================================================
