------------------------- MODULE EventStreamProofs -------------------------
(***************************************************************************)
(* A page follows its ride, for any number of publishers and clients.      *)
(*                                                                         *)
(* The argument is about the version a client comes to, Latest: an action  *)
(* either leaves it alone or moves it to the event that is published, and  *)
(* a version leaves the flight only in its own publication.                *)
(***************************************************************************)
EXTENDS EventStream, SequenceTheorems, TLAPS

\* The events of a client that is not streaming are gone, and Latest is then
\* what was looked up or what is shown.
LEMMA LatestIsVersion ==
  ASSUME EventsTypeOK, PageShowsStatus, NEW c \in Client, HasLoaded(c)
  PROVE  Latest(c) \in Version
<1>1. CASE queue[c] # <<>>
  <2>1. queue[c] \in Seq(Version)
    BY DEF EventsTypeOK
  <2>2. Len(queue[c]) \in 1 .. Len(queue[c])
    BY <1>1, <2>1, EmptySeq, LenProperties
  <2> QED  BY <1>1, <2>1, <2>2, ElementOfSeq DEF Latest
<1>2. CASE queue[c] = <<>> /\ page[c].at = "loaded"
  <2>1. page[c] \in Page
    BY DEF EventsTypeOK
  <2>2. page[c].found \in Version
    BY <1>2, <2>1 DEF Page
  <2> QED  BY <1>2, <2>2 DEF Latest
<1>3. CASE queue[c] = <<>> /\ page[c].at # "loaded"
  BY <1>3 DEF EventsTypeOK, PageShowsStatus, Latest
<1> QED  BY <1>1, <1>2, <1>3

LEMMA PlacesArePages ==
  ASSUME NEW place \in {"away", "found", "opening", "asked", "live"}
  PROVE  At(place) \in Page
BY DEF At, Page

LEMMA NoEvents == <<>> \in Seq(Version)
BY EmptySeq

LEMMA StreamInitInv == StreamInit => StreamInv
BY EventStreamAssumption, EmptySeq
   DEF StreamInit, StreamInv, EventsTypeOK, PageShowsStatus, ViewFollows, Page, At,
       Version, HasLoaded

(***************************************************************************)
(* What an action does to the queue of a client.                           *)
(***************************************************************************)

\* A published event is the last of the queue.
LEMMA AppendedIsLast ==
  ASSUME NEW s \in Seq(Version), NEW v \in Version
  PROVE  /\ Append(s, v) \in Seq(Version)
         /\ Append(s, v) # <<>>
         /\ Append(s, v)[Len(Append(s, v))] = v
BY AppendProperties

\* A delivered event was the last one, or leaves the last one where it is.
LEMMA TailKeepsLast ==
  ASSUME NEW s \in Seq(Version), s # <<>>
  PROVE  /\ Head(s) \in Version
         /\ Tail(s) \in Seq(Version)
         /\ Tail(s) = <<>> => Head(s) = s[Len(s)]
         /\ Tail(s) # <<>> => Tail(s)[Len(Tail(s))] = s[Len(s)]
<1>1. /\ Tail(s) \in Seq(Version)
      /\ Len(Tail(s)) = Len(s) - 1
      /\ \A i \in 1 .. Len(Tail(s)) : Tail(s)[i] = s[i + 1]
      /\ Len(s) \in Nat
      /\ Len(s) > 0
      /\ Head(s) = s[1]
  BY HeadTailProperties, EmptySeq, LenProperties
<1>2. Head(s) \in Version
  BY <1>1, ElementOfSeq
<1>3. ASSUME Tail(s) = <<>> PROVE Head(s) = s[Len(s)]
  <2>1. Len(Tail(s)) = 0
    BY <1>3, EmptySeq
  <2>2. \A n \in Nat : n - 1 = 0 => n = 1
    OBVIOUS
  <2>3. Len(s) = 1
    BY <1>1, <2>1, <2>2, Zenon
  <2> QED  BY <1>1, <2>3, Zenon
<1>4. ASSUME Tail(s) # <<>> PROVE Tail(s)[Len(Tail(s))] = s[Len(s)]
  <2>1. Len(Tail(s)) \in 1 .. Len(Tail(s))
    BY <1>1, <1>4, EmptySeq, LenProperties
  <2> QED  BY <1>1, <2>1
<1> QED  BY <1>1, <1>2, <1>3, <1>4

(***************************************************************************)
(* The publisher's actions.                                                *)
(***************************************************************************)

\* An event that leaves the flight takes no other with it.
LEMMA OthersStayInFlight ==
  ASSUME EventsTypeOK, NEW w \in Worker, proc' = [proc EXCEPT ![w] = None],
         NEW u \in Version, u # proc[w], InFlight(u)
  PROVE  InFlight(u)'
<1>1. PICK x \in Worker : proc[x] = u
  BY DEF InFlight
<1>2. x # w
  BY <1>1
<1>3. proc'[x] = u
  BY <1>1, <1>2 DEF EventsTypeOK
<1> QED  BY <1>3 DEF InFlight

\* So all that is newer than v is in flight after v itself, or an event older
\* than v, has left it.
LEMMA NewestKept ==
  ASSUME EventsTypeOK, NEW w \in Worker, proc' = [proc EXCEPT ![w] = None],
         version' = version, proc[w] \in 1 .. MaxVersion,
         NEW v \in Version, proc[w] <= v, Newest(v)
  PROVE  Newest(v)'
<1>1. ASSUME NEW u \in v + 1 .. version PROVE InFlight(u)'
  <2>1. /\ u \in Version
        /\ u # proc[w]
    BY EventStreamAssumption DEF EventsTypeOK, Version
  <2>2. InFlight(u)
    BY DEF Newest
  <2> QED  BY <2>1, <2>2, OthersStayInFlight
<1> QED  BY <1>1 DEF Newest

LEMMA CommitInv ==
  ASSUME StreamInv, NEW w \in Worker, Commit(w)
  PROVE  StreamInv'
<1>1. /\ version \in Nat
      /\ version + 1 \in 1 .. MaxVersion
      /\ version' = version + 1
  BY EventStreamAssumption DEF StreamInv, EventsTypeOK, Version, Commit
<1>2. EventsTypeOK'
  BY <1>1 DEF StreamInv, EventsTypeOK, Version, Commit
<1>3. PageShowsStatus'
  BY DEF StreamInv, PageShowsStatus, HasLoaded, Commit
<1>4. ASSUME NEW c \in Client, HasLoaded(c)', ~astray'[c]
      PROVE  Newest(Latest(c))'
  <2>1. /\ HasLoaded(c)
        /\ ~astray[c]
        /\ Latest(c)' = Latest(c)
    BY <1>4 DEF Commit, HasLoaded, Latest
  <2>2. Latest(c) \in Version
    BY <2>1, LatestIsVersion DEF StreamInv
  <2>3. Newest(Latest(c))
    BY <2>1 DEF StreamInv, ViewFollows
  <2>4. ASSUME NEW u \in Latest(c) + 1 .. version + 1 PROVE InFlight(u)'
    <3>1. CASE u = version + 1
      BY <1>1, <3>1 DEF InFlight, Commit, StreamInv, EventsTypeOK
    <3>2. CASE u # version + 1
      <4>1. u \in Latest(c) + 1 .. version
        BY <1>1, <2>2, <2>4, <3>2 DEF Version
      <4>2. PICK x \in Worker : proc[x] = u
        BY <2>3, <4>1 DEF Newest, InFlight
      <4>3. u # None
        BY <1>1, <2>2, <4>1, EventStreamAssumption DEF Version
      <4>4. proc'[x] = u
        BY <4>2, <4>3 DEF Commit, StreamInv, EventsTypeOK
      <4> QED  BY <4>4 DEF InFlight
    <3> QED  BY <3>1, <3>2
  <2> QED  BY <1>1, <2>1, <2>4 DEF Newest
<1> QED  BY <1>2, <1>3, <1>4 DEF StreamInv, ViewFollows

\* A live client comes to the event itself, which is its newest unless
\* one went before it; every other client that had none so new is astray.
LEMMA PublishInv ==
  ASSUME StreamInv, NEW w \in Worker, PublishRideEvent(w)
  PROVE  StreamInv'
<1>1. /\ proc[w] \in 1 .. MaxVersion
      /\ proc[w] \in Version
      /\ version' = version
      /\ proc' = [proc EXCEPT ![w] = None]
  BY EventStreamAssumption
     DEF StreamInv, EventsTypeOK, Version, PublishRideEvent
<1>2. ASSUME NEW c \in Client, page[c] = At("live")
      PROVE  /\ queue'[c] \in Seq(Version)
             /\ queue'[c] # <<>>
             /\ queue'[c][Len(queue'[c])] = proc[w]
  BY <1>1, <1>2, AppendedIsLast
     DEF StreamInv, EventsTypeOK, PublishRideEvent, publish
<1>3. ASSUME NEW c \in Client, page[c] # At("live")
      PROVE  queue'[c] = queue[c]
  BY <1>3 DEF PublishRideEvent, publish
<1>4. EventsTypeOK'
  <2>1. queue' \in [Client -> Seq(Version)]
    <3>1. \A c \in Client : queue'[c] \in Seq(Version)
      BY <1>2, <1>3 DEF StreamInv, EventsTypeOK
    <3> QED  BY <3>1 DEF PublishRideEvent, publish
  <2>2. astray' \in [Client -> BOOLEAN]
    BY DEF StreamInv, EventsTypeOK, PublishRideEvent, Newest, HasLoaded
  <2>3. \A c \in Client : queue'[c] # <<>> => page'[c].at \in {"asked", "live"}
    BY <1>3 DEF StreamInv, EventsTypeOK, PublishRideEvent, At
  <2> QED
    BY <1>1, <2>1, <2>2, <2>3 DEF StreamInv, EventsTypeOK, PublishRideEvent
<1>5. PageShowsStatus'
  BY DEF StreamInv, PageShowsStatus, HasLoaded, PublishRideEvent
<1>6. ASSUME NEW c \in Client, HasLoaded(c)', ~astray'[c]
      PROVE  Newest(Latest(c))'
  <2>1. HasLoaded(c)
    BY <1>6 DEF PublishRideEvent, HasLoaded
  <2>2. CASE page[c] = At("live")
    <3>1. PICK v \in Version : v = proc[w]
      BY <1>1
    <3>2. Newest(v)
      BY <1>6, <2>2, <3>1 DEF PublishRideEvent
    <3>3. proc[w] <= v
      BY <3>1, EventStreamAssumption DEF Version
    <3>4. Newest(v)'
      BY <1>1, <3>2, <3>3, NewestKept DEF StreamInv
    <3>5. Latest(c)' = v
      BY <1>2, <2>2, <3>1 DEF Latest
    <3> QED  BY <3>4, <3>5
  <2>3. CASE page[c] # At("live")
    <3>1. /\ ~astray[c]
          /\ ~(proc[w] > Latest(c))
      BY <1>6, <2>1, <2>3 DEF PublishRideEvent
    <3>2. Latest(c)' = Latest(c)
      BY <1>3, <2>3 DEF Latest, PublishRideEvent
    <3>3. Latest(c) \in Version
      BY <2>1, LatestIsVersion DEF StreamInv
    <3>4. Newest(Latest(c))
      BY <2>1, <3>1 DEF StreamInv, ViewFollows
    <3>5. proc[w] <= Latest(c)
      BY <1>1, <3>1, <3>3 DEF Version
    <3> QED  BY <1>1, <3>2, <3>3, <3>4, <3>5, NewestKept DEF StreamInv
  <2> QED  BY <2>2, <2>3
<1> QED  BY <1>4, <1>5, <1>6 DEF StreamInv, ViewFollows

LEMMA PublishFailsInv ==
  ASSUME StreamInv, NEW w \in Worker, PublishFails(w)
  PROVE  StreamInv'
<1>1. /\ proc[w] \in 1 .. MaxVersion
      /\ version' = version
      /\ proc' = [proc EXCEPT ![w] = None]
  BY DEF StreamInv, EventsTypeOK, PublishFails
<1>2. EventsTypeOK'
  BY DEF StreamInv, EventsTypeOK, PublishFails, HasLoaded
<1>3. PageShowsStatus'
  BY DEF StreamInv, PageShowsStatus, HasLoaded, PublishFails
<1>4. ASSUME NEW c \in Client, HasLoaded(c)', ~astray'[c]
      PROVE  Newest(Latest(c))'
  <2>1. /\ HasLoaded(c)
        /\ ~astray[c]
        /\ ~(proc[w] > Latest(c))
        /\ Latest(c)' = Latest(c)
    BY <1>4 DEF PublishFails, HasLoaded, Latest
  <2>2. Latest(c) \in Version
    BY <2>1, LatestIsVersion DEF StreamInv
  <2>3. Newest(Latest(c))
    BY <2>1 DEF StreamInv, ViewFollows
  <2>4. proc[w] <= Latest(c)
    BY <1>1, <2>1, <2>2, EventStreamAssumption DEF Version
  <2> QED  BY <1>1, <2>1, <2>2, <2>3, <2>4, NewestKept DEF StreamInv
<1> QED  BY <1>2, <1>3, <1>4 DEF StreamInv, ViewFollows

(***************************************************************************)
(* The clients' actions: the flight stands still.                          *)
(***************************************************************************)

\* A client that follows from what it followed from before, or from the row as
\* it stands, follows.
LEMMA QuietInv ==
  ASSUME StreamInv, UNCHANGED <<version, proc>>, EventsTypeOK', PageShowsStatus',
         \A c \in Client :
           HasLoaded(c)' /\ ~astray'[c]
             => \/ Latest(c)' = version
                \/ HasLoaded(c) /\ ~astray[c] /\ Latest(c)' = Latest(c)
  PROVE  StreamInv'
<1>1. ASSUME NEW c \in Client, HasLoaded(c)', ~astray'[c]
      PROVE  Newest(Latest(c))'
  <2>1. CASE Latest(c)' = version
    <3>1. (Latest(c)' + 1 .. version') = {}
      BY <2>1, EventStreamAssumption DEF StreamInv, EventsTypeOK, Version
    <3> QED  BY <3>1 DEF Newest
  <2>2. CASE HasLoaded(c) /\ ~astray[c] /\ Latest(c)' = Latest(c)
    <3>1. Newest(Latest(c))
      BY <2>2 DEF StreamInv, ViewFollows
    <3> QED  BY <2>2, <3>1 DEF Newest, InFlight
  <2> QED  BY <1>1, <2>1, <2>2
<1> QED  BY <1>1 DEF StreamInv, ViewFollows

\* The looked-up page is the row as it stands.
LEMMA LoadViewInv ==
  ASSUME StreamInv, NEW c \in Client, LoadView(c)
  PROVE  StreamInv'
<1>1. queue[c] = <<>>
  <2>1. page[c].at \notin {"asked", "live"}
    BY DEF LoadView, At
  <2> QED  BY <2>1 DEF StreamInv, EventsTypeOK
<1>2. EventsTypeOK'
  <2>1. page' \in [Client -> Page]
    BY DEF StreamInv, EventsTypeOK, LoadView, Turn, Page
  <2> QED
    BY <1>1, <2>1 DEF StreamInv, EventsTypeOK, LoadView, Turn
<1>3. PageShowsStatus'
  BY DEF StreamInv, EventsTypeOK, PageShowsStatus, HasLoaded, LoadView, Turn
<1>4. ASSUME NEW d \in Client, HasLoaded(d)', ~astray'[d]
      PROVE  \/ Latest(d)' = version
             \/ HasLoaded(d) /\ ~astray[d] /\ Latest(d)' = Latest(d)
  <2>1. CASE d = c
    BY <1>1, <2>1 DEF StreamInv, EventsTypeOK, LoadView, Turn, Latest
  <2>2. CASE d # c
    BY <1>4, <2>2 DEF StreamInv, EventsTypeOK, LoadView, Turn, Latest, HasLoaded
  <2> QED  BY <2>1, <2>2
<1> QED  BY <1>2, <1>3, <1>4, QuietInv DEF LoadView

\* What was loaded is what is shown.
LEMMA ShowStateInv ==
  ASSUME StreamInv, NEW c \in Client, ShowState(c)
  PROVE  StreamInv'
<1>1. /\ queue[c] = <<>>
      /\ HasLoaded(c)
  BY DEF StreamInv, EventsTypeOK, ShowState, HasLoaded, At
<1>2. page[c].found \in Version
  <2>1. page[c] \in Page
    BY DEF StreamInv, EventsTypeOK
  <2> QED  BY <2>1 DEF ShowState, Page
<1>3. EventsTypeOK'
  <2>1. page' \in [Client -> Page]
    BY DEF StreamInv, EventsTypeOK, ShowState, Turn, Page, At
  <2> QED
    BY <1>1, <1>2, <2>1 DEF StreamInv, EventsTypeOK, ShowState, Turn
<1>4. PageShowsStatus'
  BY <1>2, EventStreamAssumption
     DEF StreamInv, EventsTypeOK, PageShowsStatus, HasLoaded, ShowState, Turn, Version
<1>5. ASSUME NEW d \in Client, HasLoaded(d)', ~astray'[d]
      PROVE  HasLoaded(d) /\ ~astray[d] /\ Latest(d)' = Latest(d)
  <2>1. CASE d = c
    BY <1>1, <1>5, <2>1 DEF StreamInv, EventsTypeOK, ShowState, Turn, Latest, At
  <2>2. CASE d # c
    BY <1>5, <2>2 DEF StreamInv, EventsTypeOK, ShowState, Turn, Latest, HasLoaded
  <2> QED  BY <2>1, <2>2
<1> QED  BY <1>3, <1>4, <1>5, QuietInv DEF ShowState

\* Away from the page nothing is shown and nothing is claimed.
LEMMA LeaveInv ==
  ASSUME StreamInv, NEW c \in Client, riderState(c) \/ Close(c)
  PROVE  StreamInv'
<1>1. EventsTypeOK'
  <2>1. page' \in [Client -> Page]
    BY PlacesArePages DEF StreamInv, EventsTypeOK, riderState, Close, Turn
  <2>2. queue' \in [Client -> Seq(Version)]
    BY NoEvents DEF StreamInv, EventsTypeOK, riderState, Close
  <2>3. ASSUME NEW d \in Client, queue'[d] # <<>>
        PROVE  page'[d].at \in {"asked", "live"}
    <3>1. queue[d] # <<>>
      BY <2>3 DEF StreamInv, EventsTypeOK, riderState, Close
    <3>2. page[d].at \in {"asked", "live"}
      BY <3>1 DEF StreamInv, EventsTypeOK
    <3>3. d # c
      BY <2>3, <3>2 DEF StreamInv, EventsTypeOK, riderState, Close, At
    <3> QED  BY <3>2, <3>3 DEF StreamInv, EventsTypeOK, riderState, Close, Turn
  <2> QED
    BY <2>1, <2>2, <2>3 DEF StreamInv, EventsTypeOK, riderState, Close
<1>2. PageShowsStatus'
  BY DEF StreamInv, EventsTypeOK, PageShowsStatus, HasLoaded, riderState, Close, Turn
<1>3. ASSUME NEW d \in Client, HasLoaded(d)', ~astray'[d]
      PROVE  HasLoaded(d) /\ ~astray[d] /\ Latest(d)' = Latest(d)
  BY <1>3
     DEF StreamInv, EventsTypeOK, riderState, Close, Turn, Latest, HasLoaded
<1> QED  BY <1>1, <1>2, <1>3, QuietInv DEF riderState, Close

\* A stream that is opened, acknowledged, lost or cut changes nothing that is
\* shown; the frames a cut loses are accounted for.
LEMMA StreamTurnsInv ==
  ASSUME StreamInv, NEW c \in Client,
         streamRideEvents(c) \/ Acknowledged(c) \/ Resubscribe(c) \/ Cut(c)
  PROVE  StreamInv'
<1>1. /\ HasLoaded(c)
      /\ HasLoaded(c)'
      /\ page[c].at # "loaded"
      /\ page'[c].at # "loaded"
  BY DEF StreamInv, EventsTypeOK, HasLoaded, At, streamRideEvents, serveSSE,
         Acknowledged, Resubscribe, Cut, Streaming, Turn
<1>2. EventsTypeOK'
  <2>1. page' \in [Client -> Page]
    BY PlacesArePages
       DEF StreamInv, EventsTypeOK, streamRideEvents, serveSSE, Acknowledged,
           Resubscribe, Cut, Turn
  <2>2. queue' \in [Client -> Seq(Version)]
    BY NoEvents
       DEF StreamInv, EventsTypeOK, streamRideEvents, Acknowledged, Resubscribe, Cut
  <2>3. ASSUME NEW d \in Client, queue'[d] # <<>>
        PROVE  page'[d].at \in {"asked", "live"}
    <3>1. queue[d] # <<>>
      BY <2>3
         DEF StreamInv, EventsTypeOK, streamRideEvents, Acknowledged, Resubscribe, Cut
    <3>2. CASE d = c
      BY <2>3, <3>1, <3>2
         DEF StreamInv, EventsTypeOK, streamRideEvents, serveSSE, Acknowledged,
             Resubscribe, Cut, Turn, At
    <3>3. CASE d # c
      BY <3>1, <3>3
         DEF StreamInv, EventsTypeOK, streamRideEvents, serveSSE, Acknowledged,
             Resubscribe, Cut, Turn
    <3> QED  BY <3>2, <3>3
  <2>4. astray' \in [Client -> BOOLEAN]
    BY DEF StreamInv, EventsTypeOK, streamRideEvents, Acknowledged, Resubscribe, Cut
  <2> QED
    BY <2>1, <2>2, <2>3, <2>4
       DEF StreamInv, EventsTypeOK, streamRideEvents, Acknowledged, Resubscribe, Cut
<1>3. PageShowsStatus'
  BY <1>1
     DEF StreamInv, EventsTypeOK, PageShowsStatus, HasLoaded, streamRideEvents,
         serveSSE, Acknowledged, Resubscribe, Cut, Turn
<1>4. ASSUME NEW d \in Client, HasLoaded(d)', ~astray'[d]
      PROVE  HasLoaded(d) /\ ~astray[d] /\ Latest(d)' = Latest(d)
  <2>1. CASE d = c
    BY <1>1, <1>4, <2>1
       DEF StreamInv, EventsTypeOK, streamRideEvents, serveSSE, Acknowledged,
           Resubscribe, Cut, Turn, Latest
  <2>2. CASE d # c
    BY <1>4, <2>2
       DEF StreamInv, EventsTypeOK, streamRideEvents, serveSSE, Acknowledged,
           Resubscribe, Cut, Turn, Latest, HasLoaded
  <2> QED  BY <2>1, <2>2
<1> QED
  BY <1>2, <1>3, <1>4, QuietInv
     DEF streamRideEvents, Acknowledged, Resubscribe, Cut

\* The frame shown last is the one the queue ended with.
LEMMA DeliverInv ==
  ASSUME StreamInv, NEW c \in Client, Deliver(c)
  PROVE  StreamInv'
<1>1. /\ queue[c] \in Seq(Version)
      /\ queue[c] # <<>>
      /\ page[c].at \in {"asked", "live"}
  BY DEF StreamInv, EventsTypeOK, Deliver
<1>2. /\ Head(queue[c]) \in Version
      /\ Tail(queue[c]) \in Seq(Version)
  BY <1>1, TailKeepsLast
<1>3. EventsTypeOK'
  BY <1>1, <1>2 DEF StreamInv, EventsTypeOK, Deliver
<1>4. PageShowsStatus'
  BY <1>2, EventStreamAssumption
     DEF StreamInv, EventsTypeOK, PageShowsStatus, HasLoaded, Deliver, Version
<1>5. ASSUME NEW d \in Client, HasLoaded(d)', ~astray'[d]
      PROVE  HasLoaded(d) /\ ~astray[d] /\ Latest(d)' = Latest(d)
  <2>1. HasLoaded(d) /\ ~astray[d]
    BY <1>5 DEF Deliver, HasLoaded
  <2>2. CASE d = c
    <3>1. /\ queue'[c] = Tail(queue[c])
          /\ view'[c] = Head(queue[c])
          /\ page'[c] = page[c]
      BY DEF StreamInv, EventsTypeOK, Deliver
    <3>2. Latest(c) = queue[c][Len(queue[c])]
      BY <1>1 DEF Latest
    <3>3. CASE Tail(queue[c]) = <<>>
      BY <1>1, <2>1, <2>2, <3>1, <3>2, <3>3, TailKeepsLast DEF Latest
    <3>4. CASE Tail(queue[c]) # <<>>
      BY <1>1, <2>1, <2>2, <3>1, <3>2, <3>4, TailKeepsLast DEF Latest
    <3> QED  BY <3>3, <3>4
  <2>3. CASE d # c
    BY <2>1, <2>3 DEF StreamInv, EventsTypeOK, Deliver, Latest
  <2> QED  BY <2>2, <2>3
<1> QED  BY <1>3, <1>4, <1>5, QuietInv DEF Deliver

LEMMA StreamStepInv == StreamInv /\ [StreamNext]_streamVars => StreamInv'
<1> SUFFICES ASSUME StreamInv, [StreamNext]_streamVars PROVE StreamInv'
  OBVIOUS
<1>1. ASSUME NEW w \in Worker, Commit(w) \/ PublishRideEvent(w) \/ PublishFails(w)
      PROVE  StreamInv'
  BY <1>1, CommitInv, PublishInv, PublishFailsInv
<1>2. ASSUME NEW c \in Client,
             \/ riderState(c) \/ LoadView(c) \/ ShowState(c) \/ Close(c)
             \/ streamRideEvents(c) \/ Acknowledged(c) \/ Deliver(c)
             \/ Resubscribe(c) \/ Cut(c)
      PROVE  StreamInv'
  BY <1>2, LeaveInv, LoadViewInv, ShowStateInv, StreamTurnsInv, DeliverInv
<1>3. CASE UNCHANGED streamVars
  BY <1>3
     DEF streamVars, StreamInv, EventsTypeOK, PageShowsStatus, ViewFollows, HasLoaded,
         Latest, Newest, InFlight
<1> QED  BY <1>1, <1>2, <1>3 DEF StreamNext

(***************************************************************************)
(* The theorems.                                                           *)
(***************************************************************************)

\* Whatever commits, publications, subscriptions and cuts interleave, the
\* inductive invariant of the stream holds.
THEOREM StreamInvariance == StreamSpec => []StreamInv
<1>1. StreamInit => StreamInv
  BY StreamInitInv
<1>2. StreamInv /\ [StreamNext]_streamVars => StreamInv'
  BY StreamStepInv
<1> QED  BY <1>1, <1>2, PTL DEF StreamSpec

\* Versions, requests, pages and queues keep their types, and only a stream that
\* was asked for holds events.
THEOREM EventsTypes == StreamSpec => []EventsTypeOK
<1>1. StreamInv => EventsTypeOK
  BY DEF StreamInv
<1> QED  BY <1>1, StreamInvariance, PTL

\* For any number of clients and of requests publishing out of order, a page no
\* newer event went past shows the ride as it is, is about to, or the newer
\* event has still to be published.
THEOREM TheViewFollows == StreamSpec => []ViewFollows
<1>1. StreamInv => ViewFollows
  BY DEF StreamInv
<1> QED  BY <1>1, StreamInvariance, PTL

=============================================================================
