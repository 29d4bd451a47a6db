----------------------------- MODULE TowerNotifier -----------------------------
(* TowerNotifier and the subscribe handler.  A subscriber is a request         *)
(* goroutine that registers a channel of its own, waits for one event or for   *)
(* its client to leave, and unregisters the channel under the mutex that       *)
(* Publish sends under.  A channel is named by its subscriber.                 *)
EXTENDS InspectionStore, SequencesExt

CONSTANTS
  Subscriber,         \* the subscribe requests a behaviour may contain
  SubscriberCapacity  \* the size of a channel, 8 in the code

VARIABLES
  subscribers,  \* the registered channels of each key, in order
  buffer,       \* what each channel holds
  closed,       \* the channels that are closed
  feedPc,       \* where each subscriber's goroutine stands
  feedKey,      \* what it subscribed to, 0 before
  feedEvent,    \* the event it received
  feedReply,    \* the HTTP status sent, 0 before
  feed,         \* history: the events published under each key
  since         \* history: how many of them there were when it subscribed

notifierVars == <<subscribers, buffer, closed, feedPc, feedKey, feedEvent, feedReply, feed, since>>

NotifierTypeOK ==
  /\ subscribers \in [AuditKey -> Seq(Subscriber)]
  /\ buffer \in [Subscriber -> Seq(EventType)]
  /\ \A s \in Subscriber : Len(buffer[s]) <= SubscriberCapacity
  /\ closed \subseteq Subscriber
  /\ feedPc \in [Subscriber -> {"new", "select", "unsubscribe", "done"}]
  /\ feedKey \in [Subscriber -> AuditKey \cup {0}]
  /\ feedEvent \in [Subscriber -> EventType \cup {"none"}]
  /\ feedReply \in [Subscriber -> {0, 200, 504}]

NotifierInit ==
  /\ subscribers = [key \in AuditKey |-> <<>>]
  /\ buffer = [s \in Subscriber |-> <<>>]
  /\ closed = {}
  /\ feedPc = [s \in Subscriber |-> "new"]
  /\ feedKey = [s \in Subscriber |-> 0]
  /\ feedEvent = [s \in Subscriber |-> "none"]
  /\ feedReply = [s \in Subscriber |-> 0]
  /\ feed = [key \in AuditKey |-> <<>>]
  /\ since = [s \in Subscriber |-> 0]

FeedGoto(s, label) == feedPc' = [feedPc EXCEPT ![s] = label]

-------------------------------------------------------------------------------
(* TowerNotifier.Publish, inside the handlers of start and complete            *)

\* Mutant: a full channel loses its oldest event instead of the new one.
DeliverDroppingOldest(tower, event) ==
  LET Room(b) == IF Len(b) = SubscriberCapacity THEN Tail(b) ELSE b IN
  /\ buffer' = [s \in Subscriber |->
       IF Contains(subscribers[tower], s) THEN Append(Room(buffer[s]), event) ELSE buffer[s]]
  /\ feed' = [feed EXCEPT ![tower] = Append(@, event)]
  /\ UNCHANGED <<subscribers, closed, feedPc, feedKey, feedEvent, feedReply, since>>

\* No send blocks: a channel without room does not get the event.
Deliver(tower, event) ==
  /\ buffer' = [s \in Subscriber |->
       IF Contains(subscribers[tower], s) /\ Len(buffer[s]) < SubscriberCapacity
         THEN Append(buffer[s], event) ELSE buffer[s]]
  /\ feed' = [feed EXCEPT ![tower] = Append(@, event)]
  /\ UNCHANGED <<subscribers, closed, feedPc, feedKey, feedEvent, feedReply, since>>

-------------------------------------------------------------------------------
(* GET /api/inspections/{id}/subscribe                                         *)

\* Whatever stands in the path is subscribed to; events are published under
\* towers only, so the number of an inspection is a key nothing arrives under.
Subscribe(s) ==
  \E key \in AuditKey :
    /\ feedPc[s] = "new"
    /\ subscribers' = [subscribers EXCEPT ![key] = Append(@, s)]
    /\ feedKey' = [feedKey EXCEPT ![s] = key]
    /\ since' = [since EXCEPT ![s] = Len(feed[key])]
    /\ FeedGoto(s, "select")
    /\ UNCHANGED <<buffer, closed, feedEvent, feedReply, feed>>

\* The select takes the event and the handler answers it.
Receive(s) ==
  /\ feedPc[s] = "select"
  /\ buffer[s] # <<>>
  /\ buffer' = [buffer EXCEPT ![s] = Tail(@)]
  /\ feedEvent' = [feedEvent EXCEPT ![s] = Head(buffer[s])]
  /\ feedReply' = [feedReply EXCEPT ![s] = 200]
  /\ FeedGoto(s, "unsubscribe")
  /\ UNCHANGED <<subscribers, closed, feedKey, feed, since>>

\* The environment ends the request's context, and the select takes that case,
\* with or without an event waiting.
Leave(s) ==
  /\ feedPc[s] = "select"
  /\ feedReply' = [feedReply EXCEPT ![s] = 504]
  /\ FeedGoto(s, "unsubscribe")
  /\ UNCHANGED <<subscribers, buffer, closed, feedKey, feedEvent, feed, since>>

\* Mutant: the channel is closed before it is taken out.
UnsubscribeClosingFirst(s) ==
  /\ feedPc[s] = "unsubscribe"
  /\ \/ /\ s \notin closed
        /\ closed' = closed \cup {s}
        /\ UNCHANGED <<subscribers, buffer, feedPc>>
     \/ /\ s \in closed
        /\ subscribers' = [subscribers EXCEPT ![feedKey[s]] = RemoveFirst(@, s)]
        /\ buffer' = [buffer EXCEPT ![s] = <<>>]
        /\ FeedGoto(s, "done")
        /\ UNCHANGED closed
  /\ UNCHANGED <<feedKey, feedEvent, feedReply, feed, since>>

\* The deferred Unsubscribe: the channel is taken out and closed in one critical
\* section.  What it still holds goes with it.
Unsubscribe(s) ==
  /\ feedPc[s] = "unsubscribe"
  /\ subscribers' = [subscribers EXCEPT ![feedKey[s]] = RemoveFirst(@, s)]
  /\ closed' = closed \cup {s}
  /\ buffer' = [buffer EXCEPT ![s] = <<>>]
  /\ FeedGoto(s, "done")
  /\ UNCHANGED <<feedKey, feedEvent, feedReply, feed, since>>

SubscriberStep(s) == Receive(s) \/ Unsubscribe(s)

NotifierNext == \E s \in Subscriber : Subscribe(s) \/ SubscriberStep(s) \/ Leave(s)

-------------------------------------------------------------------------------
(* Properties                                                                  *)

\* The registered channels are exactly those of the subscribers between Subscribe
\* and Unsubscribe, each once and under its own key, and none of them is closed:
\* Publish never sends on a closed channel and no handler waits unregistered.
SubscribersAreWaiting ==
  \A s \in Subscriber :
    LET waiting == feedPc[s] \in {"select", "unsubscribe"} IN
    /\ waiting => s \notin closed
    /\ \A key \in AuditKey :
         Cardinality({i \in DOMAIN subscribers[key] : subscribers[key][i] = s}) =
           IF waiting /\ feedKey[s] = key THEN 1 ELSE 0

\* A waiting subscriber's channel holds the first events published under its key
\* since it subscribed, as many as fit, and what it answers is the very first:
\* a drop never costs the event the client gets.  Nothing is ever published under
\* the number of an inspection, so who subscribed to one is not answered an event.
FirstEventArrives ==
  \A s \in Subscriber : feedPc[s] # "new" =>
    LET published == SubSeq(feed[feedKey[s]], since[s] + 1, Len(feed[feedKey[s]]))
        fits      == IF Len(published) < SubscriberCapacity THEN Len(published) ELSE SubscriberCapacity
    IN  /\ feedPc[s] = "select" => buffer[s] = SubSeq(published, 1, fits)
        /\ feedReply[s] = 200 => feedEvent[s] = Head(published)
        /\ feedKey[s] \in InspectionId => published = <<>> /\ feedReply[s] # 200
===============================================================================
