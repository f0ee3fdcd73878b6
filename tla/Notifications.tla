--------------------------- MODULE Notifications ---------------------------
(***************************************************************************)
(* Event subscriptions: the map Connection.subscriptions, the two ways to  *)
(* subscribe (Channel.SubscribeNotification with a Go channel of the       *)
(* program's own, Connection.WatchEvent with a goroutine per watcher), and *)
(* the reader goroutine that hands events out under the read lock.         *)
(***************************************************************************)
EXTENDS Naturals, Sequences, SequencesExt

CONSTANTS Manual,     \* subscriptions made with SubscribeNotification
          Watchers,   \* subscriptions made with WatchEvent
          MsgIds,     \* message IDs VPP has given to the messages
          NotifCap,   \* capacity of every notifChan
          MaxEvents   \* bound: messages VPP sends

ASSUME NotificationsAssumption == /\ Manual \cap Watchers = {}
                                  /\ NotifCap \in Nat \ {0} /\ MaxEvents \in Nat

Subs == Manual \cup Watchers

VARIABLES
    subscriptions,  \* Connection.subscriptions: message ID -> list
    subscribed,     \* the keys of that map
    event,          \* msgID of a subscriptionCtx
    phase,          \* "none", "adding" (WatchEvent has started its goroutine),
                    \* "open", "ended" (Unsubscribe has returned)
    notifChan,      \* the buffered notification channel
    closed,         \* notifChan is closed
    ctxDone,        \* the watcher's context is cancelled
    watch,          \* where the goroutine watcher.watch is
    hand,           \* <<>> or the event it offers on the events channel
    eventsClosed,   \* watcher.events is closed
    got,            \* what the program has received
    due,            \* ghost: what it had to receive
    sent            \* messages VPP has sent; also names them

subVars   == <<event, phase>>
watchVars == <<ctxDone, watch, hand, eventsClosed>>
vars == <<subscriptions, subscribed, subVars, notifChan, closed, watchVars, got,
          due, sent>>

Init == /\ subscriptions = [m \in MsgIds |-> <<>>]
        /\ subscribed = {}
        /\ event \in [Subs -> MsgIds]
        /\ phase = [s \in Subs |-> "none"]
        /\ notifChan = [s \in Subs |-> <<>>]
        /\ closed = [s \in Subs |-> FALSE]
        /\ ctxDone = [s \in Subs |-> FALSE]
        /\ watch = [s \in Subs |-> "off"]
        /\ hand = [s \in Subs |-> <<>>]
        /\ eventsClosed = [s \in Subs |-> FALSE]
        /\ got = [s \in Subs |-> <<>>]
        /\ due = [s \in Subs |-> <<>>]
        /\ sent = 0

-----------------------------------------------------------------------------
(* Subscribing and unsubscribing, under subscriptionsLock *)

AddSubscription(s) ==
    /\ subscriptions' = [subscriptions EXCEPT ![event[s]] = Append(@, s)]
    /\ subscribed' = subscribed \cup {event[s]}

SubscribeNotification(s) ==
    /\ phase[s] = "none"
    /\ AddSubscription(s)
    /\ phase' = [phase EXCEPT ![s] = "open"]
    /\ UNCHANGED <<event, notifChan, closed, watchVars, got, due, sent>>

Listed(s) == \E i \in DOMAIN subscriptions[event[s]] : subscriptions[event[s]][i] = s

(* Mutant of Removed: the tail of the list is lost.                         *)
RemovedWithTail(s) ==
    LET subs == subscriptions[event[s]]
        i == CHOOSE k \in DOMAIN subs : subs[k] = s
    IN SubSeq(subs, 1, i - 1)

(* The list without s.                                                      *)
Removed(s) ==
    LET subs == subscriptions[event[s]]
        i == CHOOSE k \in DOMAIN subs : subs[k] = s
    IN RemoveAt(subs, i)

(* Mutant of subscriptionRemove: the channel is closed, the entry stays.    *)
subscriptionRemoveForgotten(s) ==
    /\ closed' = [closed EXCEPT ![s] = TRUE]
    /\ UNCHANGED subscriptions

(* Unsubscribe: a subscription that is found is removed, its notifChan      *)
(* closed; one that is not gives an error.  The key stays in the map.       *)
subscriptionRemove(s) ==
    IF Listed(s)
    THEN /\ closed' = [closed EXCEPT ![s] = TRUE]
         /\ subscriptions' = [subscriptions EXCEPT ![event[s]] = Removed(s)]
    ELSE UNCHANGED <<closed, subscriptions>>

Unsubscribe(s) ==
    /\ phase[s] = "open"
    /\ subscriptionRemove(s)
    /\ phase' = [phase EXCEPT ![s] = "ended"]
    /\ UNCHANGED <<subscribed, event, notifChan, watchVars, got, due, sent>>

-----------------------------------------------------------------------------
(* WatchEvent starts the goroutine first and adds the subscription after.   *)

WatchEvent(w) ==
    /\ phase[w] = "none"
    /\ phase' = [phase EXCEPT ![w] = "adding"]
    /\ watch' = [watch EXCEPT ![w] = "select"]
    /\ UNCHANGED <<subscriptions, subscribed, event, notifChan, closed, ctxDone,
                   hand, eventsClosed, got, due, sent>>

WatchEventAdds(w) ==
    /\ phase[w] = "adding"
    /\ AddSubscription(w)
    /\ phase' = [phase EXCEPT ![w] = "open"]
    /\ UNCHANGED <<event, notifChan, closed, watchVars, got, due, sent>>

(* watcher.Close, or the end of the context WatchEvent was given.           *)
Cancel(w) ==
    /\ ~ctxDone[w]
    /\ ctxDone' = [ctxDone EXCEPT ![w] = TRUE]
    /\ UNCHANGED <<subscriptions, subscribed, subVars, notifChan, closed, watch,
                   hand, eventsClosed, got, due, sent>>

(* The outer select of watch takes an event.                                *)
WatchTakes(w) ==
    /\ watch[w] = "select" /\ notifChan[w] # <<>>
    /\ watch' = [watch EXCEPT ![w] = "offering"]
    /\ hand' = [hand EXCEPT ![w] = <<Head(notifChan[w])>>]
    /\ notifChan' = [notifChan EXCEPT ![w] = Tail(@)]
    /\ UNCHANGED <<subscriptions, subscribed, subVars, closed, ctxDone,
                   eventsClosed, got, due, sent>>

(* The inner select: the program receives it on the events channel.         *)
WatchOffers(w) ==
    /\ watch[w] = "offering"
    /\ watch' = [watch EXCEPT ![w] = "select"]
    /\ got' = [got EXCEPT ![w] = @ \o hand[w]]
    /\ hand' = [hand EXCEPT ![w] = <<>>]
    /\ UNCHANGED <<subscriptions, subscribed, subVars, notifChan, closed, ctxDone,
                   eventsClosed, due, sent>>

(* Mutant of WatchEnds: the inner select does not wait for the context.     *)
WatchEndsIdle(w) ==
    /\ watch[w] = "select" /\ ctxDone[w]
    /\ watch' = [watch EXCEPT ![w] = "leaving"]
    /\ UNCHANGED <<subscriptions, subscribed, subVars, notifChan, closed, ctxDone,
                   hand, eventsClosed, got, due, sent>>

(* Either select takes ctx.Done(): the event in hand is lost.               *)
WatchEnds(w) ==
    /\ watch[w] \in {"select", "offering"} /\ ctxDone[w]
    /\ watch' = [watch EXCEPT ![w] = "leaving"]
    /\ hand' = [hand EXCEPT ![w] = <<>>]
    /\ UNCHANGED <<subscriptions, subscribed, subVars, notifChan, closed, ctxDone,
                   eventsClosed, got, due, sent>>

(* The deferred function: Unsubscribe, whose error is only logged...        *)
WatchUnsubscribes(w) ==
    /\ watch[w] = "leaving"
    /\ subscriptionRemove(w)
    /\ watch' = [watch EXCEPT ![w] = "closing"]
    /\ UNCHANGED <<subscribed, subVars, notifChan, ctxDone, hand, eventsClosed,
                   got, due, sent>>

(* ...and close(w.events).                                                  *)
WatchCloses(w) ==
    /\ watch[w] = "closing"
    /\ watch' = [watch EXCEPT ![w] = "done"]
    /\ eventsClosed' = [eventsClosed EXCEPT ![w] = TRUE]
    /\ UNCHANGED <<subscriptions, subscribed, subVars, notifChan, closed, ctxDone,
                   hand, got, due, sent>>

-----------------------------------------------------------------------------
(* The reader goroutine *)

isNotificationMessage(msgID) == msgID \in subscribed

Room(s) == Len(notifChan[s]) < NotifCap

(* Somebody listens: subscribed, and a watcher's goroutine still in its loop.*)
Active(s) == /\ phase[s] = "open"
             /\ watch[s] \in {"off", "select", "offering"}

(* The event goes to every subscription of the list whose channel has room. *)
sendNotifications(msgID, n) ==
    notifChan' = [s \in Subs |-> IF event[s] = msgID /\ Listed(s) /\ Room(s)
                                 THEN Append(notifChan[s], n) ELSE notifChan[s]]

(* A message from VPP: an event (context 0) or a reply, which is taken for  *)
(* an event when its ID is a key of the map.  One that cannot be decoded    *)
(* goes nowhere; the reply path is ApiChannel's.                            *)
msgCallback(msgID, context) ==
    /\ sent < MaxEvents
    /\ context = 0 \/ isNotificationMessage(msgID)
    /\ sent' = sent + 1
    /\ \/ /\ sendNotifications(msgID, sent')
          /\ due' = [s \in Subs |-> IF event[s] = msgID /\ Active(s) /\ Room(s)
                                    THEN Append(due[s], sent') ELSE due[s]]
       \/ UNCHANGED <<notifChan, due>>
    /\ UNCHANGED <<subscriptions, subscribed, subVars, closed, watchVars, got>>

(* The program reads its own notification channel.                          *)
Receive(s) ==
    /\ notifChan[s] # <<>>
    /\ got' = [got EXCEPT ![s] = Append(@, Head(notifChan[s]))]
    /\ notifChan' = [notifChan EXCEPT ![s] = Tail(@)]
    /\ UNCHANGED <<subscriptions, subscribed, subVars, closed, watchVars, due,
                   sent>>

-----------------------------------------------------------------------------
Watching(w) == \/ WatchTakes(w) \/ WatchEnds(w)
               \/ WatchUnsubscribes(w) \/ WatchCloses(w)

Next == \/ \E s \in Manual : SubscribeNotification(s) \/ Unsubscribe(s) \/ Receive(s)
        \/ \E w \in Watchers : \/ WatchEvent(w) \/ WatchEventAdds(w) \/ Cancel(w)
                               \/ Watching(w) \/ WatchOffers(w)
        \/ \E msgID \in MsgIds, context \in {0, 1} : msgCallback(msgID, context)

Spec == Init /\ [][Next]_vars

(* The watchers' goroutines run.  A select with several ready cases picks   *)
(* one at random, so the end of the context is taken at last (SF).  The     *)
(* program need not read anything.                                          *)
Fairness == \A w \in Watchers : /\ SF_vars(WatchEnds(w))
                                /\ WF_vars(WatchUnsubscribes(w))
                                /\ WF_vars(WatchCloses(w))

FairSpec == Spec /\ Fairness

-----------------------------------------------------------------------------
(* Every variable has its type, and no channel holds more than its capacity.*)
TypeOK ==
    /\ subscriptions \in [MsgIds -> Seq(Subs)]
    /\ subscribed \in SUBSET MsgIds
    /\ event \in [Subs -> MsgIds]
    /\ phase \in [Subs -> {"none", "adding", "open", "ended"}]
    /\ notifChan \in [Subs -> Seq(1..MaxEvents)]
    /\ \A s \in Subs : Len(notifChan[s]) <= NotifCap
    /\ closed \in [Subs -> BOOLEAN]
    /\ ctxDone \in [Subs -> BOOLEAN]
    /\ watch \in [Subs -> {"off", "select", "offering", "leaving", "closing", "done"}]
    /\ hand \in [Subs -> {<<>>} \cup {<<n>> : n \in 1..MaxEvents}]
    /\ eventsClosed \in [Subs -> BOOLEAN]
    /\ got \in [Subs -> Seq(1..MaxEvents)]
    /\ due \in [Subs -> Seq(1..MaxEvents)]
    /\ sent \in 0..MaxEvents

(* The reader never sends on a closed channel, which would panic: what is   *)
(* closed is not listed (Unsubscribe closes and removes under one lock), and*)
(* nothing is listed twice, so that nothing is closed twice.                *)
NoSendOnClosed ==
    \A s \in Subs :
        /\ closed[s] => ~Listed(s)
        /\ \A i, j \in DOMAIN subscriptions[event[s]] :
              subscriptions[event[s]][i] = s /\ subscriptions[event[s]][j] = s => i = j

(* A subscriber that listens gets every event VPP sends from the return of  *)
(* the subscribing call on, once and in order, but for those that find its  *)
(* channel full: nobody else's Unsubscribe or Close makes it lose one.      *)
ActiveGetsAll ==
    \A s \in Subs : Active(s) => due[s] = got[s] \o hand[s] \o notifChan[s]

(* "The channel is closed when watcher context is canceled or when Close is *)
(* called" (api.Watcher.Events), whether or not the program reads it.       *)
EventsClosed ==
    \A w \in Watchers : ctxDone[w] /\ watch[w] # "off" ~> eventsClosed[w]
=============================================================================
