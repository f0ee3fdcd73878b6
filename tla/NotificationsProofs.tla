------------------------ MODULE NotificationsProofs ------------------------
(***************************************************************************)
(* What the event subscriptions guarantee for any number of subscribers,   *)
(* message IDs and events, and for every interleaving of the reader with   *)
(* the calls that subscribe, unsubscribe and close.                        *)
(***************************************************************************)
EXTENDS Notifications, SequenceTheorems, TLAPS

(* The lists hold subscriptions that are open, with a channel that is too,  *)
(* under the message ID they are for, and none of them twice.               *)
ListsSound ==
    \A m \in MsgIds : \A i \in DOMAIN subscriptions[m] :
        /\ event[subscriptions[m][i]] = m
        /\ phase[subscriptions[m][i]] = "open"
        /\ ~closed[subscriptions[m][i]]
        /\ \A j \in DOMAIN subscriptions[m] :
              subscriptions[m][j] = subscriptions[m][i] => j = i

(* Nothing happens on a subscription before the call that makes it returns: *)
(* a watcher's goroutine that ends before finds nothing to remove.          *)
Untouched(s) == /\ got[s] = <<>> /\ due[s] = <<>>
                /\ hand[s] = <<>> /\ notifChan[s] = <<>> /\ ~closed[s]

BeforeOpen == \A s \in Subs : phase[s] \in {"none", "adding"} => Untouched(s)

(* Only a watcher's goroutine in its inner select has an event in hand.     *)
HandSound ==
    \A s \in Subs : /\ hand[s] # <<>> <=> watch[s] = "offering"
                    /\ s \in Manual => watch[s] = "off" /\ phase[s] # "adding"

(* Whoever listens is on the list of its message.                           *)
ActiveListed == \A s \in Subs : Active(s) => Listed(s)

IInv == TypeOK /\ ListsSound /\ BeforeOpen /\ HandSound /\ ActiveListed
               /\ ActiveGetsAll

-----------------------------------------------------------------------------
(* Lemmas about the lists *)

(* RemoveAt of an element of a sequence closes the gap.                     *)
LEMMA RemoveAtElements ==
    ASSUME NEW S, NEW q \in Seq(S), NEW i \in 1..Len(q)
    PROVE  /\ RemoveAt(q, i) \in Seq(S)
           /\ Len(RemoveAt(q, i)) = Len(q) - 1
           /\ \A k \in 1..Len(q) - 1 :
                 RemoveAt(q, i)[k] = IF k < i THEN q[k] ELSE q[k + 1]
<1> DEFINE a == SubSeq(q, 1, i - 1)
           b == SubSeq(q, i + 1, Len(q))
<1>1. /\ a \in Seq(S) /\ Len(a) = i - 1
      /\ \A k \in 1..i - 1 : a[k] = q[k]
  OBVIOUS
<1>2. /\ b \in Seq(S) /\ Len(b) = Len(q) - i
      /\ \A k \in 1..Len(q) - i : b[k] = q[k + i]
  OBVIOUS
<1>3. RemoveAt(q, i) = a \o b
  BY DEF RemoveAt
<1> HIDE DEF a, b
<1>4. /\ a \o b \in Seq(S) /\ Len(a \o b) = Len(a) + Len(b)
      /\ \A k \in 1..Len(a) + Len(b) :
            (a \o b)[k] = IF k <= Len(a) THEN a[k] ELSE b[k - Len(a)]
  BY <1>1, <1>2, ConcatProperties
<1>5. ASSUME NEW k \in 1..Len(q) - 1
      PROVE  (a \o b)[k] = IF k < i THEN q[k] ELSE q[k + 1]
  <2>1. CASE k < i
    BY <2>1, <1>1, <1>2, <1>4
  <2>2. CASE k >= i
    <3>1. (a \o b)[k] = b[k - (i - 1)]
      BY <2>2, <1>1, <1>2, <1>4
    <3>2. k - (i - 1) \in 1..Len(q) - i /\ k - (i - 1) + i = k + 1
      BY <2>2
    <3>3. b[k - (i - 1)] = q[k + 1]
      BY <3>2, <1>2
    <3> QED BY <2>2, <3>1, <3>3
  <2>3. k < i \/ k >= i
    OBVIOUS
  <2> QED BY <2>1, <2>2, <2>3
<1> QED BY <1>1, <1>2, <1>3, <1>4, <1>5

(* Taking s out of its list leaves the others there, each of them once.     *)
LEMMA RemovedElements ==
    ASSUME TypeOK, ListsSound, NEW s \in Subs, Listed(s)
    PROVE  LET q == subscriptions[event[s]]
               t == Removed(s)
           IN  /\ t \in Seq(Subs)
               /\ \A k \in DOMAIN t : t[k] # s /\ \E j \in DOMAIN q : t[k] = q[j]
               /\ \A k, l \in DOMAIN t : t[k] = t[l] => k = l
               /\ \A j \in DOMAIN q : q[j] # s => \E k \in DOMAIN t : t[k] = q[j]
<1> DEFINE q == subscriptions[event[s]]
           i == CHOOSE k \in DOMAIN q : q[k] = s
           t == Removed(s)
<1>1. q \in Seq(Subs) /\ event[s] \in MsgIds
  BY DEF TypeOK
<1>2. i \in DOMAIN q /\ q[i] = s
  BY DEF Listed
<1>3. \A j, k \in DOMAIN q : q[j] = q[k] => j = k
  BY <1>1 DEF ListsSound
<1>4. t = RemoveAt(q, i)
  BY DEF Removed
<1> HIDE DEF q, i, t
<1>5. i \in 1..Len(q) /\ DOMAIN q = 1..Len(q) /\ Len(q) \in Nat
  BY <1>1, <1>2
<1>6. /\ t \in Seq(Subs) /\ Len(t) = Len(q) - 1
      /\ \A k \in 1..Len(q) - 1 : t[k] = IF k < i THEN q[k] ELSE q[k + 1]
  BY <1>1, <1>4, <1>5, RemoveAtElements
<1>7. DOMAIN t = 1..Len(q) - 1
  BY <1>6, <1>5
<1>8. ASSUME NEW k \in DOMAIN t
      PROVE  t[k] # s /\ \E j \in DOMAIN q : t[k] = q[j]
  <2> DEFINE j == IF k < i THEN k ELSE k + 1
  <2>1. j \in DOMAIN q /\ j # i /\ t[k] = q[j]
    BY <1>5, <1>6, <1>7
  <2> QED BY <2>1, <1>2, <1>3
<1>9. ASSUME NEW k \in DOMAIN t, NEW l \in DOMAIN t, t[k] = t[l]
      PROVE  k = l
  <2> DEFINE At(n) == IF n < i THEN n ELSE n + 1
  <2>1. ASSUME NEW n \in DOMAIN t PROVE At(n) \in DOMAIN q /\ t[n] = q[At(n)]
    BY <1>5, <1>6, <1>7
  <2>2. At(k) = At(l)
    BY <2>1, <1>3, <1>9
  <2> QED BY <2>2, <1>5, <1>7
<1>10. ASSUME NEW j \in DOMAIN q, q[j] # s
       PROVE  \E k \in DOMAIN t : t[k] = q[j]
  <2>1. CASE j < i
    <3>1. j \in DOMAIN t /\ t[j] = q[j]
      BY <2>1, <1>5, <1>6, <1>7
    <3> QED BY <3>1
  <2>2. CASE j > i
    <3>1. j - 1 \in DOMAIN t /\ t[j - 1] = q[j]
      BY <2>2, <1>5, <1>6, <1>7
    <3> QED BY <3>1
  <2> QED BY <2>1, <2>2, <1>2, <1>5, <1>10
<1> QED BY <1>6, <1>8, <1>9, <1>10 DEF q, t

-----------------------------------------------------------------------------
(* Types *)

(* An event appended to a channel with room keeps the channel's type.       *)
LEMMA SendTypes ==
    ASSUME TypeOK, NEW m \in MsgIds, NEW n \in 1..MaxEvents,
           sendNotifications(m, n)
    PROVE  /\ notifChan' \in [Subs -> Seq(1..MaxEvents)]
           /\ \A s \in Subs : Len(notifChan'[s]) <= NotifCap
<1>1. ASSUME NEW s \in Subs
      PROVE  notifChan'[s] \in Seq(1..MaxEvents) /\ Len(notifChan'[s]) <= NotifCap
  <2>1. /\ notifChan[s] \in Seq(1..MaxEvents) /\ Len(notifChan[s]) \in Nat
        /\ Len(notifChan[s]) <= NotifCap
    BY DEF TypeOK
  <2>2. CASE notifChan'[s] = notifChan[s]
    BY <2>1, <2>2
  <2>3. CASE notifChan'[s] = Append(notifChan[s], n) /\ Room(s)
    BY <2>1, <2>3, NotificationsAssumption DEF Room
  <2> QED BY <2>2, <2>3 DEF sendNotifications
<1>2. notifChan' = [s \in Subs |-> notifChan'[s]]
  BY DEF sendNotifications
<1> QED BY <1>1, <1>2

(* Taking the first event off a channel keeps the types of both.            *)
LEMMA HeadTypes ==
    ASSUME TypeOK, NEW s \in Subs, notifChan[s] # <<>>
    PROVE  /\ Head(notifChan[s]) \in 1..MaxEvents
           /\ Tail(notifChan[s]) \in Seq(1..MaxEvents)
           /\ Len(Tail(notifChan[s])) <= NotifCap
           /\ notifChan[s] = <<Head(notifChan[s])>> \o Tail(notifChan[s])
<1>1. notifChan[s] \in Seq(1..MaxEvents) /\ Len(notifChan[s]) <= NotifCap
  BY DEF TypeOK
<1>2. /\ Head(notifChan[s]) \in 1..MaxEvents
      /\ Tail(notifChan[s]) \in Seq(1..MaxEvents)
      /\ Len(Tail(notifChan[s])) = Len(notifChan[s]) - 1
  BY <1>1, HeadTailProperties
<1>3. Len(notifChan[s]) \in Nat /\ NotifCap \in Nat
  BY <1>1, NotificationsAssumption
<1>4. notifChan[s] = <<Head(notifChan[s])>> \o Tail(notifChan[s])
  BY <1>1
<1> QED BY <1>1, <1>2, <1>3, <1>4

(* Every step keeps the types.                                              *)
LEMMA TypesKept == TypeOK /\ ListsSound /\ [Next]_vars => TypeOK'
<1> SUFFICES ASSUME TypeOK, ListsSound, [Next]_vars PROVE TypeOK'
  OBVIOUS
<1>1. ASSUME NEW s \in Subs, AddSubscription(s)
      PROVE  /\ subscriptions' \in [MsgIds -> Seq(Subs)]
             /\ subscribed' \in SUBSET MsgIds
  BY <1>1 DEF AddSubscription, TypeOK
<1>2. ASSUME NEW s \in Subs, subscriptionRemove(s)
      PROVE  /\ subscriptions' \in [MsgIds -> Seq(Subs)]
             /\ closed' \in [Subs -> BOOLEAN]
  <2>1. CASE Listed(s)
    <3>1. Removed(s) \in Seq(Subs)
      BY <2>1, RemovedElements
    <3> QED BY <1>2, <2>1, <3>1 DEF subscriptionRemove, TypeOK
  <2>2. CASE ~Listed(s)
    BY <1>2, <2>2 DEF subscriptionRemove, TypeOK
  <2> QED BY <2>1, <2>2
<1>3. ASSUME NEW s \in Manual, SubscribeNotification(s) PROVE TypeOK'
  BY <1>1, <1>3 DEF SubscribeNotification, Subs, watchVars, TypeOK
<1>4. ASSUME NEW s \in Manual, Unsubscribe(s) PROVE TypeOK'
  BY <1>2, <1>4 DEF Unsubscribe, Subs, watchVars, TypeOK
<1>5. ASSUME NEW s \in Manual, Receive(s) PROVE TypeOK'
  <2>1. s \in Subs /\ notifChan[s] # <<>>
    BY <1>5 DEF Receive, Subs
  <2>2. /\ Head(notifChan[s]) \in 1..MaxEvents
        /\ Tail(notifChan[s]) \in Seq(1..MaxEvents)
        /\ Len(Tail(notifChan[s])) <= NotifCap
    BY <2>1, HeadTypes
  <2>3. got' \in [Subs -> Seq(1..MaxEvents)]
    BY <1>5, <2>1, <2>2 DEF Receive, TypeOK
  <2> QED BY <1>5, <2>1, <2>2, <2>3 DEF Receive, subVars, watchVars, TypeOK
<1>6. ASSUME NEW w \in Watchers, WatchEvent(w) PROVE TypeOK'
  BY <1>6 DEF WatchEvent, Subs, TypeOK
<1>7. ASSUME NEW w \in Watchers, WatchEventAdds(w) PROVE TypeOK'
  BY <1>1, <1>7 DEF WatchEventAdds, Subs, watchVars, TypeOK
<1>8. ASSUME NEW w \in Watchers, Cancel(w) PROVE TypeOK'
  BY <1>8 DEF Cancel, Subs, subVars, TypeOK
<1>9. ASSUME NEW w \in Watchers, WatchTakes(w) PROVE TypeOK'
  BY <1>9, HeadTypes DEF WatchTakes, Subs, subVars, TypeOK
<1>10. ASSUME NEW w \in Watchers, WatchOffers(w) PROVE TypeOK'
  <2>1. hand[w] \in Seq(1..MaxEvents) /\ got[w] \in Seq(1..MaxEvents)
    <3>1. hand[w] = <<>> \/ \E n \in 1..MaxEvents : hand[w] = <<n>>
      BY DEF TypeOK, Subs
    <3>2. /\ <<>> \in Seq(1..MaxEvents)
          /\ \A n \in 1..MaxEvents : <<n>> \in Seq(1..MaxEvents)
      OBVIOUS
    <3>3. got[w] \in Seq(1..MaxEvents)
      BY DEF TypeOK, Subs
    <3> QED BY <3>1, <3>2, <3>3
  <2>2. got[w] \o hand[w] \in Seq(1..MaxEvents)
    BY <2>1, ConcatProperties
  <2> QED BY <1>10, <2>2 DEF WatchOffers, Subs, subVars, TypeOK
<1>11. ASSUME NEW w \in Watchers, WatchEnds(w) PROVE TypeOK'
  BY <1>11 DEF WatchEnds, Subs, subVars, TypeOK
<1>12. ASSUME NEW w \in Watchers, WatchUnsubscribes(w) PROVE TypeOK'
  BY <1>2, <1>12 DEF WatchUnsubscribes, Subs, subVars, TypeOK
<1>13. ASSUME NEW w \in Watchers, WatchCloses(w) PROVE TypeOK'
  BY <1>13 DEF WatchCloses, Subs, subVars, TypeOK
<1>14. ASSUME NEW m \in MsgIds, NEW c \in {0, 1}, msgCallback(m, c) PROVE TypeOK'
  <2>1. sent' \in 1..MaxEvents
    <3>1. sent \in 0..MaxEvents /\ sent < MaxEvents /\ sent' = sent + 1
      BY <1>14 DEF msgCallback, TypeOK
    <3> QED BY <3>1, NotificationsAssumption
  <2>2. due' \in [Subs -> Seq(1..MaxEvents)]
    <3>1. CASE UNCHANGED due
      BY <3>1 DEF TypeOK
    <3>2. CASE due' = [s \in Subs |-> IF event[s] = m /\ Active(s) /\ Room(s)
                                     THEN Append(due[s], sent') ELSE due[s]]
      <4>1. \A s \in Subs : Append(due[s], sent') \in Seq(1..MaxEvents)
                             /\ due[s] \in Seq(1..MaxEvents)
        BY <2>1 DEF TypeOK
      <4> QED BY <3>2, <4>1
    <3> QED BY <1>14, <3>1, <3>2 DEF msgCallback
  <2>3. /\ notifChan' \in [Subs -> Seq(1..MaxEvents)]
        /\ \A s \in Subs : Len(notifChan'[s]) <= NotifCap
    BY <1>14, <2>1, SendTypes DEF msgCallback, TypeOK
  <2> QED BY <1>14, <2>1, <2>2, <2>3 DEF msgCallback, subVars, watchVars, TypeOK
<1>15. CASE UNCHANGED vars
  BY <1>15 DEF vars, subVars, watchVars, TypeOK
<1> QED BY <1>3, <1>4, <1>5, <1>6, <1>7, <1>8, <1>9, <1>10, <1>11, <1>12, <1>13,
           <1>14, <1>15 DEF Next, Watching

-----------------------------------------------------------------------------
(* The lists *)

(* A subscription that is not listed yet enters at the end of its list.     *)
LEMMA AddedElements ==
    ASSUME TypeOK, NEW s \in Subs, AddSubscription(s)
    PROVE  /\ event[s] \in MsgIds
           /\ subscriptions'[event[s]] = Append(subscriptions[event[s]], s)
           /\ \A m \in MsgIds \ {event[s]} : subscriptions'[m] = subscriptions[m]
           /\ \A k \in DOMAIN subscriptions[event[s]] :
                 /\ k \in DOMAIN subscriptions'[event[s]]
                 /\ subscriptions'[event[s]][k] = subscriptions[event[s]][k]
           /\ \A k \in DOMAIN subscriptions'[event[s]] :
                 \/ /\ k \in DOMAIN subscriptions[event[s]]
                    /\ subscriptions'[event[s]][k] = subscriptions[event[s]][k]
                 \/ /\ k = Len(subscriptions[event[s]]) + 1
                    /\ subscriptions'[event[s]][k] = s
           /\ \E k \in DOMAIN subscriptions'[event[s]] :
                 subscriptions'[event[s]][k] = s
<1> DEFINE q == subscriptions[event[s]]
           t == subscriptions'[event[s]]
<1>1. /\ event[s] \in MsgIds /\ q \in Seq(Subs) /\ t = Append(q, s)
      /\ \A m \in MsgIds \ {event[s]} : subscriptions'[m] = subscriptions[m]
  BY DEF TypeOK, AddSubscription
<1> HIDE DEF q, t
<1>2. /\ t \in Seq(Subs) /\ Len(t) = Len(q) + 1 /\ t[Len(q) + 1] = s
      /\ \A k \in 1..Len(q) : t[k] = q[k]
  BY <1>1
<1>3. DOMAIN q = 1..Len(q) /\ DOMAIN t = 1..Len(t) /\ Len(q) \in Nat
  BY <1>1, <1>2
<1>4. /\ \A k \in DOMAIN q : k \in DOMAIN t /\ t[k] = q[k]
      /\ \A k \in DOMAIN t : \/ k \in DOMAIN q /\ t[k] = q[k]
                             \/ k = Len(q) + 1 /\ t[k] = s
      /\ Len(q) + 1 \in DOMAIN t
  BY <1>2, <1>3
<1> QED BY <1>1, <1>2, <1>4 DEF q, t

(* Adding a subscription that is not open yet keeps the lists sound.        *)
LEMMA AddKeepsLists ==
    ASSUME TypeOK, ListsSound, BeforeOpen,
           NEW s \in Subs, phase[s] \in {"none", "adding"},
           AddSubscription(s), phase' = [phase EXCEPT ![s] = "open"],
           UNCHANGED <<event, closed>>
    PROVE  ListsSound'
<1> DEFINE e == event[s]
<1>1. ASSUME NEW m \in MsgIds, m # e, NEW i \in DOMAIN subscriptions[m]
      PROVE  subscriptions[m][i] \in Subs /\ subscriptions[m][i] # s
  BY <1>1 DEF ListsSound, TypeOK
<1>2. \A i \in DOMAIN subscriptions[e] :
         subscriptions[e][i] \in Subs /\ subscriptions[e][i] # s
  BY DEF ListsSound, TypeOK
<1>3. ~closed[s]
  BY DEF BeforeOpen, Untouched
<1>4. \A x \in Subs : x # s => phase'[x] = phase[x]
  BY DEF TypeOK
<1>5. phase'[s] = "open"
  BY DEF TypeOK
<1> SUFFICES ASSUME NEW m \in MsgIds, NEW i \in DOMAIN subscriptions'[m]
             PROVE  /\ event[subscriptions'[m][i]] = m
                    /\ phase'[subscriptions'[m][i]] = "open"
                    /\ ~closed[subscriptions'[m][i]]
                    /\ \A j \in DOMAIN subscriptions'[m] :
                          subscriptions'[m][j] = subscriptions'[m][i] => j = i
  BY DEF ListsSound
<1>6. CASE m # e
  <2>1. subscriptions'[m] = subscriptions[m]
    BY <1>6, AddedElements
  <2> QED BY <2>1, <1>1, <1>4, <1>6 DEF ListsSound
<1>7. CASE m = e
  <2>1. \A k \in DOMAIN subscriptions'[e] :
           \/ /\ k \in DOMAIN subscriptions[e]
              /\ subscriptions'[e][k] = subscriptions[e][k]
           \/ k = Len(subscriptions[e]) + 1 /\ subscriptions'[e][k] = s
    BY AddedElements
  <2>2. CASE i \in DOMAIN subscriptions[e]
             /\ subscriptions'[e][i] = subscriptions[e][i]
    BY <2>1, <2>2, <1>2, <1>4, <1>7 DEF ListsSound
  <2>3. CASE i = Len(subscriptions[e]) + 1 /\ subscriptions'[e][i] = s
    BY <2>1, <2>3, <1>2, <1>3, <1>5, <1>7
  <2> QED BY <2>1, <2>2, <2>3, <1>7
<1> QED BY <1>6, <1>7

(* Removing a subscription keeps the lists sound, whether it ends or not.   *)
LEMMA RemoveKeepsLists ==
    ASSUME TypeOK, ListsSound, NEW s \in Subs, subscriptionRemove(s),
           phase' \in {phase, [phase EXCEPT ![s] = "ended"]}, UNCHANGED event
    PROVE  ListsSound'
<1> DEFINE e == event[s]
           q == subscriptions[e]
           t == Removed(s)
<1>1. \A x \in Subs : x # s => phase'[x] = phase[x]
  BY DEF TypeOK
<1>2. CASE Listed(s)
  <2>1. /\ t \in Seq(Subs)
        /\ \A k \in DOMAIN t : t[k] # s /\ \E j \in DOMAIN q : t[k] = q[j]
        /\ \A k, l \in DOMAIN t : t[k] = t[l] => k = l
    BY <1>2, RemovedElements
  <2>2. /\ closed' = [closed EXCEPT ![s] = TRUE]
        /\ subscriptions' = [subscriptions EXCEPT ![e] = t]
        /\ e \in MsgIds
    BY <1>2 DEF subscriptionRemove, TypeOK
  <2> HIDE DEF t, e
  <2>3. \A x \in Subs : x # s => closed'[x] = closed[x]
    BY <2>2 DEF TypeOK
  <2> SUFFICES ASSUME NEW m \in MsgIds, NEW i \in DOMAIN subscriptions'[m]
               PROVE  /\ event[subscriptions'[m][i]] = m
                      /\ phase'[subscriptions'[m][i]] = "open"
                      /\ ~closed'[subscriptions'[m][i]]
                      /\ \A j \in DOMAIN subscriptions'[m] :
                            subscriptions'[m][j] = subscriptions'[m][i] => j = i
    BY DEF ListsSound
  <2>4. CASE m # e
    <3>1. subscriptions'[m] = subscriptions[m]
      BY <2>2, <2>4 DEF TypeOK
    <3>2. subscriptions[m][i] \in Subs /\ subscriptions[m][i] # s
      BY <2>4, <3>1 DEF ListsSound, TypeOK, e
    <3> QED BY <3>1, <3>2, <2>3, <1>1 DEF ListsSound
  <2>5. CASE m = e
    <3>1. subscriptions'[m] = t
      BY <2>2, <2>5 DEF TypeOK
    <3>2. PICK j \in DOMAIN q : t[i] = q[j]
      BY <2>1, <3>1
    <3>3. t[i] \in Subs /\ t[i] # s
      BY <2>1, <3>1
    <3>4. event[t[i]] = m /\ phase[t[i]] = "open" /\ ~closed[t[i]]
      BY <3>2, <2>5, <2>2 DEF ListsSound
    <3> QED BY <3>1, <3>3, <3>4, <2>1, <2>3, <1>1
  <2> QED BY <2>4, <2>5
<1>3. CASE ~Listed(s)
  <2>1. UNCHANGED <<closed, subscriptions>>
    BY <1>3 DEF subscriptionRemove
  <2>2. \A m \in MsgIds : \A i \in DOMAIN subscriptions[m] :
           subscriptions[m][i] \in Subs /\ subscriptions[m][i] # s
    BY <1>3 DEF ListsSound, Listed, TypeOK
  <2> QED BY <2>1, <2>2, <1>1 DEF ListsSound
<1> QED BY <1>2, <1>3

(* Every step keeps the lists sound.                                        *)
LEMMA ListsKept ==
    TypeOK /\ ListsSound /\ BeforeOpen /\ [Next]_vars => ListsSound'
<1> SUFFICES ASSUME TypeOK, ListsSound, BeforeOpen, [Next]_vars PROVE ListsSound'
  OBVIOUS
<1>1. ASSUME NEW s \in Manual, SubscribeNotification(s) PROVE ListsSound'
  BY <1>1, AddKeepsLists DEF SubscribeNotification, Subs
<1>2. ASSUME NEW s \in Manual, Unsubscribe(s) PROVE ListsSound'
  BY <1>2, RemoveKeepsLists DEF Unsubscribe, Subs
<1>3. ASSUME NEW w \in Watchers, WatchEvent(w) PROVE ListsSound'
  <2>1. \A m \in MsgIds : \A i \in DOMAIN subscriptions[m] :
           /\ subscriptions[m][i] \in Subs
           /\ phase'[subscriptions[m][i]] = phase[subscriptions[m][i]]
    BY <1>3 DEF WatchEvent, TypeOK, ListsSound
  <2> QED BY <1>3, <2>1 DEF WatchEvent, ListsSound
<1>4. ASSUME NEW w \in Watchers, WatchEventAdds(w) PROVE ListsSound'
  BY <1>4, AddKeepsLists DEF WatchEventAdds, Subs
<1>5. ASSUME NEW w \in Watchers, WatchUnsubscribes(w) PROVE ListsSound'
  BY <1>5, RemoveKeepsLists DEF WatchUnsubscribes, subVars, Subs
<1>6. CASE UNCHANGED <<subscriptions, event, phase, closed>>
  BY <1>6 DEF ListsSound
<1>7. QED
  BY <1>1, <1>2, <1>3, <1>4, <1>5, <1>6
  DEF Next, Watching, Receive, Cancel, WatchTakes, WatchEnds, WatchCloses,
      WatchOffers, msgCallback, subVars, vars

-----------------------------------------------------------------------------
(* Each subscription *)

(* A subscription that is listed is open.                                   *)
LEMMA ListedOpen ==
    ASSUME TypeOK, ListsSound, NEW s \in Subs, Listed(s)
    PROVE  phase[s] = "open" /\ ~closed[s]
BY DEF TypeOK, ListsSound, Listed

(* Every step keeps what holds of the goroutines of the watchers.           *)
LEMMA HandKept ==
    TypeOK /\ BeforeOpen /\ HandSound /\ [Next]_vars => HandSound'
<1> SUFFICES ASSUME TypeOK, BeforeOpen, HandSound, [Next]_vars, NEW s \in Subs
             PROVE  /\ hand'[s] # <<>> <=> watch'[s] = "offering"
                    /\ s \in Manual => watch'[s] = "off" /\ phase'[s] # "adding"
  BY DEF HandSound
<1>1. /\ hand[s] # <<>> <=> watch[s] = "offering"
      /\ s \in Manual => watch[s] = "off" /\ phase[s] # "adding"
  BY DEF HandSound
<1>2. Manual \cap Watchers = {}
  BY NotificationsAssumption
<1>3. ASSUME NEW x \in Manual, SubscribeNotification(x) \/ Unsubscribe(x) \/ Receive(x)
      PROVE  hand' = hand /\ watch' = watch
             /\ (phase'[s] = phase[s] \/ phase'[s] \in {"open", "ended"})
  BY <1>3 DEF SubscribeNotification, Unsubscribe, Receive, subVars, watchVars, TypeOK
<1>4. ASSUME NEW w \in Watchers, \/ WatchEvent(w) \/ WatchEventAdds(w) \/ Cancel(w)
                                 \/ Watching(w) \/ WatchOffers(w)
      PROVE  w # s => /\ hand'[s] = hand[s] /\ watch'[s] = watch[s]
                      /\ phase'[s] = phase[s]
  BY <1>4 DEF WatchEvent, WatchEventAdds, Cancel, Watching, WatchOffers, WatchTakes,
              WatchEnds, WatchUnsubscribes, WatchCloses, subVars, watchVars, TypeOK
<1>5. ASSUME s \in Watchers, \/ WatchEvent(s) \/ WatchEventAdds(s) \/ Cancel(s)
                             \/ Watching(s) \/ WatchOffers(s)
      PROVE  hand'[s] # <<>> <=> watch'[s] = "offering"
  <2>1. CASE WatchEvent(s)
    <3>1. hand[s] = <<>>
      BY <2>1 DEF WatchEvent, BeforeOpen, Untouched
    <3>2. hand'[s] = hand[s] /\ watch'[s] = "select"
      BY <2>1 DEF WatchEvent, TypeOK
    <3> QED BY <3>1, <3>2
  <2>2. CASE WatchEventAdds(s) \/ Cancel(s)
    BY <2>2, <1>1 DEF WatchEventAdds, Cancel, watchVars
  <2>3. CASE WatchTakes(s)
    BY <2>3 DEF WatchTakes, TypeOK
  <2>4. CASE WatchEnds(s)
    BY <2>4 DEF WatchEnds, TypeOK
  <2>5. CASE WatchUnsubscribes(s)
    BY <2>5, <1>1 DEF WatchUnsubscribes, TypeOK
  <2>6. CASE WatchCloses(s)
    BY <2>6, <1>1 DEF WatchCloses, TypeOK
  <2>7. CASE WatchOffers(s)
    BY <2>7 DEF WatchOffers, TypeOK
  <2> QED BY <1>5, <2>1, <2>2, <2>3, <2>4, <2>5, <2>6, <2>7 DEF Watching
<1>6. ASSUME NEW m \in MsgIds, NEW c \in {0, 1}, msgCallback(m, c)
      PROVE  UNCHANGED <<hand, watch, phase>>
  BY <1>6 DEF msgCallback, subVars, watchVars
<1>7. CASE UNCHANGED vars
  BY <1>7, <1>1 DEF vars, subVars, watchVars
<1> QED BY <1>1, <1>2, <1>3, <1>4, <1>5, <1>6, <1>7 DEF Next

(* Every step leaves alone the subscriptions that are not open yet.         *)
LEMMA BeforeOpenKept ==
    TypeOK /\ ListsSound /\ BeforeOpen /\ HandSound /\ [Next]_vars => BeforeOpen'
<1> SUFFICES ASSUME TypeOK, ListsSound, BeforeOpen, HandSound, [Next]_vars,
                    NEW s \in Subs, phase'[s] \in {"none", "adding"}
             PROVE  Untouched(s)'
  BY DEF BeforeOpen
<1>1. Untouched(s) <=> /\ got[s] = <<>> /\ due[s] = <<>> /\ hand[s] = <<>>
                       /\ notifChan[s] = <<>> /\ ~closed[s]
  BY DEF Untouched
<1>2. Untouched(s)' <=> /\ got'[s] = <<>> /\ due'[s] = <<>> /\ hand'[s] = <<>>
                        /\ notifChan'[s] = <<>> /\ ~closed'[s]
  BY DEF Untouched
<1>3. ASSUME phase[s] \in {"none", "adding"}
      PROVE  Untouched(s) /\ ~Listed(s) /\ ~Active(s) /\ watch[s] # "offering"
  BY <1>3, ListedOpen DEF BeforeOpen, HandSound, Active, Untouched
<1>4. ASSUME NEW x \in Subs, subscriptionRemove(x), phase[s] \in {"none", "adding"}
      PROVE  closed'[s] = closed[s]
  <2>1. CASE Listed(x)
    <3>1. x # s
      BY <2>1, <1>3, <1>4
    <3> QED BY <1>4, <2>1, <3>1 DEF subscriptionRemove, TypeOK
  <2>2. CASE ~Listed(x)
    BY <1>4, <2>2 DEF subscriptionRemove
  <2> QED BY <2>1, <2>2
<1>5. ASSUME NEW x \in Manual, SubscribeNotification(x) PROVE Untouched(s)'
  BY <1>5, <1>1, <1>2, <1>3 DEF SubscribeNotification, watchVars, TypeOK, Subs
<1>6. ASSUME NEW x \in Manual, Unsubscribe(x) PROVE Untouched(s)'
  <2>1. phase[s] \in {"none", "adding"}
    BY <1>6 DEF Unsubscribe, TypeOK, Subs
  <2> QED BY <1>6, <2>1, <1>1, <1>2, <1>3, <1>4 DEF Unsubscribe, watchVars, Subs
<1>7. ASSUME NEW x \in Manual, Receive(x) PROVE Untouched(s)'
  <2>1. phase[s] \in {"none", "adding"}
    BY <1>7 DEF Receive, subVars
  <2>2. x # s
    BY <1>7, <2>1, <1>1, <1>3 DEF Receive
  <2> QED BY <1>7, <2>1, <2>2, <1>1, <1>2, <1>3 DEF Receive, watchVars, TypeOK
<1>8. ASSUME NEW w \in Watchers, WatchEvent(w) PROVE Untouched(s)'
  <2>1. phase[s] \in {"none", "adding"}
    BY <1>8 DEF WatchEvent, TypeOK, Subs
  <2> QED BY <1>8, <2>1, <1>1, <1>2, <1>3 DEF WatchEvent
<1>9. ASSUME NEW w \in Watchers, WatchEventAdds(w) PROVE Untouched(s)'
  BY <1>9, <1>1, <1>2, <1>3 DEF WatchEventAdds, watchVars, TypeOK, Subs
<1>10. ASSUME NEW w \in Watchers, Cancel(w) \/ WatchCloses(w) PROVE Untouched(s)'
  BY <1>10, <1>1, <1>2, <1>3 DEF Cancel, WatchCloses, subVars
<1>11. ASSUME NEW w \in Watchers, WatchTakes(w) PROVE Untouched(s)'
  <2>1. phase[s] \in {"none", "adding"}
    BY <1>11 DEF WatchTakes, subVars
  <2>2. w # s
    BY <1>11, <2>1, <1>1, <1>3 DEF WatchTakes
  <2> QED BY <1>11, <2>1, <2>2, <1>1, <1>2, <1>3 DEF WatchTakes, TypeOK
<1>12. ASSUME NEW w \in Watchers, WatchOffers(w) PROVE Untouched(s)'
  <2>1. phase[s] \in {"none", "adding"}
    BY <1>12 DEF WatchOffers, subVars
  <2>2. w # s
    BY <1>12, <2>1, <1>3 DEF WatchOffers
  <2> QED BY <1>12, <2>1, <2>2, <1>1, <1>2, <1>3 DEF WatchOffers, TypeOK
<1>13. ASSUME NEW w \in Watchers, WatchEnds(w) PROVE Untouched(s)'
  BY <1>13, <1>1, <1>2, <1>3 DEF WatchEnds, subVars, TypeOK
<1>14. ASSUME NEW w \in Watchers, WatchUnsubscribes(w) PROVE Untouched(s)'
  BY <1>14, <1>1, <1>2, <1>3, <1>4 DEF WatchUnsubscribes, subVars, Subs
<1>15. ASSUME NEW m \in MsgIds, NEW c \in {0, 1}, msgCallback(m, c)
       PROVE  Untouched(s)'
  <2>1. phase[s] \in {"none", "adding"}
    BY <1>15 DEF msgCallback, subVars
  <2>2. notifChan'[s] = notifChan[s] /\ due'[s] = due[s]
    BY <1>15, <2>1, <1>3 DEF msgCallback, sendNotifications
  <2> QED BY <1>15, <2>1, <2>2, <1>1, <1>2, <1>3 DEF msgCallback, watchVars
<1>16. CASE UNCHANGED vars
  BY <1>16, <1>1, <1>2, <1>3 DEF vars, subVars, watchVars
<1> QED BY <1>5, <1>6, <1>7, <1>8, <1>9, <1>10, <1>11, <1>12, <1>13, <1>14, <1>15,
           <1>16 DEF Next, Watching

(* Nobody else's Unsubscribe takes a subscription off its list.             *)
LEMMA OthersStayListed ==
    ASSUME TypeOK, ListsSound, NEW x \in Subs, subscriptionRemove(x),
           UNCHANGED event, NEW s \in Subs, s # x, Listed(s)
    PROVE  Listed(s)'
<1>1. CASE Listed(x) /\ event[x] = event[s]
  <2>1. PICK j \in DOMAIN subscriptions[event[x]] : subscriptions[event[x]][j] = s
    BY <1>1 DEF Listed
  <2>2. \E k \in DOMAIN Removed(x) : Removed(x)[k] = s
    BY <1>1, <2>1, RemovedElements
  <2>3. subscriptions'[event[s]] = Removed(x)
    BY <1>1 DEF subscriptionRemove, TypeOK
  <2> QED BY <2>2, <2>3 DEF Listed
<1>2. CASE Listed(x) /\ event[x] # event[s]
  <2>1. subscriptions'[event[s]] = subscriptions[event[s]]
    BY <1>2 DEF subscriptionRemove, TypeOK
  <2> QED BY <2>1 DEF Listed
<1>3. CASE ~Listed(x)
  BY <1>3 DEF subscriptionRemove, Listed
<1> QED BY <1>1, <1>2, <1>3

(* Adding a subscription lists it and takes no other off its list.          *)
LEMMA AddLists ==
    ASSUME TypeOK, NEW x \in Subs, AddSubscription(x), UNCHANGED event,
           NEW s \in Subs, s = x \/ Listed(s)
    PROVE  Listed(s)'
<1>1. CASE s = x
  BY <1>1, AddedElements DEF Listed
<1>2. CASE s # x /\ event[s] = event[x]
  <2>1. \A k \in DOMAIN subscriptions[event[x]] :
           /\ k \in DOMAIN subscriptions'[event[x]]
           /\ subscriptions'[event[x]][k] = subscriptions[event[x]][k]
    BY AddedElements
  <2> QED BY <1>2, <2>1 DEF Listed
<1>3. CASE s # x /\ event[s] # event[x]
  <2>1. subscriptions'[event[s]] = subscriptions[event[s]]
    BY <1>3, AddedElements DEF TypeOK
  <2> QED BY <1>3, <2>1 DEF Listed
<1> QED BY <1>1, <1>2, <1>3

(* Whoever listens stays listed.                                            *)
LEMMA ActiveListedKept ==
    TypeOK /\ ListsSound /\ HandSound /\ ActiveListed /\ [Next]_vars => ActiveListed'
<1> SUFFICES ASSUME TypeOK, ListsSound, HandSound, ActiveListed, [Next]_vars,
                    NEW s \in Subs, Active(s)'
             PROVE  Listed(s)'
  BY DEF ActiveListed
<1>1. Active(s) => Listed(s)
  BY DEF ActiveListed
<1>2. phase'[s] = "open" /\ watch'[s] \in {"off", "select", "offering"}
  BY DEF Active
<1>3. Active(s) <=> phase[s] = "open" /\ watch[s] \in {"off", "select", "offering"}
  BY DEF Active
<1>4. ASSUME NEW x \in Manual, SubscribeNotification(x) PROVE Listed(s)'
  BY <1>4, <1>1, <1>2, <1>3, AddLists DEF SubscribeNotification, watchVars, TypeOK, Subs
<1>5. ASSUME NEW x \in Manual, Unsubscribe(x) PROVE Listed(s)'
  <2>1. s # x /\ Active(s)
    BY <1>5, <1>2, <1>3 DEF Unsubscribe, watchVars, TypeOK, Subs
  <2> QED BY <1>5, <2>1, <1>1, OthersStayListed DEF Unsubscribe, Subs
<1>6. ASSUME NEW w \in Watchers, WatchEventAdds(w) PROVE Listed(s)'
  BY <1>6, <1>1, <1>2, <1>3, AddLists DEF WatchEventAdds, watchVars, TypeOK, Subs
<1>7. ASSUME NEW w \in Watchers, WatchUnsubscribes(w) PROVE Listed(s)'
  <2>1. s # w /\ Active(s)
    BY <1>7, <1>2, <1>3 DEF WatchUnsubscribes, subVars, TypeOK, Subs
  <2> QED BY <1>7, <2>1, <1>1, OthersStayListed DEF WatchUnsubscribes, subVars, Subs
<1>8. ASSUME NEW w \in Watchers, \/ WatchEvent(w) \/ Cancel(w) \/ WatchTakes(w)
                                 \/ WatchEnds(w) \/ WatchCloses(w) \/ WatchOffers(w)
      PROVE  Listed(s)'
  <2>1. UNCHANGED <<subscriptions, event>>
    BY <1>8 DEF WatchEvent, Cancel, WatchTakes, WatchEnds, WatchCloses, WatchOffers,
                subVars
  <2>2. Active(s)
    BY <1>8, <1>2, <1>3 DEF WatchEvent, Cancel, WatchTakes, WatchEnds, WatchCloses,
                WatchOffers, subVars, TypeOK
  <2> QED BY <2>1, <2>2, <1>1 DEF Listed
<1>9. CASE UNCHANGED <<subscriptions, subVars, watchVars>>
  BY <1>9, <1>1, <1>2, <1>3 DEF Listed, subVars, watchVars
<1> QED BY <1>4, <1>5, <1>6, <1>7, <1>8, <1>9
        DEF Next, Watching, Receive, msgCallback, vars

-----------------------------------------------------------------------------
(* What a subscriber gets *)

(* Taking the first of three parts apart and giving it on changes nothing.  *)
LEMMA Passed ==
    ASSUME NEW S, NEW g \in Seq(S), NEW c \in Seq(S), c # <<>>
    PROVE  /\ Append(g, Head(c)) \o <<>> \o Tail(c) = g \o <<>> \o c
           /\ g \o <<Head(c)>> \o Tail(c) = g \o <<>> \o c
<1>1. /\ Head(c) \in S /\ Tail(c) \in Seq(S) /\ Len(Tail(c)) = Len(c) - 1
      /\ \A i \in 1..Len(Tail(c)) : Tail(c)[i] = c[i + 1]
  BY HeadTailProperties
<1>2. <<Head(c)>> \in Seq(S) /\ <<Head(c)>> \o Tail(c) = c
  BY <1>1
<1>3. \A x \in S : Append(g, x) = g \o <<x>>
  OBVIOUS
<1>4. (g \o <<Head(c)>>) \o Tail(c) = g \o (<<Head(c)>> \o Tail(c))
  BY <1>1, <1>2, ConcatAssociative
<1>5. g \o <<>> = g /\ (g \o <<Head(c)>>) \in Seq(S)
  BY <1>2, ConcatEmptySeq, ConcatProperties
<1>6. (g \o <<Head(c)>>) \o <<>> = g \o <<Head(c)>>
  BY <1>5, ConcatEmptySeq
<1> QED BY <1>1, <1>2, <1>3, <1>4, <1>5, <1>6

(* An event appended to the channel comes last of all.                      *)
LEMMA Queued ==
    ASSUME NEW S, NEW p \in Seq(S), NEW c \in Seq(S), NEW n \in S
    PROVE  p \o Append(c, n) = Append(p \o c, n)
<1>1. <<n>> \in Seq(S) /\ Append(c, n) = c \o <<n>>
  OBVIOUS
<1>2. p \o c \in Seq(S)
  BY ConcatProperties
<1>3. p \o (c \o <<n>>) = (p \o c) \o <<n>>
  BY <1>1, <1>2, ConcatAssociative
<1>4. Append(p \o c, n) = (p \o c) \o <<n>>
  BY <1>2
<1> QED BY <1>1, <1>3, <1>4

(* No step makes a subscriber that listens lose an event.                   *)
LEMMA ActiveGetsAllKept ==
    TypeOK /\ BeforeOpen /\ HandSound /\ ActiveListed /\ ActiveGetsAll /\ [Next]_vars
    => ActiveGetsAll'
<1> SUFFICES ASSUME TypeOK, BeforeOpen, HandSound, ActiveListed, ActiveGetsAll,
                    [Next]_vars, NEW s \in Subs, Active(s)'
             PROVE  due'[s] = got'[s] \o hand'[s] \o notifChan'[s]
  BY DEF ActiveGetsAll
<1> DEFINE Same == UNCHANGED <<due[s], got[s], hand[s], notifChan[s]>>
           Whole == due[s] = got[s] \o hand[s] \o notifChan[s]
           Events == 1..MaxEvents
<1>1. /\ Active(s) => Whole
      /\ Active(s) <=> phase[s] = "open" /\ watch[s] \in {"off", "select", "offering"}
      /\ phase'[s] = "open" /\ watch'[s] \in {"off", "select", "offering"}
  BY DEF ActiveGetsAll, Active
<1>2. phase[s] \in {"none", "adding"} => Whole
  <2>1. <<>> \o <<>> \o <<>> = <<>>
    OBVIOUS
  <2> QED BY <2>1 DEF BeforeOpen, Untouched
<1>3. /\ got[s] \in Seq(Events) /\ notifChan[s] \in Seq(Events)
      /\ due[s] \in Seq(Events) /\ hand[s] \in Seq(Events)
  <2>1. hand[s] = <<>> \/ \E n \in Events : hand[s] = <<n>>
    BY DEF TypeOK
  <2>2. <<>> \in Seq(Events) /\ \A n \in Events : <<n>> \in Seq(Events)
    OBVIOUS
  <2> QED BY <2>1, <2>2 DEF TypeOK
<1>4. ASSUME Same, Whole PROVE due'[s] = got'[s] \o hand'[s] \o notifChan'[s]
  BY <1>4
<1>5. ASSUME NEW x \in Manual, SubscribeNotification(x) PROVE Same /\ Whole
  BY <1>5, <1>1, <1>2 DEF SubscribeNotification, watchVars, TypeOK, Subs
<1>6. ASSUME NEW x \in Manual, Unsubscribe(x) PROVE Same /\ Whole
  BY <1>6, <1>1 DEF Unsubscribe, watchVars, TypeOK, Subs
<1>7. ASSUME NEW x \in Manual, Receive(x)
      PROVE  due'[s] = got'[s] \o hand'[s] \o notifChan'[s]
  <2>1. Whole
    BY <1>7, <1>1 DEF Receive, subVars, watchVars
  <2>2. CASE x # s
    BY <1>7, <2>1, <2>2 DEF Receive, watchVars, TypeOK, Subs
  <2>3. CASE x = s
    <3>1. hand[s] = <<>> /\ notifChan[s] # <<>>
      BY <1>7, <2>3 DEF Receive, HandSound
    <3>2. /\ due'[s] = due[s] /\ hand'[s] = <<>>
          /\ got'[s] = Append(got[s], Head(notifChan[s]))
          /\ notifChan'[s] = Tail(notifChan[s])
      BY <1>7, <2>3, <3>1 DEF Receive, watchVars, TypeOK, Subs
    <3>3. /\ Append(got[s], Head(notifChan[s])) \o <<>> \o Tail(notifChan[s])
             = got[s] \o <<>> \o notifChan[s]
          /\ got[s] \o <<Head(notifChan[s])>> \o Tail(notifChan[s])
             = got[s] \o <<>> \o notifChan[s]
      BY <3>1, <1>3, Passed, Zenon
    <3> QED BY <2>1, <3>1, <3>2, <3>3
  <2> QED BY <2>2, <2>3
<1>8. ASSUME NEW w \in Watchers, WatchEvent(w) PROVE Same /\ Whole
  BY <1>8, <1>1, <1>2 DEF WatchEvent, TypeOK, Subs
<1>9. ASSUME NEW w \in Watchers, WatchEventAdds(w) PROVE Same /\ Whole
  BY <1>9, <1>1, <1>2 DEF WatchEventAdds, watchVars, TypeOK, Subs
<1>10. ASSUME NEW w \in Watchers, Cancel(w) PROVE Same /\ Whole
  BY <1>10, <1>1 DEF Cancel, subVars, TypeOK, Subs
<1>11. ASSUME NEW w \in Watchers, WatchTakes(w)
       PROVE  due'[s] = got'[s] \o hand'[s] \o notifChan'[s]
  <2>1. Whole
    BY <1>11, <1>1 DEF WatchTakes, subVars, TypeOK, Subs
  <2>2. CASE w # s
    BY <1>11, <2>1, <2>2 DEF WatchTakes, TypeOK, Subs
  <2>3. CASE w = s
    <3>1. hand[s] = <<>> /\ notifChan[s] # <<>>
      BY <1>11, <2>3 DEF WatchTakes, HandSound
    <3>2. /\ due'[s] = due[s] /\ got'[s] = got[s]
          /\ hand'[s] = <<Head(notifChan[s])>>
          /\ notifChan'[s] = Tail(notifChan[s])
      BY <1>11, <2>3 DEF WatchTakes, TypeOK, Subs
    <3>3. /\ Append(got[s], Head(notifChan[s])) \o <<>> \o Tail(notifChan[s])
             = got[s] \o <<>> \o notifChan[s]
          /\ got[s] \o <<Head(notifChan[s])>> \o Tail(notifChan[s])
             = got[s] \o <<>> \o notifChan[s]
      BY <3>1, <1>3, Passed, Zenon
    <3> QED BY <2>1, <3>1, <3>2, <3>3
  <2> QED BY <2>2, <2>3
<1>12. ASSUME NEW w \in Watchers, WatchOffers(w)
       PROVE  due'[s] = got'[s] \o hand'[s] \o notifChan'[s]
  <2>1. Whole
    BY <1>12, <1>1 DEF WatchOffers, subVars, TypeOK, Subs
  <2>2. CASE w # s
    BY <1>12, <2>1, <2>2 DEF WatchOffers, TypeOK, Subs
  <2>3. CASE w = s
    <3>1. /\ due'[s] = due[s] /\ notifChan'[s] = notifChan[s]
          /\ got'[s] = got[s] \o hand[s] /\ hand'[s] = <<>>
      BY <1>12, <2>3 DEF WatchOffers, TypeOK, Subs
    <3> HIDE DEF Events
    <3>2. (got[s] \o hand[s]) \o <<>> = got[s] \o hand[s]
      BY <1>3, ConcatProperties, ConcatEmptySeq
    <3> QED BY <2>1, <3>1, <3>2
  <2> QED BY <2>2, <2>3
<1>13. ASSUME NEW w \in Watchers, WatchEnds(w) PROVE Same /\ Whole
  BY <1>13, <1>1 DEF WatchEnds, subVars, TypeOK, Subs
<1>14. ASSUME NEW w \in Watchers, WatchUnsubscribes(w) PROVE Same /\ Whole
  BY <1>14, <1>1 DEF WatchUnsubscribes, subVars, TypeOK, Subs
<1>15. ASSUME NEW w \in Watchers, WatchCloses(w) PROVE Same /\ Whole
  BY <1>15, <1>1 DEF WatchCloses, subVars, TypeOK, Subs
<1>16. ASSUME NEW m \in MsgIds, NEW c \in {0, 1}, msgCallback(m, c)
       PROVE  due'[s] = got'[s] \o hand'[s] \o notifChan'[s]
  <2>1. UNCHANGED <<subVars, watchVars, got>> /\ Active(s) /\ Whole
    BY <1>16, <1>1 DEF msgCallback, subVars, watchVars
  <2>2. Listed(s)
    BY <2>1 DEF ActiveListed
  <2>3. CASE UNCHANGED <<notifChan, due>>
    BY <2>1, <2>3 DEF watchVars
  <2>4. CASE /\ sendNotifications(m, sent')
             /\ due' = [x \in Subs |-> IF event[x] = m /\ Active(x) /\ Room(x)
                                       THEN Append(due[x], sent') ELSE due[x]]
    <3>1. CASE event[s] = m /\ Room(s)
      <4>1. /\ due'[s] = Append(due[s], sent')
            /\ notifChan'[s] = Append(notifChan[s], sent')
        BY <2>1, <2>2, <2>4, <3>1 DEF sendNotifications
      <4>2. sent' \in Events
        <5>1. sent \in 0..MaxEvents /\ sent < MaxEvents /\ sent' = sent + 1
          BY <1>16 DEF msgCallback, TypeOK
        <5> QED BY <5>1, NotificationsAssumption
      <4> DEFINE old == got[s] \o hand[s]
      <4>3. old \in Seq(Events)
        BY <1>3, ConcatProperties
      <4> HIDE DEF old, Events
      <4>4. \A n \in Events :
               old \o Append(notifChan[s], n) = Append(old \o notifChan[s], n)
        BY <4>3, <1>3, Queued
      <4> QED BY <2>1, <4>1, <4>2, <4>4 DEF watchVars, old
    <3>2. CASE ~(event[s] = m /\ Room(s))
      BY <2>1, <2>4, <3>2 DEF sendNotifications, watchVars
    <3> QED BY <3>1, <3>2
  <2> QED BY <1>16, <2>3, <2>4 DEF msgCallback
<1>17. CASE UNCHANGED vars
  BY <1>17, <1>1 DEF vars, subVars, watchVars
<1> HIDE DEF Same, Whole
<1> QED BY <1>4, <1>5, <1>6, <1>7, <1>8, <1>9, <1>10, <1>11, <1>12, <1>13, <1>14,
           <1>15, <1>16, <1>17 DEF Next, Watching

-----------------------------------------------------------------------------
(* The theorems *)

(* The initial states satisfy the invariant.                                *)
LEMMA InitIInv == Init => IInv
<1> SUFFICES ASSUME Init PROVE IInv
  OBVIOUS
<1>1. TypeOK
  BY NotificationsAssumption DEF Init, TypeOK
<1>2. ListsSound /\ BeforeOpen /\ HandSound
  BY DEF Init, ListsSound, BeforeOpen, Untouched, HandSound
<1>3. ActiveListed /\ ActiveGetsAll
  BY DEF Init, ActiveListed, ActiveGetsAll, Active
<1> QED BY <1>1, <1>2, <1>3 DEF IInv

(* Every step keeps the invariant.                                          *)
LEMMA IInvKept == IInv /\ [Next]_vars => IInv'
BY TypesKept, ListsKept, BeforeOpenKept, HandKept, ActiveListedKept, ActiveGetsAllKept
DEF IInv

(* The inductive invariant holds in every reachable state.                  *)
THEOREM Invariance == Spec => []IInv
BY InitIInv, IInvKept, PTL DEF Spec

(* The state of the subscriptions has its types, and no notifChan holds     *)
(* more than its capacity.                                                  *)
THEOREM TypeCorrect == Spec => []TypeOK
<1>1. IInv => TypeOK
  BY DEF IInv
<1> QED BY <1>1, Invariance, PTL

(* The reader never sends on a notifChan that Unsubscribe or a watcher has  *)
(* closed, and none is closed twice: closed channels are on no list, and    *)
(* nothing is on a list twice, whatever the order of subscribing, closing   *)
(* and ending.                                                              *)
THEOREM NeverSendsOnClosed == Spec => []NoSendOnClosed
<1>1. IInv => NoSendOnClosed
  <2> SUFFICES ASSUME IInv, NEW s \in Subs
               PROVE  /\ closed[s] => ~Listed(s)
                      /\ \A i, j \in DOMAIN subscriptions[event[s]] :
                            subscriptions[event[s]][i] = s
                            /\ subscriptions[event[s]][j] = s => i = j
    BY DEF NoSendOnClosed
  <2>1. TypeOK /\ ListsSound /\ event[s] \in MsgIds
    BY DEF IInv, TypeOK
  <2>2. closed[s] => ~Listed(s)
    BY <2>1, ListedOpen
  <2>3. ASSUME NEW i \in DOMAIN subscriptions[event[s]],
               NEW j \in DOMAIN subscriptions[event[s]],
               subscriptions[event[s]][i] = s, subscriptions[event[s]][j] = s
        PROVE  i = j
    BY <2>1, <2>3 DEF ListsSound
  <2> QED BY <2>2, <2>3
<1> QED BY <1>1, Invariance, PTL

(* A subscriber that listens gets every event of its message ID that finds  *)
(* room in its channel, once and in order, however many others subscribe    *)
(* and unsubscribe meanwhile.                                               *)
THEOREM ListenersMissNothing == Spec => []ActiveGetsAll
<1>1. IInv => ActiveGetsAll
  BY DEF IInv
<1> QED BY <1>1, Invariance, PTL
=============================================================================
