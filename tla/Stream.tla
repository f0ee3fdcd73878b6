------------------------------- MODULE Stream -------------------------------
(***************************************************************************)
(* Streams (core/stream.go): goroutines that call Connection.Invoke or use *)
(* a stream of their own, on Channel objects recycled through the pool,    *)
(* while the reader goroutine delivers what VPP answers.  A stream sends   *)
(* its requests itself and takes the next reply of its channel, whatever   *)
(* its sequence number.  Neither a stream nor Invoke limits the wait unless *)
(* the user says so: DefaultReplyTimeout is 0.                             *)
(*                                                                         *)
(* Channel IDs are not reused here: the pool hands out 0x7fff of them in   *)
(* turn (ApiChannel models their reuse).                                   *)
(***************************************************************************)
EXTENDS Naturals, Sequences, FiniteSets

CONSTANTS Invokers,     \* goroutines that call Invoke, again and again
          Streamers,    \* goroutines that open, use and close a stream
          Objects,      \* the Channel objects the pool has allocated
          NoObject,
          Limited,      \* users with a reply timeout or a context that ends
          ReplyBuf,     \* replySize
          MaxOpens,     \* bound: streams opened
          MaxSends,     \* bound: requests sent on one stream
          MaxDetails    \* bound: answers to one request (details of a dump)

ASSUME StreamAssumption ==
    /\ Invokers \cap Streamers = {} /\ NoObject \notin Objects
    /\ ReplyBuf \in Nat \ {0} /\ MaxOpens \in Nat /\ MaxSends \in Nat \ {0}
    /\ MaxDetails \in Nat \ {0}

Users == Invokers \cup Streamers
Ids == 1..MaxOpens
(* Contents of a reply: the channel ID and sequence number of its request,  *)
(* and which of the answers to that request it is.                          *)
Messages == [id : Ids, seq : 1..MaxSends, part : 1..MaxDetails]

VARIABLES
    opens,      \* streams opened; the last ID given out
    pool,       \* Channel objects in channelPool
    returning,  \* objects on their way there: go c.channelPool.Put(ch)
    channels,   \* Connection.channels: the object of an ID, or none
    pc,         \* of Users: "idle", "open", "closing"
    object,     \* of Users: Stream.channel
    id,         \* of Users: its ID
    sentOn,     \* of Users: requests sent on the stream
    got,        \* of Users: replies received on the stream
    result,     \* of Users: what its last call returned
    replyChan,  \* of Objects
    vppQueue,   \* external: of the requests VPP works on, its next answers
    callback    \* the reader: <<>> or the object it looked up and the reply

userVars == <<pc, object, id, sentOn, got, result>>
vars == <<opens, pool, returning, channels, userVars, replyChan, vppQueue,
          callback>>

Init == /\ opens = 0
        /\ pool = Objects
        /\ returning = {}
        /\ channels = [i \in Ids |-> NoObject]
        /\ pc = [u \in Users |-> "idle"]
        /\ object = [u \in Users |-> NoObject]
        /\ id = [u \in Users |-> 0]
        /\ sentOn = [u \in Users |-> 0]
        /\ got = [u \in Users |-> <<>>]
        /\ result = [u \in Users |-> "none"]
        /\ replyChan = [o \in Objects |-> <<>>]
        /\ vppQueue = <<>>
        /\ callback = <<>>

-----------------------------------------------------------------------------
(* newChannel: an object of the pool, the next ID.                          *)
NewStream(u) ==
    /\ pc[u] = "idle" /\ opens < MaxOpens
    /\ opens' = opens + 1
    /\ \E o \in pool :
         /\ pool' = pool \ {o}
         /\ channels' = [channels EXCEPT ![opens'] = o]
         /\ object' = [object EXCEPT ![u] = o]
    /\ id' = [id EXCEPT ![u] = opens']
    /\ pc' = [pc EXCEPT ![u] = "open"]
    /\ sentOn' = [sentOn EXCEPT ![u] = 0]
    /\ got' = [got EXCEPT ![u] = <<>>]
    /\ result' = [result EXCEPT ![u] = "none"]
    /\ UNCHANGED <<returning, replyChan, vppQueue, callback>>

(* Invoke sends once; a stream may go on sending after any result.          *)
MaySend(u) == /\ pc[u] = "open" /\ sentOn[u] < MaxSends
              /\ u \in Invokers => sentOn[u] = 0

(* SendMsg: processRequest numbers the request and sends it.                *)
SendMsg(u) ==
    /\ MaySend(u)
    /\ sentOn' = [sentOn EXCEPT ![u] = @ + 1]
    /\ vppQueue' = Append(vppQueue, [id |-> id[u], seq |-> sentOn'[u], part |-> 1])
    /\ result' = [result EXCEPT ![u] = "none"]
    /\ UNCHANGED <<opens, pool, returning, channels, pc, object, id, got,
                   replyChan, callback>>

(* Invoke is done: the deferred Close comes next.                           *)
AfterCall(u) == IF u \in Invokers THEN [pc EXCEPT ![u] = "closing"] ELSE pc

(* Mutant of SendFails: Invoke returns without closing the stream.          *)
SendFailsUnclosed(u) ==
    /\ MaySend(u)
    /\ sentOn' = [sentOn EXCEPT ![u] = @ + 1]
    /\ result' = [result EXCEPT ![u] = "error"]
    /\ pc' = IF u \in Invokers THEN [pc EXCEPT ![u] = "idle"] ELSE pc
    /\ UNCHANGED <<opens, pool, returning, channels, object, id, got, replyChan,
                   vppQueue, callback>>

(* SendMsg fails: no connection, an unknown message, a write error.         *)
SendFails(u) ==
    /\ MaySend(u)
    /\ sentOn' = [sentOn EXCEPT ![u] = @ + 1]
    /\ result' = [result EXCEPT ![u] = "error"]
    /\ pc' = AfterCall(u)
    /\ UNCHANGED <<opens, pool, returning, channels, object, id, got, replyChan,
                   vppQueue, callback>>

Receiving(u) == pc[u] = "open" /\ sentOn[u] > 0

(* recvReply takes a reply: whichever comes next on the channel.            *)
RecvReply(u) ==
    /\ Receiving(u)
    /\ replyChan[object[u]] # <<>>
    /\ got' = [got EXCEPT ![u] = Append(@, Head(replyChan[object[u]]))]
    /\ replyChan' = [replyChan EXCEPT ![object[u]] = Tail(@)]
    /\ result' = [result EXCEPT ![u] = "reply"]
    /\ pc' = AfterCall(u)
    /\ UNCHANGED <<opens, pool, returning, channels, object, id, sentOn, vppQueue,
                   callback>>

(* Its timeout fires, or the stream's context ends: if there is either.     *)
RecvFails(u) ==
    /\ Receiving(u) /\ u \in Limited
    /\ result' = [result EXCEPT ![u] = "error"]
    /\ pc' = AfterCall(u)
    /\ UNCHANGED <<opens, pool, returning, channels, object, id, sentOn, got,
                   replyChan, vppQueue, callback>>

(* Close: releaseAPIChannel takes the channel out of the map and starts the *)
(* goroutine that puts it back in the pool.                                 *)
Close(u) ==
    /\ pc[u] = "closing" \/ (u \in Streamers /\ pc[u] = "open")
    /\ channels' = [channels EXCEPT ![id[u]] = NoObject]
    /\ pc' = [pc EXCEPT ![u] = "idle"]
    /\ returning' = returning \cup {object[u]}
    /\ UNCHANGED <<opens, pool, object, id, sentOn, got, result, replyChan,
                   vppQueue, callback>>

(* Reset drains the reply channel, and the object is free.                  *)
Put(o) ==
    /\ o \in returning
    /\ returning' = returning \ {o}
    /\ replyChan' = [replyChan EXCEPT ![o] = <<>>]
    /\ pool' = pool \cup {o}
    /\ UNCHANGED <<opens, channels, userVars, vppQueue, callback>>

-----------------------------------------------------------------------------
(* VPP works its queue off in order; some requests it does not answer, or   *)
(* not to the end.                                                          *)
VppSkips ==
    /\ vppQueue # <<>>
    /\ vppQueue' = Tail(vppQueue)
    /\ UNCHANGED <<opens, pool, returning, channels, userVars, replyChan,
                   callback>>

(* The answers to one request come in a row: the last one, or one of the    *)
(* details of a dump that has more.                                         *)
Answered ==
    \/ vppQueue' = Tail(vppQueue)
    \/ /\ Head(vppQueue).part < MaxDetails
       /\ vppQueue' = [vppQueue EXCEPT ![1].part = @ + 1]

(* msgCallback looks the channel up; a reply for an unknown one is ignored. *)
VppReplies ==
    /\ vppQueue # <<>> /\ callback = <<>>
    /\ Answered
    /\ callback' = LET r == Head(vppQueue) IN
         IF channels[r.id] = NoObject THEN <<>> ELSE <<channels[r.id], r>>
    /\ UNCHANGED <<opens, pool, returning, channels, userVars, replyChan>>

(* Mutant of sendReply: the reader sends a reply again that was sent.       *)
sendReplyAgain ==
    /\ callback # <<>>
    /\ LET o == callback[1] IN
         /\ Len(replyChan[o]) < ReplyBuf
         /\ replyChan' = [replyChan EXCEPT ![o] = Append(@, callback[2])]
    /\ callback' \in {<<>>, callback}
    /\ UNCHANGED <<opens, pool, returning, channels, userVars, vppQueue>>

(* sendReply puts it in the object the lookup found, whoever owns that now. *)
sendReply ==
    /\ callback # <<>>
    /\ LET o == callback[1] IN
         /\ Len(replyChan[o]) < ReplyBuf
         /\ replyChan' = [replyChan EXCEPT ![o] = Append(@, callback[2])]
    /\ callback' = <<>>
    /\ UNCHANGED <<opens, pool, returning, channels, userVars, vppQueue>>

(* Mutant of sendReplyGivesUp: the reader does not wait for room.           *)
sendReplyGivesUpAtOnce ==
    /\ callback # <<>>
    /\ callback' = <<>>
    /\ UNCHANGED <<opens, pool, returning, channels, userVars, replyChan, vppQueue>>

(* The channel stays full for receiveReplyTimeout: the reply is dropped.    *)
sendReplyGivesUp ==
    /\ callback # <<>>
    /\ Len(replyChan[callback[1]]) = ReplyBuf
    /\ callback' = <<>>
    /\ UNCHANGED <<opens, pool, returning, channels, userVars, replyChan, vppQueue>>

-----------------------------------------------------------------------------
Calls(u) == SendMsg(u) \/ SendFails(u) \/ RecvReply(u) \/ RecvFails(u)

Next == \/ \E u \in Users : NewStream(u) \/ Calls(u) \/ Close(u)
        \/ \E o \in Objects : Put(o)
        \/ VppSkips \/ VppReplies \/ sendReply \/ sendReplyGivesUp

Spec == Init /\ [][Next]_vars

(* A call of Invoke goes on once its request is sent, the reader and the    *)
(* goroutines of releaseAPIChannel run, and a limited wait ends; the write  *)
(* of a request to the socket need not return, VPP need not answer, and the *)
(* owners of streams need not do anything.                                  *)
Fairness == /\ \A u \in Invokers : /\ WF_vars(RecvReply(u)) /\ WF_vars(RecvFails(u))
                                   /\ WF_vars(Close(u))
            /\ \A o \in Objects : WF_vars(Put(o))
            /\ WF_vars(sendReply \/ sendReplyGivesUp)

FairSpec == Spec /\ Fairness

-----------------------------------------------------------------------------
(* Every variable has its type, and no reply channel exceeds its size.      *)
TypeOK ==
    /\ opens \in 0..MaxOpens
    /\ pool \in SUBSET Objects /\ returning \in SUBSET Objects
    /\ channels \in [Ids -> Objects \cup {NoObject}]
    /\ pc \in [Users -> {"idle", "open", "closing"}]
    /\ object \in [Users -> Objects \cup {NoObject}]
    /\ id \in [Users -> 0..MaxOpens]
    /\ sentOn \in [Users -> 0..MaxSends]
    /\ got \in [Users -> Seq(Messages)]
    /\ result \in [Users -> {"none", "reply", "error"}]
    /\ replyChan \in [Objects -> Seq(Messages)]
    /\ \A o \in Objects : Len(replyChan[o]) <= ReplyBuf
    /\ vppQueue \in Seq(Messages)
    /\ callback \in {<<>>} \cup (Objects \X Messages)

Open == {u \in Users : pc[u] # "idle"}

(* Every Channel object is in the pool, on its way there, or a stream's, and*)
(* of one stream only; the map of channels holds exactly the open streams,  *)
(* so Invoke leaks none on any of its ways out (deferred Close).            *)
ObjectsConserved ==
    /\ pool \cap returning = {}
    /\ \A u \in Open : object[u] \notin pool \cup returning
    /\ \A u, v \in Open : object[u] = object[v] => u = v
    /\ Cardinality(pool) + Cardinality(returning) + Cardinality(Open) =
         Cardinality(Objects)
    /\ \A i \in Ids : channels[i] # NoObject <=> \E u \in Open : id[u] = i

(* Of two answers of VPP to one stream the first is to an earlier request,  *)
(* or an earlier detail of the same one.                                    *)
Earlier(m, n) == m.seq < n.seq \/ (m.seq = n.seq /\ m.part < n.part)

(* The replies a stream gets to its own requests come in the order of the   *)
(* requests, the details of a dump in theirs, and never twice, however many *)
(* it waits for, loses or receives late: a user can pair them by counting   *)
(* (api.Stream leaves that to him).                                         *)
OwnRepliesInOrder ==
    \A u \in Users : \A i, j \in DOMAIN got[u] :
        i < j /\ got[u][i].id = got[u][j].id => Earlier(got[u][i], got[u][j])

(* A call of Invoke that waits for a reply returns, and its channel goes    *)
(* back to the pool, once the reader has a reply for its channel, or if the *)
(* user limited the wait.  Without a limit it waits as long as VPP is       *)
(* silent: the timer channel of recvReply is nil.                           *)
InvokeReturns ==
    \A u \in Invokers, o \in Objects :
        /\ Receiving(u) /\ object[u] = o
        /\ u \in Limited \/ (callback # <<>> /\ callback[1] = o)
        ~> o \in pool

(* Violated.  Invoke is "a simple request-reply RPC": the reply it returns  *)
(* is the reply to its request.                                             *)
InvokeOwnReply ==
    \A u \in Invokers : \A i \in DOMAIN got[u] : got[u][i].id = id[u]
=============================================================================
