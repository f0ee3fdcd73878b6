---------------------------- MODULE ApiChannel ----------------------------
(***************************************************************************)
(* The request path of package core: API channels, their watchRequests     *)
(* goroutines, the message callback of the adapter's reader goroutine, and *)
(* ReceiveReply (core/channel.go, core/request_handler.go, and newChannel  *)
(* and releaseAPIChannel with the two pools of core/connection.go).        *)
(*                                                                         *)
(* A Channel object is pooled: Close hands it back to channelPool and its  *)
(* ID to channelIdPool, each to be taken by a later NewAPIChannel, while   *)
(* VPP may still owe replies on that ID and the reader goroutine may still *)
(* hold the pointer.  Actors: one user goroutine and one watchRequests     *)
(* goroutine per open object, the reader goroutine, the goroutine that     *)
(* puts an object back (go c.channelPool.Put(ch)), VPP and the link to it. *)
(*                                                                         *)
(* Every request carries a ghost `tag`, unique over the run, which the     *)
(* code does not have: the properties compare tags, the code may compare   *)
(* only what it has (channel ID, multipart bit, wrapped sequence number).  *)
(***************************************************************************)
EXTENDS RequestContext, Sequences, FiniteSets

CONSTANTS Objects,      \* the Channel objects the pool has ever allocated
          MaxID,        \* channel IDs are 1 .. MaxID (0x7fff in the code)
          InitSeqs,     \* lastSeqNum of a pooled object: 0 when fresh
          ReqBuf,       \* RequestChanBufSize
          ReplyBuf,     \* ReplyChanBufSize
          MaxOpens,     \* bound: calls of NewAPIChannel
          MaxRequests,  \* bound: requests sent in total
          MaxDetails,   \* bound: details VPP sends for one dump
          MaxFaults,    \* bound: connection drops and failed sends
          Timeouts      \* reply timeouts users set, from {"custom", "none"}

ASSUME PoolAssumption == /\ MaxID \in Nat \ {0} /\ MaxID < IdMod
                         /\ InitSeqs \subseteq SeqNum /\ InitSeqs # {}
ASSUME ObjectsAssumption == IsFiniteSet(Objects) /\ "none" \notin Objects
ASSUME BufAssumption == ReqBuf \in Nat \ {0} /\ ReplyBuf \in Nat \ {0}
ASSUME BoundAssumption == /\ MaxOpens \in Nat /\ MaxRequests \in Nat
                          /\ MaxDetails \in Nat /\ MaxFaults \in Nat
ASSUME TimeoutAssumption == Timeouts \subseteq {"custom", "none"}

VARIABLES
    home,          \* where each object is in its life cycle
    id,            \* Channel.id
    reqChan,       \* Channel.reqChan, its buffered requests
    reqClosed,     \* Channel.reqChan has been closed
    replyChan,     \* Channel.replyChan, its buffered replies
    lastSeqNum,    \* Channel.lastSeqNum
    delayedReply,  \* Channel.delayedReply
    replyTimeout,  \* Channel.replyTimeout: "none" when 0, the default
    channels,      \* Connection.channels, the map from IDs to objects
    freeIds,       \* Connection.channelIdPool.ids
    watcher,       \* program counter and request of watchRequests
    user,          \* program counter and awaited request of the user
    handles,       \* the request contexts the user still waits on
    result,        \* what the user's last ReceiveReply returned
    vppConnected,  \* Connection.vppConnected
    vppQueue,      \* external: requests VPP has received, not yet answered
    callback,      \* the reader goroutine inside msgCallback/sendReply
    issued,        \* ghost: requests sent so far, the last tag
    sent,          \* ghost: details VPP has sent for a request
    received,      \* ghost: details ReceiveReply has returned for it
    lost,          \* ghost: requests that lost a reply, see Lose below
    opens, faults  \* counters of the bounds

poolVars == <<home, id, reqClosed, channels, freeIds, opens>>
userVars == <<user, handles, result, lastSeqNum, delayedReply, replyTimeout,
              received>>
vppVars  == <<vppQueue, callback, sent, issued>>
vars == <<home, id, reqChan, reqClosed, replyChan, lastSeqNum, delayedReply,
          replyTimeout, channels, freeIds, watcher, user, handles, result,
          vppConnected, vppQueue, callback, issued, sent, received, lost, opens, faults>>

-----------------------------------------------------------------------------
None == "none"
IDs  == 1 .. MaxID
Tags == 1 .. MaxRequests

Request == [tag : Tags, seq : SeqNum, multi : BOOLEAN]
Reply   == [tag : Tags, seq : SeqNum, kind : {"data", "last", "error"}]
Message == [context : ContextNum, tag : Tags, ping : BOOLEAN]

NoReply == [kind |-> "none"]
Idle    == [pc |-> "idle"]
Receiving(h) == [pc |-> "receiving", want |-> h]

-----------------------------------------------------------------------------
Init == /\ home = [o \in Objects |-> "pooled"]
        /\ id = [o \in Objects |-> 0]
        /\ reqChan = [o \in Objects |-> <<>>]
        /\ reqClosed = [o \in Objects |-> FALSE]
        /\ replyChan = [o \in Objects |-> <<>>]
        /\ lastSeqNum \in [Objects -> InitSeqs]
        /\ delayedReply = [o \in Objects |-> NoReply]
        /\ replyTimeout = [o \in Objects |-> "none"]
        /\ channels = [i \in IDs |-> None]
        /\ freeIds = [i \in IDs |-> i]
        /\ watcher = [o \in Objects |-> Idle]
        /\ user = [o \in Objects |-> Idle]
        /\ handles = [o \in Objects |-> {}]
        /\ result = [o \in Objects |-> NoReply]
        /\ vppConnected = TRUE
        /\ vppQueue = <<>>
        /\ callback = Idle
        /\ issued = 0
        /\ sent = [t \in Tags |-> 0]
        /\ received = [t \in Tags |-> 0]
        /\ lost = {}
        /\ opens = 0
        /\ faults = 0

-----------------------------------------------------------------------------
(* Opening and closing a channel *)

(* newAPIChannel and newChannel: the first free ID, any pooled object, and  *)
(* a new reqChan (Reset has set the closed one to nil).  replyChan has the  *)
(* right capacity and is kept with whatever it holds; lastSeqNum,           *)
(* delayedReply and replyTimeout are kept as well.  With no free ID the     *)
(* call only returns an error.  One step: until the object is in the map    *)
(* nobody else has it or its ID, so the takes from the two pools and the    *)
(* store commute with every step of the others.                             *)
NewAPIChannel(o) ==
    /\ home[o] = "pooled" /\ freeIds # <<>> /\ opens < MaxOpens
    /\ LET i == Head(freeIds)
       IN  /\ id' = [id EXCEPT ![o] = i]
           /\ channels' = [channels EXCEPT ![i] = o]
    /\ freeIds' = Tail(freeIds)
    /\ home' = [home EXCEPT ![o] = "open"]
    /\ reqClosed' = [reqClosed EXCEPT ![o] = FALSE]
    /\ watcher' = [watcher EXCEPT ![o] = [pc |-> "recv"]]
    /\ opens' = opens + 1
    /\ UNCHANGED <<userVars, vppVars, reqChan, replyChan, vppConnected, lost, faults>>

(* Mutant of Close: reqChan is not closed.                                  *)
CloseKeepingChan(o) ==
    /\ home[o] = "open" /\ user[o] = Idle
    /\ home' = [home EXCEPT ![o] = "closing"]
    /\ UNCHANGED reqClosed
    /\ handles' = [handles EXCEPT ![o] = {}]
    /\ result' = [result EXCEPT ![o] = NoReply]
    /\ UNCHANGED <<vppVars, id, channels, freeIds, opens, user, lastSeqNum,
                   delayedReply, replyTimeout, received, reqChan, replyChan,
                   watcher, vppConnected, lost, faults>>

(* Channel.Close, after which the user keeps none of its request contexts.  *)
Close(o) ==
    /\ home[o] = "open" /\ user[o] = Idle
    /\ home' = [home EXCEPT ![o] = "closing"]
    /\ reqClosed' = [reqClosed EXCEPT ![o] = TRUE]
    /\ handles' = [handles EXCEPT ![o] = {}]
    /\ result' = [result EXCEPT ![o] = NoReply]
    /\ UNCHANGED <<vppVars, id, channels, freeIds, opens, user, lastSeqNum,
                   delayedReply, replyTimeout, received, reqChan, replyChan,
                   watcher, vppConnected, lost, faults>>

(* Mutant of ReleaseFromMap: the object stays in the map.                   *)
ReleaseKeepingMap(o) ==
    /\ watcher[o].pc = "recv" /\ reqClosed[o] /\ reqChan[o] = <<>>
    /\ home' = [home EXCEPT ![o] = "releasing"]
    /\ watcher' = [watcher EXCEPT ![o] = [pc |-> "putId"]]
    /\ UNCHANGED <<userVars, vppVars, id, reqClosed, freeIds, opens, reqChan,
                   replyChan, vppConnected, lost, faults, channels>>

(* releaseAPIChannel, run by watchRequests once reqChan is closed and empty:*)
(* the object leaves the map, then its ID goes to the back of the ID pool,  *)
(* then another goroutine resets the object and puts it in the pool.        *)
ReleaseFromMap(o) ==
    /\ watcher[o].pc = "recv" /\ reqClosed[o] /\ reqChan[o] = <<>>
    /\ channels' = [channels EXCEPT ![id[o]] = None]
    /\ home' = [home EXCEPT ![o] = "releasing"]
    /\ watcher' = [watcher EXCEPT ![o] = [pc |-> "putId"]]
    /\ UNCHANGED <<userVars, vppVars, id, reqClosed, freeIds, opens, reqChan,
                   replyChan, vppConnected, lost, faults>>

(* Mutant of ReleasePutId: a LIFO pool, which hands the ID out again next.  *)
ReleasePutIdFirst(o) ==
    /\ watcher[o].pc = "putId"
    /\ freeIds' = <<id[o]>> \o freeIds
    /\ home' = [home EXCEPT ![o] = "resetting"]
    /\ watcher' = [watcher EXCEPT ![o] = Idle]
    /\ UNCHANGED <<userVars, vppVars, id, reqClosed, channels, opens, reqChan,
                   replyChan, vppConnected, lost, faults>>

(* Mutant of ReleasePutId: the ID is not put back.                          *)
ReleaseForgettingId(o) ==
    /\ watcher[o].pc = "putId"
    /\ home' = [home EXCEPT ![o] = "resetting"]
    /\ watcher' = [watcher EXCEPT ![o] = Idle]
    /\ UNCHANGED <<userVars, vppVars, id, reqClosed, channels, opens, reqChan,
                   replyChan, vppConnected, lost, faults, freeIds>>

ReleasePutId(o) ==
    /\ watcher[o].pc = "putId"
    /\ freeIds' = Append(freeIds, id[o])
    /\ home' = [home EXCEPT ![o] = "resetting"]
    /\ watcher' = [watcher EXCEPT ![o] = Idle]
    /\ UNCHANGED <<userVars, vppVars, id, reqClosed, channels, opens, reqChan,
                   replyChan, vppConnected, lost, faults>>

(* Pool.Put calls Channel.Reset, which drains both Go channels, and puts    *)
(* the object in the sync.Pool.                                             *)
ResetAndPut(o) ==
    /\ home[o] = "resetting"
    /\ replyChan' = [replyChan EXCEPT ![o] = <<>>]
    /\ home' = [home EXCEPT ![o] = "pooled"]
    /\ UNCHANGED <<userVars, vppVars, id, reqClosed, channels, freeIds, opens,
                   reqChan, watcher, vppConnected, lost, faults>>

-----------------------------------------------------------------------------
(* Sending a request *)

(* SendRequest (multi = FALSE) and SendMultiRequest: blocked while reqChan  *)
(* is full.                                                                 *)
SendRequest(o, multi) ==
    /\ home[o] = "open" /\ user[o] = Idle
    /\ Len(reqChan[o]) < ReqBuf /\ issued < MaxRequests
    /\ LET req == [tag |-> issued + 1, seq |-> nextSeqNum(lastSeqNum[o]),
                   multi |-> multi]
       IN  /\ lastSeqNum' = [lastSeqNum EXCEPT ![o] = req.seq]
           /\ reqChan' = [reqChan EXCEPT ![o] = Append(@, req)]
           /\ handles' = [handles EXCEPT ![o] = @ \cup {req}]
    /\ issued' = issued + 1
    /\ result' = [result EXCEPT ![o] = NoReply]
    /\ UNCHANGED <<poolVars, replyChan, delayedReply, replyTimeout, watcher,
                   user, vppConnected, vppQueue, callback, sent, received,
                   lost, faults>>

(* A failure the environment may cause: free while disconnected, otherwise  *)
(* counted.                                                                 *)
Fault == IF vppConnected THEN faults < MaxFaults /\ faults' = faults + 1
                         ELSE UNCHANGED faults

WatcherGoes(o, pc) ==
    watcher' = [watcher EXCEPT ![o] = [pc |-> pc, req |-> watcher[o].req]]

(* watchRequests takes a request; processRequest checks the connection,     *)
(* looks up the message ID and encodes the message...                       *)
TakeRequest(o) ==
    /\ watcher[o].pc = "recv" /\ reqChan[o] # <<>> /\ vppConnected
    /\ watcher' = [watcher EXCEPT ![o] = [pc |-> "send",
                                          req |-> Head(reqChan[o])]]
    /\ reqChan' = [reqChan EXCEPT ![o] = Tail(@)]
    /\ UNCHANGED <<poolVars, userVars, vppVars, replyChan, vppConnected, lost, faults>>

(* Mutant of RejectRequest: the watcher goes on without an error reply.     *)
RejectSilently(o) ==
    /\ watcher[o].pc = "recv" /\ reqChan[o] # <<>> /\ Fault
    /\ watcher' = [watcher EXCEPT ![o] = [pc |-> "recv"]]
    /\ reqChan' = [reqChan EXCEPT ![o] = Tail(@)]
    /\ UNCHANGED <<poolVars, userVars, vppVars, replyChan, vppConnected, lost>>

(* ... and any of the three may fail, which makes an error reply.           *)
RejectRequest(o) ==
    /\ watcher[o].pc = "recv" /\ reqChan[o] # <<>> /\ Fault
    /\ watcher' = [watcher EXCEPT ![o] = [pc |-> "reply",
                                          req |-> Head(reqChan[o])]]
    /\ reqChan' = [reqChan EXCEPT ![o] = Tail(@)]
    /\ UNCHANGED <<poolVars, userVars, vppVars, replyChan, vppConnected, lost>>

ToVPP(o, ping) ==
    vppQueue' = Append(vppQueue,
        [context |-> packRequestContext(id[o], watcher[o].req.multi,
                                        watcher[o].req.seq),
         tag |-> watcher[o].req.tag, ping |-> ping])

(* Mutant of SendToVPP: the control ping leaves before the request.         *)
SendToVPPAfterPing(o) ==
    /\ watcher[o].pc = "send" /\ vppConnected
    /\ vppQueue' =
         (IF watcher[o].req.multi
          THEN Append(vppQueue,
                 [context |-> packRequestContext(id[o], TRUE,
                                                 watcher[o].req.seq),
                  tag |-> watcher[o].req.tag, ping |-> TRUE])
          ELSE vppQueue) \o
         <<[context |-> packRequestContext(id[o], watcher[o].req.multi,
                                           watcher[o].req.seq),
            tag |-> watcher[o].req.tag, ping |-> FALSE]>>
    /\ watcher' = [watcher EXCEPT ![o] = [pc |-> "recv"]]
    /\ UNCHANGED <<poolVars, userVars, callback, sent, issued, reqChan, replyChan,
                   vppConnected, lost, faults>>

(* The first SendMsg of processRequest succeeds; a multipart request goes   *)
(* on to its control ping.                                                  *)
SendToVPP(o) ==
    /\ watcher[o].pc = "send" /\ vppConnected
    /\ ToVPP(o, FALSE)
    /\ IF watcher[o].req.multi
       THEN WatcherGoes(o, "ping")
       ELSE watcher' = [watcher EXCEPT ![o] = [pc |-> "recv"]]
    /\ UNCHANGED <<poolVars, userVars, callback, sent, issued, reqChan, replyChan,
                   vppConnected, lost, faults>>

(* It fails: the error becomes a reply.                                     *)
SendFails(o) ==
    /\ watcher[o].pc = "send" /\ Fault
    /\ WatcherGoes(o, "reply")
    /\ UNCHANGED <<poolVars, userVars, vppVars, reqChan, replyChan,
                   vppConnected, lost>>

(* The control ping carries the context of the request it closes.           *)
SendPing(o) ==
    /\ watcher[o].pc = "ping" /\ vppConnected
    /\ ToVPP(o, TRUE)
    /\ watcher' = [watcher EXCEPT ![o] = [pc |-> "recv"]]
    /\ UNCHANGED <<poolVars, userVars, callback, sent, issued, reqChan, replyChan,
                   vppConnected, lost, faults>>

(* The ping fails: that is logged, and processRequest returns nil.          *)
SendPingFails(o) ==
    /\ watcher[o].pc = "ping" /\ Fault
    /\ watcher' = [watcher EXCEPT ![o] = [pc |-> "recv"]]
    /\ UNCHANGED <<poolVars, userVars, vppVars, reqChan, replyChan,
                   vppConnected, lost>>

-----------------------------------------------------------------------------
(* sendReply: into replyChan when there is room, else dropped after         *)
(* receiveReplyTimeout (100 ms).                                            *)

ErrorReply(req) == [tag |-> req.tag, seq |-> req.seq, kind |-> "error"]

SendErrorReply(o) ==
    /\ watcher[o].pc = "reply" /\ Len(replyChan[o]) < ReplyBuf
    /\ replyChan' = [replyChan EXCEPT ![o] =
                        Append(@, ErrorReply(watcher[o].req))]
    /\ watcher' = [watcher EXCEPT ![o] = [pc |-> "recv"]]
    /\ UNCHANGED <<poolVars, userVars, vppVars, reqChan, vppConnected, lost, faults>>

DropErrorReply(o) ==
    /\ watcher[o].pc = "reply" /\ Len(replyChan[o]) = ReplyBuf
    /\ lost' = lost \cup {watcher[o].req.tag}
    /\ watcher' = [watcher EXCEPT ![o] = [pc |-> "recv"]]
    /\ UNCHANGED <<poolVars, userVars, vppVars, reqChan, replyChan,
                   vppConnected, faults>>

(* The same for the reader goroutine, which holds a pointer it looked up    *)
(* before: the object may have been closed, pooled and reopened since.      *)
DeliverReply ==
    /\ callback.pc = "send" /\ Len(replyChan[callback.ch]) < ReplyBuf
    /\ replyChan' = [replyChan EXCEPT ![callback.ch] =
                        Append(@, callback.reply)]
    /\ callback' = Idle
    /\ UNCHANGED <<poolVars, userVars, vppQueue, sent, issued, reqChan, watcher,
                   vppConnected, lost, faults>>

(* Mutant of DropReply: sendReply without its timer.                        *)
DropReplyNever == FALSE /\ UNCHANGED vars

DropReply ==
    /\ callback.pc = "send" /\ Len(replyChan[callback.ch]) = ReplyBuf
    /\ lost' = lost \cup {callback.reply.tag}
    /\ callback' = Idle
    /\ UNCHANGED <<poolVars, userVars, vppQueue, sent, issued, reqChan, replyChan,
                   watcher, vppConnected, faults>>

-----------------------------------------------------------------------------
(* VPP answers requests in the order it received them (external), and the   *)
(* reader goroutine enters msgCallback with each answer.                    *)

(* msgCallback: the context names the channel; an unknown ID is ignored.    *)
(* A control ping reply ends a multipart reply.                             *)
msgCallback(context, tag, isPingReply) ==
    LET c  == unpackRequestContext(context)
        ch == IF c.chanID \in IDs THEN channels[c.chanID] ELSE None
    IN  callback' =
          IF ch = None THEN Idle
          ELSE [pc |-> "send", ch |-> ch,
                reply |-> [tag |-> tag, seq |-> c.seqNum,
                           kind |-> IF isPingReply /\ c.isMultipart
                                    THEN "last" ELSE "data"]]

VppReady == vppQueue # <<>> /\ callback = Idle

IsDump(m) == unpackRequestContext(m.context).isMultipart /\ ~m.ping

(* One more detail of a dump, which stays at the head of the queue.         *)
VppSendsDetail ==
    /\ VppReady
    /\ LET m == Head(vppQueue)
       IN  /\ IsDump(m) /\ sent[m.tag] < MaxDetails
           /\ sent' = [sent EXCEPT ![m.tag] = @ + 1]
           /\ msgCallback(m.context, m.tag, FALSE)
    /\ UNCHANGED <<poolVars, userVars, vppQueue, issued, reqChan, replyChan, watcher,
                   vppConnected, lost, faults>>

(* The reply to a simple request, or to the control ping.                   *)
VppReplies ==
    /\ VppReady
    /\ LET m == Head(vppQueue)
       IN  /\ ~IsDump(m)
           /\ msgCallback(m.context, m.tag, m.ping)
    /\ vppQueue' = Tail(vppQueue)
    /\ UNCHANGED <<poolVars, userVars, sent, issued, reqChan, replyChan, watcher,
                   vppConnected, lost, faults>>

(* A dump is over, or a simple request never gets its reply.                *)
VppMovesOn ==
    /\ VppReady
    /\ LET m == Head(vppQueue)
       IN  /\ ~m.ping
           /\ lost' = IF IsDump(m) THEN lost ELSE lost \cup {m.tag}
    /\ vppQueue' = Tail(vppQueue)
    /\ UNCHANGED <<poolVars, userVars, callback, sent, issued, reqChan, replyChan,
                   watcher, vppConnected, faults>>

(* disconnectVPP: what VPP has not answered is gone with the socket.        *)
Disconnect ==
    /\ vppConnected /\ faults < MaxFaults
    /\ faults' = faults + 1
    /\ vppConnected' = FALSE
    /\ lost' = lost \cup {vppQueue[k].tag : k \in DOMAIN vppQueue}
    /\ vppQueue' = <<>>
    /\ UNCHANGED <<poolVars, userVars, callback, sent, issued, reqChan, replyChan,
                   watcher>>

Reconnect ==
    /\ ~vppConnected
    /\ vppConnected' = TRUE
    /\ UNCHANGED <<poolVars, userVars, vppVars, reqChan, replyChan, watcher,
                   lost, faults>>

-----------------------------------------------------------------------------
(* Receiving a reply *)

(* Mutant of Verdict: the sequence number is not compared.                  *)
VerdictUnnumbered(want, reply) == reply.kind

(* processReply: what it makes of a reply while the user waits for `want`.  *)
Verdict(want, reply) ==
    LET c == compareSeqNumbers(reply.seq, want.seq)
    IN  IF c = -1 THEN "ignore" ELSE IF c = 1 THEN "missing" ELSE reply.kind

(* A reply that is ignored is lost to the request it answers.               *)
Ignore(reply) == lost' = lost \cup {reply.tag}

(* ReceiveReply returns: an early reply is parked in the single slot; a     *)
(* simple reply, a last reply and an error finish the request, a detail and *)
(* a missing reply leave the user free to call ReceiveReply again.          *)
ReturnReply(o, want, reply) ==
    LET verdict == Verdict(want, reply)
        done    == \/ verdict \in {"last", "error"}
                   \/ verdict = "data" /\ ~want.multi
    IN  /\ verdict # "ignore"
        /\ delayedReply' = [delayedReply EXCEPT ![o] =
                               IF verdict = "missing" THEN reply ELSE NoReply]
        /\ result' = [result EXCEPT ![o] =
                         [kind |-> verdict, want |-> want.tag,
                          got |-> reply.tag]]
        /\ handles' = [handles EXCEPT ![o] = IF done THEN @ \ {want} ELSE @]
        /\ received' = IF verdict = "data"
                       THEN [received EXCEPT ![want.tag] = @ + 1]
                       ELSE received
        /\ user' = [user EXCEPT ![o] = Idle]
        /\ UNCHANGED lost

(* Mutant of ReceiveReply: it waits on replyChan without looking at the     *)
(* delayed reply first.                                                     *)
ReceiveReplySkippingDelayed(o, want) ==
    /\ user[o] = Idle /\ want \in handles[o]
    /\ user' = [user EXCEPT ![o] = Receiving(want)]
    /\ result' = [result EXCEPT ![o] = NoReply]
    /\ UNCHANGED <<poolVars, vppVars, reqChan, replyChan, delayedReply,
                   watcher, handles, received, lost, lastSeqNum, replyTimeout,
                   vppConnected, faults>>

(* ReceiveReply and receiveReplyInternal up to its select: the delayed      *)
(* reply is tried first, and either returned or dropped.                    *)
ReceiveReply(o, want) ==
    /\ user[o] = Idle /\ want \in handles[o]
    /\ LET reply == delayedReply[o]
       IN  \/ reply # NoReply /\ ReturnReply(o, want, reply)
           \/ /\ \/ reply = NoReply /\ UNCHANGED lost
                 \/ /\ reply # NoReply /\ Verdict(want, reply) = "ignore"
                    /\ Ignore(reply)
              /\ delayedReply' = [delayedReply EXCEPT ![o] = NoReply]
              /\ user' = [user EXCEPT ![o] = Receiving(want)]
              /\ result' = [result EXCEPT ![o] = NoReply]
              /\ UNCHANGED <<handles, received>>
    /\ UNCHANGED <<poolVars, vppVars, reqChan, replyChan, watcher, lastSeqNum,
                   replyTimeout, vppConnected, faults>>

(* The select takes a reply from replyChan; a late one keeps it waiting.    *)
TakeReply(o) ==
    /\ user[o].pc = "receiving" /\ replyChan[o] # <<>>
    /\ LET reply == Head(replyChan[o])
           want  == user[o].want
       IN  \/ ReturnReply(o, want, reply)
           \/ /\ Verdict(want, reply) = "ignore"
              /\ Ignore(reply)
              /\ UNCHANGED <<delayedReply, result, handles, received, user>>
    /\ replyChan' = [replyChan EXCEPT ![o] = Tail(@)]
    /\ UNCHANGED <<poolVars, vppVars, reqChan, watcher, lastSeqNum,
                   replyTimeout, vppConnected, faults>>

(* The timeout case of the select; a timeout <= 0, which is what channels   *)
(* start with (DefaultReplyTimeout), never fires.                           *)
ReplyTimesOut(o) ==
    /\ user[o].pc = "receiving" /\ replyTimeout[o] = "custom"
    /\ user' = [user EXCEPT ![o] = Idle]
    /\ result' = [result EXCEPT ![o] = [kind |-> "timeout",
                                        want |-> user[o].want.tag]]
    /\ UNCHANGED <<poolVars, vppVars, reqChan, replyChan, delayedReply,
                   watcher, handles, received, lost, lastSeqNum, replyTimeout,
                   vppConnected, faults>>

SetReplyTimeout(o, timeout) ==
    /\ home[o] = "open" /\ user[o] = Idle
    /\ replyTimeout' = [replyTimeout EXCEPT ![o] = timeout]
    /\ UNCHANGED <<poolVars, vppVars, reqChan, replyChan, watcher, user,
                   handles, result, lastSeqNum, delayedReply, received, lost,
                   vppConnected, faults>>

-----------------------------------------------------------------------------
User(o) == \/ NewAPIChannel(o) \/ Close(o)
           \/ \E multi \in BOOLEAN : SendRequest(o, multi)
           \/ \E want \in handles[o] : ReceiveReply(o, want)
           \/ TakeReply(o) \/ ReplyTimesOut(o)
           \/ \E timeout \in Timeouts : SetReplyTimeout(o, timeout)

Watcher(o) == \/ TakeRequest(o) \/ RejectRequest(o)
              \/ SendToVPP(o) \/ SendFails(o)
              \/ SendPing(o) \/ SendPingFails(o)
              \/ SendErrorReply(o) \/ DropErrorReply(o)
              \/ ReleaseFromMap(o) \/ ReleasePutId(o)

Reader == DeliverReply \/ DropReply

Environment == \/ VppSendsDetail \/ VppReplies \/ VppMovesOn
               \/ Disconnect \/ Reconnect

Next == \/ \E o \in Objects : User(o) \/ Watcher(o) \/ ResetAndPut(o)
        \/ Reader \/ Environment

Spec == Init /\ [][Next]_vars

(* The watcher is inside the adapter's SendMsg, which writes to the socket  *)
(* without a deadline: with a VPP that does not read it may not return.     *)
InSend(o) == watcher[o].pc \in {"send", "ping"}

(* Goroutines that can run are run and timers fire; nothing is asked of the *)
(* users' choices, of VPP or of the link, so a SendMsg need not return.     *)
Fairness == /\ \A o \in Objects : /\ WF_vars(Watcher(o) /\ ~InSend(o))
                                  /\ WF_vars(ResetAndPut(o))
                                  /\ WF_vars(TakeReply(o) \/ ReplyTimesOut(o))
            /\ WF_vars(Reader)

FairSpec == Spec /\ Fairness

-----------------------------------------------------------------------------
(* Properties *)

WatcherState == {Idle} \cup [pc : {"recv", "putId"}]
                       \cup [pc : {"send", "ping", "reply"}, req : Request]

TypeOK ==
    /\ home \in [Objects -> {"pooled", "open", "closing", "releasing",
                             "resetting"}]
    /\ id \in [Objects -> 0 .. MaxID]
    /\ reqChan \in [Objects -> Seq(Request)]
    /\ reqClosed \in [Objects -> BOOLEAN]
    /\ replyChan \in [Objects -> Seq(Reply)]
    /\ lastSeqNum \in [Objects -> SeqNum]
    /\ delayedReply \in [Objects -> Reply \cup {NoReply}]
    /\ replyTimeout \in [Objects -> {"custom", "none"}]
    /\ channels \in [IDs -> Objects \cup {None}]
    /\ freeIds \in Seq(IDs)
    /\ watcher \in [Objects -> WatcherState]
    /\ user \in [Objects -> {Idle} \cup [pc : {"receiving"}, want : Request]]
    /\ handles \in [Objects -> SUBSET Request]
    /\ result \in [Objects -> {NoReply} \cup [kind : {"timeout"}, want : Tags]
                     \cup [kind : {"missing", "data", "last", "error"},
                           want : Tags, got : Tags]]
    /\ vppConnected \in BOOLEAN
    /\ vppQueue \in Seq(Message)
    /\ callback \in {Idle} \cup [pc : {"send"}, ch : Objects, reply : Reply]
    /\ issued \in 0 .. MaxRequests
    /\ sent \in [Tags -> Nat] /\ received \in [Tags -> Nat]
    /\ lost \subseteq Tags
    /\ opens \in 0 .. MaxOpens /\ faults \in 0 .. MaxFaults

(* The objects that own a channel ID, and that the ID pool must not hand    *)
(* out: from NewAPIChannel to the channelIdPool.Put of releaseAPIChannel.   *)
Owners == {o \in Objects : home[o] \in {"open", "closing", "releasing"}}

(* Where an object is in its life cycle decides what its watcher does.      *)
Phases ==
    \A o \in Objects :
        /\ home[o] \in {"pooled", "resetting"} <=> watcher[o].pc = "idle"
        /\ home[o] = "releasing" <=> watcher[o].pc = "putId"
        /\ home[o] = "open" => ~reqClosed[o]

(* The map and the two pools agree: an owned ID is in the map for as long   *)
(* as the object is open or being closed, names that object only, and is    *)
(* not free; no ID is free twice.  newChannel and releaseAPIChannel touch   *)
(* the three under three different locks.                                   *)
IdsExclusive ==
    /\ \A o \in Owners : /\ id[o] \in IDs
                         /\ channels[id[o]] =
                              IF home[o] = "releasing" THEN None ELSE o
                         /\ \A k \in DOMAIN freeIds : freeIds[k] # id[o]
    /\ \A i \in IDs : channels[i] # None =>
          channels[i] \in Owners /\ id[channels[i]] = i
    /\ \A j, k \in DOMAIN freeIds : freeIds[j] = freeIds[k] => j = k
    /\ \A o, p \in Owners : id[o] = id[p] => o = p

(* No ID is ever leaked: each is free or owned.                             *)
IdsConserved == Len(freeIds) + Cardinality(Owners) = MaxID

(* A reply, a last part or an error that ReceiveReply returns answers the   *)
(* very request it was called for: whatever was recycled, delayed,          *)
(* reordered by an error or left over by an earlier user of the object.     *)
NoForeignReply ==
    \A o \in Objects : result[o].kind \in {"data", "last", "error"} =>
                         result[o].got = result[o].want

(* When ReceiveReply reports the end of a multipart reply, it has returned  *)
(* every detail VPP sent for it, unless one was dropped on a full replyChan *)
(* or ignored because the user had asked for a later request in between.    *)
MultiComplete ==
    \A o \in Objects : result[o].kind = "last" =>
        \/ received[result[o].want] = sent[result[o].want]
        \/ result[o].want \in lost

(* Where the one answer of a simple request may be.                         *)
Places(o, tag) ==
    {<<"request", k>> : k \in {k \in DOMAIN reqChan[o] :
                                 reqChan[o][k].tag = tag}}
    \cup {<<"watcher", 1>> : x \in {x \in {1} :
             /\ watcher[o].pc \in {"send", "reply"}
             /\ watcher[o].req.tag = tag}}
    \cup {<<"vpp", k>> : k \in {k \in DOMAIN vppQueue :
             vppQueue[k].tag = tag}}
    \cup {<<"callback", 1>> : x \in {x \in {1} :
             callback # Idle /\ callback.ch = o /\ callback.reply.tag = tag}}
    \cup {<<"reply", k>> : k \in {k \in DOMAIN replyChan[o] :
                                  replyChan[o][k].tag = tag}}
    \cup {<<"delayed", 1>> : x \in {x \in {1} :
             delayedReply[o] # NoReply /\ delayedReply[o].tag = tag}}

(* The answer to a simple request its user still waits on is in exactly one *)
(* place, on its own channel, until it is returned: no path of the code     *)
(* loses it silently or makes two of it.  The ways to lose it are those     *)
(* that fill `lost`: VPP never answers, the link goes down, sendReply finds *)
(* replyChan full for 100 ms, or the user asks for a later request first.   *)
SimpleReplyAccounted ==
    \A o \in Objects : \A h \in handles[o] :
        ~h.multi => Cardinality(Places(o, h.tag)) =
                      (IF h.tag \in lost THEN 0 ELSE 1)

(* A reply that came early stays in the slot until it is returned or the    *)
(* user asks for a later one: the slot is never overwritten.                *)
DelayedReplyKept ==
    [][\A o \in Objects :
        LET reply == delayedReply[o]
        IN  reply # NoReply /\ delayedReply'[o] # reply =>
              \/ result'[o].kind = reply.kind /\ result'[o].got = reply.tag
              \/ reply.tag \in lost']_vars

(* Closing a channel gives back the ID and the object (api.Channel.Close    *)
(* releases all resources), whatever is queued in its Go channels, unless a *)
(* hung VPP keeps its watcher inside one SendMsg for ever: the watcher      *)
(* handles what was sent before the close first, and no deadline ends that. *)
CloseReleases ==
    \A o \in Objects :
        home[o] = "closing" ~> home[o] = "pooled" \/ []InSend(o)

(* The reader goroutine, which serves every channel, is never stuck on one  *)
(* whose user does not read.                                                *)
ReaderNeverStuck == callback # Idle ~> callback = Idle
=============================================================================
