------------------------- MODULE ApiChannelProofs -------------------------
(***************************************************************************)
(* About API channels, for any number of objects, IDs, buffers and         *)
(* requests: what the request context of RequestContext computes, for every*)
(* width of its format; type correctness; the exclusive ownership of       *)
(* channel IDs; that no reply reaches a request it does not answer, that   *)
(* an early reply is kept, that the answer of a simple request is always   *)
(* in exactly one place, and that the end of a multipart reply comes after *)
(* all of its details.                                                     *)
(***************************************************************************)
EXTENDS ApiChannel, TLAPS, FiniteSetTheorems, SequenceTheorems

-----------------------------------------------------------------------------
(* The request context *)

(* Half of the number space, an integer because SeqMod is even.             *)
LEMMA HalfSeqMod ==
    /\ SeqMod \div 2 \in Nat \ {0}
    /\ SeqMod = 2 * (SeqMod \div 2)
BY SeqModAssumption

(* A distance is less than a turn.                                          *)
LEMMA DistanceType ==
    ASSUME NEW s1 \in SeqNum, NEW s2 \in SeqNum
    PROVE  Distance(s1, s2) \in SeqNum
BY SeqModAssumption DEF SeqNum, Distance

(* The distances in the two directions add up to one turn.                  *)
LEMMA DistanceTurn ==
    ASSUME NEW s1 \in SeqNum, NEW s2 \in SeqNum, s1 # s2
    PROVE  Distance(s1, s2) + Distance(s2, s1) = SeqMod
BY SeqModAssumption DEF SeqNum, Distance

(* Only a number is at no distance of itself.                               *)
LEMMA DistanceZero ==
    ASSUME NEW s1 \in SeqNum, NEW s2 \in SeqNum
    PROVE  Distance(s1, s2) = 0 <=> s1 = s2
BY SeqModAssumption DEF SeqNum, Distance

(* compareSeqNumbers never takes two different numbers for equal: the only  *)
(* reply that processReply hands out is one with the expected number.       *)
THEOREM CompareEqual ==
    ASSUME NEW s1 \in SeqNum, NEW s2 \in SeqNum
    PROVE  compareSeqNumbers(s1, s2) = 0 <=> s1 = s2
BY DistanceZero DEF compareSeqNumbers

(* The two directions agree except at exactly half of the number space,     *)
(* where both numbers "precede" each other.                                 *)
THEOREM CompareAntisymmetric ==
    ASSUME NEW s1 \in SeqNum, NEW s2 \in SeqNum,
           Distance(s1, s2) # SeqMod \div 2
    PROVE  compareSeqNumbers(s1, s2) = - compareSeqNumbers(s2, s1)
<1>1. CASE s1 = s2
  BY <1>1, CompareEqual
<1>2. CASE s1 # s2
  <2>1. /\ Distance(s1, s2) \in Nat \ {0}
        /\ Distance(s2, s1) \in Nat \ {0}
        /\ Distance(s1, s2) + Distance(s2, s1) = SeqMod
    BY <1>2, DistanceType, DistanceZero, DistanceTurn DEF SeqNum
  <2> QED
    BY <2>1, HalfSeqMod DEF compareSeqNumbers
<1> QED
  BY <1>1, <1>2

(* Going lag numbers forward from s, around the end of the space.           *)
Ahead(s, lag) == IF s + lag < SeqMod THEN s + lag ELSE s + lag - SeqMod

(* Going ahead stays among the numbers.                                     *)
LEMMA AheadType ==
    ASSUME NEW s \in SeqNum, NEW lag \in SeqNum
    PROVE  Ahead(s, lag) \in SeqNum
BY SeqModAssumption DEF SeqNum, Ahead

(* A reply that lags by fewer requests than half of the number space is     *)
(* recognised as stale, and one that is early as early, wherever in the     *)
(* cycle the channel is.                                                    *)
THEOREM StaleRecognised ==
    ASSUME NEW s \in SeqNum, NEW lag \in SeqNum,
           0 < lag, lag < SeqMod \div 2
    PROVE  /\ compareSeqNumbers(s, Ahead(s, lag)) = -1
           /\ compareSeqNumbers(Ahead(s, lag), s) = 1
<1>1. Distance(s, Ahead(s, lag)) = lag
  BY SeqModAssumption DEF SeqNum, Ahead, Distance
<1>2. Distance(Ahead(s, lag), s) = SeqMod - lag
  BY SeqModAssumption DEF SeqNum, Ahead, Distance
<1> QED
  BY <1>1, <1>2, HalfSeqMod DEF compareSeqNumbers, SeqNum

(* Uniqueness of quotient and remainder.                                    *)
LEMMA DivMod ==
    ASSUME NEW d \in Nat \ {0}, NEW q \in Nat, NEW r \in 0 .. d - 1
    PROVE  /\ (q * d + r) \div d = q
           /\ (q * d + r) % d = r
BY SMT

(* The context of a request names its channel, kind and sequence number.    *)
THEOREM ContextRoundTripThm ==
    ASSUME NEW chanID \in 0 .. IdMod - 1, NEW isMultipart \in BOOLEAN,
           NEW seqNum \in SeqNum
    PROVE  unpackRequestContext(packRequestContext(chanID, isMultipart, seqNum))
             = [chanID |-> chanID, isMultipart |-> isMultipart,
                seqNum |-> seqNum]
<1> DEFINE b == IF isMultipart THEN 1 ELSE 0
           q == 2 * chanID + b
           x == packRequestContext(chanID, isMultipart, seqNum)
<1>1. /\ SeqMod \in Nat \ {0} /\ 2 * SeqMod \in Nat \ {0}
      /\ chanID \in Nat /\ b \in 0 .. 1 /\ q \in Nat
      /\ seqNum \in 0 .. SeqMod - 1
  BY SeqModAssumption, IdModAssumption DEF SeqNum
<1>2. b * SeqMod \in {0, SeqMod} /\ b * SeqMod + seqNum \in 0 .. 2 * SeqMod - 1
  BY <1>1
<1>3. chanID % IdMod = chanID
  BY IdModAssumption
<1>4. x = chanID * (2 * SeqMod) + (b * SeqMod + seqNum)
  BY <1>1, <1>3 DEF packRequestContext
<1>5. x = q * SeqMod + seqNum
  <2>1. chanID * (2 * SeqMod) = (2 * chanID) * SeqMod
    BY <1>1
  <2>2. (2 * chanID) * SeqMod + b * SeqMod = q * SeqMod
    BY <1>1
  <2>3. chanID * (2 * SeqMod) \in Nat /\ b * SeqMod \in Nat /\ q * SeqMod \in Nat
    BY <1>1
  <2> HIDE DEF b, q, x
  <2> QED
    BY <1>1, <1>4, <2>1, <2>2, <2>3
<1>6. x \div (2 * SeqMod) = chanID
  <2> HIDE DEF b, x
  <2> QED BY <1>1, <1>2, <1>4, DivMod
<1>7. x \div SeqMod = q /\ x % SeqMod = seqNum
  <2> HIDE DEF b, q, x
  <2> QED BY <1>1, <1>5, DivMod
<1>8. q % 2 = b
  BY <1>1
<1>9. (q % 2 # 0) = isMultipart
  BY <1>8
<1> QED
  BY <1>6, <1>7, <1>9 DEF unpackRequestContext

-----------------------------------------------------------------------------
(* Types *)

(* A packed context fits in its width.                                      *)
LEMMA PackType ==
    ASSUME NEW chanID \in Nat, NEW isMultipart \in BOOLEAN,
           NEW seqNum \in SeqNum
    PROVE  packRequestContext(chanID, isMultipart, seqNum) \in ContextNum
<1> DEFINE c == chanID % IdMod
           low == (IF isMultipart THEN SeqMod ELSE 0) + seqNum
           d == 2 * SeqMod
<1>1. d \in Nat \ {0} /\ low \in 0 .. d - 1 /\ IdMod \in Nat \ {0}
  BY SeqModAssumption, IdModAssumption DEF SeqNum
<1>2. c \in 0 .. IdMod - 1
  BY IdModAssumption
<1>3. packRequestContext(chanID, isMultipart, seqNum) = c * d + low
  BY <1>1, <1>2, SeqModAssumption DEF packRequestContext, SeqNum
<1>4. d * IdMod = 2 * SeqMod * IdMod
  OBVIOUS
<1> HIDE DEF c, low, d
<1>5. c * d \in Nat /\ c * d <= (IdMod - 1) * d
  BY <1>1, <1>2
<1>6. (IdMod - 1) * d = d * IdMod - d
  BY <1>1
<1> QED
  BY <1>1, <1>3, <1>4, <1>5, <1>6 DEF ContextNum

(* What is unpacked has the types of the fields.                            *)
LEMMA UnpackType ==
    ASSUME NEW context \in ContextNum
    PROVE  unpackRequestContext(context).seqNum \in SeqNum
BY SeqModAssumption, IdModAssumption DEF ContextNum, unpackRequestContext, SeqNum

(* The next number is a number.                                             *)
LEMMA NextSeqNumType ==
    ASSUME NEW s \in SeqNum
    PROVE  nextSeqNum(s) \in SeqNum
BY SeqModAssumption DEF SeqNum, nextSeqNum

-----------------------------------------------------------------------------
(* The initial state is typed.                                              *)
LEMMA InitTypeOK == Init => TypeOK
BY PoolAssumption, BoundAssumption
   DEF Init, TypeOK, WatcherState, IDs, Idle, NoReply

(* The request a watcher works on.                                          *)
LEMMA WatcherReq ==
    ASSUME TypeOK, NEW o \in Objects, watcher[o].pc \in {"send", "ping", "reply"}
    PROVE  watcher[o].req \in Request
<1>1. watcher[o] \in WatcherState
  BY DEF TypeOK
<1>2. watcher[o] # Idle /\ watcher[o] \notin [pc : {"recv", "putId"}]
  BY DEF Idle
<1>3. watcher[o] \in [pc : {"send", "ping", "reply"}, req : Request]
  BY <1>1, <1>2 DEF WatcherState
<1> QED
  BY <1>3

(* What a watcher sends is a message.                                       *)
LEMMA ToVPPType ==
    ASSUME TypeOK, NEW o \in Objects, NEW ping \in BOOLEAN,
           watcher[o].pc \in {"send", "ping", "reply"}, ToVPP(o, ping)
    PROVE  vppQueue' \in Seq(Message)
<1>1. watcher[o].req \in Request
  BY WatcherReq
<1>2. packRequestContext(id[o], watcher[o].req.multi, watcher[o].req.seq)
        \in ContextNum
  <2>1. id[o] \in Nat
    BY PoolAssumption DEF TypeOK
  <2> QED
    BY <1>1, <2>1, PackType DEF Request
<1> QED
  BY <1>1, <1>2 DEF TypeOK, ToVPP, Message, Request

(* A watcher that goes on keeps its request.                                *)
LEMMA WatcherGoesType ==
    ASSUME TypeOK, NEW o \in Objects, NEW pc \in {"send", "ping", "reply"},
           watcher[o].pc \in {"send", "ping", "reply"}, WatcherGoes(o, pc)
    PROVE  watcher' \in [Objects -> WatcherState]
<1>1. watcher[o].req \in Request
  BY WatcherReq
<1> QED
  BY <1>1 DEF TypeOK, WatcherGoes, WatcherState

(* Sending keeps the types.                                                 *)
LEMMA TypeSendToVPP ==
    ASSUME TypeOK, NEW o \in Objects, SendToVPP(o)
    PROVE  TypeOK'
<1>1. vppQueue' \in Seq(Message)
  BY ToVPPType DEF SendToVPP
<1>2. watcher' \in [Objects -> WatcherState]
  <2>1. CASE watcher[o].req.multi
    BY <2>1, WatcherGoesType DEF SendToVPP
  <2>2. CASE ~watcher[o].req.multi
    <3>1. [pc |-> "recv"] \in WatcherState
      BY DEF WatcherState
    <3> QED
      BY <2>2, <3>1 DEF SendToVPP, TypeOK
  <2> QED
    BY <2>1, <2>2
<1> QED
  BY <1>1, <1>2 DEF TypeOK, SendToVPP, userVars, poolVars

(* ReceiveReply returning, either with the delayed reply or with one taken  *)
(* from replyChan.                                                          *)
LEMMA ReturnReplyType ==
    ASSUME TypeOK, NEW o \in Objects, NEW w \in Request, NEW r \in Reply,
           ReturnReply(o, w, r)
    PROVE  /\ delayedReply' \in [Objects -> Reply \cup {NoReply}]
           /\ result' \in [Objects -> {NoReply}
                   \cup [kind : {"timeout"}, want : Tags]
                   \cup [kind : {"missing", "data", "last", "error"},
                         want : Tags, got : Tags]]
           /\ handles' \in [Objects -> SUBSET Request]
           /\ received' \in [Tags -> Nat]
           /\ user' \in [Objects -> {Idle} \cup [pc : {"receiving"}, want : Request]]
<1>1. Verdict(w, r) \in {"missing", "data", "last", "error"}
  BY DEF ReturnReply, Verdict, Reply
<1>2. /\ w.tag \in Tags /\ r.tag \in Tags
  BY DEF Request, Reply
<1>3. received' \in [Tags -> Nat]
  BY <1>2, SMTT(60) DEF ReturnReply, TypeOK
<1>4. handles' \in [Objects -> SUBSET Request]
  BY DEF ReturnReply, TypeOK
<1> QED
  BY <1>1, <1>2, <1>3, <1>4 DEF TypeOK, ReturnReply

(* ReceiveReply keeps the types.                                            *)
LEMMA TypeReceiveReply ==
    ASSUME TypeOK, NEW o \in Objects, NEW w \in handles[o], ReceiveReply(o, w)
    PROVE  TypeOK'
<1>1. w \in Request
  BY DEF TypeOK
<1>2. delayedReply[o] = NoReply \/ delayedReply[o] \in Reply
  BY DEF TypeOK
<1>3. CASE delayedReply[o] # NoReply /\ ReturnReply(o, w, delayedReply[o])
  <2>1. lost' = lost
    BY <1>3 DEF ReturnReply
  <2> QED
    BY <1>1, <1>2, <1>3, <2>1, ReturnReplyType
       DEF TypeOK, ReceiveReply, poolVars, vppVars
<1>4. CASE ~(delayedReply[o] # NoReply /\ ReturnReply(o, w, delayedReply[o]))
  <2>1. lost' \subseteq Tags
    BY <1>2, <1>4 DEF TypeOK, ReceiveReply, Ignore, Reply
  <2>2. Receiving(w) \in [pc : {"receiving"}, want : Request]
    BY <1>1 DEF Receiving
  <2>3. /\ delayedReply' = [delayedReply EXCEPT ![o] = NoReply]
        /\ user' = [user EXCEPT ![o] = Receiving(w)]
        /\ result' = [result EXCEPT ![o] = NoReply]
    BY <1>4 DEF ReceiveReply
  <2> QED
    BY <1>4, <2>1, <2>2, <2>3 DEF TypeOK, ReceiveReply, poolVars, vppVars
<1> QED
  BY <1>3, <1>4

(* Taking a reply keeps the types.                                          *)
LEMMA TypeTakeReply ==
    ASSUME TypeOK, NEW o \in Objects, TakeReply(o)
    PROVE  TypeOK'
<1> DEFINE r == Head(replyChan[o])
           w == user[o].want
<1>1. r \in Reply /\ replyChan' \in [Objects -> Seq(Reply)]
  BY DEF TypeOK, TakeReply
<1>2. w \in Request
  <2>1. user[o] \in {Idle} \cup [pc : {"receiving"}, want : Request]
    BY DEF TypeOK
  <2>2. user[o] \in [pc : {"receiving"}, want : Request]
    BY <2>1 DEF TakeReply, Idle
  <2> QED
    BY <2>2
<1>3. CASE ReturnReply(o, w, r)
  <2>1. lost' = lost
    BY <1>3 DEF ReturnReply
  <2> QED
    BY <1>1, <1>2, <1>3, <2>1, ReturnReplyType
       DEF TypeOK, TakeReply, poolVars, vppVars
<1>4. CASE ~ReturnReply(o, w, r)
  <2>1. Ignore(r) /\ UNCHANGED <<delayedReply, result, handles, received, user>>
    BY <1>4 DEF TakeReply
  <2>2. lost' \subseteq Tags
    BY <1>1, <2>1 DEF TypeOK, Ignore, Reply
  <2> QED
    BY <1>1, <2>1, <2>2 DEF TypeOK, TakeReply, poolVars, vppVars
<1> QED
  BY <1>3, <1>4

(* Entering msgCallback with an answer of VPP.                              *)
LEMMA MsgCallbackType ==
    ASSUME TypeOK, NEW context \in ContextNum, NEW tag \in Tags,
           NEW ping \in BOOLEAN, msgCallback(context, tag, ping)
    PROVE  callback' \in {Idle} \cup [pc : {"send"}, ch : Objects, reply : Reply]
<1> DEFINE c == unpackRequestContext(context)
           ch == IF c.chanID \in IDs THEN channels[c.chanID] ELSE None
           r == [tag |-> tag, seq |-> c.seqNum,
                 kind |-> IF ping /\ c.isMultipart THEN "last" ELSE "data"]
<1>1. c.seqNum \in SeqNum
  BY UnpackType
<1> HIDE DEF c
<1>2. r \in Reply
  BY <1>1 DEF Reply
<1>3. ch \in Objects \cup {None}
  BY DEF TypeOK
<1>4. callback' = IF ch = None THEN Idle
                  ELSE [pc |-> "send", ch |-> ch, reply |-> r]
  BY DEF msgCallback, c
<1> HIDE DEF ch, r
<1> QED
  BY <1>2, <1>3, <1>4

(* The head of VPP's queue.                                                 *)
LEMMA HeadMessage ==
    ASSUME TypeOK, vppQueue # <<>>
    PROVE  /\ Head(vppQueue).context \in ContextNum
           /\ Head(vppQueue).tag \in Tags
           /\ Head(vppQueue).ping \in BOOLEAN
           /\ Tail(vppQueue) \in Seq(Message)
<1>1. Head(vppQueue) \in Message /\ Tail(vppQueue) \in Seq(Message)
  BY DEF TypeOK
<1> QED
  BY <1>1 DEF Message

(* The watcher of a channel only listens while the channel is in use.       *)
LEMMA RecvPhase ==
    ASSUME TypeOK, Phases, NEW o \in Objects, watcher[o].pc = "recv"
    PROVE  home[o] \in {"open", "closing"}
<1>1. home[o] \in {"pooled", "open", "closing", "releasing", "resetting"}
  BY DEF TypeOK
<1>2. /\ home[o] \notin {"pooled", "resetting"}
      /\ home[o] # "releasing"
  BY DEF Phases
<1> QED
  BY <1>1, <1>2

(* Every step of the specification keeps the types, one action at a time.   *)
(* Only ReleasePutId needs more than the types: the object it works on must *)
(* own an ID.                                                               *)
LEMMA NextTypeOK ==
    TypeOK /\ Phases /\ IdsExclusive /\ [Next]_vars => TypeOK'
<1> SUFFICES ASSUME TypeOK, Phases, IdsExclusive, [Next]_vars
             PROVE  TypeOK'
  OBVIOUS
<1>1. ASSUME NEW o \in Objects, NewAPIChannel(o)
      PROVE  TypeOK'
  <2>1. freeIds \in Seq(IDs) /\ freeIds # <<>>
    BY <1>1 DEF TypeOK, NewAPIChannel
  <2>2. Head(freeIds) \in IDs /\ Tail(freeIds) \in Seq(IDs)
    BY <2>1
  <2>3. [pc |-> "recv"] \in WatcherState
    BY DEF WatcherState
  <2>4. /\ id' = [id EXCEPT ![o] = Head(freeIds)]
        /\ channels' = [channels EXCEPT ![Head(freeIds)] = o]
        /\ freeIds' = Tail(freeIds)
        /\ home' = [home EXCEPT ![o] = "open"]
        /\ reqClosed' = [reqClosed EXCEPT ![o] = FALSE]
        /\ watcher' = [watcher EXCEPT ![o] = [pc |-> "recv"]]
        /\ opens' = opens + 1 /\ opens < MaxOpens
    BY <1>1 DEF NewAPIChannel
  <2>5. id' \in [Objects -> 0 .. MaxID]
    <3>1. Head(freeIds) \in 0 .. MaxID
      BY <2>2, PoolAssumption DEF IDs
    <3>2. id \in [Objects -> 0 .. MaxID]
      BY DEF TypeOK
    <3> QED
      BY <2>4, <3>1, <3>2
  <2>6. /\ channels' \in [IDs -> Objects \cup {None}]
        /\ home' \in [Objects -> {"pooled", "open", "closing", "releasing",
                                  "resetting"}]
        /\ reqClosed' \in [Objects -> BOOLEAN]
    <3>1. channels \in [IDs -> Objects \cup {None}]
      BY DEF TypeOK
    <3>2. channels' \in [IDs -> Objects \cup {None}]
      BY <2>2, <2>4, <3>1
    <3>3. home' \in [Objects -> {"pooled", "open", "closing", "releasing",
                                "resetting"}]
      BY <2>4 DEF TypeOK
    <3>4. reqClosed' \in [Objects -> BOOLEAN]
      BY <2>4 DEF TypeOK
    <3> QED
      BY <3>2, <3>3, <3>4
  <2>7. watcher' \in [Objects -> WatcherState]
    BY <2>3, <2>4 DEF TypeOK
  <2>8. opens' \in 0 .. MaxOpens
    BY <2>4, BoundAssumption DEF TypeOK
  <2>9. UNCHANGED <<userVars, vppVars, reqChan, replyChan, vppConnected, lost, faults>>
    BY <1>1 DEF NewAPIChannel
  <2> QED
    BY <2>2, <2>4, <2>5, <2>6, <2>7, <2>8, <2>9 DEF TypeOK, userVars, vppVars
<1>2. ASSUME NEW o \in Objects, Close(o)
      PROVE  TypeOK'
  BY <1>2 DEF TypeOK, Close, vppVars
<1>3. ASSUME NEW o \in Objects, NEW multi \in BOOLEAN, SendRequest(o, multi)
      PROVE  TypeOK'
  <2> DEFINE req == [tag |-> issued + 1, seq |-> nextSeqNum(lastSeqNum[o]),
                     multi |-> multi]
  <2>1. req \in Request
    BY <1>3, NextSeqNumType, BoundAssumption
       DEF TypeOK, SendRequest, Request, Tags
  <2>2. req.seq \in SeqNum
    BY <2>1 DEF Request
  <2>3. /\ lastSeqNum' = [lastSeqNum EXCEPT ![o] = req.seq]
        /\ reqChan' = [reqChan EXCEPT ![o] = Append(reqChan[o], req)]
        /\ handles' = [handles EXCEPT ![o] = handles[o] \cup {req}]
        /\ issued' = issued + 1 /\ issued < MaxRequests
        /\ result' = [result EXCEPT ![o] = NoReply]
    BY <1>3 DEF SendRequest
  <2> HIDE DEF req
  <2>4. reqChan' \in [Objects -> Seq(Request)]
    BY <2>1, <2>3 DEF TypeOK
  <2>5. handles' \in [Objects -> SUBSET Request]
    BY <2>1, <2>3 DEF TypeOK
  <2> QED
    BY <1>3, <2>2, <2>3, <2>4, <2>5, BoundAssumption, SMTT(60)
       DEF TypeOK, SendRequest, poolVars
<1>4. ASSUME NEW o \in Objects, NEW w \in handles[o], ReceiveReply(o, w)
      PROVE  TypeOK'
  BY <1>4, TypeReceiveReply
<1>5. ASSUME NEW o \in Objects, TakeReply(o)
      PROVE  TypeOK'
  BY <1>5, TypeTakeReply
<1>6. ASSUME NEW o \in Objects, ReplyTimesOut(o)
      PROVE  TypeOK'
  <2>1. user[o].want.tag \in Tags
    <3>1. user[o] \in {Idle} \cup [pc : {"receiving"}, want : Request]
      BY DEF TypeOK
    <3>2. user[o] \in [pc : {"receiving"}, want : Request]
      BY <1>6, <3>1 DEF ReplyTimesOut, Idle
    <3> QED
      BY <3>2 DEF Request
  <2>2. [kind |-> "timeout", want |-> user[o].want.tag]
          \in [kind : {"timeout"}, want : Tags]
    BY <2>1
  <2> QED
    BY <1>6, <2>2 DEF TypeOK, ReplyTimesOut, poolVars, vppVars
<1>7. ASSUME NEW o \in Objects, NEW t \in Timeouts, SetReplyTimeout(o, t)
      PROVE  TypeOK'
  BY <1>7, TimeoutAssumption DEF TypeOK, SetReplyTimeout, poolVars, vppVars
<1>8. ASSUME NEW o \in Objects, TakeRequest(o) \/ RejectRequest(o)
      PROVE  TypeOK'
  <2>0. /\ reqChan[o] \in Seq(Request) /\ reqChan[o] # <<>>
        /\ reqChan' = [reqChan EXCEPT ![o] = Tail(reqChan[o])]
    BY <1>8 DEF TypeOK, TakeRequest, RejectRequest
  <2>1. /\ Head(reqChan[o]) \in Request
        /\ reqChan' \in [Objects -> Seq(Request)]
    BY <2>0 DEF TypeOK
  <2>2. /\ [pc |-> "send", req |-> Head(reqChan[o])] \in WatcherState
        /\ [pc |-> "reply", req |-> Head(reqChan[o])] \in WatcherState
    BY <2>1 DEF WatcherState
  <2>3. watcher' \in [Objects -> WatcherState]
    <3>1. \/ watcher' = [watcher EXCEPT ![o] =
                           [pc |-> "send", req |-> Head(reqChan[o])]]
          \/ watcher' = [watcher EXCEPT ![o] =
                           [pc |-> "reply", req |-> Head(reqChan[o])]]
      BY <1>8 DEF TakeRequest, RejectRequest
    <3> QED
      BY <2>2, <3>1 DEF TypeOK
  <2>4. faults' \in 0 .. MaxFaults
    BY <1>8, BoundAssumption DEF TypeOK, TakeRequest, RejectRequest, Fault
  <2>5. UNCHANGED <<poolVars, userVars, vppVars, replyChan, vppConnected, lost>>
    BY <1>8 DEF TakeRequest, RejectRequest
  <2> QED
    BY <2>1, <2>3, <2>4, <2>5 DEF TypeOK, poolVars, userVars, vppVars
<1>9. ASSUME NEW o \in Objects, SendToVPP(o)
      PROVE  TypeOK'
  BY <1>9, TypeSendToVPP
<1>10. ASSUME NEW o \in Objects, SendFails(o)
       PROVE  TypeOK'
  <2>1. watcher[o].req.tag \in Tags
    BY <1>10, WatcherReq DEF SendFails, Request
  <2>2. watcher' \in [Objects -> WatcherState]
    BY <1>10, WatcherGoesType DEF SendFails
  <2>3. faults' \in 0 .. MaxFaults
    BY <1>10, BoundAssumption DEF TypeOK, SendFails, Fault
  <2>4. UNCHANGED <<poolVars, userVars, vppVars, reqChan, replyChan,
                  vppConnected, lost>>
    BY <1>10 DEF SendFails
  <2> QED
    BY <2>1, <2>2, <2>3, <2>4 DEF TypeOK, poolVars, userVars, vppVars
<1>11. ASSUME NEW o \in Objects, SendPing(o)
       PROVE  TypeOK'
  <2>1. vppQueue' \in Seq(Message)
    BY <1>11, ToVPPType DEF SendPing
  <2>2. [pc |-> "recv"] \in WatcherState
    BY DEF WatcherState
  <2> QED
    BY <1>11, <2>1, <2>2 DEF TypeOK, SendPing, poolVars, userVars
<1>12. ASSUME NEW o \in Objects, SendPingFails(o)
       PROVE  TypeOK'
  <2>1. watcher[o].req.tag \in Tags
    BY <1>12, WatcherReq DEF SendPingFails, Request
  <2>2. [pc |-> "recv"] \in WatcherState
    BY DEF WatcherState
  <2>3. faults' \in 0 .. MaxFaults
    BY <1>12, BoundAssumption DEF TypeOK, SendPingFails, Fault
  <2>4. watcher' \in [Objects -> WatcherState]
    BY <1>12, <2>2 DEF TypeOK, SendPingFails
  <2>5. UNCHANGED <<poolVars, userVars, vppVars, reqChan, replyChan,
                  vppConnected, lost>>
    BY <1>12 DEF SendPingFails
  <2> QED
    BY <2>1, <2>3, <2>4, <2>5 DEF TypeOK, poolVars, userVars, vppVars
<1>13. ASSUME NEW o \in Objects, SendErrorReply(o) \/ DropErrorReply(o)
       PROVE  TypeOK'
  <2>1. watcher[o].req \in Request
    BY <1>13, WatcherReq DEF SendErrorReply, DropErrorReply
  <2>2. ErrorReply(watcher[o].req) \in Reply /\ watcher[o].req.tag \in Tags
    BY <2>1 DEF ErrorReply, Request, Reply
  <2>3. [pc |-> "recv"] \in WatcherState
    BY DEF WatcherState
  <2>4. CASE SendErrorReply(o)
    <3>1. replyChan' \in [Objects -> Seq(Reply)]
      BY <2>2, <2>4 DEF TypeOK, SendErrorReply
    <3>2. watcher' \in [Objects -> WatcherState]
      BY <2>3, <2>4 DEF TypeOK, SendErrorReply
    <3> QED
      BY <2>4, <3>1, <3>2
         DEF TypeOK, SendErrorReply, poolVars, userVars, vppVars
  <2>5. CASE DropErrorReply(o)
    BY <2>2, <2>3, <2>5 DEF TypeOK, DropErrorReply, poolVars, userVars, vppVars
  <2> QED
    BY <1>13, <2>4, <2>5
<1>14. ASSUME NEW o \in Objects, ReleaseFromMap(o)
       PROVE  TypeOK'
  <2>1. [pc |-> "putId"] \in WatcherState
    BY DEF WatcherState
  <2> QED
    BY <1>14, <2>1 DEF TypeOK, ReleaseFromMap, userVars, vppVars
<1>15. ASSUME NEW o \in Objects, ReleasePutId(o)
       PROVE  TypeOK'
  <2>1. Idle \in WatcherState
    BY DEF WatcherState
  <2>2. id[o] \in IDs
    BY <1>15 DEF ReleasePutId, Phases, IdsExclusive, Owners
  <2>3. freeIds' = Append(freeIds, id[o]) /\ freeIds \in Seq(IDs)
    BY <1>15 DEF TypeOK, ReleasePutId
  <2>4. freeIds' \in Seq(IDs)
    BY <2>2, <2>3
  <2>5. home' \in [Objects -> {"pooled", "open", "closing", "releasing",
                               "resetting"}]
    BY <1>15 DEF TypeOK, ReleasePutId
  <2>6. watcher' \in [Objects -> WatcherState]
    BY <1>15, <2>1 DEF TypeOK, ReleasePutId
  <2>7. UNCHANGED <<id, reqClosed, channels, opens, reqChan, replyChan,
                    userVars, vppVars, vppConnected, lost, faults>>
    BY <1>15 DEF ReleasePutId
  <2> QED
    BY <2>4, <2>5, <2>6, <2>7 DEF TypeOK, userVars, vppVars
<1>16. ASSUME NEW o \in Objects, ResetAndPut(o)
       PROVE  TypeOK'
  BY <1>16, SMTT(60) DEF TypeOK, ResetAndPut, userVars, vppVars
<1>17. CASE Reader
  <2>1. callback \in [pc : {"send"}, ch : Objects, reply : Reply]
    BY <1>17 DEF TypeOK, Reader, DeliverReply, DropReply, Idle
  <2>2. callback.ch \in Objects /\ callback.reply \in Reply
    BY <2>1
  <2>3. callback.reply.tag \in Tags
    BY <2>2 DEF Reply
  <2>4. CASE DeliverReply
    <3>1. replyChan' = [replyChan EXCEPT ![callback.ch] =
                          Append(replyChan[callback.ch], callback.reply)]
      BY <2>4 DEF DeliverReply
    <3>2. replyChan' \in [Objects -> Seq(Reply)]
      BY <2>2, <3>1 DEF TypeOK
    <3> QED
      BY <2>4, <3>2 DEF TypeOK, DeliverReply, poolVars, userVars
  <2>5. CASE DropReply
    BY <2>3, <2>5 DEF TypeOK, DropReply, poolVars, userVars
  <2> QED
    BY <1>17, <2>4, <2>5 DEF Reader
<1>18. CASE VppSendsDetail
  <2>1. callback' \in {Idle} \cup [pc : {"send"}, ch : Objects, reply : Reply]
    BY <1>18, HeadMessage, MsgCallbackType DEF VppSendsDetail, VppReady
  <2>2. sent' \in [Tags -> Nat]
    BY <1>18, HeadMessage, SMTT(60) DEF TypeOK, VppSendsDetail, VppReady
  <2> QED
    BY <1>18, <2>1, <2>2 DEF TypeOK, VppSendsDetail, poolVars, userVars
<1>19. CASE VppReplies
  <2>1. callback' \in {Idle} \cup [pc : {"send"}, ch : Objects, reply : Reply]
    BY <1>19, HeadMessage, MsgCallbackType DEF VppReplies, VppReady
  <2> QED
    BY <1>19, <2>1, HeadMessage
       DEF TypeOK, VppReplies, VppReady, poolVars, userVars
<1>20. CASE VppMovesOn
  <2>1. lost' \subseteq Tags
    BY <1>20, HeadMessage DEF TypeOK, VppMovesOn, VppReady
  <2> QED
    BY <1>20, <2>1, HeadMessage
       DEF TypeOK, VppMovesOn, VppReady, poolVars, userVars
<1>21. CASE Disconnect
  <2>1. \A k \in DOMAIN vppQueue : vppQueue[k].tag \in Tags
    <3>1. \A k \in DOMAIN vppQueue : vppQueue[k] \in Message
      BY DEF TypeOK
    <3> QED
      BY <3>1 DEF Message
  <2>2. lost' \subseteq Tags
    BY <1>21, <2>1 DEF TypeOK, Disconnect
  <2>3. faults' \in 0 .. MaxFaults
    BY <1>21, BoundAssumption DEF TypeOK, Disconnect
  <2>4. vppQueue' \in Seq(Message)
    BY <1>21 DEF Disconnect
  <2> QED
    BY <1>21, <2>2, <2>3, <2>4 DEF TypeOK, Disconnect, poolVars, userVars
<1>22. CASE Reconnect
  BY <1>22 DEF TypeOK, Reconnect, poolVars, userVars, vppVars
<1>23. CASE UNCHANGED vars
  BY <1>23 DEF TypeOK, vars
<1> QED
  BY <1>1, <1>2, <1>3, <1>4, <1>5, <1>6, <1>7, <1>8, <1>9, <1>10, <1>11,
     <1>12, <1>13, <1>14, <1>15, <1>16, <1>17, <1>18, <1>19, <1>20, <1>21,
     <1>22, <1>23
     DEF Next, User, Watcher, Environment

-----------------------------------------------------------------------------
(* At first all objects are pooled and all IDs free.                        *)
LEMMA InitPhases == Init => Phases /\ IdsExclusive
BY DEF Init, Phases, IdsExclusive, Owners, Idle, IDs

(* Only four actions change `home`; the others move the watcher between the *)
(* states of an open or closing channel, if at all.                         *)
LEMMA NextPhases == TypeOK /\ Phases /\ [Next]_vars => Phases'
<1> SUFFICES ASSUME TypeOK, Phases, [Next]_vars
             PROVE  Phases'
  OBVIOUS
<1>1. ASSUME NEW o \in Objects, NewAPIChannel(o)
      PROVE  Phases'
  BY <1>1 DEF TypeOK, Phases, NewAPIChannel
<1>2. ASSUME NEW o \in Objects, Close(o)
      PROVE  Phases'
  BY <1>2 DEF TypeOK, Phases, Close
<1>3. ASSUME NEW o \in Objects, ReleaseFromMap(o)
      PROVE  Phases'
  BY <1>3 DEF TypeOK, Phases, ReleaseFromMap
<1>4. ASSUME NEW o \in Objects, ReleasePutId(o)
      PROVE  Phases'
  BY <1>4 DEF TypeOK, Phases, ReleasePutId, Idle
<1>5. ASSUME NEW o \in Objects, ResetAndPut(o)
      PROVE  Phases'
  BY <1>5 DEF TypeOK, Phases, ResetAndPut
<1>6. ASSUME NEW o \in Objects,
             \/ TakeRequest(o) \/ RejectRequest(o)
             \/ SendToVPP(o) \/ SendFails(o)
             \/ SendPing(o) \/ SendPingFails(o)
             \/ SendErrorReply(o) \/ DropErrorReply(o)
      PROVE  Phases'
  <2>1. /\ UNCHANGED <<home, reqClosed>>
        /\ watcher[o].pc \in {"recv", "send", "ping", "reply"}
    BY <1>6 DEF TakeRequest, RejectRequest, SendToVPP, SendFails, SendPing,
         SendPingFails, SendErrorReply, DropErrorReply, poolVars
  <2>2. \E st : /\ watcher' = [watcher EXCEPT ![o] = st]
                /\ st.pc \in {"recv", "send", "ping", "reply"}
    BY <1>6 DEF TakeRequest, RejectRequest, SendToVPP, SendFails, SendPing,
         SendPingFails, SendErrorReply, DropErrorReply, WatcherGoes
  <2> QED
    BY <2>1, <2>2 DEF TypeOK, Phases
<1>7. CASE UNCHANGED <<home, reqClosed, watcher>>
  BY <1>7 DEF Phases
<1>8. ASSUME NEW o \in Objects, NEW multi \in BOOLEAN, SendRequest(o, multi)
      PROVE  UNCHANGED <<home, reqClosed, watcher>>
  BY <1>8 DEF SendRequest, poolVars
<1>9. ASSUME NEW o \in Objects,
             \/ \E w \in handles[o] : ReceiveReply(o, w)
             \/ TakeReply(o) \/ ReplyTimesOut(o)
             \/ \E t \in Timeouts : SetReplyTimeout(o, t)
      PROVE  UNCHANGED <<home, reqClosed, watcher>>
  BY <1>9 DEF ReceiveReply, TakeReply, ReplyTimesOut, SetReplyTimeout, poolVars
<1>10. Reader \/ Environment => UNCHANGED <<home, reqClosed, watcher>>
  BY DEF Reader, DeliverReply, DropReply, Environment, VppSendsDetail,
     VppReplies, VppMovesOn, Disconnect, Reconnect, poolVars
<1>11. UNCHANGED vars => UNCHANGED <<home, reqClosed, watcher>>
  BY DEF vars
<1> QED
  BY <1>1, <1>2, <1>3, <1>4, <1>5, <1>6, <1>7, <1>8, <1>9, <1>10, <1>11
     DEF Next, User, Watcher

(* The same four actions and Close are the ones that touch the ownership of *)
(* IDs: the map, the ID pool and the objects' IDs.                          *)
LEMMA NextIdsExclusive ==
    TypeOK /\ Phases /\ IdsExclusive /\ [Next]_vars => IdsExclusive'
<1> SUFFICES ASSUME TypeOK, Phases, IdsExclusive, [Next]_vars
             PROVE  IdsExclusive'
  OBVIOUS
<1>1. ASSUME NEW o \in Objects, NewAPIChannel(o)
      PROVE  IdsExclusive'
  <2> DEFINE i == Head(freeIds)
  <2>1. /\ i \in IDs /\ 1 \in DOMAIN freeIds /\ freeIds[1] = i
        /\ freeIds \in Seq(IDs)
    BY <1>1 DEF TypeOK, NewAPIChannel
  <2>2. /\ DOMAIN freeIds' = 1 .. Len(freeIds) - 1
        /\ \A k \in DOMAIN freeIds' : /\ k + 1 \in DOMAIN freeIds
                                      /\ freeIds'[k] = freeIds[k + 1]
    BY <1>1, <2>1 DEF NewAPIChannel
  <2>3. /\ id' = [id EXCEPT ![o] = i]
        /\ channels' = [channels EXCEPT ![i] = o]
        /\ home' = [home EXCEPT ![o] = "open"] /\ home[o] = "pooled"
    BY <1>1 DEF NewAPIChannel
  <2> HIDE DEF i
  <2>4. o \notin Owners /\ Owners' = Owners \cup {o}
    BY <2>3 DEF Owners, TypeOK
  <2>5. \A k \in DOMAIN freeIds' : freeIds'[k] # i
    BY <2>1, <2>2 DEF IdsExclusive
  <2>6. \A p \in Owners : id[p] # i /\ id'[p] = id[p] /\ p # o
    BY <2>1, <2>3, <2>4 DEF IdsExclusive, TypeOK, Owners
  <2>7. id'[o] = i /\ channels'[i] = o /\ home'[o] = "open"
    BY <2>1, <2>3 DEF TypeOK
  <2>8. \A p \in Owners : /\ home'[p] = home[p]
                          /\ channels'[id[p]] = channels[id[p]]
    BY <2>3, <2>4, <2>6 DEF IdsExclusive, TypeOK, Owners
  <2>9. \A p \in Owners' : /\ id'[p] \in IDs
                           /\ channels'[id'[p]] =
                                IF home'[p] = "releasing" THEN None ELSE p
                           /\ \A k \in DOMAIN freeIds' : freeIds'[k] # id'[p]
    BY <2>1, <2>2, <2>4, <2>5, <2>6, <2>7, <2>8 DEF IdsExclusive
  <2>10. \A j \in IDs : channels'[j] # None =>
           channels'[j] \in Owners' /\ id'[channels'[j]] = j
    BY <2>1, <2>3, <2>4, <2>6, <2>7 DEF IdsExclusive, TypeOK
  <2>11. \A j, k \in DOMAIN freeIds' : freeIds'[j] = freeIds'[k] => j = k
    BY <2>1, <2>2 DEF IdsExclusive
  <2>12. \A p, q \in Owners' : id'[p] = id'[q] => p = q
    BY <2>4, <2>6, <2>7 DEF IdsExclusive
  <2> QED
    BY <2>9, <2>10, <2>11, <2>12 DEF IdsExclusive
<1>2. ASSUME NEW o \in Objects, Close(o)
      PROVE  IdsExclusive'
  BY <1>2, SMTT(60) DEF TypeOK, IdsExclusive, Owners, Close
<1>3. ASSUME NEW o \in Objects, ReleaseFromMap(o)
      PROVE  IdsExclusive'
  <2>1. /\ home[o] = "closing" /\ o \in Owners
        /\ home' = [home EXCEPT ![o] = "releasing"]
        /\ channels' = [channels EXCEPT ![id[o]] = None]
        /\ UNCHANGED <<id, freeIds>>
    <3>1. home[o] \in {"open", "closing"}
      BY <1>3, RecvPhase DEF ReleaseFromMap
    <3>2. home[o] # "open"
      BY <1>3 DEF Phases, ReleaseFromMap
    <3> QED
      BY <1>3, <3>1, <3>2 DEF ReleaseFromMap, Owners
  <2>2. id[o] \in IDs /\ channels[id[o]] = o
    BY <2>1 DEF IdsExclusive
  <2>3. Owners' = Owners
    BY <2>1 DEF Owners, TypeOK
  <2>4. home'[o] = "releasing" /\ channels'[id[o]] = None
    BY <2>1, <2>2 DEF TypeOK
  <2>5. \A p \in Owners \ {o} : /\ home'[p] = home[p] /\ id[p] # id[o]
                                /\ channels'[id[p]] = channels[id[p]]
    BY <2>1, <2>2 DEF IdsExclusive, TypeOK, Owners
  <2>6. \A p \in Owners' : /\ id'[p] \in IDs
                           /\ channels'[id'[p]] =
                                IF home'[p] = "releasing" THEN None ELSE p
                           /\ \A k \in DOMAIN freeIds' : freeIds'[k] # id'[p]
    BY <2>1, <2>3, <2>4, <2>5 DEF IdsExclusive
  <2>7. \A j \in IDs : channels'[j] # None =>
          channels'[j] \in Owners' /\ id'[channels'[j]] = j
    BY <2>1, <2>2, <2>3 DEF IdsExclusive, TypeOK
  <2>8. /\ \A j, k \in DOMAIN freeIds' : freeIds'[j] = freeIds'[k] => j = k
        /\ \A p, q \in Owners' : id'[p] = id'[q] => p = q
    BY <2>1, <2>3 DEF IdsExclusive
  <2> QED
    BY <2>6, <2>7, <2>8 DEF IdsExclusive
<1>4. ASSUME NEW o \in Objects, ReleasePutId(o)
      PROVE  IdsExclusive'
  <2>1. /\ home[o] = "releasing" /\ o \in Owners
        /\ home' = [home EXCEPT ![o] = "resetting"]
        /\ freeIds' = Append(freeIds, id[o])
        /\ UNCHANGED <<id, channels>>
    BY <1>4 DEF Phases, ReleasePutId, Owners
  <2>2. id[o] \in IDs /\ channels[id[o]] = None
    BY <2>1 DEF IdsExclusive
  <2>3. /\ freeIds \in Seq(IDs)
        /\ DOMAIN freeIds' = 1 .. Len(freeIds) + 1
        /\ freeIds'[Len(freeIds) + 1] = id[o]
        /\ \A k \in 1 .. Len(freeIds) : freeIds'[k] = freeIds[k]
    BY <2>1, <2>2 DEF TypeOK
  <2>4. Owners' = Owners \ {o}
    BY <2>1 DEF Owners, TypeOK
  <2>5. \A p \in Owners' : home'[p] = home[p] /\ id[p] # id[o] /\ p \in Owners
    BY <2>1, <2>4 DEF IdsExclusive, TypeOK
  <2>6. \A p \in Owners' : /\ id'[p] \in IDs
                           /\ channels'[id'[p]] =
                                IF home'[p] = "releasing" THEN None ELSE p
                           /\ \A k \in DOMAIN freeIds' : freeIds'[k] # id'[p]
    BY <2>1, <2>3, <2>5 DEF IdsExclusive
  <2>7. \A j \in IDs : channels'[j] # None =>
          channels'[j] \in Owners' /\ id'[channels'[j]] = j
    BY <2>1, <2>2, <2>4 DEF IdsExclusive
  <2>8. \A j, k \in DOMAIN freeIds' : freeIds'[j] = freeIds'[k] => j = k
    BY <2>1, <2>3 DEF IdsExclusive
  <2>9. \A p, q \in Owners' : id'[p] = id'[q] => p = q
    BY <2>1, <2>5 DEF IdsExclusive
  <2> QED
    BY <2>6, <2>7, <2>8, <2>9 DEF IdsExclusive
<1>5. ASSUME NEW o \in Objects, ResetAndPut(o)
      PROVE  IdsExclusive'
  BY <1>5 DEF TypeOK, IdsExclusive, Owners, ResetAndPut
<1>6. CASE UNCHANGED poolVars
  BY <1>6 DEF IdsExclusive, Owners, poolVars
<1>7. ASSUME NEW o \in Objects,
             \/ TakeRequest(o) \/ RejectRequest(o)
             \/ SendToVPP(o) \/ SendFails(o)
             \/ SendPing(o) \/ SendPingFails(o)
             \/ SendErrorReply(o) \/ DropErrorReply(o)
      PROVE  UNCHANGED poolVars
  BY <1>7 DEF TakeRequest, RejectRequest, SendToVPP, SendFails, SendPing,
     SendPingFails, SendErrorReply, DropErrorReply
<1>8. ASSUME NEW o \in Objects,
             \/ \E multi \in BOOLEAN : SendRequest(o, multi)
             \/ \E w \in handles[o] : ReceiveReply(o, w)
             \/ TakeReply(o) \/ ReplyTimesOut(o)
             \/ \E t \in Timeouts : SetReplyTimeout(o, t)
      PROVE  UNCHANGED poolVars
  BY <1>8 DEF SendRequest, ReceiveReply, TakeReply, ReplyTimesOut,
     SetReplyTimeout
<1>9. Reader \/ Environment => UNCHANGED poolVars
  BY DEF Reader, DeliverReply, DropReply, Environment, VppSendsDetail,
     VppReplies, VppMovesOn, Disconnect, Reconnect
<1>10. UNCHANGED vars => UNCHANGED poolVars
  BY DEF vars, poolVars
<1> QED
  BY <1>1, <1>2, <1>3, <1>4, <1>5, <1>6, <1>7, <1>8, <1>9, <1>10
     DEF Next, User, Watcher

-----------------------------------------------------------------------------
(* Type correctness of the request path (core/channel.go,                   *)
(* core/request_handler.go) and, from the same induction, the exclusive     *)
(* ownership of channel IDs through newChannel and releaseAPIChannel.       *)
THEOREM OwnershipCorrect == Spec => [](TypeOK /\ Phases /\ IdsExclusive)
<1> DEFINE Inv == TypeOK /\ Phases /\ IdsExclusive
<1>1. Init => Inv
  BY InitTypeOK, InitPhases
<1>2. Inv /\ [Next]_vars => Inv'
  BY NextTypeOK, NextPhases, NextIdsExclusive
<1> QED
  BY <1>1, <1>2, PTL DEF Spec

(* Every variable of the request path keeps its type.                       *)
THEOREM TypeCorrect == Spec => []TypeOK
BY OwnershipCorrect, PTL

(* No two channels share an ID, the map names each ID's one owner, and an   *)
(* owned ID is never in the ID pool, however newChannel and                 *)
(* releaseAPIChannel of any number of channels interleave.                  *)
THEOREM IdsExclusiveCorrect == Spec => []IdsExclusive
BY OwnershipCorrect, PTL

-----------------------------------------------------------------------------
(* The owners can be counted.                                               *)
LEMMA OwnersFinite == IsFiniteSet(Owners) /\ Cardinality(Owners) \in Nat
BY ObjectsAssumption, FS_Subset, FS_CardinalityType DEF Owners

(* At first no ID is owned.                                                 *)
LEMMA InitIdsConserved == Init => IdsConserved
<1> SUFFICES ASSUME Init
             PROVE  IdsConserved
  OBVIOUS
<1>1. Owners = {}
  BY DEF Init, Owners
<1>2. Len(freeIds) = MaxID
  BY PoolAssumption DEF Init, IDs
<1> QED
  BY <1>1, <1>2, FS_EmptySet, PoolAssumption DEF IdsConserved

(* An ID goes from the pool to an owner and back.                           *)
LEMMA NextIdsConserved ==
    TypeOK /\ Phases /\ IdsConserved /\ [Next]_vars => IdsConserved'
<1> SUFFICES ASSUME TypeOK, Phases, IdsConserved, [Next]_vars
             PROVE  IdsConserved'
  OBVIOUS
<1>1. ASSUME NEW o \in Objects, NewAPIChannel(o)
      PROVE  IdsConserved'
  <2>1. o \notin Owners /\ Owners' = Owners \cup {o}
    BY <1>1 DEF NewAPIChannel, Owners, TypeOK
  <2>2. Cardinality(Owners') = Cardinality(Owners) + 1
    BY <2>1, OwnersFinite, FS_AddElement
  <2>3. Len(freeIds') = Len(freeIds) - 1 /\ Len(freeIds) \in Nat
    BY <1>1 DEF NewAPIChannel, TypeOK
  <2> QED
    BY <2>2, <2>3, OwnersFinite, PoolAssumption DEF IdsConserved
<1>2. ASSUME NEW o \in Objects, ReleasePutId(o)
      PROVE  IdsConserved'
  <2>1. o \in Owners /\ Owners' = Owners \ {o}
    BY <1>2 DEF ReleasePutId, Owners, Phases, TypeOK
  <2>2. Cardinality(Owners') = Cardinality(Owners) - 1
    BY <2>1, OwnersFinite, FS_RemoveElement
  <2>3. Len(freeIds') = Len(freeIds) + 1 /\ Len(freeIds) \in Nat
    BY <1>2 DEF ReleasePutId, TypeOK
  <2> QED
    BY <2>2, <2>3, OwnersFinite, PoolAssumption DEF IdsConserved
<1>3. ASSUME NEW o \in Objects, Close(o) \/ ReleaseFromMap(o) \/ ResetAndPut(o)
      PROVE  IdsConserved'
  <2>1. watcher[o].pc = "recv" => home[o] \in {"open", "closing"}
    BY RecvPhase
  <2>2. Owners' = Owners /\ freeIds' = freeIds
    <3>1. CASE Close(o)
      BY <3>1 DEF Close, Owners, TypeOK
    <3>2. CASE ReleaseFromMap(o)
      BY <3>2, <2>1 DEF ReleaseFromMap, Owners, TypeOK
    <3>3. CASE ResetAndPut(o)
      BY <3>3 DEF ResetAndPut, Owners, TypeOK, userVars
    <3> QED
      BY <1>3, <3>1, <3>2, <3>3
  <2> QED
    BY <2>2 DEF IdsConserved
<1>4. CASE UNCHANGED poolVars
  BY <1>4 DEF IdsConserved, Owners, poolVars
<1>5. ASSUME NEW o \in Objects,
             \/ TakeRequest(o) \/ RejectRequest(o)
             \/ SendToVPP(o) \/ SendFails(o)
             \/ SendPing(o) \/ SendPingFails(o)
             \/ SendErrorReply(o) \/ DropErrorReply(o)
             \/ \E multi \in BOOLEAN : SendRequest(o, multi)
             \/ \E w \in handles[o] : ReceiveReply(o, w)
             \/ TakeReply(o) \/ ReplyTimesOut(o)
             \/ \E t \in Timeouts : SetReplyTimeout(o, t)
      PROVE  UNCHANGED poolVars
  BY <1>5 DEF TakeRequest, RejectRequest, SendToVPP, SendFails, SendPing,
     SendPingFails, SendErrorReply, DropErrorReply, SendRequest, ReceiveReply,
     TakeReply, ReplyTimesOut, SetReplyTimeout
<1>6. Reader \/ Environment => UNCHANGED poolVars
  BY DEF Reader, DeliverReply, DropReply, Environment, VppSendsDetail,
     VppReplies, VppMovesOn, Disconnect, Reconnect
<1>7. UNCHANGED vars => UNCHANGED poolVars
  BY DEF vars, poolVars
<1> QED
  BY <1>1, <1>2, <1>3, <1>4, <1>5, <1>6, <1>7 DEF Next, User, Watcher

(* No channel ID is ever leaked or duplicated: every one of 1 .. MaxID is   *)
(* free in the ID pool or owned by one object.                              *)
THEOREM IdsConservedCorrect == Spec => []IdsConserved
<1>1. Init => IdsConserved
  BY InitIdsConserved
<1>2. TypeOK /\ Phases /\ IdsConserved /\ [Next]_vars => IdsConserved'
  BY NextIdsConserved
<1> QED
  BY <1>1, <1>2, OwnershipCorrect, PTL DEF Spec

-----------------------------------------------------------------------------
(* Which request a reply answers.  What is on its way, in any place, comes  *)
(* from a request that was sent, and no two requests of an object have the  *)
(* same sequence number as long as the numbers have not gone round.         *)

(* The multiple of M between -M and M is 0.                                 *)
LEMMA OnlyZeroFits ==
    ASSUME NEW M \in Nat \ {0}, NEW d \in Int, M * d < M, M * d > -M
    PROVE  d = 0
<1>1. CASE d >= 1
  <2>1. M * d >= M * 1
    BY <1>1
  <2> QED BY <2>1, <1>1
<1>2. CASE d <= -1
  <2>1. M * d <= M * (-1)
    BY <1>2
  <2> QED BY <2>1, <1>2
<1> QED BY <1>1, <1>2

(* A number is a multiple of M and its remainder.                           *)
LEMMA Division ==
    ASSUME NEW M \in Nat \ {0}, NEW x \in Int
    PROVE  x % M \in 0..M - 1 /\ \E q \in Int : x = M * q + (x % M)
<1>1. x \div M \in Int /\ x % M = x - M * (x \div M)
  OBVIOUS
<1>2. M * (x \div M) \in Int /\ x % M \in 0..M - 1
  BY <1>1
<1>3. x = M * (x \div M) + (x % M)
  BY <1>1, <1>2
<1> QED BY <1>1, <1>2, <1>3

(* The remainder is the only one there is.                                  *)
LEMMA RemainderUnique ==
    ASSUME NEW M \in Nat \ {0}, NEW x \in Int, NEW k \in Int, NEW y \in 0..M - 1,
           x = M * k + y
    PROVE  x % M = y
<1>1. PICK q \in Int : x = M * q + (x % M)
  BY Division
<1>2. M * (k - q) = M * k - M * q
  OBVIOUS
<1>3. /\ M * k \in Int /\ M * q \in Int /\ M * (k - q) \in Int /\ k - q \in Int
      /\ x % M \in 0..M - 1
  OBVIOUS
<1>4. M * (k - q) < M /\ M * (k - q) > -M
  BY <1>1, <1>2, <1>3
<1>5. k - q = 0
  BY <1>3, <1>4, OnlyZeroFits
<1>6. k = q
  BY <1>5
<1> QED BY <1>1, <1>3, <1>6

(* Adding a multiple of M does not change the remainder.                    *)
LEMMA RemainderPeriodic ==
    ASSUME NEW M \in Nat \ {0}, NEW x \in Int, NEW k \in Int
    PROVE  (x + k * M) % M = x % M
<1>1. PICK q \in Int : x = M * q + (x % M)
  BY Division
<1>2. k * M \in Int /\ x + k * M \in Int /\ q + k \in Int /\ x % M \in 0..M - 1
  BY Division
<1>3. M * (q + k) = M * q + k * M
  OBVIOUS
<1>4. x + k * M = M * (q + k) + (x % M)
  BY <1>1, <1>2, <1>3
<1> QED BY <1>2, <1>4, RemainderUnique

(* Numbers less than M apart have different remainders.                     *)
LEMMA RemainderInjective ==
    ASSUME NEW M \in Nat \ {0}, NEW x \in Int, NEW y \in Int,
           x % M = y % M, x <= y, y < x + M
    PROVE  x = y
<1>1. PICK q \in Int : x = M * q + (x % M)
  BY Division
<1>2. PICK p \in Int : y = M * p + (y % M)
  BY Division
<1>3. M * (p - q) = M * p - M * q
  OBVIOUS
<1>4. M * p \in Int /\ M * q \in Int /\ p - q \in Int /\ x % M \in Int
  OBVIOUS
<1>5. M * (p - q) = y - x
  BY <1>1, <1>2, <1>3, <1>4
<1>6. p - q = 0
  BY <1>4, <1>5, OnlyZeroFits
<1> QED BY <1>5, <1>6

(* The number after c in the cycle.                                         *)
LEMMA NextNumber ==
    ASSUME NEW c \in Int
    PROVE  /\ nextSeqNum(c % SeqMod) = (c + 1) % SeqMod
           /\ c % SeqMod \in SeqNum
<1>1. SeqMod \in Nat \ {0}
  BY SeqModAssumption
<1>2. PICK q \in Int : c = SeqMod * q + (c % SeqMod)
  BY <1>1, Division
<1> DEFINE r == c % SeqMod
           x == r + 1
<1>3. r \in 0..SeqMod - 1 /\ x \in Int
  BY <1>1, Division
<1>4. c + 1 = x + q * SeqMod
  BY <1>1, <1>2, <1>3
<1>5. (x + q * SeqMod) % SeqMod = x % SeqMod
  <2> HIDE DEF x
  <2> QED BY <1>1, <1>2, <1>3, RemainderPeriodic, Zenon
<1>6. (c + 1) % SeqMod = x % SeqMod
  BY <1>4, <1>5
<1> QED BY <1>3, <1>6 DEF nextSeqNum, SeqNum

(* What is known of a request that was sent: its object, the ID it had, its *)
(* place in the object's numbering and its kind.                            *)
Origin == [obj : Objects, id : IDs, num : Int, multi : BOOLEAN]

Wrapped(num) == num % SeqMod

Asked(f, o) == {q \in Request : /\ q.tag \in DOMAIN f /\ f[q.tag].obj = o
                                /\ q.seq = Wrapped(f[q.tag].num)
                                /\ q.multi = f[q.tag].multi}

(* Asked under the ID i.                                                    *)
AskedAs(f, o, i) == {q \in Asked(f, o) : f[q.tag].id = i}

Carried(f) == {m \in Message :
                 /\ m.tag \in DOMAIN f
                 /\ m.context = packRequestContext(f[m.tag].id, f[m.tag].multi,
                                                   Wrapped(f[m.tag].num))}

Answers(f, o) == {r \in Reply : /\ r.tag \in DOMAIN f /\ f[r.tag].obj = o
                                /\ r.seq = Wrapped(f[r.tag].num)}

(* Each object numbers its requests one after the other, from anywhere.     *)
Numbered(c, f) ==
    /\ c \in [Objects -> Int] /\ f \in [1..issued -> Origin]
    /\ \A o \in Objects : lastSeqNum[o] = Wrapped(c[o])
    /\ \A t \in 1..issued : /\ c[f[t].obj] - issued < f[t].num
                             /\ f[t].num <= c[f[t].obj]
    /\ \A t, u \in 1..issued :
          f[t].obj = f[u].obj /\ f[t].num = f[u].num => t = u

(* No ID had another owner.                                                 *)
Addressed(f) ==
    \A t \in 1..issued : /\ f[t].id \in 1..opens
                         /\ channels[f[t].id] \in {f[t].obj, None}

(* What the object's user and its watcher have in hand.                     *)
Requested(f) ==
    \A o \in Objects :
        /\ reqChan[o] \in Seq(AskedAs(f, o, id[o]))
        /\ watcher[o].pc \in {"send", "ping", "reply"} =>
              watcher[o].req \in AskedAs(f, o, id[o])
        /\ handles[o] \subseteq AskedAs(f, o, id[o])
        /\ user[o].pc = "receiving" => user[o].want \in Asked(f, o)

(* What is on its way back.                                                 *)
Answered(f) ==
    /\ vppQueue \in Seq(Carried(f))
    /\ callback.pc = "send" => callback.reply \in Answers(f, callback.ch)
    /\ \A o \in Objects :
          /\ replyChan[o] \in Seq(Answers(f, o))
          /\ delayedReply[o] \in Answers(f, o) \cup {NoReply}

(* IDs that were never taken are still in front of the ID pool.             *)
FreshIds == \A k \in 1..MaxID - opens :
               k \in DOMAIN freeIds /\ freeIds[k] = opens + k

(* A channel is given back when nothing is left in its reqChan.             *)
Drained == \A o \in Objects : home[o] \notin {"open", "closing"} => reqChan[o] = <<>>

(* After Close its user has no request.                                     *)
Forgotten == \A o \in Objects : home[o] # "open" => handles[o] = {}

Explained == \E c, f : /\ Numbered(c, f) /\ Addressed(f)
                       /\ Requested(f) /\ Answered(f)

ReplyInv == TypeOK /\ Phases /\ IdsExclusive /\ FreshIds /\ Drained /\ Forgotten
            /\ Explained /\ NoForeignReply

(* Numbers less than a turn apart are told apart.                           *)
LEMMA WrappedApart ==
    ASSUME NEW x \in Int, NEW y \in Int, Wrapped(x) = Wrapped(y),
           x < y + SeqMod, y < x + SeqMod
    PROVE  x = y
<1>1. SeqMod \in Nat \ {0}
  BY SeqModAssumption
<1>2. x % SeqMod = y % SeqMod
  BY DEF Wrapped
<1>3. CASE x <= y
  BY <1>1, <1>2, <1>3, RemainderInjective
<1>4. CASE y <= x
  BY <1>1, <1>2, <1>4, RemainderInjective
<1> QED BY <1>3, <1>4

(* A reply with the number of the awaited request answers this request.     *)
LEMMA SameNumberSameRequest ==
    ASSUME TypeOK, MaxRequests <= SeqMod, NEW c, NEW f, Numbered(c, f),
           NEW o \in Objects, NEW w \in Asked(f, o), NEW r \in Answers(f, o),
           Verdict(w, r) \in {"data", "last", "error"}
    PROVE  r.tag = w.tag
<1> DEFINE t == r.tag
           u == w.tag
           x == f[t].num
           y == f[u].num
<1>1. /\ t \in 1..issued /\ u \in 1..issued /\ f[t].obj = o /\ f[u].obj = o
      /\ r.seq = Wrapped(x) /\ w.seq = Wrapped(y)
      /\ r.seq \in SeqNum /\ w.seq \in SeqNum
  BY DEF Asked, Answers, Numbered, Request, Reply
<1>2. f[t] \in Origin /\ f[u] \in Origin /\ c[o] \in Int
  BY <1>1 DEF Numbered
<1>3. x \in Int /\ y \in Int
  BY <1>2 DEF Origin
<1>4. compareSeqNumbers(r.seq, w.seq) = 0
  <2>1. compareSeqNumbers(r.seq, w.seq) \in {-1, 0, 1}
    BY DEF compareSeqNumbers
  <2> QED BY <2>1 DEF Verdict
<1>5. Wrapped(x) = Wrapped(y)
  BY <1>1, <1>4, CompareEqual
<1>6. /\ c[o] - issued < x /\ x <= c[o] /\ c[o] - issued < y /\ y <= c[o]
  BY <1>1 DEF Numbered
<1>7. issued \in Nat /\ issued <= SeqMod /\ SeqMod \in Nat
  BY BoundAssumption, SeqModAssumption DEF TypeOK
<1>8. x < y + SeqMod /\ y < x + SeqMod
  <2> HIDE DEF x, y
  <2> QED BY <1>2, <1>3, <1>6, <1>7
<1>9. x = y
  <2> HIDE DEF x, y
  <2> QED BY <1>3, <1>5, <1>8, WrappedApart
<1> QED BY <1>1, <1>9 DEF Numbered

(* A request that is sent later takes nothing away from what is known of    *)
(* the earlier ones.                                                        *)
LEMMA MoreIsKnown ==
    ASSUME NEW f, NEW g, \A t \in DOMAIN f : t \in DOMAIN g /\ g[t] = f[t],
           NEW o, NEW i
    PROVE  /\ Asked(f, o) \subseteq Asked(g, o)
           /\ AskedAs(f, o, i) \subseteq AskedAs(g, o, i)
           /\ Answers(f, o) \subseteq Answers(g, o)
           /\ Carried(f) \subseteq Carried(g)
<1>1. Asked(f, o) \subseteq Asked(g, o)
  BY DEF Asked
<1>2. AskedAs(f, o, i) \subseteq AskedAs(g, o, i)
  BY DEF Asked, AskedAs
<1>3. Answers(f, o) \subseteq Answers(g, o)
  BY DEF Answers
<1>4. Carried(f) \subseteq Carried(g)
  BY DEF Carried
<1> QED BY <1>1, <1>2, <1>3, <1>4

(* An ID in use has been taken from the front of the pool.                  *)
LEMMA OwnedTaken ==
    ASSUME TypeOK, IdsExclusive, FreshIds, MaxOpens <= MaxID, NEW o \in Owners
    PROVE  id[o] \in 1..opens
<1>1. /\ id[o] \in IDs /\ opens \in Nat /\ MaxID \in Nat
      /\ \A k \in DOMAIN freeIds : freeIds[k] # id[o]
  BY BoundAssumption, PoolAssumption DEF IdsExclusive, TypeOK
<1>2. CASE id[o] > opens
  <2> DEFINE k == id[o] - opens
  <2>1. k \in 1..MaxID - opens /\ opens + k = id[o]
    BY <1>1, <1>2 DEF IDs
  <2>2. k \in DOMAIN freeIds /\ freeIds[k] = opens + k
    <3> HIDE DEF k
    <3> QED BY <2>1 DEF FreshIds
  <2> QED BY <1>1, <2>1, <2>2
<1> QED BY <1>1, <1>2 DEF IDs

(* Sending a request adds it to what is known.                              *)
LEMMA SendRequestExplained ==
    ASSUME TypeOK, IdsExclusive, FreshIds, MaxOpens <= MaxID,
           NEW c, NEW f, Numbered(c, f), Addressed(f), Requested(f), Answered(f),
           NEW o \in Objects, NEW multi \in BOOLEAN, SendRequest(o, multi)
    PROVE  Explained'
<1> DEFINE n == issued + 1
           new == [obj |-> o, id |-> id[o], num |-> c[o] + 1, multi |-> multi]
           req == [tag |-> n, seq |-> nextSeqNum(lastSeqNum[o]), multi |-> multi]
<1>a. PICK d : d = [c EXCEPT ![o] = c[o] + 1]
  OBVIOUS
<1>b. PICK g : g = [t \in 1..n |-> IF t = n THEN new ELSE f[t]]
  OBVIOUS
<1>1. /\ home[o] = "open" /\ issued' = n /\ issued < MaxRequests
      /\ lastSeqNum' = [lastSeqNum EXCEPT ![o] = req.seq]
      /\ reqChan' = [reqChan EXCEPT ![o] = Append(reqChan[o], req)]
      /\ handles' = [handles EXCEPT ![o] = handles[o] \cup {req}]
      /\ UNCHANGED <<id, channels, opens, replyChan, delayedReply, watcher, user,
                     vppQueue, callback>>
  BY DEF SendRequest, poolVars
<1>2. /\ issued \in Nat /\ n \in Nat /\ c \in [Objects -> Int]
      /\ f \in [1..issued -> Origin] /\ o \in Owners
      /\ \A t \in 1..n : t # n => t \in 1..issued
      /\ n \in 1..n /\ \A t \in 1..issued : t \in 1..n /\ t # n
  BY <1>1, BoundAssumption DEF TypeOK, Numbered, Owners
<1>3. id[o] \in IDs /\ id[o] \in 1..opens /\ channels[id[o]] = o
  BY <1>1, <1>2, OwnedTaken DEF IdsExclusive
<1>4. new \in Origin
  BY <1>2, <1>3 DEF Origin
<1>5. g \in [1..n -> Origin] /\ g[n] = new /\ \A t \in 1..issued : g[t] = f[t]
  <2> HIDE DEF new, n
  <2> QED BY <1>b, <1>2, <1>4
<1>6. \A t \in DOMAIN f : t \in DOMAIN g /\ g[t] = f[t]
  BY <1>2, <1>5
<1>7. req \in AskedAs(g, o, id[o]) /\ req \in Asked(g, o)
  <2>1. req \in Request
    <3>1. n \in Tags
      BY <1>1, <1>2, BoundAssumption DEF Tags
    <3>2. req.seq \in SeqNum
      BY NextSeqNumType DEF TypeOK
    <3> QED BY <3>1, <3>2 DEF Request
  <2>2. req.seq = Wrapped(c[o] + 1)
    BY <1>2, NextNumber DEF Numbered, Wrapped
  <2>3. n \in DOMAIN g
    BY <1>2, <1>5
  <2> HIDE DEF n
  <2> QED BY <1>5, <2>1, <2>2, <2>3 DEF Asked, AskedAs
<1> HIDE DEF req
<1>8. Numbered(d, g)'
  <2>1. d \in [Objects -> Int] /\ d[o] = c[o] + 1 /\ \A p \in Objects \ {o} : d[p] = c[p]
    BY <1>a, <1>2
  <2>2. \A p \in Objects : lastSeqNum'[p] = Wrapped(d[p])
    <3>1. req.seq = Wrapped(c[o] + 1)
      BY <1>2, NextNumber DEF Numbered, Wrapped, req
    <3>2. \A p \in Objects : lastSeqNum[p] = Wrapped(c[p])
      BY DEF Numbered
    <3> QED BY <1>1, <2>1, <3>1, <3>2 DEF TypeOK
  <2>3. ASSUME NEW t \in 1..issued
        PROVE  /\ g[t] = f[t] /\ f[t].obj \in Objects /\ f[t].num \in Int
               /\ c[f[t].obj] \in Int /\ d[f[t].obj] \in {c[f[t].obj], c[f[t].obj] + 1}
               /\ c[f[t].obj] - issued < f[t].num /\ f[t].num <= c[f[t].obj]
    <3>1. f[t] \in Origin
      BY <1>2
    <3>2. f[t].obj \in Objects /\ f[t].num \in Int
      BY <3>1 DEF Origin
    <3> QED BY <1>2, <1>5, <2>1, <3>2 DEF Numbered
  <2>4. \A t \in 1..n : d[g[t].obj] - n < g[t].num /\ g[t].num <= d[g[t].obj]
    <3> SUFFICES ASSUME NEW t \in 1..n
                 PROVE  d[g[t].obj] - n < g[t].num /\ g[t].num <= d[g[t].obj]
      OBVIOUS
    <3>1. CASE t = n
      <4>1. g[t].obj = o /\ g[t].num = c[o] + 1 /\ c[o] \in Int /\ issued \in Nat
        BY <1>2, <1>5, <3>1
      <4> QED BY <2>1, <4>1
    <3>2. CASE t # n
      <4> DEFINE a == c[f[t].obj]
                 b == d[f[t].obj]
                 x == f[t].num
      <4>1. /\ a \in Int /\ b \in {a, a + 1} /\ x \in Int /\ g[t] = f[t]
            /\ a - issued < x /\ x <= a
        BY <1>2, <2>3, <3>2
      <4>2. b - n < x /\ x <= b
        <5> HIDE DEF a, b, x
        <5> QED BY <1>2, <4>1
      <4> QED BY <4>1, <4>2
    <3> QED BY <3>1, <3>2
  <2>5. \A t, u \in 1..n : g[t].obj = g[u].obj /\ g[t].num = g[u].num => t = u
    <3>1. \A t \in 1..issued : ~(g[t].obj = o /\ g[t].num = c[o] + 1)
      <4> SUFFICES ASSUME NEW t \in 1..issued, f[t].obj = o, f[t].num = c[o] + 1
                   PROVE  FALSE
        BY <1>5
      <4>1. c[o] \in Int /\ f[t].num <= c[o]
        BY <1>2, <2>3
      <4> QED BY <4>1
    <3>2. g[n].obj = o /\ g[n].num = c[o] + 1
      BY <1>5
    <3>3. \A t, u \in 1..issued : g[t].obj = g[u].obj /\ g[t].num = g[u].num => t = u
      BY <1>5 DEF Numbered
    <3> HIDE DEF n
    <3> QED BY <1>2, <3>1, <3>2, <3>3
  <2> QED BY <1>1, <1>5, <2>1, <2>2, <2>4, <2>5 DEF Numbered, Wrapped
<1>9. Addressed(g)'
  <2>1. \A t \in 1..issued : f[t].id \in 1..opens /\ channels[f[t].id] \in {f[t].obj, None}
    BY DEF Addressed
  <2>2. \A t \in 1..n : g[t].id \in 1..opens /\ channels[g[t].id] \in {g[t].obj, None}
    <3>1. g[n].id = id[o] /\ g[n].obj = o
      BY <1>5
    <3> HIDE DEF n
    <3> QED BY <1>2, <1>3, <1>5, <2>1, <3>1
  <2> QED BY <1>1, <2>2 DEF Addressed
<1>10. Requested(g)'
  <2>1. ASSUME NEW p \in Objects
        PROVE  /\ reqChan[p] \in Seq(AskedAs(g, p, id[p]))
               /\ watcher[p].pc \in {"send", "ping", "reply"} =>
                     watcher[p].req \in AskedAs(g, p, id[p])
               /\ handles[p] \subseteq AskedAs(g, p, id[p])
               /\ user[p].pc = "receiving" => user[p].want \in Asked(g, p)
    <3>1. Asked(f, p) \subseteq Asked(g, p) /\ AskedAs(f, p, id[p]) \subseteq AskedAs(g, p, id[p])
      BY <1>6, MoreIsKnown
    <3>2. reqChan[p] \in Seq(AskedAs(f, p, id[p]))
      BY DEF Requested
    <3>3. reqChan[p] \in Seq(AskedAs(g, p, id[p]))
      BY <3>1, <3>2, SeqMonotonic
    <3> QED BY <3>1, <3>3 DEF Requested
  <2>2. reqChan'[o] \in Seq(AskedAs(g, o, id[o]))
    <3>1. reqChan'[o] = Append(reqChan[o], req)
      BY <1>1 DEF TypeOK
    <3>2. reqChan[o] \in Seq(AskedAs(g, o, id[o]))
      BY <2>1
    <3> QED BY <1>7, <3>1, <3>2
  <2>3. handles'[o] \subseteq AskedAs(g, o, id[o])
    BY <1>1, <1>7, <2>1 DEF TypeOK
  <2>4. \A p \in Objects \ {o} : reqChan'[p] = reqChan[p] /\ handles'[p] = handles[p]
    BY <1>1 DEF TypeOK
  <2>5. \A p \in Objects : reqChan'[p] \in Seq(AskedAs(g, p, id[p]))
                           /\ handles'[p] \subseteq AskedAs(g, p, id[p])
    BY <2>1, <2>2, <2>3, <2>4
  <2> QED BY <1>1, <2>1, <2>5 DEF Requested
<1>11. Answered(g)'
  <2>1. vppQueue \in Seq(Carried(g))
    <3>1. Carried(f) \subseteq Carried(g)
      BY <1>6, MoreIsKnown
    <3>2. vppQueue \in Seq(Carried(f))
      BY DEF Answered
    <3> QED BY <3>1, <3>2, SeqMonotonic
  <2>2. ASSUME NEW p
        PROVE  Answers(f, p) \subseteq Answers(g, p)
    BY <1>6, MoreIsKnown
  <2>3. callback.pc = "send" => callback.reply \in Answers(g, callback.ch)
    BY <2>2 DEF Answered
  <2>4. ASSUME NEW p \in Objects
        PROVE  /\ replyChan[p] \in Seq(Answers(g, p))
               /\ delayedReply[p] \in Answers(g, p) \cup {NoReply}
    <3>1. replyChan[p] \in Seq(Answers(f, p)) /\ delayedReply[p] \in Answers(f, p) \cup {NoReply}
      BY DEF Answered
    <3>2. replyChan[p] \in Seq(Answers(g, p))
      BY <2>2, <3>1, SeqMonotonic
    <3> QED BY <2>2, <3>1, <3>2
  <2> QED BY <1>1, <2>1, <2>3, <2>4 DEF Answered
<1> QED BY <1>8, <1>9, <1>10, <1>11 DEF Explained

(* What a step leaves alone, it leaves explained.                           *)
LEMMA NumberedStays ==
    ASSUME NEW c, NEW f, Numbered(c, f), UNCHANGED <<lastSeqNum, issued>>
    PROVE  Numbered(c, f)'
BY DEF Numbered

(* The same for the IDs.                                                    *)
LEMMA AddressedStays ==
    ASSUME NEW f, Addressed(f), UNCHANGED <<issued, opens, channels>>
    PROVE  Addressed(f)'
BY DEF Addressed

(* The same for the requests in hand, when at most one watcher moves on.    *)
LEMMA RequestedStays ==
    ASSUME TypeOK, NEW f, Requested(f), UNCHANGED <<id, reqChan, handles, user>>,
           \/ UNCHANGED watcher
           \/ \E o \in Objects : \E st :
                 /\ watcher' = [watcher EXCEPT ![o] = st]
                 /\ st.pc \notin {"send", "ping", "reply"}
           \/ \E o \in Objects : \E pc : /\ watcher[o].pc \in {"send", "ping", "reply"}
                                     /\ WatcherGoes(o, pc)
    PROVE  Requested(f)'
<1>1. ASSUME NEW p \in Objects, watcher'[p].pc \in {"send", "ping", "reply"}
      PROVE  watcher'[p].req \in AskedAs(f, p, id[p])
  <2>1. CASE UNCHANGED watcher
    BY <1>1, <2>1 DEF Requested
  <2>2. ASSUME NEW o \in Objects, NEW st, watcher' = [watcher EXCEPT ![o] = st],
               st.pc \notin {"send", "ping", "reply"}
        PROVE  watcher'[p].req \in AskedAs(f, p, id[p])
    <3>1. p # o /\ watcher'[p] = watcher[p]
      BY <1>1, <2>2 DEF TypeOK
    <3> QED BY <1>1, <3>1 DEF Requested
  <2>3. ASSUME NEW o \in Objects, NEW pc, WatcherGoes(o, pc),
               watcher[o].pc \in {"send", "ping", "reply"}
        PROVE  watcher'[p].req \in AskedAs(f, p, id[p])
    <3>1. CASE p = o
      <4>1. watcher'[p].req = watcher[o].req
        BY <2>3, <3>1 DEF WatcherGoes, TypeOK
      <4> QED BY <2>3, <3>1, <4>1 DEF Requested
    <3>2. CASE p # o
      <4>1. watcher'[p] = watcher[p]
        BY <2>3, <3>2 DEF WatcherGoes, TypeOK
      <4> QED BY <1>1, <4>1 DEF Requested
    <3> QED BY <3>1, <3>2
  <2> QED BY <2>1, <2>2, <2>3
<1> QED BY <1>1 DEF Requested

(* The same for what is on its way back.                                    *)
LEMMA AnsweredStays ==
    ASSUME NEW f, Answered(f),
           UNCHANGED <<vppQueue, callback, replyChan, delayedReply>>
    PROVE  Answered(f)'
BY DEF Answered

(* An object that is opened has nothing in hand, and its ID no owner yet.   *)
LEMMA NewChannelExplained ==
    ASSUME TypeOK, Phases, IdsExclusive, FreshIds, Drained, Forgotten,
           MaxOpens <= MaxID,
           NEW f, Addressed(f), Requested(f),
           NEW o \in Objects, NewAPIChannel(o)
    PROVE  Addressed(f)' /\ Requested(f)'
<1> DEFINE i == Head(freeIds)
<1>1. /\ home[o] = "pooled" /\ opens' = opens + 1 /\ opens < MaxOpens
      /\ id' = [id EXCEPT ![o] = i] /\ channels' = [channels EXCEPT ![i] = o]
      /\ watcher' = [watcher EXCEPT ![o] = [pc |-> "recv"]]
      /\ UNCHANGED <<issued, reqChan, handles, user>>
  BY DEF NewAPIChannel, userVars, vppVars
<1>2. i = opens + 1
  <2>1. opens \in Nat /\ 1 \in 1..MaxID - opens
    BY <1>1, BoundAssumption, PoolAssumption DEF TypeOK
  <2>2. freeIds[1] = opens + 1
    BY <2>1 DEF FreshIds
  <2>3. freeIds \in Seq(IDs) /\ freeIds # <<>>
    BY DEF TypeOK, NewAPIChannel
  <2> QED BY <2>2, <2>3
<1> HIDE DEF i
<1>3. Addressed(f)'
  <2>1. ASSUME NEW t \in 1..issued
        PROVE  f[t].id \in 1..opens + 1 /\ channels'[f[t].id] \in {f[t].obj, None}
    <3>1. /\ opens \in Nat /\ f[t].id \in 1..opens
          /\ channels[f[t].id] \in {f[t].obj, None}
      BY BoundAssumption DEF Addressed, TypeOK
    <3>2. f[t].id # i /\ f[t].id \in IDs
      BY <1>1, <1>2, <3>1, BoundAssumption, PoolAssumption DEF IDs
    <3>3. channels'[f[t].id] = channels[f[t].id]
      BY <1>1, <3>2 DEF TypeOK
    <3> QED BY <3>1, <3>3
  <2> QED BY <1>1, <2>1 DEF Addressed
<1>4. Requested(f)'
  <2>1. reqChan[o] = <<>> /\ handles[o] = {}
    BY <1>1 DEF Drained, Forgotten
  <2>2. watcher'[o].pc = "recv" /\ \A p \in Objects \ {o} : watcher'[p] = watcher[p]
    BY <1>1 DEF TypeOK
  <2>3. \A p \in Objects \ {o} : id'[p] = id[p]
    BY <1>1 DEF TypeOK
  <2>4. ASSUME NEW p \in Objects
        PROVE  /\ reqChan[p] \in Seq(AskedAs(f, p, id'[p]))
               /\ handles[p] \subseteq AskedAs(f, p, id'[p])
               /\ watcher'[p].pc \in {"send", "ping", "reply"} =>
                     watcher'[p].req \in AskedAs(f, p, id'[p])
    <3>1. CASE p = o
      BY <2>1, <2>2, <3>1, EmptySeq
    <3>2. CASE p # o
      BY <2>2, <2>3, <3>2 DEF Requested
    <3> QED BY <3>1, <3>2
  <2>5. \A p \in Objects : user[p].pc = "receiving" => user[p].want \in Asked(f, p)
    BY DEF Requested
  <2> QED BY <1>1, <2>4, <2>5 DEF Requested
<1> QED BY <1>3, <1>4

(* The watcher takes a request.                                             *)
LEMMA TakeRequestExplained ==
    ASSUME TypeOK, NEW f, Requested(f), NEW o \in Objects,
           TakeRequest(o) \/ RejectRequest(o)
    PROVE  Requested(f)'
<1> DEFINE q == reqChan[o]
           S == AskedAs(f, o, id[o])
<1>1. /\ q # <<>> /\ reqChan' = [reqChan EXCEPT ![o] = Tail(q)]
      /\ \E pc : watcher' = [watcher EXCEPT ![o] = [pc |-> pc, req |-> Head(q)]]
      /\ UNCHANGED <<id, handles, user>>
  BY DEF TakeRequest, RejectRequest, poolVars, userVars
<1>2. q \in Seq(S)
  BY DEF Requested
<1>3. Head(q) \in S /\ Tail(q) \in Seq(S)
  <2> HIDE DEF q, S
  <2> QED BY <1>1, <1>2
<1>4. /\ reqChan'[o] = Tail(q) /\ watcher'[o].req = Head(q)
      /\ \A p \in Objects \ {o} : reqChan'[p] = reqChan[p] /\ watcher'[p] = watcher[p]
  <2> HIDE DEF q
  <2> QED BY <1>1 DEF TypeOK
<1>5. \A p \in Objects : /\ reqChan'[p] \in Seq(AskedAs(f, p, id[p]))
                         /\ watcher'[p].pc \in {"send", "ping", "reply"} =>
                              watcher'[p].req \in AskedAs(f, p, id[p])
  <2> SUFFICES ASSUME NEW p \in Objects
               PROVE  /\ reqChan'[p] \in Seq(AskedAs(f, p, id[p]))
                      /\ watcher'[p].pc \in {"send", "ping", "reply"} =>
                           watcher'[p].req \in AskedAs(f, p, id[p])
    OBVIOUS
  <2>1. CASE p = o
    BY <1>3, <1>4, <2>1
  <2>2. CASE p # o
    BY <1>4, <2>2 DEF Requested
  <2> QED BY <2>1, <2>2
<1> QED BY <1>1, <1>5 DEF Requested

(* A message to VPP carries the origin of its request.                      *)
LEMMA ToVPPExplained ==
    ASSUME TypeOK, NEW f, Requested(f), Answered(f), NEW o \in Objects,
           NEW ping \in BOOLEAN, watcher[o].pc \in {"send", "ping", "reply"},
           ToVPP(o, ping)
    PROVE  vppQueue' \in Seq(Carried(f))
<1> DEFINE q == watcher[o].req
           x == packRequestContext(id[o], q.multi, q.seq)
           m == [context |-> x, tag |-> q.tag, ping |-> ping]
<1>1. q \in AskedAs(f, o, id[o])
  BY DEF Requested
<1>2. /\ q \in Request /\ q.tag \in DOMAIN f /\ f[q.tag].id = id[o]
      /\ q.multi = f[q.tag].multi /\ q.seq = Wrapped(f[q.tag].num)
  BY <1>1 DEF AskedAs, Asked
<1>3. x \in ContextNum
  <2>1. id[o] \in Nat
    BY PoolAssumption DEF TypeOK
  <2> QED BY <1>2, <2>1, PackType DEF Request
<1>4. m \in Message
  <2> HIDE DEF x
  <2> QED BY <1>2, <1>3 DEF Message, Request
<1>5. m \in Carried(f)
  BY <1>2, <1>4 DEF Carried
<1>6. vppQueue' = Append(vppQueue, m) /\ vppQueue \in Seq(Carried(f))
  BY DEF ToVPP, Answered
<1> HIDE DEF m
<1> QED BY <1>5, <1>6

(* msgCallback finds the object that sent the request, or none: the ID has  *)
(* no other owner.                                                          *)
LEMMA CallbackExplained ==
    ASSUME TypeOK, NEW c, NEW f, Numbered(c, f), Addressed(f),
           MaxOpens <= MaxID, NEW m \in Carried(f), NEW ping \in BOOLEAN,
           msgCallback(m.context, m.tag, ping)
    PROVE  callback'.pc = "send" => callback'.reply \in Answers(f, callback'.ch)
<1> DEFINE a == f[m.tag]
           u == unpackRequestContext(m.context)
           ch == IF u.chanID \in IDs THEN channels[u.chanID] ELSE None
           r == [tag |-> m.tag, seq |-> u.seqNum,
                 kind |-> IF ping /\ u.isMultipart THEN "last" ELSE "data"]
<1>1. /\ m \in Message /\ m.tag \in DOMAIN f /\ m.tag \in 1..issued
      /\ m.context = packRequestContext(a.id, a.multi, Wrapped(a.num))
  BY DEF Carried, Numbered
<1>2. a \in Origin
  BY <1>1 DEF Numbered
<1>3. /\ a.id \in IDs /\ a.id \in 0..IdMod - 1 /\ a.multi \in BOOLEAN
      /\ Wrapped(a.num) \in SeqNum /\ a.obj \in Objects
  <2>1. a.id \in IDs /\ a.num \in Int /\ a.multi \in BOOLEAN /\ a.obj \in Objects
    BY <1>2 DEF Origin
  <2>2. a.id \in 0..IdMod - 1
    BY <2>1, PoolAssumption, IdModAssumption DEF IDs
  <2>3. Wrapped(a.num) \in SeqNum
    BY <2>1, NextNumber DEF Wrapped
  <2> QED BY <2>1, <2>2, <2>3
<1>4. u = [chanID |-> a.id, isMultipart |-> a.multi, seqNum |-> Wrapped(a.num)]
  <2> HIDE DEF a
  <2> QED BY <1>1, <1>3, ContextRoundTripThm
<1>5. u.chanID = a.id /\ u.isMultipart = a.multi /\ u.seqNum = Wrapped(a.num)
  <2> HIDE DEF a, u
  <2> QED BY <1>4
<1>6. ch \in {a.obj, None}
  <2>1. ch = channels[a.id]
    BY <1>3, <1>5
  <2> QED BY <1>1, <2>1 DEF Addressed
<1>7. callback' = IF ch = None THEN Idle
                  ELSE [pc |-> "send", ch |-> ch, reply |-> r]
  BY DEF msgCallback
<1>8. r \in Answers(f, a.obj)
  <2>1. r.tag = m.tag /\ r.seq = Wrapped(a.num) /\ r \in Reply
    <3>1. m.tag \in Tags
      BY <1>1 DEF Message
    <3> HIDE DEF a, u
    <3> QED BY <1>3, <1>5, <3>1 DEF Reply
  <2> HIDE DEF r
  <2> QED BY <1>1, <2>1 DEF Answers
<1> HIDE DEF ch, r, a
<1>9. CASE ch = None
  <2>1. callback'.pc = "idle"
    BY <1>7, <1>9 DEF Idle
  <2> QED BY <2>1
<1>10. CASE ch # None
  <2>1. callback'.reply = r /\ callback'.ch = a.obj
    BY <1>6, <1>7, <1>10
  <2> QED BY <1>8, <2>1
<1> QED BY <1>9, <1>10

(* A reply that is put into a replyChan belongs there.                      *)
LEMMA RepliedExplained ==
    ASSUME TypeOK, NEW f, Answered(f), NEW o \in Objects,
           NEW r \in Answers(f, o),
           replyChan' = [replyChan EXCEPT ![o] = Append(@, r)],
           UNCHANGED <<vppQueue, delayedReply>>,
           UNCHANGED callback \/ callback' = Idle
    PROVE  Answered(f)'
<1>1. replyChan[o] \in Seq(Answers(f, o))
  BY DEF Answered
<1>2. replyChan'[o] = Append(replyChan[o], r)
      /\ \A p \in Objects \ {o} : replyChan'[p] = replyChan[p]
  BY DEF TypeOK
<1>3. replyChan'[o] \in Seq(Answers(f, o))
  BY <1>1, <1>2
<1>4. \A p \in Objects : replyChan'[p] \in Seq(Answers(f, p))
  BY <1>2, <1>3 DEF Answered
<1>5. callback'.pc = "send" => callback'.reply \in Answers(f, callback'.ch)
  BY DEF Answered, Idle
<1> QED BY <1>4, <1>5 DEF Answered

(* ReceiveReply hands out, parks or drops a reply to the object's request,  *)
(* and what it hands out as a reply answers the awaited request.            *)
LEMMA ReturnExplained ==
    ASSUME TypeOK, MaxRequests <= SeqMod, NEW c, NEW f, Numbered(c, f),
           Requested(f), Answered(f), NoForeignReply, NEW o \in Objects,
           NEW w \in Asked(f, o), NEW r \in Answers(f, o),
           ReturnReply(o, w, r), UNCHANGED <<id, reqChan, watcher>>
    PROVE  /\ Requested(f)' /\ NoForeignReply'
           /\ \A p \in Objects : delayedReply'[p] \in Answers(f, p) \cup {NoReply}
<1>1. /\ result' = [result EXCEPT ![o] = [kind |-> Verdict(w, r), want |-> w.tag,
                                          got |-> r.tag]]
      /\ user' = [user EXCEPT ![o] = Idle]
      /\ \E x \in {r, NoReply} : delayedReply' = [delayedReply EXCEPT ![o] = x]
      /\ \E h \in {handles[o] \ {w}, handles[o]} : handles' = [handles EXCEPT ![o] = h]
  BY DEF ReturnReply
<1>2. Verdict(w, r) \in {"data", "last", "error"} => r.tag = w.tag
  BY SameNumberSameRequest
<1>3. NoForeignReply'
  BY <1>1, <1>2 DEF NoForeignReply, TypeOK
<1>4. \A p \in Objects : delayedReply'[p] \in Answers(f, p) \cup {NoReply}
  BY <1>1 DEF Answered, TypeOK
<1>5. \A p \in Objects : handles'[p] \subseteq AskedAs(f, p, id[p])
          /\ (user'[p].pc = "receiving" => user'[p].want \in Asked(f, p))
  <2> SUFFICES ASSUME NEW p \in Objects
               PROVE  handles'[p] \subseteq AskedAs(f, p, id[p])
                      /\ (user'[p].pc = "receiving" => user'[p].want \in Asked(f, p))
    OBVIOUS
  <2>1. CASE p = o
    <3>1. handles'[p] \subseteq handles[p] /\ user'[p] = Idle
      BY <1>1, <2>1 DEF TypeOK
    <3>2. user'[p].pc = "idle"
      BY <3>1 DEF Idle
    <3> QED BY <3>1, <3>2 DEF Requested
  <2>2. CASE p # o
    <3>1. handles'[p] = handles[p] /\ user'[p] = user[p]
      BY <1>1, <2>2 DEF TypeOK
    <3> QED BY <3>1 DEF Requested
  <2> QED BY <2>1, <2>2
<1>6. Requested(f)'
  BY <1>5 DEF Requested
<1> QED BY <1>3, <1>4, <1>6

(* ReceiveReply up to its select.                                           *)
LEMMA ReceiveReplyExplained ==
    ASSUME TypeOK, MaxRequests <= SeqMod, NEW c, NEW f, Numbered(c, f),
           Requested(f), Answered(f), NoForeignReply, NEW o \in Objects,
           NEW w \in handles[o], ReceiveReply(o, w)
    PROVE  Requested(f)' /\ Answered(f)' /\ NoForeignReply'
<1> DEFINE r == delayedReply[o]
<1>1. UNCHANGED <<id, reqChan, watcher, vppQueue, callback, replyChan>>
  BY DEF ReceiveReply, poolVars, vppVars
<1>2. w \in Asked(f, o) /\ r \in Answers(f, o) \cup {NoReply}
  BY DEF Requested, Answered, AskedAs
<1>3. CASE r # NoReply /\ ReturnReply(o, w, r)
  <2>1. /\ Requested(f)' /\ NoForeignReply'
        /\ \A p \in Objects : delayedReply'[p] \in Answers(f, p) \cup {NoReply}
    <3> HIDE DEF r
    <3>1. r \in Answers(f, o)
      BY <1>2, <1>3
    <3> QED BY <1>1, <1>2, <1>3, <3>1, ReturnExplained
  <2>2. Answered(f)'
    BY <1>1, <2>1 DEF Answered
  <2> QED BY <2>1, <2>2
<1>4. CASE ~(r # NoReply /\ ReturnReply(o, w, r))
  <2>1. /\ delayedReply' = [delayedReply EXCEPT ![o] = NoReply]
        /\ user' = [user EXCEPT ![o] = Receiving(w)]
        /\ result' = [result EXCEPT ![o] = NoReply]
        /\ handles' = handles
    BY <1>4 DEF ReceiveReply
  <2>2. NoForeignReply'
    BY <2>1 DEF NoForeignReply, TypeOK, NoReply
  <2>3. Answered(f)'
    BY <1>1, <2>1 DEF Answered, TypeOK
  <2>4. \A p \in Objects : user'[p].pc = "receiving" => user'[p].want \in Asked(f, p)
    <3> SUFFICES ASSUME NEW p \in Objects, user'[p].pc = "receiving"
                 PROVE  user'[p].want \in Asked(f, p)
      OBVIOUS
    <3>1. CASE p = o
      <4>1. user'[p].want = w
        BY <2>1, <3>1 DEF TypeOK, Receiving
      <4> QED BY <1>2, <3>1, <4>1
    <3>2. CASE p # o
      <4>1. user'[p] = user[p]
        BY <2>1, <3>2 DEF TypeOK
      <4> QED BY <4>1 DEF Requested
    <3> QED BY <3>1, <3>2
  <2>5. Requested(f)'
    BY <1>1, <2>1, <2>4 DEF Requested
  <2> QED BY <2>2, <2>3, <2>5
<1> QED BY <1>3, <1>4

(* The select takes a reply.                                                *)
LEMMA TakeReplyExplained ==
    ASSUME TypeOK, MaxRequests <= SeqMod, NEW c, NEW f, Numbered(c, f),
           Requested(f), Answered(f), NoForeignReply, NEW o \in Objects,
           TakeReply(o)
    PROVE  Requested(f)' /\ Answered(f)' /\ NoForeignReply'
<1> DEFINE q == replyChan[o]
           r == Head(q)
           w == user[o].want
           S == Answers(f, o)
<1>1. /\ UNCHANGED <<id, reqChan, watcher, vppQueue, callback>>
      /\ q # <<>> /\ user[o].pc = "receiving"
      /\ replyChan' = [replyChan EXCEPT ![o] = Tail(q)]
  BY DEF TakeReply, poolVars, vppVars
<1>2. w \in Asked(f, o)
  BY <1>1 DEF Requested
<1>3. r \in S /\ Tail(q) \in Seq(S)
  <2>1. q \in Seq(S)
    BY DEF Answered
  <2> HIDE DEF q, S
  <2> QED BY <1>1, <2>1
<1>4. \A p \in Objects : replyChan'[p] \in Seq(Answers(f, p))
  <2>1. replyChan'[o] = Tail(q) /\ \A p \in Objects \ {o} : replyChan'[p] = replyChan[p]
    <3> HIDE DEF q
    <3> QED BY <1>1 DEF TypeOK
  <2> QED BY <1>3, <2>1 DEF Answered
<1>5. CASE ReturnReply(o, w, r)
  <2>1. /\ Requested(f)' /\ NoForeignReply'
        /\ \A p \in Objects : delayedReply'[p] \in Answers(f, p) \cup {NoReply}
    <3> HIDE DEF r, w
    <3> QED BY <1>1, <1>2, <1>3, <1>5, ReturnExplained
  <2>2. Answered(f)'
    BY <1>1, <1>4, <2>1 DEF Answered
  <2> QED BY <2>1, <2>2
<1>6. CASE ~ReturnReply(o, w, r)
  <2>1. UNCHANGED <<delayedReply, result, handles, user>>
    BY <1>6 DEF TakeReply
  <2> QED BY <1>1, <1>4, <2>1 DEF Requested, Answered, NoForeignReply
<1> QED BY <1>5, <1>6

(* What the user does, but for opening, sending and receiving.              *)
LEMMA OtherUserExplained ==
    ASSUME TypeOK, NEW c, NEW f, Numbered(c, f), Addressed(f), Requested(f),
           Answered(f), NoForeignReply, NEW o \in Objects,
           \/ Close(o) \/ ReplyTimesOut(o)
           \/ \E timeout \in Timeouts : SetReplyTimeout(o, timeout)
    PROVE  /\ Numbered(c, f)' /\ Addressed(f)' /\ Requested(f)'
           /\ Answered(f)' /\ NoForeignReply'
<1>1. /\ UNCHANGED <<lastSeqNum, issued, opens, channels, id, reqChan, watcher>>
      /\ UNCHANGED <<vppQueue, callback, replyChan, delayedReply>>
      /\ \/ UNCHANGED result
         \/ \E x \in {NoReply, [kind |-> "timeout", want |-> user[o].want.tag]} :
               result' = [result EXCEPT ![o] = x]
      /\ handles' = [handles EXCEPT ![o] = {}] \/ UNCHANGED handles
      /\ user' = [user EXCEPT ![o] = Idle] \/ UNCHANGED user
  <2>1. CASE Close(o)
    BY <2>1 DEF Close, vppVars
  <2>2. CASE ReplyTimesOut(o)
    BY <2>2 DEF ReplyTimesOut, poolVars, vppVars
  <2>3. CASE \E timeout \in Timeouts : SetReplyTimeout(o, timeout)
    BY <2>3 DEF SetReplyTimeout, poolVars, vppVars
  <2> QED BY <2>1, <2>2, <2>3
<1>2. Numbered(c, f)' /\ Addressed(f)' /\ Answered(f)'
  BY <1>1, NumberedStays, AddressedStays, AnsweredStays
<1>3. NoForeignReply'
  <2> SUFFICES ASSUME NEW p \in Objects, result'[p].kind \in {"data", "last", "error"}
               PROVE  result'[p].got = result'[p].want
    BY DEF NoForeignReply
  <2>1. CASE UNCHANGED result
    BY <2>1 DEF NoForeignReply
  <2>2. ASSUME NEW x \in {NoReply, [kind |-> "timeout", want |-> user[o].want.tag]},
               result' = [result EXCEPT ![o] = x]
        PROVE  result'[p].got = result'[p].want
    <3>1. x.kind \in {"none", "timeout"}
      BY <2>2 DEF NoReply
    <3>2. p # o /\ result'[p] = result[p]
      BY <2>2, <3>1 DEF TypeOK
    <3> QED BY <3>2 DEF NoForeignReply
  <2> QED BY <1>1, <2>1, <2>2
<1>4. \A p \in Objects : handles'[p] \subseteq handles[p]
  BY <1>1 DEF TypeOK
<1>5. \A p \in Objects : user'[p].pc = "receiving" => user'[p] = user[p]
  BY <1>1 DEF TypeOK, Idle
<1>6. Requested(f)'
  BY <1>1, <1>4, <1>5 DEF Requested
<1> QED BY <1>2, <1>3, <1>6

(* What the watcher does, and the goroutine that puts an object back.       *)
LEMMA WatcherExplained ==
    ASSUME TypeOK, IdsExclusive, Phases, NEW c, NEW f, Numbered(c, f),
           Addressed(f), Requested(f), Answered(f), NEW o \in Objects,
           Watcher(o) \/ ResetAndPut(o)
    PROVE  Numbered(c, f)' /\ Addressed(f)' /\ Requested(f)' /\ Answered(f)'
<1>1. UNCHANGED <<lastSeqNum, issued, opens, id, handles, user, delayedReply, callback>>
  BY DEF Watcher, TakeRequest, RejectRequest, SendToVPP, SendFails, SendPing,
         SendPingFails, SendErrorReply, DropErrorReply, ReleaseFromMap,
         ReleasePutId, ResetAndPut, poolVars, userVars, vppVars
<1>2. Numbered(c, f)'
  BY <1>1, NumberedStays
<1>3. CASE TakeRequest(o) \/ RejectRequest(o)
  <2>1. UNCHANGED <<channels, vppQueue, replyChan>>
    BY <1>3 DEF TakeRequest, RejectRequest, poolVars, vppVars
  <2> QED BY <1>1, <1>2, <1>3, <2>1, TakeRequestExplained, AddressedStays, AnsweredStays
<1>4. CASE SendToVPP(o) \/ SendPing(o)
  <2>1. /\ UNCHANGED <<channels, replyChan, reqChan>>
        /\ watcher[o].pc \in {"send", "ping", "reply"}
    BY <1>4 DEF SendToVPP, SendPing, poolVars
  <2>2. vppQueue' \in Seq(Carried(f))
    BY <1>4, <2>1, ToVPPExplained DEF SendToVPP, SendPing
  <2>3. Answered(f)'
    BY <1>1, <2>1, <2>2 DEF Answered
  <2>4. Requested(f)'
    <3>1. \/ WatcherGoes(o, "ping")
          \/ watcher' = [watcher EXCEPT ![o] = [pc |-> "recv"]]
      BY <1>4 DEF SendToVPP, SendPing
    <3>2. [pc |-> "recv"].pc \notin {"send", "ping", "reply"}
      OBVIOUS
    <3> QED BY <1>1, <2>1, <3>1, <3>2, RequestedStays
  <2> QED BY <1>1, <1>2, <2>1, <2>3, <2>4, AddressedStays
<1>5. CASE SendFails(o) \/ SendPingFails(o) \/ DropErrorReply(o)
  <2>1. /\ UNCHANGED <<channels, vppQueue, replyChan, reqChan>>
        /\ watcher[o].pc \in {"send", "ping", "reply"}
    BY <1>5 DEF SendFails, SendPingFails, DropErrorReply, poolVars, vppVars
  <2>2. Requested(f)'
    <3>1. \/ WatcherGoes(o, "reply")
          \/ watcher' = [watcher EXCEPT ![o] = [pc |-> "recv"]]
      BY <1>5 DEF SendFails, SendPingFails, DropErrorReply
    <3>2. [pc |-> "recv"].pc \notin {"send", "ping", "reply"}
      OBVIOUS
    <3> QED BY <1>1, <2>1, <3>1, <3>2, RequestedStays
  <2> QED BY <1>1, <1>2, <2>1, <2>2, AddressedStays, AnsweredStays
<1>6. CASE SendErrorReply(o)
  <2> DEFINE r == ErrorReply(watcher[o].req)
  <2>1. /\ UNCHANGED <<channels, vppQueue, reqChan>>
        /\ watcher[o].pc \in {"send", "ping", "reply"}
        /\ replyChan' = [replyChan EXCEPT ![o] = Append(@, r)]
        /\ watcher' = [watcher EXCEPT ![o] = [pc |-> "recv"]]
    BY <1>6 DEF SendErrorReply, poolVars, vppVars
  <2>2. r \in Answers(f, o)
    <3>1. watcher[o].req \in AskedAs(f, o, id[o])
      BY <2>1 DEF Requested
    <3> QED BY <3>1 DEF AskedAs, Asked, Answers, ErrorReply, Request, Reply
  <2>3. Answered(f)'
    <3> HIDE DEF r
    <3> QED BY <1>1, <2>1, <2>2, RepliedExplained
  <2>4. Requested(f)'
    <3>1. [pc |-> "recv"].pc \notin {"send", "ping", "reply"}
      OBVIOUS
    <3> QED BY <1>1, <2>1, <3>1, RequestedStays
  <2> QED BY <1>1, <1>2, <2>1, <2>3, <2>4, AddressedStays
<1>7. CASE ReleaseFromMap(o) \/ ReleasePutId(o)
  <2>1. /\ UNCHANGED <<vppQueue, replyChan, reqChan>>
        /\ \E st : /\ watcher' = [watcher EXCEPT ![o] = st]
                   /\ st.pc \notin {"send", "ping", "reply"}
    BY <1>7 DEF ReleaseFromMap, ReleasePutId, vppVars, Idle
  <2>2. Addressed(f)'
    <3>1. \/ channels' = channels
          \/ channels' = [channels EXCEPT ![id[o]] = None]
      BY <1>7 DEF ReleaseFromMap, ReleasePutId
    <3>2. \A i \in IDs : channels'[i] \in {channels[i], None}
      BY <3>1 DEF TypeOK
    <3>3. \A t \in 1..issued : f[t].id \in IDs
      BY DEF Numbered, Origin
    <3> QED BY <1>1, <3>2, <3>3 DEF Addressed
  <2>3. Requested(f)'
    BY <1>1, <2>1, RequestedStays
  <2> QED BY <1>1, <1>2, <2>1, <2>2, <2>3, AnsweredStays
<1>8. CASE ResetAndPut(o)
  <2>1. /\ UNCHANGED <<channels, vppQueue, reqChan, watcher>>
        /\ replyChan' = [replyChan EXCEPT ![o] = <<>>]
    BY <1>8 DEF ResetAndPut, vppVars
  <2>2. \A p \in Objects : replyChan'[p] \in Seq(Answers(f, p))
    BY <2>1, EmptySeq DEF Answered, TypeOK
  <2>3. Answered(f)'
    BY <1>1, <2>1, <2>2 DEF Answered
  <2> QED BY <1>1, <1>2, <2>1, <2>3, AddressedStays, RequestedStays
<1> QED BY <1>3, <1>4, <1>5, <1>6, <1>7, <1>8 DEF Watcher

(* The reader goroutine, VPP and the link.                                  *)
LEMMA EnvironmentExplained ==
    ASSUME TypeOK, MaxOpens <= MaxID, NEW c, NEW f, Numbered(c, f),
           Addressed(f), Requested(f), Answered(f), Reader \/ Environment
    PROVE  Numbered(c, f)' /\ Addressed(f)' /\ Requested(f)' /\ Answered(f)'
<1> DEFINE S == Carried(f)
<1>1. UNCHANGED <<lastSeqNum, issued, opens, channels, id, reqChan, watcher,
                  handles, user, delayedReply>>
  BY DEF Reader, DeliverReply, DropReply, Environment, VppSendsDetail,
         VppReplies, VppMovesOn, Disconnect, Reconnect, poolVars, userVars, vppVars
<1>2. Numbered(c, f)' /\ Addressed(f)' /\ Requested(f)'
  BY <1>1, NumberedStays, AddressedStays, RequestedStays
<1>3. CASE DeliverReply
  <2> DEFINE o == callback.ch
             r == callback.reply
  <2>1. /\ callback.pc = "send" /\ callback' = Idle /\ vppQueue' = vppQueue
        /\ replyChan' = [replyChan EXCEPT ![o] = Append(@, r)]
    BY <1>3 DEF DeliverReply
  <2>2. o \in Objects
    BY <2>1 DEF TypeOK, Idle
  <2>3. r \in Answers(f, o)
    BY <2>1 DEF Answered
  <2>4. Answered(f)'
    <3> HIDE DEF o, r
    <3> QED BY <1>1, <2>1, <2>2, <2>3, RepliedExplained
  <2> QED BY <1>2, <2>4
<1>4. CASE DropReply
  <2>1. callback'.pc = "idle" /\ UNCHANGED <<vppQueue, replyChan>>
    BY <1>4 DEF DropReply, Idle
  <2> QED BY <1>1, <1>2, <2>1 DEF Answered
<1>5. CASE VppSendsDetail \/ VppReplies
  <2> DEFINE m == Head(vppQueue)
  <2>1. vppQueue \in Seq(S) /\ vppQueue # <<>> /\ replyChan' = replyChan
    BY <1>5 DEF Answered, VppSendsDetail, VppReplies, VppReady
  <2>2. m \in S /\ Tail(vppQueue) \in Seq(S)
    <3> HIDE DEF S
    <3> QED BY <2>1
  <2>3. m.ping \in BOOLEAN
    BY <2>2 DEF Carried, Message
  <2>4. \E ping \in BOOLEAN : msgCallback(m.context, m.tag, ping)
    BY <1>5, <2>3 DEF VppSendsDetail, VppReplies
  <2>5. vppQueue' \in {vppQueue, Tail(vppQueue)}
    BY <1>5 DEF VppSendsDetail, VppReplies
  <2>6. callback'.pc = "send" => callback'.reply \in Answers(f, callback'.ch)
    <3> HIDE DEF m
    <3> QED BY <2>2, <2>4, CallbackExplained
  <2>7. vppQueue' \in Seq(S)
    BY <2>1, <2>2, <2>5
  <2> QED BY <1>1, <1>2, <2>1, <2>6, <2>7 DEF Answered
<1>6. CASE VppMovesOn \/ Disconnect \/ Reconnect
  <2>1. /\ UNCHANGED <<callback, replyChan>>
        /\ \/ vppQueue' = <<>> \/ vppQueue' = vppQueue
           \/ vppQueue # <<>> /\ vppQueue' = Tail(vppQueue)
    <3>1. CASE VppMovesOn
      BY <3>1 DEF VppMovesOn, VppReady
    <3>2. CASE Disconnect
      <4>1. vppQueue' = <<>>
        BY <3>2 DEF Disconnect
      <4>2. callback' = callback /\ replyChan' = replyChan
        BY <3>2 DEF Disconnect
      <4> QED BY <4>1, <4>2
    <3>3. CASE Reconnect
      <4>1. vppQueue' = vppQueue
        BY <3>3 DEF Reconnect, vppVars
      <4>2. callback' = callback /\ replyChan' = replyChan
        BY <3>3 DEF Reconnect, vppVars
      <4> QED BY <4>1, <4>2
    <3> QED BY <1>6, <3>1, <3>2, <3>3
  <2>2. vppQueue \in Seq(S)
    BY DEF Answered
  <2>3. vppQueue' \in Seq(S)
    <3> HIDE DEF S
    <3>1. CASE vppQueue' = <<>>
      BY <3>1, EmptySeq
    <3>2. CASE vppQueue # <<>> /\ vppQueue' = Tail(vppQueue)
      BY <2>2, <3>2
    <3> QED BY <2>1, <2>2, <3>1, <3>2
  <2> QED BY <1>1, <1>2, <2>1, <2>3 DEF Answered
<1> QED BY <1>3, <1>4, <1>5, <1>6 DEF Reader, Environment

(* Every step leaves what is on its way explained.                          *)
LEMMA NextExplained ==
    ASSUME MaxOpens <= MaxID, MaxRequests <= SeqMod, ReplyInv, [Next]_vars
    PROVE  Explained' /\ NoForeignReply'
<1>1. TypeOK /\ Phases /\ IdsExclusive /\ FreshIds /\ Drained /\ Forgotten /\ NoForeignReply
  BY DEF ReplyInv
<1>2. PICK c, f : Numbered(c, f) /\ Addressed(f) /\ Requested(f) /\ Answered(f)
  BY DEF ReplyInv, Explained
<1>3. ASSUME NEW o \in Objects, NewAPIChannel(o)
      PROVE  Explained' /\ NoForeignReply'
  <2>1. UNCHANGED <<lastSeqNum, issued, vppQueue, callback, replyChan,
                    delayedReply, result>>
    BY <1>3 DEF NewAPIChannel, userVars, vppVars
  <2>2. Addressed(f)' /\ Requested(f)'
    BY <1>1, <1>2, <1>3, NewChannelExplained
  <2>3. Numbered(c, f)' /\ Answered(f)'
    BY <1>2, <2>1, NumberedStays, AnsweredStays
  <2> QED BY <1>1, <2>1, <2>2, <2>3 DEF Explained, NoForeignReply
<1>4. ASSUME NEW o \in Objects, NEW multi \in BOOLEAN, SendRequest(o, multi)
      PROVE  Explained' /\ NoForeignReply'
  <2>1. Explained'
    BY <1>1, <1>2, <1>4, SendRequestExplained
  <2>2. result' = [result EXCEPT ![o] = NoReply]
    BY <1>4 DEF SendRequest
  <2>3. NoForeignReply'
    BY <1>1, <2>2 DEF NoForeignReply, TypeOK, NoReply
  <2> QED BY <2>1, <2>3
<1>5. ASSUME NEW o \in Objects,
             (\E want \in handles[o] : ReceiveReply(o, want)) \/ TakeReply(o)
      PROVE  Explained' /\ NoForeignReply'
  <2>1. Requested(f)' /\ Answered(f)' /\ NoForeignReply'
    BY <1>1, <1>2, <1>5, ReceiveReplyExplained, TakeReplyExplained
  <2>2. UNCHANGED <<lastSeqNum, issued, opens, channels>>
    BY <1>5 DEF ReceiveReply, TakeReply, poolVars, vppVars
  <2>3. Numbered(c, f)' /\ Addressed(f)'
    BY <1>2, <2>2, NumberedStays, AddressedStays
  <2> QED BY <2>1, <2>3 DEF Explained
<1>6. ASSUME NEW o \in Objects,
             \/ Close(o) \/ ReplyTimesOut(o)
             \/ \E timeout \in Timeouts : SetReplyTimeout(o, timeout)
      PROVE  Explained' /\ NoForeignReply'
  BY <1>1, <1>2, <1>6, OtherUserExplained DEF Explained
<1>7. ASSUME NEW o \in Objects, Watcher(o) \/ ResetAndPut(o)
      PROVE  Explained' /\ NoForeignReply'
  <2>1. Numbered(c, f)' /\ Addressed(f)' /\ Requested(f)' /\ Answered(f)'
    BY <1>1, <1>2, <1>7, WatcherExplained
  <2>2. result' = result
    BY <1>7 DEF Watcher, TakeRequest, RejectRequest, SendToVPP, SendFails,
         SendPing, SendPingFails, SendErrorReply, DropErrorReply,
         ReleaseFromMap, ReleasePutId, ResetAndPut, userVars
  <2> QED BY <1>1, <2>1, <2>2 DEF Explained, NoForeignReply
<1>8. CASE Reader \/ Environment
  <2>1. Numbered(c, f)' /\ Addressed(f)' /\ Requested(f)' /\ Answered(f)'
    BY <1>1, <1>2, <1>8, EnvironmentExplained
  <2>2. result' = result
    BY <1>8 DEF Reader, DeliverReply, DropReply, Environment, VppSendsDetail,
         VppReplies, VppMovesOn, Disconnect, Reconnect, userVars
  <2> QED BY <1>1, <2>1, <2>2 DEF Explained, NoForeignReply
<1>9. CASE UNCHANGED vars
  <2>1. /\ UNCHANGED <<lastSeqNum, issued, opens, channels>>
        /\ UNCHANGED <<id, reqChan, handles, user, watcher>>
        /\ UNCHANGED <<vppQueue, callback, replyChan, delayedReply, result>>
    BY <1>9 DEF vars
  <2>2. Numbered(c, f)' /\ Addressed(f)' /\ Requested(f)' /\ Answered(f)'
    BY <1>1, <1>2, <2>1, NumberedStays, AddressedStays, RequestedStays, AnsweredStays
  <2> QED BY <1>1, <2>1, <2>2 DEF Explained, NoForeignReply
<1> QED BY <1>3, <1>4, <1>5, <1>6, <1>7, <1>8, <1>9 DEF Next, User

(* IDs leave the pool at its front and come back at its end.                *)
LEMMA NextFreshIds ==
    ASSUME MaxOpens <= MaxID, TypeOK, Phases, IdsExclusive, FreshIds, [Next]_vars
    PROVE  FreshIds'
<1>1. opens \in Nat /\ MaxID \in Nat /\ freeIds \in Seq(IDs)
  BY BoundAssumption, PoolAssumption DEF TypeOK
<1>2. ASSUME NEW o \in Objects, NewAPIChannel(o)
      PROVE  FreshIds'
  <2>1. opens' = opens + 1 /\ freeIds' = Tail(freeIds) /\ freeIds # <<>>
    BY <1>2 DEF NewAPIChannel
  <2>2. /\ DOMAIN freeIds' = 1 .. Len(freeIds) - 1 /\ DOMAIN freeIds = 1..Len(freeIds)
        /\ Len(freeIds) \in Nat
        /\ \A k \in 1 .. Len(freeIds) - 1 : freeIds'[k] = freeIds[k + 1]
    BY <1>1, <2>1
  <2> SUFFICES ASSUME NEW k \in 1..MaxID - (opens + 1)
               PROVE  k \in DOMAIN freeIds' /\ freeIds'[k] = (opens + 1) + k
    BY <2>1 DEF FreshIds
  <2>3. k + 1 \in 1..MaxID - opens
    BY <1>1
  <2>4. k + 1 \in DOMAIN freeIds /\ freeIds[k + 1] = opens + (k + 1)
    BY <2>3 DEF FreshIds
  <2>5. k \in 1..Len(freeIds) - 1
    BY <1>1, <2>2, <2>4
  <2> QED BY <1>1, <2>2, <2>4, <2>5
<1>3. ASSUME NEW o \in Objects, ReleasePutId(o)
      PROVE  FreshIds'
  <2>1. home[o] = "releasing" /\ freeIds' = Append(freeIds, id[o]) /\ opens' = opens
    BY <1>3 DEF ReleasePutId, Phases
  <2>2. id[o] \in IDs
    BY <2>1 DEF IdsExclusive, Owners
  <2>3. /\ DOMAIN freeIds' = 1 .. Len(freeIds) + 1 /\ DOMAIN freeIds = 1..Len(freeIds)
        /\ Len(freeIds) \in Nat
        /\ \A k \in 1 .. Len(freeIds) : freeIds'[k] = freeIds[k]
    BY <1>1, <2>1, <2>2
  <2> QED BY <2>1, <2>3 DEF FreshIds
<1>4. CASE UNCHANGED <<freeIds, opens>>
  BY <1>4 DEF FreshIds
<1>5. ASSUME NEW o \in Objects,
             \/ Close(o)
             \/ \E multi \in BOOLEAN : SendRequest(o, multi)
             \/ \E want \in handles[o] : ReceiveReply(o, want)
             \/ TakeReply(o) \/ ReplyTimesOut(o)
             \/ \E timeout \in Timeouts : SetReplyTimeout(o, timeout)
             \/ ResetAndPut(o)
      PROVE  UNCHANGED <<freeIds, opens>>
  BY <1>5 DEF Close, SendRequest, ReceiveReply, TakeReply, ReplyTimesOut,
       SetReplyTimeout, ResetAndPut, poolVars
<1>6. ASSUME NEW o \in Objects,
             \/ TakeRequest(o) \/ RejectRequest(o)
             \/ SendToVPP(o) \/ SendFails(o)
             \/ SendPing(o) \/ SendPingFails(o)
             \/ SendErrorReply(o) \/ DropErrorReply(o)
             \/ ReleaseFromMap(o)
      PROVE  UNCHANGED <<freeIds, opens>>
  BY <1>6 DEF TakeRequest, RejectRequest, SendToVPP, SendFails, SendPing,
     SendPingFails, SendErrorReply, DropErrorReply, ReleaseFromMap, poolVars
<1>7. Reader \/ Environment => UNCHANGED <<freeIds, opens>>
  BY DEF Reader, DeliverReply, DropReply, Environment, VppSendsDetail,
     VppReplies, VppMovesOn, Disconnect, Reconnect, poolVars
<1>8. UNCHANGED vars => UNCHANGED <<freeIds, opens>>
  BY DEF vars
<1> QED BY <1>2, <1>3, <1>4, <1>5, <1>6, <1>7, <1>8 DEF Next, User, Watcher

(* Only an open object's reqChan is filled, and it is closed empty.         *)
LEMMA NextDrained ==
    ASSUME TypeOK, Phases, Drained, [Next]_vars
    PROVE  Drained'
<1>1. ASSUME NEW o \in Objects, NewAPIChannel(o) \/ Close(o)
      PROVE  Drained'
  BY <1>1 DEF NewAPIChannel, Close, Drained, TypeOK
<1>2. ASSUME NEW o \in Objects, ReleaseFromMap(o) \/ ReleasePutId(o) \/ ResetAndPut(o)
      PROVE  Drained'
  <2>1. reqChan' = reqChan /\ reqChan[o] = <<>>
    BY <1>2 DEF ReleaseFromMap, ReleasePutId, ResetAndPut, Drained, Phases
  <2>2. \E h : home' = [home EXCEPT ![o] = h]
    BY <1>2 DEF ReleaseFromMap, ReleasePutId, ResetAndPut
  <2> QED BY <2>1, <2>2 DEF Drained, TypeOK
<1>3. ASSUME NEW o \in Objects, NEW multi \in BOOLEAN, SendRequest(o, multi)
      PROVE  Drained'
  <2>1. home' = home /\ home[o] = "open" /\ \E q : reqChan' = [reqChan EXCEPT ![o] = q]
    BY <1>3 DEF SendRequest, poolVars
  <2> QED BY <2>1 DEF Drained, TypeOK
<1>4. ASSUME NEW o \in Objects, TakeRequest(o) \/ RejectRequest(o)
      PROVE  Drained'
  <2>1. home' = home /\ watcher[o].pc = "recv"
        /\ \E q : reqChan' = [reqChan EXCEPT ![o] = q]
    BY <1>4 DEF TakeRequest, RejectRequest, poolVars
  <2>2. home[o] \in {"open", "closing"}
    BY <2>1, RecvPhase
  <2> QED BY <2>1, <2>2 DEF Drained, TypeOK
<1>5. CASE UNCHANGED <<home, reqChan>>
  BY <1>5 DEF Drained
<1>6. ASSUME NEW o \in Objects,
             \/ \E want \in handles[o] : ReceiveReply(o, want)
             \/ TakeReply(o) \/ ReplyTimesOut(o)
             \/ \E timeout \in Timeouts : SetReplyTimeout(o, timeout)
             \/ SendToVPP(o) \/ SendFails(o)
             \/ SendPing(o) \/ SendPingFails(o)
             \/ SendErrorReply(o) \/ DropErrorReply(o)
      PROVE  UNCHANGED <<home, reqChan>>
  BY <1>6 DEF ReceiveReply, TakeReply, ReplyTimesOut, SetReplyTimeout,
     SendToVPP, SendFails, SendPing, SendPingFails, SendErrorReply,
     DropErrorReply, poolVars
<1>7. Reader \/ Environment => UNCHANGED <<home, reqChan>>
  BY DEF Reader, DeliverReply, DropReply, Environment, VppSendsDetail,
     VppReplies, VppMovesOn, Disconnect, Reconnect, poolVars
<1>8. UNCHANGED vars => UNCHANGED <<home, reqChan>>
  BY DEF vars
<1> QED BY <1>1, <1>2, <1>3, <1>4, <1>5, <1>6, <1>7, <1>8 DEF Next, User, Watcher

(* Only an open object's user sends, and Close takes the requests away.     *)
LEMMA NextForgotten ==
    ASSUME TypeOK, Phases, Forgotten, [Next]_vars
    PROVE  Forgotten'
<1>1. ASSUME NEW o \in Objects, NewAPIChannel(o) \/ Close(o)
      PROVE  Forgotten'
  <2>1. CASE NewAPIChannel(o)
    BY <2>1 DEF NewAPIChannel, userVars, Forgotten, TypeOK
  <2>2. CASE Close(o)
    BY <2>2 DEF Close, Forgotten, TypeOK
  <2> QED BY <1>1, <2>1, <2>2
<1>2. ASSUME NEW o \in Objects, ReleaseFromMap(o) \/ ReleasePutId(o) \/ ResetAndPut(o)
      PROVE  Forgotten'
  <2>1. handles' = handles /\ home[o] # "open"
    BY <1>2 DEF ReleaseFromMap, ReleasePutId, ResetAndPut, Phases, userVars
  <2>2. \E h : home' = [home EXCEPT ![o] = h]
    BY <1>2 DEF ReleaseFromMap, ReleasePutId, ResetAndPut
  <2> QED BY <2>1, <2>2 DEF Forgotten, TypeOK
<1>3. ASSUME NEW o \in Objects, NEW multi \in BOOLEAN, SendRequest(o, multi)
      PROVE  Forgotten'
  <2>1. home' = home /\ home[o] = "open" /\ \E h : handles' = [handles EXCEPT ![o] = h]
    BY <1>3 DEF SendRequest, poolVars
  <2> QED BY <2>1 DEF Forgotten, TypeOK
<1>4. ASSUME NEW o \in Objects,
             (\E want \in handles[o] : ReceiveReply(o, want)) \/ TakeReply(o)
      PROVE  Forgotten'
  <2>1. home' = home
    BY <1>4 DEF ReceiveReply, TakeReply, poolVars
  <2>2. \E h \in SUBSET handles[o] : handles' = [handles EXCEPT ![o] = h]
    <3>1. handles = [handles EXCEPT ![o] = handles[o]]
      BY DEF TypeOK
    <3>2. UNCHANGED handles
          \/ \E w : handles' \in {[handles EXCEPT ![o] = handles[o] \ {w}],
                               [handles EXCEPT ![o] = handles[o]]}
      BY <1>4 DEF ReceiveReply, TakeReply, ReturnReply
    <3> QED BY <3>1, <3>2
  <2> QED BY <2>1, <2>2 DEF Forgotten, TypeOK
<1>5. CASE UNCHANGED <<home, handles>>
  BY <1>5 DEF Forgotten
<1>6. ASSUME NEW o \in Objects,
             \/ ReplyTimesOut(o)
             \/ \E timeout \in Timeouts : SetReplyTimeout(o, timeout)
             \/ TakeRequest(o) \/ RejectRequest(o)
             \/ SendToVPP(o) \/ SendFails(o)
             \/ SendPing(o) \/ SendPingFails(o)
             \/ SendErrorReply(o) \/ DropErrorReply(o)
      PROVE  UNCHANGED <<home, handles>>
  BY <1>6 DEF ReplyTimesOut, SetReplyTimeout, TakeRequest, RejectRequest,
     SendToVPP, SendFails, SendPing, SendPingFails, SendErrorReply,
     DropErrorReply, poolVars, userVars
<1>7. Reader \/ Environment => UNCHANGED <<home, handles>>
  BY DEF Reader, DeliverReply, DropReply, Environment, VppSendsDetail,
     VppReplies, VppMovesOn, Disconnect, Reconnect, poolVars, userVars
<1>8. UNCHANGED vars => UNCHANGED <<home, handles>>
  BY DEF vars
<1> QED BY <1>1, <1>2, <1>3, <1>4, <1>5, <1>6, <1>7, <1>8 DEF Next, User, Watcher

(* At the start nothing is on its way.                                      *)
LEMMA InitReplyInv ==
    Init => FreshIds /\ Drained /\ Forgotten /\ Explained /\ NoForeignReply
<1> SUFFICES ASSUME Init
             PROVE  FreshIds /\ Drained /\ Forgotten /\ Explained /\ NoForeignReply
  OBVIOUS
<1>1. TypeOK
  BY InitTypeOK
<1>2. FreshIds
  <2>1. opens = 0 /\ MaxID \in Nat /\ DOMAIN freeIds = 1..MaxID
        /\ \A k \in 1..MaxID : freeIds[k] = k
    BY PoolAssumption DEF Init, IDs
  <2> QED BY <2>1 DEF FreshIds
<1>3. Drained /\ Forgotten /\ NoForeignReply
  BY DEF Init, Drained, Forgotten, NoForeignReply, NoReply
<1> DEFINE f == [t \in 1..0 |-> [obj |-> 0, id |-> 0, num |-> 0, multi |-> FALSE]]
<1>4. issued = 0 /\ lastSeqNum \in [Objects -> SeqNum]
  BY <1>1 DEF Init, TypeOK
<1>5. Numbered(lastSeqNum, f)
  <2>1. f \in [1..issued -> Origin] /\ 1..issued = {}
    BY <1>4
  <2>2. \A o \in Objects : lastSeqNum[o] = Wrapped(lastSeqNum[o])
    <3> SUFFICES ASSUME NEW o \in Objects PROVE lastSeqNum[o] = Wrapped(lastSeqNum[o])
      OBVIOUS
    <3> DEFINE x == lastSeqNum[o]
    <3>1. x \in 0..SeqMod - 1 /\ SeqMod \in Nat \ {0}
      BY <1>4, SeqModAssumption DEF SeqNum
    <3>2. x % SeqMod = x
      <4> HIDE DEF x
      <4> QED BY <3>1
    <3> QED BY <3>2 DEF Wrapped
  <2>3. lastSeqNum \in [Objects -> Int]
    BY <1>4, SeqModAssumption DEF SeqNum
  <2> QED BY <2>1, <2>2, <2>3 DEF Numbered
<1>6. Addressed(f)
  BY <1>4 DEF Addressed
<1> HIDE DEF f
<1>7. Requested(f)
  <2>1. \A o \in Objects : reqChan[o] = <<>> /\ watcher[o].pc = "idle"
                           /\ handles[o] = {} /\ user[o].pc = "idle"
    BY DEF Init, Idle
  <2> QED BY <2>1, EmptySeq DEF Requested
<1>8. Answered(f)
  <2>1. /\ vppQueue = <<>> /\ callback.pc = "idle"
        /\ \A o \in Objects : replyChan[o] = <<>> /\ delayedReply[o] = NoReply
    BY DEF Init, Idle
  <2> QED BY <2>1, EmptySeq DEF Answered
<1> QED BY <1>2, <1>3, <1>5, <1>6, <1>7, <1>8 DEF Explained

(* ReceiveReply never returns another request's reply, last part or error,  *)
(* whatever was recycled, delayed, reordered by an error or left over by an *)
(* earlier user of the object, as long as the IDs have not all been handed  *)
(* out once and the numbers have not gone round.                            *)
THEOREM NoForeignReplyCorrect ==
    ASSUME MaxOpens <= MaxID, MaxRequests <= SeqMod
    PROVE  Spec => []NoForeignReply
<1>1. Init => ReplyInv
  BY InitTypeOK, InitPhases, InitReplyInv DEF ReplyInv
<1>2. ReplyInv /\ [Next]_vars => ReplyInv'
  BY NextTypeOK, NextPhases, NextIdsExclusive, NextExplained, NextFreshIds,
     NextDrained, NextForgotten DEF ReplyInv
<1>3. ReplyInv => NoForeignReply
  BY DEF ReplyInv
<1> QED BY <1>1, <1>2, <1>3, PTL DEF Spec

-----------------------------------------------------------------------------
(* Where the answer of a simple request is                                  *)

(* While the user waits at the select, the slot of the delayed reply is     *)
(* empty: ReceiveReply has looked at it first.                              *)
SlotFree == \A o \in Objects : user[o].pc = "receiving" => delayedReply[o] = NoReply

(* Only a multipart request is followed by a control ping.                  *)
PingsEndDumps == \A o \in Objects : watcher[o].pc = "ping" => watcher[o].req.multi

(* Only what was sent is lost.                                              *)
LostSent == lost \subseteq 1..issued

(* No message in q is about the request t, or exactly one.                  *)
About(q, t)  == {k \in DOMAIN q : q[k].tag = t}
Absent(q, t) == About(q, t) = {}
Once(q, t)   == \E k : About(q, t) = {k}

(* A message about the request t is in r just when it was in q.             *)
Keeps(q, r, t) == (Absent(q, t) => Absent(r, t)) /\ (Once(q, t) => Once(r, t))

(* The watcher, the reader goroutine and the slot may hold it too.          *)
Held(o, t)   == watcher[o].pc \in {"send", "reply"} /\ watcher[o].req.tag = t
Called(o, t) == callback # Idle /\ callback.ch = o /\ callback.reply.tag = t
Parked(o, t) == delayedReply[o] # NoReply /\ delayedReply[o].tag = t

Stages == {"request", "watcher", "vpp", "callback", "reply", "delayed", "nowhere"}

(* The request t of object o, or its answer, is at this stage only.         *)
At(o, t, s) ==
    /\ IF s = "request" THEN Once(reqChan[o], t) ELSE Absent(reqChan[o], t)
    /\ Held(o, t) <=> s = "watcher"
    /\ IF s = "vpp" THEN Once(vppQueue, t) ELSE Absent(vppQueue, t)
    /\ Called(o, t) <=> s = "callback"
    /\ IF s = "reply" THEN Once(replyChan[o], t) ELSE Absent(replyChan[o], t)
    /\ Parked(o, t) <=> s = "delayed"

(* And it is nowhere just when it is lost.                                  *)
Placed(o, t) == \E s \in Stages : At(o, t, s) /\ (s = "nowhere" <=> t \in lost)

Accounted == \A o \in Objects : \A h \in handles[o] : ~h.multi => Placed(o, h.tag)

AccountInv == ReplyInv /\ SlotFree /\ PingsEndDumps /\ LostSent /\ Accounted

(* The slot is emptied when the user goes to the select, and filled when it *)
(* comes back.                                                              *)
LEMMA NextSlotFree == TypeOK /\ SlotFree /\ [Next]_vars => SlotFree'
<1> SUFFICES ASSUME TypeOK, SlotFree, [Next]_vars PROVE SlotFree'
  OBVIOUS
<1>1. ASSUME NEW o \in Objects,
             (\E want \in handles[o] : ReceiveReply(o, want)) \/ TakeReply(o)
                \/ ReplyTimesOut(o)
      PROVE  SlotFree'
  <2>1. \/ \E x : /\ user' = [user EXCEPT ![o] = Idle]
                  /\ delayedReply' = [delayedReply EXCEPT ![o] = x]
        \/ /\ UNCHANGED delayedReply
           /\ user' = [user EXCEPT ![o] = Idle] \/ UNCHANGED user
        \/ /\ delayedReply' = [delayedReply EXCEPT ![o] = NoReply]
           /\ \E w : user' = [user EXCEPT ![o] = Receiving(w)]
    BY <1>1 DEF ReceiveReply, TakeReply, ReplyTimesOut, ReturnReply
  <2>2. Idle.pc = "idle"
    BY DEF Idle
  <2> QED BY <2>1, <2>2 DEF SlotFree, TypeOK
<1>2. CASE UNCHANGED <<user, delayedReply>>
  BY <1>2 DEF SlotFree
<1>3. ASSUME NEW o \in Objects,
             \/ NewAPIChannel(o) \/ Close(o)
             \/ \E multi \in BOOLEAN : SendRequest(o, multi)
             \/ \E timeout \in Timeouts : SetReplyTimeout(o, timeout)
             \/ Watcher(o) \/ ResetAndPut(o)
      PROVE  UNCHANGED <<user, delayedReply>>
  BY <1>3 DEF NewAPIChannel, Close, SendRequest, SetReplyTimeout, Watcher,
     TakeRequest, RejectRequest, SendToVPP, SendFails, SendPing, SendPingFails,
     SendErrorReply, DropErrorReply, ReleaseFromMap, ReleasePutId, ResetAndPut, userVars
<1>4. Reader \/ Environment => UNCHANGED <<user, delayedReply>>
  BY DEF Reader, DeliverReply, DropReply, Environment, VppSendsDetail,
     VppReplies, VppMovesOn, Disconnect, Reconnect, userVars
<1>5. UNCHANGED vars => UNCHANGED <<user, delayedReply>>
  BY DEF vars
<1> QED BY <1>1, <1>2, <1>3, <1>4, <1>5 DEF Next, User

(* A step takes the delayed reply out of its slot only to return it or to   *)
(* drop it as late.                                                         *)
LEMMA SlotStep ==
    ASSUME TypeOK, SlotFree, [Next]_vars, NEW o \in Objects,
           delayedReply[o] # NoReply, delayedReply'[o] # delayedReply[o]
    PROVE  \/ /\ result'[o].kind = delayedReply[o].kind
              /\ result'[o].got = delayedReply[o].tag
           \/ delayedReply[o].tag \in lost'
<1>1. ASSUME NEW p \in Objects, TakeReply(p)
      PROVE  FALSE
  <2>1. user[p].pc = "receiving" /\ \/ UNCHANGED delayedReply
                                    \/ \E x : delayedReply' = [delayedReply EXCEPT ![p] = x]
    BY <1>1 DEF TakeReply, ReturnReply
  <2>2. p = o
    BY <2>1 DEF TypeOK
  <2> QED BY <2>1, <2>2 DEF SlotFree
<1>2. ASSUME NEW p \in Objects, NEW want \in handles[p], ReceiveReply(p, want)
      PROVE  \/ /\ result'[o].kind = delayedReply[o].kind
                /\ result'[o].got = delayedReply[o].tag
             \/ delayedReply[o].tag \in lost'
  <2>1. \E x : delayedReply' = [delayedReply EXCEPT ![p] = x]
    BY <1>2 DEF ReceiveReply, ReturnReply
  <2>2. p = o
    BY <2>1 DEF TypeOK
  <2> DEFINE r == delayedReply[o]
  <2>3. CASE ReturnReply(o, want, r)
    <3>1. Verdict(want, r) # "missing"
      BY <2>3 DEF ReturnReply, TypeOK
    <3>2. Verdict(want, r) = r.kind
      BY <2>3, <3>1 DEF ReturnReply, Verdict
    <3>3. result' = [result EXCEPT ![o] = [kind |-> Verdict(want, r), want |-> want.tag,
                                           got |-> r.tag]]
      BY <2>3 DEF ReturnReply
    <3> HIDE DEF r
    <3>4. result'[o].kind = r.kind /\ result'[o].got = r.tag
      BY <3>2, <3>3 DEF TypeOK
    <3> QED BY <3>4 DEF r
  <2>4. CASE ~ReturnReply(o, want, r)
    BY <1>2, <2>2, <2>4 DEF ReceiveReply, Ignore
  <2> QED BY <2>3, <2>4
<1>3. ASSUME NEW p \in Objects,
             \/ NewAPIChannel(p) \/ Close(p)
             \/ \E multi \in BOOLEAN : SendRequest(p, multi)
             \/ ReplyTimesOut(p)
             \/ \E timeout \in Timeouts : SetReplyTimeout(p, timeout)
             \/ Watcher(p) \/ ResetAndPut(p)
      PROVE  UNCHANGED delayedReply
  BY <1>3 DEF NewAPIChannel, Close, SendRequest, SetReplyTimeout, Watcher,
     ReplyTimesOut,
     TakeRequest, RejectRequest, SendToVPP, SendFails, SendPing, SendPingFails,
     SendErrorReply, DropErrorReply, ReleaseFromMap, ReleasePutId, ResetAndPut, userVars
<1>4. Reader \/ Environment => UNCHANGED delayedReply
  BY DEF Reader, DeliverReply, DropReply, Environment, VppSendsDetail,
     VppReplies, VppMovesOn, Disconnect, Reconnect, userVars
<1>5. UNCHANGED vars => UNCHANGED delayedReply
  BY DEF vars
<1> QED BY <1>1, <1>2, <1>3, <1>4, <1>5 DEF Next, User

(* A reply that came early is never overwritten in its slot, for any number *)
(* of objects, requests and timeouts, across Close and reuse of the object. *)
THEOREM DelayedReplyKeptCorrect == Spec => DelayedReplyKept
<1>1. Init => SlotFree
  BY DEF Init, SlotFree, Idle
<1>2. TypeOK /\ SlotFree /\ [Next]_vars => SlotFree'
  BY NextSlotFree
<1>3. TypeOK /\ SlotFree /\ [Next]_vars =>
         [\A o \in Objects :
             LET reply == delayedReply[o]
             IN  reply # NoReply /\ delayedReply'[o] # reply =>
                   \/ result'[o].kind = reply.kind /\ result'[o].got = reply.tag
                   \/ reply.tag \in lost']_vars
  BY SlotStep
<1> QED BY <1>1, <1>2, <1>3, TypeCorrect, PTL DEF Spec, DelayedReplyKept

(* What is appended is there once more.                                     *)
LEMMA AppendPlaces ==
    ASSUME NEW S, NEW q \in Seq(S), NEW x \in S, NEW t
    PROVE  /\ x.tag # t => Keeps(q, Append(q, x), t)
           /\ x.tag = t /\ Absent(q, t) => Once(Append(q, x), t)
<1> PICK r : r = Append(q, x)
  OBVIOUS
<1> PICK n \in Nat : n = Len(q)
  OBVIOUS
<1>1. DOMAIN q = 1..n /\ DOMAIN r = 1..n + 1 /\ r[n + 1] = x
      /\ \A k \in 1..n : r[k] = q[k]
  OBVIOUS
<1>2. \A k \in 1..n + 1 : k \in 1..n \/ k = n + 1
  OBVIOUS
<1>3. n + 1 \in 1..n + 1 /\ \A k \in 1..n : k \in 1..n + 1 /\ k # n + 1
  OBVIOUS
<1>4. About(r, t) = About(q, t) \cup (IF x.tag = t THEN {n + 1} ELSE {})
  BY <1>1, <1>2, <1>3 DEF About
<1> QED BY <1>4 DEF Keeps, Absent, Once

(* What is taken is there once less.                                        *)
LEMMA TailPlaces ==
    ASSUME NEW S, NEW q \in Seq(S), q # <<>>, NEW t
    PROVE  /\ Head(q).tag # t => Keeps(q, Tail(q), t)
           /\ Head(q).tag = t => ~Absent(q, t) /\ (Once(q, t) => Absent(Tail(q), t))
<1> PICK r : r = Tail(q)
  OBVIOUS
<1> PICK n \in Nat \ {0} : n = Len(q)
  OBVIOUS
<1>1. DOMAIN q = 1..n /\ DOMAIN r = 1..n - 1 /\ Head(q) = q[1]
      /\ \A k \in 1..n - 1 : r[k] = q[k + 1]
  OBVIOUS
<1>2. 1 \in 1..n /\ \A k \in 1..n - 1 : k + 1 \in 1..n /\ k + 1 # 1
  OBVIOUS
<1>3. \A k \in 1..n - 1 : k \in About(r, t) <=> k + 1 \in About(q, t)
  BY <1>1, <1>2 DEF About
<1>4. 1 \in About(q, t) <=> Head(q).tag = t
  BY <1>1, <1>2 DEF About
<1>5. About(r, t) \subseteq 1..n - 1 /\ About(q, t) \subseteq 1..n
  BY <1>1 DEF About
<1>6. Absent(q, t) => Absent(r, t) /\ Head(q).tag # t
  BY <1>2, <1>3, <1>4, <1>5 DEF Absent
<1>7. ASSUME NEW k, About(q, t) = {k}
      PROVE  IF Head(q).tag = t THEN Absent(r, t) ELSE Once(r, t)
  <2>1. CASE k = 1
    <3>1. Head(q).tag = t
      BY <1>4, <1>7, <2>1
    <3>2. About(r, t) = {}
      BY <1>2, <1>3, <1>5, <1>7, <2>1
    <3> QED BY <3>1, <3>2 DEF Absent
  <2>2. CASE k # 1
    <3>1. k \in 1..n /\ k - 1 \in 1..n - 1 /\ (k - 1) + 1 = k
      BY <1>5, <1>7, <2>2
    <3>2. k - 1 \in About(r, t)
      BY <1>3, <1>7, <3>1
    <3>3. ASSUME NEW j \in About(r, t)
          PROVE  j = k - 1
      <4>1. j \in 1..n - 1 /\ j + 1 = k
        BY <1>3, <1>5, <1>7
      <4> QED BY <3>1, <4>1
    <3>4. About(r, t) = {k - 1}
      BY <3>2, <3>3
    <3>5. Head(q).tag # t
      BY <1>4, <1>7, <2>2
    <3> QED BY <3>4, <3>5 DEF Once
  <2> QED BY <2>1, <2>2
<1>8. Once(q, t) => IF Head(q).tag = t THEN Absent(r, t) ELSE Once(r, t)
  BY <1>7 DEF Once
<1> QED BY <1>6, <1>8 DEF Keeps

(* Once is not never, and the queue that stays keeps all.                   *)
LEMMA SamePlaces ==
    ASSUME NEW q, NEW t
    PROVE  Keeps(q, q, t) /\ Absent(<<>>, t) /\ ~(Absent(q, t) /\ Once(q, t))
  BY DEF About, Absent, Once, Keeps

(* A user's request is known, and its object is still the owner of its ID.  *)
LEMMA HandleFacts ==
    ASSUME TypeOK, IdsExclusive, Forgotten, NEW c, NEW f, Numbered(c, f), Requested(f),
           NEW o \in Objects, NEW h \in handles[o]
    PROVE  /\ h \in Asked(f, o) /\ h.tag \in 1..issued /\ f[h.tag] \in Origin
           /\ f[h.tag].obj = o /\ f[h.tag].multi = h.multi /\ h.multi \in BOOLEAN
           /\ f[h.tag].id = id[o] /\ home[o] = "open" /\ channels[id[o]] = o
<1>1. h \in AskedAs(f, o, id[o])
  BY DEF Requested
<1>2. h \in Asked(f, o) /\ f[h.tag].id = id[o]
  BY <1>1 DEF AskedAs
<1>3. h \in Request /\ h.tag \in DOMAIN f /\ f[h.tag].obj = o /\ h.multi = f[h.tag].multi
  BY <1>2 DEF Asked
<1>4. h.tag \in 1..issued /\ f[h.tag] \in Origin
  BY <1>3 DEF Numbered
<1>5. home[o] = "open"
  BY DEF Forgotten
<1>6. channels[id[o]] = o
  BY <1>5 DEF IdsExclusive, Owners
<1>7. h.multi \in BOOLEAN
  BY <1>3 DEF Request
<1> QED BY <1>2, <1>3, <1>4, <1>5, <1>6, <1>7

(* A step that moves nothing of a request leaves it where it is.            *)
LEMMA PlacedStays ==
    ASSUME NEW o, NEW t, Placed(o, t), t \in lost' <=> t \in lost,
           Keeps(reqChan[o], reqChan'[o], t), Held(o, t)' <=> Held(o, t),
           Keeps(vppQueue, vppQueue', t), Called(o, t)' <=> Called(o, t),
           Keeps(replyChan[o], replyChan'[o], t), Parked(o, t)' <=> Parked(o, t)
    PROVE  Placed(o, t)'
<1>1. PICK s \in Stages : At(o, t, s) /\ (s = "nowhere" <=> t \in lost)
  BY DEF Placed
<1>2. At(o, t, s)'
  BY <1>1 DEF At, Keeps
<1> QED BY <1>1, <1>2 DEF Placed

(* A request is found in one place only.                                    *)
LEMMA FoundAt ==
    ASSUME NEW o, NEW t, Placed(o, t)
    PROVE  /\ ~Absent(reqChan[o], t) => At(o, t, "request")
           /\ Held(o, t) => At(o, t, "watcher")
           /\ ~Absent(vppQueue, t) => At(o, t, "vpp")
           /\ Called(o, t) => At(o, t, "callback")
           /\ ~Absent(replyChan[o], t) => At(o, t, "reply")
           /\ Parked(o, t) => At(o, t, "delayed")
           /\ \A s \in Stages \ {"nowhere"} : At(o, t, s) => t \notin lost
<1>1. PICK s \in Stages : At(o, t, s) /\ (s = "nowhere" <=> t \in lost)
  BY DEF Placed
<1>2. s \in {"request", "watcher", "vpp", "callback", "reply", "delayed", "nowhere"}
  BY DEF Stages
<1>3. /\ ~Absent(reqChan[o], t) => s = "request"
      /\ Held(o, t) => s = "watcher"
      /\ ~Absent(vppQueue, t) => s = "vpp"
      /\ Called(o, t) => s = "callback"
      /\ ~Absent(replyChan[o], t) => s = "reply"
      /\ Parked(o, t) => s = "delayed"
  BY <1>1 DEF At
<1>4. ASSUME NEW u \in Stages \ {"nowhere"}, At(o, t, u)
      PROVE  s # "nowhere"
  BY <1>1, <1>4, SamePlaces DEF At, Stages
<1> QED BY <1>1, <1>3, <1>4


(* What is known of the request t that the user of o waits on.              *)
Owed(f, o, t) == /\ t \in 1..issued /\ f[t].obj = o /\ ~f[t].multi
                 /\ f[t].id = id[o] /\ channels[id[o]] = o

Known(c, f) == /\ TypeOK /\ IdsExclusive /\ Forgotten /\ SlotFree /\ PingsEndDumps
               /\ Numbered(c, f) /\ Addressed(f) /\ Requested(f) /\ Answered(f)

(* Nobody but its own object and watcher holds it.                          *)
LEMMA OthersElsewhere ==
    ASSUME NEW c, NEW f, Known(c, f), NEW o \in Objects, NEW t, Owed(f, o, t),
           NEW p \in Objects
    PROVE  /\ watcher[p].pc \in {"send", "ping", "reply"} /\ watcher[p].req.tag = t
                => p = o /\ ~watcher[p].req.multi
           /\ replyChan[p] # <<>> /\ Head(replyChan[p]).tag = t => p = o
           /\ delayedReply[p] # NoReply /\ delayedReply[p].tag = t => p = o
           /\ callback.pc = "send" /\ callback.reply.tag = t => callback.ch = o
<1>1. f[t].obj = o /\ ~f[t].multi
  BY DEF Owed
<1>2. ASSUME watcher[p].pc \in {"send", "ping", "reply"}, watcher[p].req.tag = t
      PROVE  p = o /\ ~watcher[p].req.multi
  <2>1. watcher[p].req \in Asked(f, p)
    BY <1>2 DEF Known, Requested, AskedAs
  <2> QED BY <1>1, <1>2, <2>1 DEF Asked
<1>3. ASSUME replyChan[p] # <<>>, Head(replyChan[p]).tag = t
      PROVE  p = o
  <2>1. replyChan[p] \in Seq(Answers(f, p))
    BY DEF Known, Answered
  <2>2. Head(replyChan[p]) \in Answers(f, p)
    BY <1>3, <2>1
  <2> QED BY <1>1, <1>3, <2>2 DEF Answers
<1>4. ASSUME delayedReply[p] # NoReply, delayedReply[p].tag = t
      PROVE  p = o
  <2>1. delayedReply[p] \in Answers(f, p)
    BY <1>4 DEF Known, Answered
  <2> QED BY <1>1, <1>4, <2>1 DEF Answers
<1>5. ASSUME callback.pc = "send", callback.reply.tag = t
      PROVE  callback.ch = o
  <2>1. callback.reply \in Answers(f, callback.ch)
    BY <1>5 DEF Known, Answered
  <2> QED BY <1>1, <1>5, <2>1 DEF Answers
<1> QED BY <1>2, <1>3, <1>4, <1>5

(* The steps that move no message at all.                                   *)
LEMMA QuietPlaced ==
    ASSUME NEW c, NEW f, Known(c, f), NEW o \in Objects, NEW t, Owed(f, o, t),
           Placed(o, t), home[o] = "open", NEW p \in Objects,
           \/ NewAPIChannel(p) \/ Close(p) \/ ReplyTimesOut(p)
           \/ \E timeout \in Timeouts : SetReplyTimeout(p, timeout)
           \/ SendPingFails(p) \/ ReleaseFromMap(p) \/ ReleasePutId(p)
           \/ ResetAndPut(p) \/ Reconnect \/ UNCHANGED vars
    PROVE  Placed(o, t)'
<1>1. TypeOK
  BY DEF Known
<1>2. UNCHANGED <<reqChan, vppQueue, callback, delayedReply, lost>>
  BY DEF NewAPIChannel, Close, ReplyTimesOut, SetReplyTimeout, SendPingFails,
     ReleaseFromMap, ReleasePutId, ResetAndPut, Reconnect, vars, userVars, vppVars
<1>3. replyChan'[o] = replyChan[o]
  <2>1. CASE ResetAndPut(p)
    <3>1. p # o /\ replyChan' = [replyChan EXCEPT ![p] = <<>>]
      BY <2>1 DEF ResetAndPut
    <3> QED BY <1>1, <3>1 DEF TypeOK
  <2>2. CASE ~ResetAndPut(p)
    BY <2>2 DEF NewAPIChannel, Close, ReplyTimesOut, SetReplyTimeout, SendPingFails,
       ReleaseFromMap, ReleasePutId, Reconnect, vars, userVars, vppVars
  <2> QED BY <2>1, <2>2
<1>4. Held(o, t)' <=> Held(o, t)
  <2>1. CASE NewAPIChannel(p)
    <3>1. p # o /\ watcher' = [watcher EXCEPT ![p] = [pc |-> "recv"]]
      BY <2>1 DEF NewAPIChannel
    <3>2. watcher'[o] = watcher[o]
      BY <1>1, <3>1 DEF TypeOK
    <3> QED BY <3>2 DEF Held
  <2>2. CASE SendPingFails(p) \/ ReleaseFromMap(p) \/ ReleasePutId(p)
    <3>1. PICK w : /\ w \in {[pc |-> "recv"], [pc |-> "putId"], Idle}
                   /\ watcher' = [watcher EXCEPT ![p] = w]
      BY <2>2 DEF SendPingFails, ReleaseFromMap, ReleasePutId
    <3>2. watcher[p].pc \notin {"send", "reply"} /\ w.pc \notin {"send", "reply"}
      <4>1. watcher[p].pc \in {"ping", "recv", "putId"}
        BY <2>2 DEF SendPingFails, ReleaseFromMap, ReleasePutId
      <4>2. w.pc \in {"recv", "putId", "idle"}
        BY <3>1 DEF Idle
      <4> QED BY <4>1, <4>2
    <3>3. CASE p = o
      <4>1. watcher'[o] = w
        BY <1>1, <3>1, <3>3 DEF TypeOK
      <4> QED BY <3>2, <3>3, <4>1 DEF Held
    <3>4. CASE p # o
      <4>1. watcher'[o] = watcher[o]
        BY <1>1, <3>1, <3>4 DEF TypeOK
      <4> QED BY <4>1 DEF Held
    <3> QED BY <3>3, <3>4
  <2>3. CASE UNCHANGED watcher
    BY <2>3 DEF Held
  <2> QED BY <2>1, <2>2, <2>3 DEF Close, ReplyTimesOut, SetReplyTimeout, ResetAndPut,
          Reconnect, vars, userVars, vppVars
<1>5. (Called(o, t)' <=> Called(o, t)) /\ (Parked(o, t)' <=> Parked(o, t))
  BY <1>2 DEF Called, Parked
<1> QED BY <1>2, <1>3, <1>4, <1>5, SamePlaces, PlacedStays

(* A later request goes behind it.                                          *)
LEMMA SendRequestPlaced ==
    ASSUME NEW c, NEW f, Known(c, f), NEW o \in Objects, NEW t, Owed(f, o, t),
           Placed(o, t), NEW p \in Objects, NEW multi \in BOOLEAN, SendRequest(p, multi)
    PROVE  Placed(o, t)'
<1> PICK req : req = [tag |-> issued + 1, seq |-> nextSeqNum(lastSeqNum[p]),
                      multi |-> multi]
  OBVIOUS
<1>1. /\ reqChan' = [reqChan EXCEPT ![p] = Append(reqChan[p], req)]
      /\ UNCHANGED <<watcher, vppQueue, callback, replyChan, delayedReply, lost>>
  BY DEF SendRequest
<1>2. req.tag # t
  <2>1. t \in 1..issued /\ issued \in Nat
    BY BoundAssumption DEF Owed, Known, TypeOK
  <2> QED BY <2>1
<1>3. Keeps(reqChan[o], reqChan'[o], t)
  <2>1. reqChan \in [Objects -> Seq(Request)]
    BY DEF Known, TypeOK
  <2>2. CASE p = o
    <3>1. reqChan'[o] = Append(reqChan[o], req)
      BY <1>1, <2>1, <2>2
    <3>2. reqChan[o] \in Seq(Request \cup {req})
      <4>1. reqChan[o] \in Seq(Request)
        BY <2>1
      <4> QED BY <4>1, SeqMonotonic
    <3> QED BY <1>2, <3>1, <3>2, AppendPlaces
  <2>3. CASE p # o
    <3>1. reqChan'[o] = reqChan[o]
      BY <1>1, <2>1, <2>3
    <3> QED BY <3>1, SamePlaces
  <2> QED BY <2>2, <2>3
<1>4. /\ Held(o, t)' <=> Held(o, t)
      /\ Called(o, t)' <=> Called(o, t)
      /\ Parked(o, t)' <=> Parked(o, t)
  BY <1>1 DEF Held, Called, Parked
<1> QED BY <1>1, <1>3, <1>4, SamePlaces, PlacedStays

(* The watcher takes it, to send it or to answer with an error.             *)
LEMMA TakeRequestPlaced ==
    ASSUME NEW c, NEW f, Known(c, f), NEW o \in Objects, NEW t, Owed(f, o, t),
           Placed(o, t), NEW p \in Objects, TakeRequest(p) \/ RejectRequest(p)
    PROVE  Placed(o, t)'
<1> PICK req : req = Head(reqChan[p])
  OBVIOUS
<1>1. /\ watcher[p].pc = "recv" /\ reqChan[p] # <<>>
      /\ reqChan' = [reqChan EXCEPT ![p] = Tail(reqChan[p])]
      /\ UNCHANGED <<vppQueue, callback, replyChan, delayedReply, lost>>
  BY DEF TakeRequest, RejectRequest, userVars, vppVars
<1>2. PICK pc \in {"send", "reply"} :
        watcher' = [watcher EXCEPT ![p] = [pc |-> pc, req |-> req]]
  BY DEF TakeRequest, RejectRequest
<1>3. reqChan \in [Objects -> Seq(Request)] /\ watcher \in [Objects -> WatcherState]
  BY DEF Known, TypeOK
<1>4. (Called(o, t)' <=> Called(o, t)) /\ (Parked(o, t)' <=> Parked(o, t))
  BY <1>1 DEF Called, Parked
<1>5. CASE p # o
  <2>1. reqChan'[o] = reqChan[o] /\ watcher'[o] = watcher[o]
    BY <1>1, <1>2, <1>3, <1>5
  <2>2. Held(o, t)' <=> Held(o, t)
    BY <2>1 DEF Held
  <2> QED BY <1>1, <1>4, <2>1, <2>2, SamePlaces, PlacedStays
<1>6. CASE p = o
  <2>1. reqChan'[o] = Tail(reqChan[o]) /\ watcher'[o] = [pc |-> pc, req |-> req]
    BY <1>1, <1>2, <1>3, <1>6
  <2>2. ~Held(o, t) /\ (Held(o, t)' <=> req.tag = t)
    BY <1>1, <1>6, <2>1 DEF Held
  <2>3. reqChan[o] \in Seq(Request) /\ reqChan[o] # <<>>
    BY <1>1, <1>3, <1>6
  <2>4. CASE req.tag # t
    <3>1. Keeps(reqChan[o], reqChan'[o], t)
      BY <1>6, <2>1, <2>3, <2>4, TailPlaces
    <3> QED BY <1>1, <1>4, <2>2, <2>4, <3>1, SamePlaces, PlacedStays
  <2>5. CASE req.tag = t
    <3>1. ~Absent(reqChan[o], t)
      BY <1>6, <2>3, <2>5, TailPlaces
    <3>2. At(o, t, "request") /\ t \notin lost
      BY <3>1, FoundAt DEF Stages
    <3>3. Absent(reqChan'[o], t)
      <4>1. Once(reqChan[o], t)
        BY <3>2 DEF At
      <4> QED BY <1>6, <2>1, <2>3, <2>5, <4>1, TailPlaces
    <3>4. At(o, t, "watcher")'
      BY <1>1, <1>4, <2>2, <2>5, <3>2, <3>3 DEF At
    <3> QED BY <1>1, <3>2, <3>4 DEF Placed, Stages
  <2> QED BY <2>4, <2>5
<1> QED BY <1>5, <1>6

(* It is sent to VPP, or a control ping, or not.                            *)
LEMMA SendToVPPPlaced ==
    ASSUME NEW c, NEW f, Known(c, f), NEW o \in Objects, NEW t, Owed(f, o, t),
           Placed(o, t), NEW p \in Objects,
           SendToVPP(p) \/ SendFails(p) \/ SendPing(p)
    PROVE  Placed(o, t)'
<1> PICK req : req = watcher[p].req
  OBVIOUS
<1>1. UNCHANGED <<reqChan, callback, replyChan, delayedReply, lost>>
  BY DEF SendToVPP, SendFails, SendPing, userVars, vppVars
<1>2. (Called(o, t)' <=> Called(o, t)) /\ (Parked(o, t)' <=> Parked(o, t))
  BY <1>1 DEF Called, Parked
<1>3. watcher \in [Objects -> WatcherState] /\ vppQueue \in Seq(Message)
  BY DEF Known, TypeOK
<1>4. req.tag = t /\ watcher[p].pc \in {"send", "ping"} => p = o /\ ~req.multi
  BY OthersElsewhere
<1>5. CASE SendFails(p)
  <2>1. /\ watcher[p].pc = "send" /\ vppQueue' = vppQueue
        /\ watcher' = [watcher EXCEPT ![p] = [pc |-> "reply", req |-> req]]
    BY <1>5 DEF SendFails, WatcherGoes, vppVars
  <2>2. Held(o, t)' <=> Held(o, t)
    <3>1. CASE p = o
      <4>1. watcher'[o].pc = "reply" /\ watcher'[o].req = req
        BY <1>3, <2>1, <3>1
      <4> QED BY <2>1, <3>1, <4>1 DEF Held
    <3>2. CASE p # o
      <4>1. watcher'[o] = watcher[o]
        BY <1>3, <2>1, <3>2
      <4> QED BY <4>1 DEF Held
    <3> QED BY <3>1, <3>2
  <2> QED BY <1>1, <1>2, <2>1, <2>2, SamePlaces, PlacedStays
<1>6. ASSUME SendToVPP(p) \/ SendPing(p)
      PROVE  Placed(o, t)'
  <2>1. PICK m : /\ m.tag = req.tag /\ vppQueue' = Append(vppQueue, m)
    BY <1>6 DEF SendToVPP, SendPing, ToVPP
  <2>2. PICK w : /\ w.pc \in {"ping", "recv"}
                 /\ watcher' = [watcher EXCEPT ![p] = w]
    <3> PICK v : v = [pc |-> "ping", req |-> req]
      OBVIOUS
    <3> PICK u : u = [pc |-> "recv"]
      OBVIOUS
    <3>1. \/ watcher' = [watcher EXCEPT ![p] = v]
          \/ watcher' = [watcher EXCEPT ![p] = u]
      BY <1>6 DEF SendToVPP, SendPing, WatcherGoes
    <3>2. v.pc = "ping" /\ u.pc = "recv"
      OBVIOUS
    <3> QED BY ONLY <3>1, <3>2
  <2>3. watcher[p].pc \in {"send", "ping"}
    BY <1>6 DEF SendToVPP, SendPing
  <2>4. vppQueue \in Seq(Message \cup {m})
    BY <1>3, SeqMonotonic
  <2>5. p = o => watcher'[o].pc \notin {"send", "reply"}
    BY <1>3, <2>2
  <2>6. p # o => watcher'[o] = watcher[o]
    BY <1>3, <2>2
  <2>7. CASE req.tag # t
    <3>1. Keeps(vppQueue, vppQueue', t)
      BY <2>1, <2>4, <2>7, AppendPlaces
    <3>2. Held(o, t)' <=> Held(o, t)
      BY <2>5, <2>6, <2>7 DEF Held
    <3> QED BY <1>1, <1>2, <3>1, <3>2, SamePlaces, PlacedStays
  <2>8. CASE req.tag = t
    <3>1. p = o /\ ~req.multi
      BY <1>4, <2>3, <2>8
    <3>2. watcher[o].pc = "send"
      <4>1. ~SendPing(p)
        BY <3>1 DEF SendPing, Known, PingsEndDumps
      <4> QED BY <1>6, <3>1, <4>1 DEF SendToVPP
    <3>3. Held(o, t) /\ ~Held(o, t)'
      BY <2>5, <2>8, <3>1, <3>2 DEF Held
    <3>4. At(o, t, "watcher") /\ t \notin lost
      BY <3>3, FoundAt DEF Stages
    <3>5. Once(vppQueue', t)
      <4>1. Absent(vppQueue, t)
        BY <3>4 DEF At
      <4> QED BY <2>1, <2>4, <2>8, <4>1, AppendPlaces
    <3>6. At(o, t, "vpp")'
      BY <1>1, <1>2, <3>3, <3>4, <3>5 DEF At
    <3> QED BY <1>1, <3>4, <3>6 DEF Placed, Stages
  <2> QED BY <2>7, <2>8
<1> QED BY <1>5, <1>6

(* The error becomes a reply, or finds no room.                             *)
LEMMA ErrorReplyPlaced ==
    ASSUME NEW c, NEW f, Known(c, f), NEW o \in Objects, NEW t, Owed(f, o, t),
           Placed(o, t), NEW p \in Objects, SendErrorReply(p) \/ DropErrorReply(p)
    PROVE  Placed(o, t)'
<1> PICK req : req = watcher[p].req
  OBVIOUS
<1> PICK r : r = ErrorReply(req)
  OBVIOUS
<1>1. /\ watcher[p].pc = "reply"
      /\ watcher' = [watcher EXCEPT ![p] = [pc |-> "recv"]]
      /\ UNCHANGED <<reqChan, vppQueue, callback, delayedReply>>
  BY DEF SendErrorReply, DropErrorReply, userVars, vppVars
<1>2. (Called(o, t)' <=> Called(o, t)) /\ (Parked(o, t)' <=> Parked(o, t))
  BY <1>1 DEF Called, Parked
<1>3. watcher \in [Objects -> WatcherState] /\ replyChan \in [Objects -> Seq(Reply)]
  BY DEF Known, TypeOK
<1>4. req.tag = t => p = o
  BY <1>1, OthersElsewhere
<1>5. r.tag = req.tag
  BY DEF ErrorReply
<1>6. \/ /\ replyChan' = [replyChan EXCEPT ![p] = Append(replyChan[p], r)]
         /\ lost' = lost
      \/ replyChan' = replyChan /\ lost' = lost \cup {req.tag}
  BY DEF SendErrorReply, DropErrorReply
<1>7. p = o => watcher'[o].pc = "recv"
  BY <1>1, <1>3
<1>8. p # o => watcher'[o] = watcher[o] /\ replyChan'[o] = replyChan[o]
  BY <1>1, <1>3, <1>6
<1>9. (p = o => ~Held(o, t)') /\ (p # o => (Held(o, t)' <=> Held(o, t)))
  BY <1>7, <1>8 DEF Held
<1>10. replyChan'[o] \in {replyChan[o], Append(replyChan[o], r)}
  BY <1>3, <1>6
<1>10a. /\ r.tag # t => Keeps(replyChan[o], Append(replyChan[o], r), t)
        /\ r.tag = t /\ Absent(replyChan[o], t) => Once(Append(replyChan[o], r), t)
  <2> PICK S : S = Reply \cup {r}
    OBVIOUS
  <2>1. replyChan[o] \in Seq(Reply) /\ Reply \subseteq S /\ r \in S
    BY <1>3
  <2>2. replyChan[o] \in Seq(S)
    BY <2>1, SeqMonotonic
  <2> QED BY ONLY <2>1, <2>2, AppendPlaces
<1>11. CASE req.tag # t
  <2>1. Keeps(replyChan[o], replyChan'[o], t)
    <3>1. Keeps(replyChan[o], Append(replyChan[o], r), t)
      BY <1>5, <1>10a, <1>11
    <3>2. Keeps(replyChan[o], replyChan[o], t)
      BY SamePlaces
    <3> QED BY ONLY <1>10, <3>1, <3>2
  <2>2. Held(o, t)' <=> Held(o, t)
    BY <1>9, <1>11 DEF Held
  <2>3. t \in lost' <=> t \in lost
    BY <1>6, <1>11
  <2> QED BY <1>1, <1>2, <2>1, <2>2, <2>3, SamePlaces, PlacedStays
<1>12. CASE req.tag = t
  <2>1. p = o /\ Held(o, t) /\ ~Held(o, t)'
    BY <1>1, <1>4, <1>9, <1>12 DEF Held
  <2>2. At(o, t, "watcher") /\ t \notin lost
    BY <2>1, FoundAt DEF Stages
  <2>3. CASE lost' = lost /\ replyChan' = [replyChan EXCEPT ![p] = Append(replyChan[p], r)]
    <3>1. replyChan'[o] = Append(replyChan[o], r)
      BY <1>3, <2>1, <2>3
    <3>2. Once(replyChan'[o], t)
      <4>1. Absent(replyChan[o], t)
        BY <2>2 DEF At
      <4> QED BY <1>5, <1>10a, <1>12, <3>1, <4>1
    <3>3. At(o, t, "reply")'
      BY <1>1, <1>2, <2>1, <2>2, <3>2 DEF At
    <3> QED BY <2>2, <2>3, <3>3 DEF Placed, Stages
  <2>4. CASE replyChan' = replyChan /\ lost' = lost \cup {req.tag}
    <3>1. At(o, t, "nowhere")'
      BY <1>1, <1>2, <2>1, <2>2, <2>4 DEF At
    <3>2. t \in lost'
      BY <1>12, <2>4
    <3> QED BY <3>1, <3>2 DEF Placed, Stages
  <2> QED BY <1>6, <2>3, <2>4
<1> QED BY <1>11, <1>12

(* The reader goroutine delivers it or drops it.                            *)
LEMMA ReaderPlaced ==
    ASSUME NEW c, NEW f, Known(c, f), NEW o \in Objects, NEW t, Owed(f, o, t),
           Placed(o, t), Reader
    PROVE  Placed(o, t)'
<1> PICK r : r = callback.reply
  OBVIOUS
<1> PICK p : p = callback.ch
  OBVIOUS
<1>1. /\ callback.pc = "send" /\ callback' = Idle
      /\ UNCHANGED <<reqChan, vppQueue, watcher, delayedReply>>
  BY DEF Reader, DeliverReply, DropReply, userVars
<1>2. (Held(o, t)' <=> Held(o, t)) /\ (Parked(o, t)' <=> Parked(o, t))
  BY <1>1 DEF Held, Parked
<1>3. callback # Idle
  BY <1>1 DEF Idle
<1>4. p \in Objects /\ replyChan \in [Objects -> Seq(Reply)]
  BY <1>3 DEF Known, TypeOK
<1>5. r.tag = t => p = o
  BY <1>1, <1>4, OthersElsewhere
<1>6. (Called(o, t) <=> r.tag = t) /\ ~Called(o, t)'
  BY <1>1, <1>3, <1>5 DEF Called
<1>7. \/ /\ replyChan' = [replyChan EXCEPT ![p] = Append(replyChan[p], r)]
         /\ lost' = lost
      \/ replyChan' = replyChan /\ lost' = lost \cup {r.tag}
  BY DEF Reader, DeliverReply, DropReply
<1>8. replyChan'[o] \in {replyChan[o], Append(replyChan[o], r)}
  BY <1>4, <1>7
<1>8a. /\ r.tag # t => Keeps(replyChan[o], Append(replyChan[o], r), t)
       /\ r.tag = t /\ Absent(replyChan[o], t) => Once(Append(replyChan[o], r), t)
  <2> PICK S : S = Reply \cup {r}
    OBVIOUS
  <2>1. replyChan[o] \in Seq(Reply) /\ Reply \subseteq S /\ r \in S
    BY <1>4
  <2>2. replyChan[o] \in Seq(S)
    BY <2>1, SeqMonotonic
  <2> QED BY ONLY <2>1, <2>2, AppendPlaces
<1>9. CASE r.tag # t
  <2>1. Keeps(replyChan[o], replyChan'[o], t)
    BY <1>8, <1>8a, <1>9, SamePlaces
  <2>2. t \in lost' <=> t \in lost
    BY <1>7, <1>9
  <2> QED BY <1>1, <1>2, <1>6, <1>9, <2>1, <2>2, SamePlaces, PlacedStays
<1>10. CASE r.tag = t
  <2>1. At(o, t, "callback") /\ t \notin lost /\ p = o
    BY <1>5, <1>6, <1>10, FoundAt DEF Stages
  <2>2. CASE lost' = lost /\ replyChan' = [replyChan EXCEPT ![p] = Append(replyChan[p], r)]
    <3>1. replyChan'[o] = Append(replyChan[o], r)
      BY <1>4, <2>1, <2>2
    <3>2. Once(replyChan'[o], t)
      <4>1. Absent(replyChan[o], t)
        BY <2>1 DEF At
      <4> QED BY <1>8a, <1>10, <3>1, <4>1
    <3>3. At(o, t, "reply")'
      BY <1>1, <1>2, <1>6, <2>1, <3>2 DEF At
    <3> QED BY <2>1, <2>2, <3>3 DEF Placed, Stages
  <2>3. CASE replyChan' = replyChan /\ lost' = lost \cup {r.tag}
    <3>1. At(o, t, "nowhere")'
      BY <1>1, <1>2, <1>6, <2>1, <2>3 DEF At
    <3>2. t \in lost'
      BY <1>10, <2>3
    <3> QED BY <3>1, <3>2 DEF Placed, Stages
  <2> QED BY <1>7, <2>2, <2>3
<1> QED BY <1>9, <1>10

(* What VPP has received tells the channel and the kind of its request.     *)
LEMMA CarriedUnpacks ==
    ASSUME NEW c, NEW f, Numbered(c, f), NEW m \in Carried(f)
    PROVE  /\ unpackRequestContext(m.context).chanID = f[m.tag].id
           /\ unpackRequestContext(m.context).isMultipart = f[m.tag].multi
           /\ f[m.tag].id \in IDs
<1> DEFINE a == f[m.tag]
<1>1. /\ m.tag \in 1..issued
      /\ m.context = packRequestContext(a.id, a.multi, Wrapped(a.num))
  BY DEF Carried, Numbered
<1>2. a \in Origin
  BY <1>1 DEF Numbered
<1>3. /\ a.id \in IDs /\ a.id \in 0..IdMod - 1 /\ a.multi \in BOOLEAN
      /\ Wrapped(a.num) \in SeqNum
  <2>1. a.id \in IDs /\ a.num \in Int /\ a.multi \in BOOLEAN
    BY <1>2 DEF Origin
  <2>2. a.id \in 0..IdMod - 1
    BY <2>1, PoolAssumption, IdModAssumption DEF IDs
  <2>3. Wrapped(a.num) \in SeqNum
    BY <2>1, NextNumber DEF Wrapped
  <2> QED BY <2>1, <2>2, <2>3
<1>4. unpackRequestContext(m.context)
        = [chanID |-> a.id, isMultipart |-> a.multi, seqNum |-> Wrapped(a.num)]
  <2> HIDE DEF a
  <2> QED BY <1>1, <1>3, ContextRoundTripThm
<1> HIDE DEF a
<1>5. /\ unpackRequestContext(m.context).chanID = a.id
      /\ unpackRequestContext(m.context).isMultipart = a.multi
  BY <1>4
<1> QED BY <1>3, <1>5 DEF a

(* VPP answers it, does not, or is about something else.                    *)
LEMMA VppPlaced ==
    ASSUME NEW c, NEW f, Known(c, f), NEW o \in Objects, NEW t, Owed(f, o, t),
           Placed(o, t), VppSendsDetail \/ VppReplies \/ VppMovesOn
    PROVE  Placed(o, t)'
<1> PICK m : m = Head(vppQueue)
  OBVIOUS
<1>1. /\ vppQueue # <<>> /\ callback = Idle
      /\ UNCHANGED <<reqChan, watcher, replyChan, delayedReply>>
  BY DEF VppSendsDetail, VppReplies, VppMovesOn, VppReady, userVars
<1>2. (Held(o, t)' <=> Held(o, t)) /\ (Parked(o, t)' <=> Parked(o, t)) /\ ~Called(o, t)
  BY <1>1 DEF Held, Parked, Called
<1>3. vppQueue \in Seq(Message) /\ m \in Carried(f)
  <2>1. vppQueue \in Seq(Carried(f))
    BY DEF Known, Answered
  <2> QED BY <1>1, <2>1 DEF Known, TypeOK
<1>4. m.tag = t => ~IsDump(m)
  BY <1>3, CarriedUnpacks DEF Known, Owed, IsDump
<1>5. ASSUME NEW ping, msgCallback(m.context, m.tag, ping)
      PROVE  Called(o, t)' <=> m.tag = t
  <2> DEFINE u == unpackRequestContext(m.context)
             ch == IF u.chanID \in IDs THEN channels[u.chanID] ELSE None
             r == [tag |-> m.tag, seq |-> u.seqNum,
                   kind |-> IF ping /\ u.isMultipart THEN "last" ELSE "data"]
  <2>1. callback' = IF ch = None THEN Idle
                    ELSE [pc |-> "send", ch |-> ch, reply |-> r]
    BY <1>5 DEF msgCallback
  <2>2. m.tag = t => ch = o
    BY <1>3, CarriedUnpacks DEF Known, Owed
  <2>3. r.tag = m.tag
    OBVIOUS
  <2> HIDE DEF ch, r
  <2>4. o # None
    BY ObjectsAssumption DEF None
  <2> DEFINE x == [pc |-> "send", ch |-> ch, reply |-> r]
  <2>5. x.pc = "send" /\ x.ch = ch /\ x.reply = r
    OBVIOUS
  <2>6. x # Idle
    BY <2>5 DEF Idle
  <2> HIDE DEF x
  <2>7. callback' = IF ch = None THEN Idle ELSE x
    BY <2>1 DEF x
  <2> QED BY <2>2, <2>3, <2>4, <2>5, <2>6, <2>7 DEF Called
<1>6. Keeps(vppQueue, vppQueue', t) \/ (m.tag = t /\ vppQueue' = Tail(vppQueue))
  <2>1. vppQueue' \in {vppQueue, Tail(vppQueue)}
    BY DEF VppSendsDetail, VppReplies, VppMovesOn
  <2>2. m.tag # t => Keeps(vppQueue, Tail(vppQueue), t)
    BY <1>1, <1>3, TailPlaces
  <2>3. Keeps(vppQueue, vppQueue, t)
    BY SamePlaces
  <2> QED BY <2>1, <2>2, <2>3
<1>7. CASE m.tag # t
  <2>1. Called(o, t)' <=> Called(o, t)
    <3>1. CASE VppMovesOn
      BY <1>1, <3>1 DEF VppMovesOn, Called
    <3>2. CASE ~VppMovesOn
      <4>1. \E ping : msgCallback(m.context, m.tag, ping)
        BY <3>2 DEF VppSendsDetail, VppReplies
      <4> QED BY <1>2, <1>5, <1>7, <4>1
    <3> QED BY <3>1, <3>2
  <2>2. t \in lost' <=> t \in lost
    BY <1>7 DEF VppSendsDetail, VppReplies, VppMovesOn
  <2> QED BY <1>1, <1>2, <1>6, <1>7, <2>1, <2>2, SamePlaces, PlacedStays
<1>8. CASE m.tag = t
  <2>1. ~Absent(vppQueue, t) /\ (Once(vppQueue, t) => Absent(Tail(vppQueue), t))
    BY <1>1, <1>3, <1>8, TailPlaces
  <2>2. At(o, t, "vpp") /\ t \notin lost
    BY <2>1, FoundAt DEF Stages
  <2>3. Absent(Tail(vppQueue), t)
    BY <2>1, <2>2 DEF At
  <2>4. vppQueue' = Tail(vppQueue)
    BY <1>4, <1>8 DEF VppSendsDetail, VppReplies, VppMovesOn
  <2>5. CASE VppMovesOn
    <3>1. t \in lost' /\ ~Called(o, t)'
      BY <1>1, <1>4, <1>8, <2>5 DEF VppMovesOn, Called
    <3>2. At(o, t, "nowhere")'
      BY <1>1, <1>2, <2>2, <2>3, <2>4, <3>1 DEF At
    <3> QED BY <3>1, <3>2 DEF Placed, Stages
  <2>6. CASE VppReplies
    <3>1. lost' = lost /\ msgCallback(m.context, m.tag, m.ping)
      BY <2>6 DEF VppReplies
    <3>2. Called(o, t)'
      BY <1>5, <1>8, <3>1
    <3>3. At(o, t, "callback")'
      BY <1>1, <1>2, <2>2, <2>3, <2>4, <3>2 DEF At
    <3> QED BY <2>2, <3>1, <3>3 DEF Placed, Stages
  <2>7. ~VppSendsDetail
    BY <1>4, <1>8 DEF VppSendsDetail
  <2> QED BY <2>5, <2>6, <2>7
<1> QED BY <1>7, <1>8

(* All that VPP has not answered goes with the connection.                  *)
LEMMA DisconnectPlaced ==
    ASSUME NEW o, NEW t, Placed(o, t), Disconnect
    PROVE  Placed(o, t)'
<1>1. /\ vppQueue' = <<>>
      /\ lost' = lost \cup {vppQueue[k].tag : k \in DOMAIN vppQueue}
      /\ UNCHANGED <<reqChan, watcher, callback, replyChan, delayedReply>>
  BY DEF Disconnect, userVars
<1>2. (Held(o, t)' <=> Held(o, t)) /\ (Parked(o, t)' <=> Parked(o, t))
      /\ (Called(o, t)' <=> Called(o, t))
  BY <1>1 DEF Held, Parked, Called
<1>3. Absent(vppQueue', t)
  BY <1>1, SamePlaces
<1>4. CASE Absent(vppQueue, t)
  <2>1. t \in lost' <=> t \in lost
    BY <1>1, <1>4 DEF Absent, About
  <2>2. Keeps(vppQueue, vppQueue', t)
    BY <1>3, <1>4, SamePlaces DEF Keeps
  <2> QED BY <1>1, <1>2, <2>1, <2>2, SamePlaces, PlacedStays
<1>5. CASE ~Absent(vppQueue, t)
  <2>1. At(o, t, "vpp")
    BY <1>5, FoundAt
  <2>2. t \in lost'
    BY <1>1, <1>5 DEF Absent, About
  <2>3. At(o, t, "nowhere")'
    BY <1>1, <1>2, <1>3, <2>1 DEF At
  <2> QED BY <2>2, <2>3 DEF Placed, Stages
<1> QED BY <1>4, <1>5

(* Who is handed the answer to a simple request does not wait on it any     *)
(* more: it is not returned twice.                                          *)
LEMMA AnsweredIsDone ==
    ASSUME NEW c, NEW f, Known(c, f), MaxRequests <= SeqMod, NEW o \in Objects,
           NEW h \in handles[o], h \in handles'[o], ~h.multi,
           NEW w \in Asked(f, o), NEW r \in Answers(f, o), ReturnReply(o, w, r),
           r.tag = h.tag
    PROVE  Verdict(w, r) = "missing"
<1> PICK v : v = Verdict(w, r)
  OBVIOUS
<1>1. SUFFICES ASSUME v # "missing" PROVE FALSE
  OBVIOUS
<1>2. v \in {"data", "last", "error"}
  BY <1>1 DEF ReturnReply, Verdict, Answers, Reply
<1>3. w.tag = h.tag
  BY <1>2, SameNumberSameRequest DEF Known
<1>4. w = h
  <2>1. h \in Asked(f, o)
    BY DEF Known, Requested, AskedAs
  <2>2. /\ w \in Request /\ h \in Request
        /\ w.seq = h.seq /\ w.multi = h.multi
    BY <1>3, <2>1 DEF Asked
  <2> QED BY <1>3, <2>2 DEF Request
<1>5. handles' = [handles EXCEPT ![o] = handles[o] \ {w}]
  BY <1>2, <1>4 DEF ReturnReply
<1>6. h \notin handles'[o]
  BY <1>4, <1>5 DEF Known, TypeOK
<1> QED BY <1>6

(* ReceiveReply up to its select: the slot keeps it, or gives it to be      *)
(* lost.                                                                    *)
LEMMA ReceiveReplyPlaced ==
    ASSUME NEW c, NEW f, Known(c, f), MaxRequests <= SeqMod, NEW o \in Objects,
           NEW h \in handles[o], h \in handles'[o], ~h.multi, Owed(f, o, h.tag),
           Placed(o, h.tag), NEW p \in Objects, NEW w \in handles[p], ReceiveReply(p, w)
    PROVE  Placed(o, h.tag)'
<1> PICK t : t = h.tag
  OBVIOUS
<1> PICK r : r = delayedReply[p]
  OBVIOUS
<1>1. UNCHANGED <<reqChan, watcher, vppQueue, callback, replyChan>>
  BY DEF ReceiveReply, vppVars
<1>2. (Held(o, t)' <=> Held(o, t)) /\ (Called(o, t)' <=> Called(o, t))
  BY <1>1 DEF Held, Called
<1>3. w \in Asked(f, p) /\ r \in Answers(f, p) \cup {NoReply}
  BY DEF Known, Requested, Answered, AskedAs
<1>4. r # NoReply /\ r.tag = t => p = o
  BY OthersElsewhere
<1>5. delayedReply \in [Objects -> Reply \cup {NoReply}]
  BY DEF Known, TypeOK
<1>6. \/ /\ r # NoReply /\ ReturnReply(p, w, r) /\ lost' = lost
         /\ delayedReply' = [delayedReply EXCEPT ![p] =
               IF Verdict(w, r) = "missing" THEN r ELSE NoReply]
      \/ /\ delayedReply' = [delayedReply EXCEPT ![p] = NoReply]
         /\ IF r = NoReply THEN lost' = lost ELSE lost' = lost \cup {r.tag}
  BY DEF ReceiveReply, ReturnReply, Ignore
<1>7. p # o => delayedReply'[o] = delayedReply[o]
  BY <1>5, <1>6
<1>8. CASE ~(r # NoReply /\ r.tag = t)
  <2>1. t \in lost' <=> t \in lost
    BY <1>6, <1>8
  <2>2. Parked(o, t)' <=> Parked(o, t)
    <3>1. CASE p # o
      BY <1>7, <3>1 DEF Parked
    <3>2. CASE p = o
      <4>1. delayedReply'[o] \in {r, NoReply}
        BY <1>5, <1>6, <3>2
      <4> QED BY <1>8, <3>2, <4>1 DEF Parked
    <3> QED BY <3>1, <3>2
  <2> QED BY <1>1, <1>2, <2>1, <2>2, SamePlaces, PlacedStays
<1>9. CASE r # NoReply /\ r.tag = t
  <2>1. p = o /\ Parked(o, t)
    BY <1>4, <1>9 DEF Parked
  <2>2. At(o, t, "delayed") /\ t \notin lost
    BY <2>1, FoundAt DEF Stages
  <2>3. CASE ReturnReply(p, w, r) /\ lost' = lost
             /\ delayedReply' = [delayedReply EXCEPT ![p] =
                   IF Verdict(w, r) = "missing" THEN r ELSE NoReply]
    <3>1. Verdict(w, r) = "missing"
      BY <1>3, <1>9, <2>1, <2>3, AnsweredIsDone
    <3>2. delayedReply'[o] = delayedReply[o]
      BY <1>5, <2>1, <2>3, <3>1
    <3>3. Parked(o, t)' <=> Parked(o, t)
      BY <3>2 DEF Parked
    <3> QED BY <1>1, <1>2, <2>3, <3>3, SamePlaces, PlacedStays
  <2>4. CASE delayedReply' = [delayedReply EXCEPT ![p] = NoReply]
             /\ lost' = lost \cup {r.tag}
    <3>1. ~Parked(o, t)'
      BY <1>5, <2>1, <2>4 DEF Parked
    <3>2. t \in lost'
      BY <1>9, <2>4
    <3>3. At(o, t, "nowhere")'
      BY <1>1, <1>2, <2>2, <3>1 DEF At
    <3> QED BY <3>2, <3>3 DEF Placed, Stages
  <2> QED BY <1>6, <1>9, <2>3, <2>4
<1> QED BY <1>8, <1>9

(* The select takes it, to return it, to park it or to drop it.             *)
LEMMA TakeReplyPlaced ==
    ASSUME NEW c, NEW f, Known(c, f), MaxRequests <= SeqMod, NEW o \in Objects,
           NEW h \in handles[o], h \in handles'[o], ~h.multi, Owed(f, o, h.tag),
           Placed(o, h.tag), NEW p \in Objects, TakeReply(p)
    PROVE  Placed(o, h.tag)'
<1> PICK t : t = h.tag
  OBVIOUS
<1> PICK r : r = Head(replyChan[p])
  OBVIOUS
<1> PICK w : w = user[p].want
  OBVIOUS
<1>1. /\ user[p].pc = "receiving" /\ replyChan[p] # <<>>
      /\ replyChan' = [replyChan EXCEPT ![p] = Tail(replyChan[p])]
      /\ UNCHANGED <<reqChan, watcher, vppQueue, callback>>
  BY DEF TakeReply, vppVars
<1>2. (Held(o, t)' <=> Held(o, t)) /\ (Called(o, t)' <=> Called(o, t))
  BY <1>1 DEF Held, Called
<1>3. w \in Asked(f, p) /\ r \in Answers(f, p)
  <2>1. replyChan[p] \in Seq(Answers(f, p))
    BY DEF Known, Answered
  <2>2. r \in Answers(f, p)
    BY <1>1, <2>1
  <2> QED BY <1>1, <2>2 DEF Known, Requested
<1>4. r.tag = t => p = o
  BY <1>1, OthersElsewhere
<1>5. /\ delayedReply \in [Objects -> Reply \cup {NoReply}]
      /\ replyChan \in [Objects -> Seq(Reply)]
      /\ delayedReply[p] = NoReply
  BY <1>1 DEF Known, TypeOK, SlotFree
<1>6. \/ /\ ReturnReply(p, w, r) /\ lost' = lost
         /\ delayedReply' = [delayedReply EXCEPT ![p] =
               IF Verdict(w, r) = "missing" THEN r ELSE NoReply]
      \/ delayedReply' = delayedReply /\ lost' = lost \cup {r.tag}
  BY DEF TakeReply, ReturnReply, Ignore
<1>7. p # o => delayedReply'[o] = delayedReply[o] /\ replyChan'[o] = replyChan[o]
  BY <1>1, <1>5, <1>6
<1>8. p = o => replyChan'[o] = Tail(replyChan[o]) /\ replyChan[o] \in Seq(Reply)
               /\ replyChan[o] # <<>> /\ r = Head(replyChan[o])
  BY <1>1, <1>5
<1>9. CASE r.tag # t
  <2>1. t \in lost' <=> t \in lost
    BY <1>6, <1>9
  <2>2. Parked(o, t)' <=> Parked(o, t)
    <3>1. CASE p # o
      BY <1>7, <3>1 DEF Parked
    <3>2. CASE p = o
      <4>1. delayedReply'[o] \in {r, NoReply}
        BY <1>5, <1>6, <3>2
      <4> QED BY <1>5, <1>9, <3>2, <4>1 DEF Parked
    <3> QED BY <3>1, <3>2
  <2>3. Keeps(replyChan[o], replyChan'[o], t)
    <3>1. CASE p # o
      BY <1>7, <3>1, SamePlaces
    <3>2. CASE p = o
      BY <1>8, <1>9, <3>2, TailPlaces
    <3> QED BY <3>1, <3>2
  <2> QED BY <1>1, <1>2, <2>1, <2>2, <2>3, SamePlaces, PlacedStays
<1>10. CASE r.tag = t
  <2>1. p = o
    BY <1>4, <1>10
  <2>2. ~Absent(replyChan[o], t) /\ (Once(replyChan[o], t) => Absent(replyChan'[o], t))
    BY <1>8, <1>10, <2>1, TailPlaces
  <2>3. At(o, t, "reply") /\ t \notin lost
    BY <2>2, FoundAt DEF Stages
  <2>4. Absent(replyChan'[o], t)
    BY <2>2, <2>3 DEF At
  <2>5. CASE ReturnReply(p, w, r) /\ lost' = lost
             /\ delayedReply' = [delayedReply EXCEPT ![p] =
                   IF Verdict(w, r) = "missing" THEN r ELSE NoReply]
    <3>1. Verdict(w, r) = "missing"
      BY <1>3, <1>10, <2>1, <2>5, AnsweredIsDone
    <3>2. delayedReply'[o] = r
      BY <1>5, <2>1, <2>5, <3>1
    <3>3. r # NoReply
      BY <1>3 DEF Answers, Reply, NoReply
    <3>4. Parked(o, t)'
      BY <1>10, <3>2, <3>3 DEF Parked
    <3>5. At(o, t, "delayed")'
      BY <1>1, <1>2, <2>3, <2>4, <3>4 DEF At
    <3> QED BY <2>3, <2>5, <3>5 DEF Placed, Stages
  <2>6. CASE delayedReply' = delayedReply /\ lost' = lost \cup {r.tag}
    <3>1. ~Parked(o, t)'
      BY <1>5, <2>1, <2>6 DEF Parked
    <3>2. t \in lost'
      BY <1>10, <2>6
    <3>3. At(o, t, "nowhere")'
      BY <1>1, <1>2, <2>3, <2>4, <3>1 DEF At
    <3> QED BY <3>2, <3>3 DEF Placed, Stages
  <2> QED BY <1>6, <2>5, <2>6
<1> QED BY <1>9, <1>10

(* A new request is nowhere else.                                           *)
LEMMA NewPlaced ==
    ASSUME NEW c, NEW f, Known(c, f), LostSent, NEW o \in Objects, NEW multi \in BOOLEAN,
           SendRequest(o, multi), NEW t, t = issued + 1
    PROVE  Placed(o, t)'
<1> PICK req : req = [tag |-> t, seq |-> nextSeqNum(lastSeqNum[o]), multi |-> multi]
  OBVIOUS
<1>1. /\ reqChan' = [reqChan EXCEPT ![o] = Append(reqChan[o], req)]
      /\ issued' = issued + 1
      /\ UNCHANGED <<watcher, vppQueue, callback, replyChan, delayedReply, lost>>
  BY DEF SendRequest
<1>2. DOMAIN f = 1..issued /\ t \notin 1..issued
  BY BoundAssumption DEF Known, TypeOK, Numbered
<1>3. /\ reqChan[o] \in Seq(Asked(f, o)) /\ vppQueue \in Seq(Carried(f))
      /\ replyChan[o] \in Seq(Answers(f, o))
  <2>1. AskedAs(f, o, id[o]) \subseteq Asked(f, o)
    BY DEF AskedAs
  <2>2. reqChan[o] \in Seq(AskedAs(f, o, id[o]))
    BY DEF Known, Requested
  <2>3. reqChan[o] \in Seq(Asked(f, o))
    BY <2>1, <2>2, SeqMonotonic
  <2> QED BY <2>3 DEF Known, Answered
<1>4. ASSUME NEW S, NEW q \in Seq(S), \A m \in S : m.tag \in DOMAIN f
      PROVE  Absent(q, t)
  <2>1. \A k \in DOMAIN q : q[k] \in S
    BY <1>4
  <2> QED BY <1>2, <1>4, <2>1 DEF Absent, About
<1>5. Absent(reqChan[o], t) /\ Absent(vppQueue, t) /\ Absent(replyChan[o], t)
  <2>1. /\ \A m \in Asked(f, o) : m.tag \in DOMAIN f
        /\ \A m \in Carried(f) : m.tag \in DOMAIN f
        /\ \A m \in Answers(f, o) : m.tag \in DOMAIN f
    BY DEF Asked, Carried, Answers
  <2> QED BY <1>3, <1>4, <2>1
<1>6. ~Held(o, t)
  <2>1. watcher[o].pc \in {"send", "reply"} => watcher[o].req \in Asked(f, o)
    BY DEF Known, Requested, AskedAs
  <2> QED BY <1>2, <2>1 DEF Held, Asked
<1>7. ~Called(o, t)
  <2>1. callback # Idle => callback.pc = "send"
    BY DEF Known, TypeOK
  <2>2. callback # Idle => callback.reply \in Answers(f, callback.ch)
    BY <2>1 DEF Known, Answered
  <2> QED BY <1>2, <2>2 DEF Called, Answers
<1>8. ~Parked(o, t)
  <2>1. delayedReply[o] # NoReply => delayedReply[o] \in Answers(f, o)
    BY DEF Known, Answered
  <2> QED BY <1>2, <2>1 DEF Parked, Answers
<1>9. t \notin lost'
  BY <1>1, <1>2 DEF LostSent
<1>10. ~Held(o, t)' /\ ~Called(o, t)' /\ ~Parked(o, t)'
  BY <1>1, <1>6, <1>7, <1>8 DEF Held, Called, Parked
<1>11. Once(reqChan'[o], t)
  <2>1. reqChan \in [Objects -> Seq(Request)]
    BY DEF Known, TypeOK
  <2>2. reqChan'[o] = Append(reqChan[o], req)
    BY <1>1, <2>1
  <2> PICK S : S = Request \cup {req}
    OBVIOUS
  <2>3. reqChan[o] \in Seq(S) /\ req \in S /\ req.tag = t
    <3>1. Request \subseteq S /\ reqChan[o] \in Seq(Request)
      BY <2>1
    <3>2. reqChan[o] \in Seq(S)
      BY <3>1, SeqMonotonic
    <3> QED BY <3>2
  <2> QED BY ONLY <1>5, <2>2, <2>3, AppendPlaces
<1>12. At(o, t, "request")'
  BY <1>1, <1>5, <1>10, <1>11 DEF At
<1> QED BY <1>9, <1>12 DEF Placed, Stages

(* Only SendRequest makes the user wait on a request.                       *)
LEMMA HandlesGrow ==
    ASSUME TypeOK, [Next]_vars, NEW o \in Objects, NEW h, h \in handles'[o],
           h \notin handles[o]
    PROVE  \E multi \in BOOLEAN : SendRequest(o, multi) /\ h.tag = issued + 1
<1>1. handles \in [Objects -> SUBSET Request]
  BY DEF TypeOK
<1>2. ASSUME NEW p \in Objects, NEW multi \in BOOLEAN, SendRequest(p, multi)
      PROVE  \E m \in BOOLEAN : SendRequest(o, m) /\ h.tag = issued + 1
  <2> PICK req : req = [tag |-> issued + 1, seq |-> nextSeqNum(lastSeqNum[p]),
                        multi |-> multi]
    OBVIOUS
  <2>1. handles' = [handles EXCEPT ![p] = handles[p] \cup {req}]
    BY <1>2 DEF SendRequest
  <2>2. p = o /\ h = req
    BY <1>1, <2>1
  <2>3. h.tag = issued + 1
    BY <2>2
  <2> QED BY <1>2, <2>2, <2>3
<1>3. ASSUME NEW p \in Objects, Close(p)
      PROVE  FALSE
  BY <1>1, <1>3 DEF Close
<1>4. ASSUME NEW p \in Objects,
             (\E w \in handles[p] : ReceiveReply(p, w)) \/ TakeReply(p)
      PROVE  FALSE
  <2>1. UNCHANGED handles
        \/ \E w : handles' \in {[handles EXCEPT ![p] = handles[p] \ {w}],
                             [handles EXCEPT ![p] = handles[p]]}
    BY <1>4 DEF ReceiveReply, TakeReply, ReturnReply
  <2> QED BY <1>1, <2>1
<1>5. UNCHANGED handles => FALSE
  OBVIOUS
<1>6. ASSUME NEW p \in Objects,
             \/ NewAPIChannel(p) \/ ReplyTimesOut(p)
             \/ \E timeout \in Timeouts : SetReplyTimeout(p, timeout)
             \/ Watcher(p) \/ ResetAndPut(p)
      PROVE  UNCHANGED handles
  BY <1>6 DEF NewAPIChannel, SetReplyTimeout, Watcher, ReplyTimesOut,
     TakeRequest, RejectRequest, SendToVPP, SendFails, SendPing, SendPingFails,
     SendErrorReply, DropErrorReply, ReleaseFromMap, ReleasePutId, ResetAndPut, userVars
<1>7. Reader \/ Environment => UNCHANGED handles
  BY DEF Reader, DeliverReply, DropReply, Environment, VppSendsDetail,
     VppReplies, VppMovesOn, Disconnect, Reconnect, userVars
<1>8. UNCHANGED vars => UNCHANGED handles
  BY DEF vars
<1> QED BY <1>2, <1>3, <1>4, <1>5, <1>6, <1>7, <1>8 DEF Next, User

(* Whatever happens to a simple request, its answer stays in one place.     *)
LEMMA NextAccounted ==
    ASSUME MaxRequests <= SeqMod, AccountInv, [Next]_vars
    PROVE  Accounted'
<1>1. PICK c, f : Numbered(c, f) /\ Addressed(f) /\ Requested(f) /\ Answered(f)
  BY DEF AccountInv, ReplyInv, Explained
<1>2. Known(c, f) /\ LostSent
  BY <1>1 DEF AccountInv, ReplyInv, Known
<1> SUFFICES ASSUME NEW o \in Objects, NEW h, h \in handles'[o], ~h.multi
             PROVE  Placed(o, h.tag)'
  BY DEF Accounted
<1>3. CASE h \notin handles[o]
  <2>1. PICK multi \in BOOLEAN : SendRequest(o, multi) /\ h.tag = issued + 1
    BY <1>2, <1>3, HandlesGrow DEF Known
  <2> QED BY <1>2, <2>1, NewPlaced
<1>4. ASSUME h \in handles[o]
      PROVE  Placed(o, h.tag)'
  <2>1. Owed(f, o, h.tag) /\ home[o] = "open"
    BY <1>2, <1>4, HandleFacts DEF Known, Owed
  <2>2. Placed(o, h.tag)
    BY <1>4 DEF AccountInv, Accounted
  <2>3. ASSUME NEW p \in Objects,
               \/ NewAPIChannel(p) \/ Close(p) \/ ReplyTimesOut(p)
               \/ \E timeout \in Timeouts : SetReplyTimeout(p, timeout)
               \/ SendPingFails(p) \/ ReleaseFromMap(p) \/ ReleasePutId(p)
               \/ ResetAndPut(p)
        PROVE  Placed(o, h.tag)'
    BY <1>2, <2>1, <2>2, <2>3, QuietPlaced
  <2>4. ASSUME NEW p \in Objects, NEW multi \in BOOLEAN, SendRequest(p, multi)
        PROVE  Placed(o, h.tag)'
    BY <1>2, <2>1, <2>2, <2>4, SendRequestPlaced
  <2>5. ASSUME NEW p \in Objects, NEW w \in handles[p], ReceiveReply(p, w)
        PROVE  Placed(o, h.tag)'
    BY <1>2, <1>4, <2>1, <2>2, <2>5, ReceiveReplyPlaced
  <2>6. ASSUME NEW p \in Objects, TakeReply(p)
        PROVE  Placed(o, h.tag)'
    BY <1>2, <1>4, <2>1, <2>2, <2>6, TakeReplyPlaced
  <2>7. ASSUME NEW p \in Objects,
               \/ TakeRequest(p) \/ RejectRequest(p)
               \/ SendToVPP(p) \/ SendFails(p) \/ SendPing(p)
               \/ SendErrorReply(p) \/ DropErrorReply(p)
        PROVE  Placed(o, h.tag)'
    BY <1>2, <2>1, <2>2, <2>7, TakeRequestPlaced, SendToVPPPlaced, ErrorReplyPlaced
  <2>8. Reader => Placed(o, h.tag)'
    BY <1>2, <2>1, <2>2, ReaderPlaced
  <2>9. Environment => Placed(o, h.tag)'
    BY <1>2, <2>1, <2>2, VppPlaced, DisconnectPlaced, QuietPlaced DEF Environment
  <2>10. UNCHANGED vars => Placed(o, h.tag)'
    BY <1>2, <2>1, <2>2, QuietPlaced
  <2> QED BY <2>3, <2>4, <2>5, <2>6, <2>7, <2>8, <2>9, <2>10 DEF Next, User, Watcher
<1> QED BY <1>3, <1>4

(* A watcher that is about to send a control ping has a dump.               *)
LEMMA NextPingsEndDumps ==
    ASSUME TypeOK, PingsEndDumps, [Next]_vars
    PROVE  PingsEndDumps'
<1>1. watcher \in [Objects -> WatcherState]
  BY DEF TypeOK
<1>2. ASSUME NEW p \in Objects, NEW w, watcher' = [watcher EXCEPT ![p] = w],
             w.pc = "ping" => w.req.multi
      PROVE  PingsEndDumps'
  BY <1>1, <1>2 DEF PingsEndDumps
<1>3. ASSUME NEW p \in Objects,
             NewAPIChannel(p) \/ SendPing(p) \/ SendPingFails(p) \/ SendErrorReply(p)
                \/ DropErrorReply(p)
      PROVE  PingsEndDumps'
  <2>1. watcher' = [watcher EXCEPT ![p] = [pc |-> "recv"]]
    BY <1>3 DEF NewAPIChannel, SendPing, SendPingFails, SendErrorReply, DropErrorReply
  <2> QED BY <1>2, <2>1
<1>4. ASSUME NEW p \in Objects, ReleaseFromMap(p) \/ ReleasePutId(p)
      PROVE  PingsEndDumps'
  <2>1. PICK w \in {[pc |-> "putId"], Idle} : watcher' = [watcher EXCEPT ![p] = w]
    BY <1>4 DEF ReleaseFromMap, ReleasePutId
  <2>2. w.pc # "ping"
    BY DEF Idle
  <2> QED BY <1>2, <2>1, <2>2
<1>5. ASSUME NEW p \in Objects, TakeRequest(p) \/ RejectRequest(p) \/ SendFails(p)
      PROVE  PingsEndDumps'
  <2>1. PICK pc \in {"send", "reply"} : \E req :
           watcher' = [watcher EXCEPT ![p] = [pc |-> pc, req |-> req]]
    BY <1>5 DEF TakeRequest, RejectRequest, SendFails, WatcherGoes
  <2> QED BY <1>2, <2>1
<1>6. ASSUME NEW p \in Objects, SendToVPP(p)
      PROVE  PingsEndDumps'
  <2> PICK req : req = watcher[p].req
    OBVIOUS
  <2>1. IF req.multi THEN watcher' = [watcher EXCEPT ![p] = [pc |-> "ping", req |-> req]]
        ELSE watcher' = [watcher EXCEPT ![p] = [pc |-> "recv"]]
    BY <1>6 DEF SendToVPP, WatcherGoes
  <2> QED BY <1>2, <2>1
<1>7. UNCHANGED watcher => PingsEndDumps'
  BY DEF PingsEndDumps
<1>8. ASSUME NEW p \in Objects,
             \/ Close(p) \/ ReplyTimesOut(p) \/ TakeReply(p)
             \/ \E multi \in BOOLEAN : SendRequest(p, multi)
             \/ \E want \in handles[p] : ReceiveReply(p, want)
             \/ \E timeout \in Timeouts : SetReplyTimeout(p, timeout)
             \/ ResetAndPut(p)
      PROVE  UNCHANGED watcher
  BY <1>8 DEF Close, SendRequest, SetReplyTimeout, ReplyTimesOut, TakeReply,
     ReceiveReply, ResetAndPut
<1>9. Reader \/ Environment => UNCHANGED watcher
  BY DEF Reader, DeliverReply, DropReply, Environment, VppSendsDetail,
     VppReplies, VppMovesOn, Disconnect, Reconnect
<1>10. UNCHANGED vars => UNCHANGED watcher
  BY DEF vars
<1> QED BY <1>3, <1>4, <1>5, <1>6, <1>7, <1>8, <1>9, <1>10 DEF Next, User, Watcher

(* What is lost was on its way, so it was sent.                             *)
LEMMA NextLostSent ==
    ASSUME TypeOK, NEW c, NEW f, Numbered(c, f), Requested(f), Answered(f),
           LostSent, [Next]_vars
    PROVE  LostSent'
<1>1. DOMAIN f = 1..issued /\ issued \in Nat
  BY BoundAssumption DEF TypeOK, Numbered
<1>2. issued' = issued \/ issued' = issued + 1
  <2>1. ASSUME NEW p \in Objects, NEW multi \in BOOLEAN, SendRequest(p, multi)
        PROVE  issued' = issued + 1
    BY <2>1 DEF SendRequest
  <2>2. ASSUME NEW p \in Objects,
               \/ NewAPIChannel(p) \/ Close(p) \/ TakeReply(p) \/ ReplyTimesOut(p)
               \/ \E want \in handles[p] : ReceiveReply(p, want)
               \/ \E timeout \in Timeouts : SetReplyTimeout(p, timeout)
               \/ Watcher(p) \/ ResetAndPut(p)
        PROVE  issued' = issued
    BY <2>2 DEF NewAPIChannel, Close, ReceiveReply, TakeReply, ReplyTimesOut,
       SetReplyTimeout, Watcher,
       TakeRequest, RejectRequest, SendToVPP, SendFails, SendPing, SendPingFails,
       SendErrorReply, DropErrorReply, ReleaseFromMap, ReleasePutId, ResetAndPut, vppVars
  <2>3. Reader \/ Environment => issued' = issued
    BY DEF Reader, Environment, DeliverReply, DropReply, VppSendsDetail,
       VppReplies, VppMovesOn, Disconnect, Reconnect, vppVars
  <2>4. UNCHANGED vars => issued' = issued
    BY DEF vars
  <2> QED BY <2>1, <2>2, <2>3, <2>4 DEF Next, User
<1>3. lost' \subseteq lost \cup DOMAIN f => LostSent'
  BY <1>1, <1>2 DEF LostSent
<1>4. ASSUME NEW p \in Objects, NEW w \in handles[p], ReceiveReply(p, w)
      PROVE  lost' \subseteq lost \cup DOMAIN f
  <2>1. delayedReply[p] # NoReply => delayedReply[p].tag \in DOMAIN f
    BY DEF Answered, Answers
  <2> QED BY <1>4, <2>1 DEF ReceiveReply, ReturnReply, Ignore
<1>5. ASSUME NEW p \in Objects, TakeReply(p)
      PROVE  lost' \subseteq lost \cup DOMAIN f
  <2>1. replyChan[p] \in Seq(Answers(f, p)) /\ replyChan[p] # <<>>
    BY <1>5 DEF Answered, TakeReply
  <2>2. Head(replyChan[p]) \in Answers(f, p)
    BY <2>1
  <2>3. Head(replyChan[p]).tag \in DOMAIN f
    BY <2>2 DEF Answers
  <2> QED BY <1>5, <2>3 DEF TakeReply, ReturnReply, Ignore
<1>6. ASSUME NEW p \in Objects, DropErrorReply(p)
      PROVE  lost' \subseteq lost \cup DOMAIN f
  <2>1. watcher[p].req \in Asked(f, p)
    BY <1>6 DEF DropErrorReply, Requested, AskedAs
  <2> QED BY <1>6, <2>1 DEF DropErrorReply, Asked
<1>7. DropReply => lost' \subseteq lost \cup DOMAIN f
  BY DEF DropReply, Answered, Answers
<1>8. VppMovesOn => lost' \subseteq lost \cup DOMAIN f
  <2> SUFFICES ASSUME VppMovesOn PROVE lost' \subseteq lost \cup DOMAIN f
    OBVIOUS
  <2>1. vppQueue \in Seq(Carried(f)) /\ vppQueue # <<>>
    BY DEF Answered, VppMovesOn, VppReady
  <2>2. Head(vppQueue) \in Carried(f)
    BY <2>1
  <2> QED BY <2>2 DEF VppMovesOn, Carried
<1>9. Disconnect => lost' \subseteq lost \cup DOMAIN f
  <2>1. vppQueue \in Seq(Carried(f))
    BY DEF Answered
  <2>2. \A k \in DOMAIN vppQueue : vppQueue[k].tag \in DOMAIN f
    <3>1. \A k \in DOMAIN vppQueue : vppQueue[k] \in Carried(f)
      BY <2>1
    <3> QED BY <3>1 DEF Carried
  <2> QED BY <2>2 DEF Disconnect
<1>10. UNCHANGED lost => lost' \subseteq lost \cup DOMAIN f
  OBVIOUS
<1>11. ASSUME NEW p \in Objects,
             \/ NewAPIChannel(p) \/ Close(p) \/ ReplyTimesOut(p)
             \/ \E multi \in BOOLEAN : SendRequest(p, multi)
             \/ \E timeout \in Timeouts : SetReplyTimeout(p, timeout)
             \/ TakeRequest(p) \/ RejectRequest(p)
             \/ SendToVPP(p) \/ SendFails(p)
             \/ SendPing(p) \/ SendPingFails(p) \/ SendErrorReply(p)
             \/ ReleaseFromMap(p) \/ ReleasePutId(p) \/ ResetAndPut(p)
       PROVE  UNCHANGED lost
  BY <1>11 DEF NewAPIChannel, Close, SendRequest, SetReplyTimeout, ReplyTimesOut,
     TakeRequest, RejectRequest, SendToVPP, SendFails, SendPing, SendPingFails,
     SendErrorReply, ReleaseFromMap, ReleasePutId, ResetAndPut
<1>12. DeliverReply \/ VppSendsDetail \/ VppReplies \/ Reconnect => UNCHANGED lost
  BY DEF DeliverReply, VppSendsDetail, VppReplies, Reconnect
<1>13. UNCHANGED vars => UNCHANGED lost
  BY DEF vars
<1> QED BY <1>3, <1>4, <1>5, <1>6, <1>7, <1>8, <1>9, <1>10, <1>11, <1>12, <1>13
        DEF Next, User, Watcher, Reader, Environment

(* One place, or none when it is lost.                                      *)
LEMMA PlacesCounted ==
    ASSUME NEW o, NEW t, Placed(o, t)
    PROVE  Cardinality(Places(o, t)) = IF t \in lost THEN 0 ELSE 1
<1>1. PICK s \in Stages : At(o, t, s) /\ (s = "nowhere" <=> t \in lost)
  BY DEF Placed
<1>2. /\ IF s = "request" THEN Once(reqChan[o], t) ELSE Absent(reqChan[o], t)
      /\ Held(o, t) <=> s = "watcher"
      /\ IF s = "vpp" THEN Once(vppQueue, t) ELSE Absent(vppQueue, t)
      /\ Called(o, t) <=> s = "callback"
      /\ IF s = "reply" THEN Once(replyChan[o], t) ELSE Absent(replyChan[o], t)
      /\ Parked(o, t) <=> s = "delayed"
  BY <1>1 DEF At
<1> DEFINE A == {<<"request", k>> : k \in About(reqChan[o], t)}
           B == IF Held(o, t) THEN {<<"watcher", 1>>} ELSE {}
           C == {<<"vpp", k>> : k \in About(vppQueue, t)}
           D == IF Called(o, t) THEN {<<"callback", 1>>} ELSE {}
           E == {<<"reply", k>> : k \in About(replyChan[o], t)}
           G == IF Parked(o, t) THEN {<<"delayed", 1>>} ELSE {}
<1>3. Places(o, t) = A \cup B \cup C \cup D \cup E \cup G
  <2>1. {<<"watcher", 1>> : x \in {x \in {1} :
             /\ watcher[o].pc \in {"send", "reply"}
             /\ watcher[o].req.tag = t}} = B
    BY DEF Held
  <2>2. {<<"callback", 1>> : x \in {x \in {1} :
             callback # Idle /\ callback.ch = o /\ callback.reply.tag = t}} = D
    BY DEF Called
  <2>3. {<<"delayed", 1>> : x \in {x \in {1} :
             delayedReply[o] # NoReply /\ delayedReply[o].tag = t}} = G
    BY DEF Parked
  <2> HIDE DEF B, D, G
  <2> QED BY <2>1, <2>2, <2>3, Zenon DEF Places, About
<1>4. /\ Absent(reqChan[o], t) => A = {}
      /\ Absent(vppQueue, t) => C = {}
      /\ Absent(replyChan[o], t) => E = {}
  BY DEF Absent
<1>5. /\ Once(reqChan[o], t) => \E x : A = {x}
      /\ Once(vppQueue, t) => \E x : C = {x}
      /\ Once(replyChan[o], t) => \E x : E = {x}
  <2>1. Once(reqChan[o], t) => \E x : A = {x}
    <3> SUFFICES ASSUME NEW k, About(reqChan[o], t) = {k} PROVE \E x : A = {x}
      BY DEF Once
    <3>1. A = {<<"request", k>>}
      OBVIOUS
    <3> QED BY <3>1
  <2>2. Once(vppQueue, t) => \E x : C = {x}
    <3> SUFFICES ASSUME NEW k, About(vppQueue, t) = {k} PROVE \E x : C = {x}
      BY DEF Once
    <3>1. C = {<<"vpp", k>>}
      OBVIOUS
    <3> QED BY <3>1
  <2>3. Once(replyChan[o], t) => \E x : E = {x}
    <3> SUFFICES ASSUME NEW k, About(replyChan[o], t) = {k} PROVE \E x : E = {x}
      BY DEF Once
    <3>1. E = {<<"reply", k>>}
      OBVIOUS
    <3> QED BY <3>1
  <2> QED BY <2>1, <2>2, <2>3
<1>6. /\ ~Held(o, t) => B = {}
      /\ ~Called(o, t) => D = {}
      /\ ~Parked(o, t) => G = {}
  OBVIOUS
<1>7. /\ Held(o, t) => \E x : B = {x}
      /\ Called(o, t) => \E x : D = {x}
      /\ Parked(o, t) => \E x : G = {x}
  OBVIOUS
<1>8. s \in {"request", "watcher", "vpp", "callback", "reply", "delayed", "nowhere"}
  BY DEF Stages
<1> HIDE DEF A, B, C, D, E, G
<1>9. IF s = "nowhere" THEN Places(o, t) = {} ELSE \E x : Places(o, t) = {x}
  BY <1>2, <1>3, <1>4, <1>5, <1>6, <1>7, <1>8
<1>10. Cardinality({}) = 0 /\ \A x : Cardinality({x}) = 1
  BY FS_EmptySet, FS_Singleton
<1> QED BY <1>1, <1>9, <1>10

(* The answer to a simple request its user waits on is in one place only, or*)
(* lost in one of the named ways, for any number of objects, requests,      *)
(* faults and timeouts, as long as the IDs have not all been handed out once*)
(* and the numbers have not gone round.                                     *)
THEOREM SimpleReplyAccountedCorrect ==
    ASSUME MaxOpens <= MaxID, MaxRequests <= SeqMod
    PROVE  Spec => []SimpleReplyAccounted
<1>1. Init => AccountInv
  <2>1. Init => ReplyInv
    BY InitTypeOK, InitPhases, InitReplyInv DEF ReplyInv
  <2>2. Init => SlotFree /\ PingsEndDumps /\ LostSent /\ Accounted
    BY DEF Init, Idle, SlotFree, PingsEndDumps, LostSent, Accounted
  <2> QED BY <2>1, <2>2 DEF AccountInv
<1>2. ASSUME AccountInv, [Next]_vars
      PROVE  AccountInv'
  <2>1. ReplyInv'
    BY <1>2, NextTypeOK, NextPhases, NextIdsExclusive, NextExplained, NextFreshIds,
       NextDrained, NextForgotten DEF ReplyInv, AccountInv
  <2>2. SlotFree' /\ PingsEndDumps'
    BY <1>2, NextSlotFree, NextPingsEndDumps DEF ReplyInv, AccountInv
  <2>3. LostSent'
    BY <1>2, NextLostSent DEF ReplyInv, AccountInv, Explained
  <2>4. Accounted'
    BY <1>2, NextAccounted
  <2> QED BY <2>1, <2>2, <2>3, <2>4 DEF AccountInv
<1>3. AccountInv => SimpleReplyAccounted
  BY PlacesCounted DEF AccountInv, Accounted, SimpleReplyAccounted
<1> QED BY <1>1, <1>2, <1>3, PTL DEF Spec

-----------------------------------------------------------------------------
(* The end of a multipart reply                                             *)

(* A watcher has a request in hand.                                         *)
Working(o) == watcher[o].pc \in {"send", "ping", "reply"}

(* The tag t is that of no simple request that is waited on.                *)
OfDump(t) == \A o \in Objects : \A h \in handles[o] : h.tag = t => h.multi

(* Of the request t, which its last reply comes behind, nothing is left in  *)
(* any reqChan; with a watcher; with VPP; with the reader goroutine; in any *)
(* replyChan; in any slot.                                                  *)
Dequeued(t)  == \A o \in Objects : Absent(reqChan[o], t)
Processed(t) == Dequeued(t) /\ \A o \in Objects : ~(Working(o) /\ watcher[o].req.tag = t)
Served(t)    == Processed(t) /\ Absent(vppQueue, t) /\ OfDump(t)
Handed(t)    == Served(t) /\ ~(callback.pc = "send" /\ callback.reply.tag = t)
Fetched(t)   == Handed(t) /\ \A o \in Objects : Absent(replyChan[o], t)
Finished(t)  == Fetched(t) /\ \A o \in Objects : ~Parked(o, t)

(* Nothing of a request is behind position k of q.                          *)
Behind(q, k) == \A j \in DOMAIN q : j > k => q[j].tag # q[k].tag

(* The last reply of a request comes behind its details at every stage.     *)
RequestsOnce ==
    \A o \in Objects : /\ \A k \in DOMAIN reqChan[o] : Behind(reqChan[o], k)
                       /\ Working(o) => Absent(reqChan[o], watcher[o].req.tag)
PingLast   == \A k \in DOMAIN vppQueue : vppQueue[k].ping =>
                  Processed(vppQueue[k].tag) /\ Behind(vppQueue, k)
CallLast   == callback.pc = "send" /\ callback.reply.kind = "last" =>
                  Served(callback.reply.tag)
ReplyLast  == \A o \in Objects : \A k \in DOMAIN replyChan[o] :
                  replyChan[o][k].kind = "last" =>
                     Handed(replyChan[o][k].tag) /\ Behind(replyChan[o], k)
SlotLast   == \A o \in Objects : delayedReply[o].kind = "last" =>
                  Fetched(delayedReply[o].tag)
ResultLast == \A o \in Objects : result[o].kind = "last" =>
                  result[o].want \in 1..issued /\ Finished(result[o].want)

LastInOrder == RequestsOnce /\ PingLast /\ CallLast /\ ReplyLast /\ SlotLast /\ ResultLast

(* The user waits at the select for a request it has a context of.          *)
Awaited == \A o \in Objects : user[o].pc = "receiving" => user[o].want \in handles[o]

(* The details of t on their way to the user of o: with the reader          *)
(* goroutine, in replyChan, in the slot.                                    *)
Details(q, t) == {k \in DOMAIN q : q[k].tag = t /\ q[k].kind = "data"}
InHand(o, t) == IF /\ callback.pc = "send" /\ callback.ch = o
                   /\ callback.reply.tag = t /\ callback.reply.kind = "data"
                THEN 1 ELSE 0
InSlot(o, t) == IF delayedReply[o].kind = "data" /\ delayedReply[o].tag = t THEN 1 ELSE 0
OnTheWay(o, t) == InHand(o, t) + Cardinality(Details(replyChan[o], t)) + InSlot(o, t)

(* Every detail VPP has sent for a dump its user waits on was returned or   *)
(* is on its way, unless one was lost.                                      *)
DetailsCounted ==
    \A o \in Objects : \A h \in handles[o] :
        h.multi /\ h.tag \notin lost => sent[h.tag] = received[h.tag] + OnTheWay(o, h.tag)

(* Nothing is counted for a request that was not sent.                      *)
Uncounted == \A t \in Tags : t > issued => sent[t] = 0 /\ received[t] = 0

Complete == LastInOrder /\ Awaited /\ DetailsCounted /\ Uncounted
(* Who sent what is known, wherever it is.                                  *)
Located(f) ==
    /\ \A o \in Objects :
          /\ \A k \in DOMAIN reqChan[o] : /\ reqChan[o][k].tag \in 1..issued
                                          /\ f[reqChan[o][k].tag].obj = o
          /\ Working(o) => /\ watcher[o].req.tag \in 1..issued
                           /\ f[watcher[o].req.tag].obj = o
          /\ \A k \in DOMAIN replyChan[o] : /\ replyChan[o][k].tag \in 1..issued
                                            /\ f[replyChan[o][k].tag].obj = o
          /\ delayedReply[o] # NoReply => /\ delayedReply[o].tag \in 1..issued
                                          /\ f[delayedReply[o].tag].obj = o
          /\ \A h \in handles[o] : h.tag \in 1..issued /\ f[h.tag].obj = o
    /\ \A k \in DOMAIN vppQueue : vppQueue[k].tag \in 1..issued
    /\ callback.pc = "send" => /\ callback.reply.tag \in 1..issued
                               /\ f[callback.reply.tag].obj = callback.ch

(* What is known of a request is known of all its messages.                 *)
LEMMA OwnersKnown ==
    ASSUME NEW c, NEW f, Numbered(c, f), Requested(f), Answered(f)
    PROVE  Located(f)
<1>1. DOMAIN f = 1..issued
  BY DEF Numbered
<1>2. ASSUME NEW o \in Objects, NEW i, NEW q \in AskedAs(f, o, i)
      PROVE  q.tag \in 1..issued /\ f[q.tag].obj = o
  BY <1>1 DEF AskedAs, Asked
<1>3. ASSUME NEW o, NEW r \in Answers(f, o)
      PROVE  r.tag \in 1..issued /\ f[r.tag].obj = o
  BY <1>1 DEF Answers
<1>4. ASSUME NEW m \in Carried(f)
      PROVE  m.tag \in 1..issued
  BY <1>1 DEF Carried
<1>5. ASSUME NEW o \in Objects
      PROVE  /\ \A k \in DOMAIN reqChan[o] : /\ reqChan[o][k].tag \in 1..issued
                                             /\ f[reqChan[o][k].tag].obj = o
             /\ Working(o) => /\ watcher[o].req.tag \in 1..issued
                              /\ f[watcher[o].req.tag].obj = o
             /\ \A h \in handles[o] : h.tag \in 1..issued /\ f[h.tag].obj = o
  <2>1. /\ reqChan[o] \in Seq(AskedAs(f, o, id[o]))
        /\ Working(o) => watcher[o].req \in AskedAs(f, o, id[o])
        /\ handles[o] \subseteq AskedAs(f, o, id[o])
    BY DEF Requested, Working
  <2>2. \A k \in DOMAIN reqChan[o] : reqChan[o][k] \in AskedAs(f, o, id[o])
    BY <2>1
  <2> QED BY <1>2, <2>1, <2>2
<1>6. ASSUME NEW o \in Objects
      PROVE  /\ \A k \in DOMAIN replyChan[o] : /\ replyChan[o][k].tag \in 1..issued
                                               /\ f[replyChan[o][k].tag].obj = o
             /\ delayedReply[o] # NoReply => /\ delayedReply[o].tag \in 1..issued
                                             /\ f[delayedReply[o].tag].obj = o
  <2>1. /\ replyChan[o] \in Seq(Answers(f, o))
        /\ delayedReply[o] # NoReply => delayedReply[o] \in Answers(f, o)
    BY DEF Answered
  <2>2. \A k \in DOMAIN replyChan[o] : replyChan[o][k] \in Answers(f, o)
    BY <2>1
  <2> QED BY <1>3, <2>1, <2>2
<1>7. \A k \in DOMAIN vppQueue : vppQueue[k].tag \in 1..issued
  <2>1. \A k \in DOMAIN vppQueue : vppQueue[k] \in Carried(f)
    BY DEF Answered
  <2> QED BY <1>4, <2>1
<1>8. callback.pc = "send" => /\ callback.reply.tag \in 1..issued
                              /\ f[callback.reply.tag].obj = callback.ch
  BY <1>3 DEF Answered
<1> QED BY <1>5, <1>6, <1>7, <1>8 DEF Located

(* How a step moves requests from reqChan to the watcher.                   *)
RequestsStay(p) == \/ reqChan'[p] = reqChan[p]
                   \/ \E q \in Request : /\ q.tag = issued + 1 /\ issued' = issued + 1
                                         /\ reqChan'[p] = Append(reqChan[p], q)
RequestTaken(p) == /\ reqChan[p] # <<>> /\ reqChan'[p] = Tail(reqChan[p])
                   /\ watcher'[p].req = Head(reqChan[p])

(* Requests are appended, or taken by a watcher, or stay.                   *)
LEMMA RequestMoves ==
    ASSUME TypeOK, [Next]_vars, NEW p \in Objects
    PROVE  \/ /\ RequestsStay(p)
              /\ Working(p)' => Working(p) /\ watcher'[p].req = watcher[p].req
           \/ RequestTaken(p) /\ Working(p)' /\ ~Working(p)
<1> DEFINE Goal == \/ /\ RequestsStay(p)
                      /\ Working(p)' => Working(p) /\ watcher'[p].req = watcher[p].req
                   \/ RequestTaken(p) /\ Working(p)' /\ ~Working(p)
<1>1. reqChan \in [Objects -> Seq(Request)] /\ watcher \in [Objects -> WatcherState]
  BY DEF TypeOK
<1>2. ASSUME UNCHANGED reqChan,
             \/ UNCHANGED watcher
             \/ \E o \in Objects : \E w :
                   /\ watcher' = [watcher EXCEPT ![o] = w]
                   /\ w.pc \in {"send", "ping", "reply"} => Working(o) /\ w.req = watcher[o].req
      PROVE  Goal
  <2>1. Working(p)' => Working(p) /\ watcher'[p].req = watcher[p].req
    BY <1>1, <1>2 DEF Working
  <2> QED BY <1>2, <2>1 DEF RequestsStay
<1>3. ASSUME NEW o \in Objects, NEW multi \in BOOLEAN, SendRequest(o, multi)
      PROVE  Goal
  <2> PICK q : q = [tag |-> issued + 1, seq |-> nextSeqNum(lastSeqNum[o]), multi |-> multi]
    OBVIOUS
  <2>1. /\ reqChan' = [reqChan EXCEPT ![o] = Append(reqChan[o], q)]
        /\ UNCHANGED watcher /\ issued' = issued + 1 /\ issued < MaxRequests
    BY <1>3 DEF SendRequest
  <2>2. q \in Request /\ q.tag = issued + 1
    <3>1. issued + 1 \in Tags
      BY <2>1, BoundAssumption DEF TypeOK, Tags
    <3>2. nextSeqNum(lastSeqNum[o]) \in SeqNum
      BY NextSeqNumType DEF TypeOK
    <3> QED BY <3>1, <3>2 DEF Request
  <2>3. RequestsStay(p)
    <3>1. p = o => reqChan'[p] = Append(reqChan[p], q)
      BY <1>1, <2>1
    <3>2. p # o => reqChan'[p] = reqChan[p]
      BY <1>1, <2>1
    <3> QED BY <2>1, <2>2, <3>1, <3>2 DEF RequestsStay
  <2>4. Working(p)' => Working(p) /\ watcher'[p].req = watcher[p].req
    BY <2>1 DEF Working
  <2> QED BY <2>3, <2>4
<1>4. ASSUME NEW o \in Objects, TakeRequest(o) \/ RejectRequest(o)
      PROVE  Goal
  <2>1. /\ watcher[o].pc = "recv" /\ reqChan[o] # <<>>
        /\ reqChan' = [reqChan EXCEPT ![o] = Tail(reqChan[o])]
        /\ \E pc \in {"send", "reply"} :
              watcher' = [watcher EXCEPT ![o] = [pc |-> pc, req |-> Head(reqChan[o])]]
    BY <1>4 DEF TakeRequest, RejectRequest
  <2>2. CASE p # o
    <3>1. reqChan'[p] = reqChan[p] /\ watcher'[p] = watcher[p]
      BY <1>1, <2>1, <2>2
    <3>2. Working(p)' => Working(p) /\ watcher'[p].req = watcher[p].req
      BY <3>1 DEF Working
    <3> QED BY <3>1, <3>2 DEF RequestsStay
  <2>3. CASE p = o
    <3>1. /\ reqChan'[p] = Tail(reqChan[p]) /\ watcher'[p].req = Head(reqChan[p])
          /\ watcher'[p].pc \in {"send", "reply"}
      BY <1>1, <2>1, <2>3
    <3> QED BY <2>1, <2>3, <3>1 DEF RequestTaken, Working
  <2> QED BY <2>2, <2>3
<1>5. ASSUME NEW o \in Objects,
             \/ NewAPIChannel(o) \/ SendToVPP(o) \/ SendFails(o) \/ SendPing(o)
             \/ SendPingFails(o) \/ SendErrorReply(o) \/ DropErrorReply(o)
             \/ ReleaseFromMap(o) \/ ReleasePutId(o)
      PROVE  Goal
  <2>1. UNCHANGED reqChan
    BY <1>5 DEF NewAPIChannel, SendToVPP, SendFails, SendPing, SendPingFails,
       SendErrorReply, DropErrorReply, ReleaseFromMap, ReleasePutId, vppVars
  <2>2. \E w : /\ watcher' = [watcher EXCEPT ![o] = w]
               /\ w.pc \in {"send", "ping", "reply"} => Working(o) /\ w.req = watcher[o].req
    <3>1. CASE SendToVPP(o) \/ SendFails(o)
      <4>1. Working(o)
        BY <3>1 DEF SendToVPP, SendFails, Working
      <4>2. \/ watcher' = [watcher EXCEPT ![o] = [pc |-> "recv"]]
            \/ watcher' = [watcher EXCEPT ![o] = [pc |-> "ping", req |-> watcher[o].req]]
            \/ watcher' = [watcher EXCEPT ![o] = [pc |-> "reply", req |-> watcher[o].req]]
        BY <3>1 DEF SendToVPP, SendFails, WatcherGoes
      <4> QED BY <4>1, <4>2
    <3>2. CASE \/ NewAPIChannel(o) \/ SendPing(o)
               \/ SendPingFails(o) \/ SendErrorReply(o) \/ DropErrorReply(o)
               \/ ReleaseFromMap(o) \/ ReleasePutId(o)
      <4>1. \/ watcher' = [watcher EXCEPT ![o] = [pc |-> "recv"]]
            \/ watcher' = [watcher EXCEPT ![o] = [pc |-> "putId"]]
            \/ watcher' = [watcher EXCEPT ![o] = [pc |-> "idle"]]
        BY <3>2 DEF NewAPIChannel, SendPing, SendPingFails, SendErrorReply,
           DropErrorReply, ReleaseFromMap, ReleasePutId, Idle
      <4> QED BY <4>1
    <3> QED BY <1>5, <3>1, <3>2
  <2> HIDE DEF Goal
  <2> QED BY <1>2, <2>1, <2>2
<1>6. ASSUME NEW o \in Objects,
             \/ Close(o) \/ \E want \in handles[o] : ReceiveReply(o, want)
             \/ TakeReply(o) \/ ReplyTimesOut(o)
             \/ \E timeout \in Timeouts : SetReplyTimeout(o, timeout)
             \/ ResetAndPut(o)
      PROVE  UNCHANGED <<reqChan, watcher>>
  BY <1>6 DEF Close, ReceiveReply, TakeReply, ReplyTimesOut, SetReplyTimeout, ResetAndPut
<1>7. Reader \/ Environment => UNCHANGED <<reqChan, watcher>>
  BY DEF Reader, DeliverReply, DropReply, Environment, VppSendsDetail, VppReplies,
     VppMovesOn, Disconnect, Reconnect
<1>8. UNCHANGED vars => UNCHANGED <<reqChan, watcher>>
  BY DEF vars
<1> HIDE DEF Goal
<1>9. Goal
  BY <1>2, <1>3, <1>4, <1>5, <1>6, <1>7, <1>8 DEF Next, User, Watcher
<1> QED BY <1>9 DEF Goal
(* How a step moves requests on to VPP.                                     *)
RequestSent(p, m) == /\ Working(p) /\ m.tag = watcher[p].req.tag
                     /\ vppQueue' = Append(vppQueue, m)
                     /\ UNCHANGED reqChan
                     /\ m.ping => /\ ~Working(p)'
                                  /\ \A o \in Objects \ {p} : watcher'[o] = watcher[o]

(* What a watcher sends.                                                    *)
LEMMA SentMessage ==
    ASSUME TypeOK, NEW p \in Objects, Working(p), NEW ping \in BOOLEAN
    PROVE  [context |-> packRequestContext(id[p], watcher[p].req.multi, watcher[p].req.seq),
            tag |-> watcher[p].req.tag, ping |-> ping] \in Message
<1>1. watcher[p].req \in Request
  BY WatcherReq DEF Working
<1>2. packRequestContext(id[p], watcher[p].req.multi, watcher[p].req.seq) \in ContextNum
  <2>1. id[p] \in Nat
    BY PoolAssumption DEF TypeOK
  <2> QED BY <1>1, <2>1, PackType DEF Request
<1> QED BY <1>1, <1>2 DEF Message, Request

(* VPP's queue only grows by what a watcher has in hand.                    *)
LEMMA QueueMoves ==
    ASSUME TypeOK, [Next]_vars
    PROVE  \/ vppQueue' = vppQueue
           \/ vppQueue' = <<>>
           \/ vppQueue # <<>> /\ vppQueue' = Tail(vppQueue)
           \/ \E p \in Objects, m \in Message : RequestSent(p, m)
<1> DEFINE Goal == \/ vppQueue' = vppQueue
                   \/ vppQueue' = <<>>
                   \/ vppQueue # <<>> /\ vppQueue' = Tail(vppQueue)
                   \/ \E p \in Objects, m \in Message : RequestSent(p, m)
<1>1. ASSUME NEW p \in Objects, SendToVPP(p) \/ SendPing(p)
      PROVE  Goal
  <2>1. CASE SendToVPP(p)
    <3> PICK m : m = [context |-> packRequestContext(id[p], watcher[p].req.multi,
                                                     watcher[p].req.seq),
                      tag |-> watcher[p].req.tag, ping |-> FALSE]
      OBVIOUS
    <3>1. watcher[p].pc = "send" /\ vppQueue' = Append(vppQueue, m) /\ UNCHANGED reqChan
      BY <2>1 DEF SendToVPP, ToVPP
    <3>2. m \in Message
      <4>1. Working(p)
        BY <3>1 DEF Working
      <4> QED BY <4>1, SentMessage
    <3>3. RequestSent(p, m)
      BY <3>1 DEF RequestSent, Working
    <3> QED BY <3>2, <3>3
  <2>2. CASE SendPing(p)
    <3> PICK m : m = [context |-> packRequestContext(id[p], watcher[p].req.multi,
                                                     watcher[p].req.seq),
                      tag |-> watcher[p].req.tag, ping |-> TRUE]
      OBVIOUS
    <3>1. /\ watcher[p].pc = "ping" /\ vppQueue' = Append(vppQueue, m) /\ UNCHANGED reqChan
          /\ watcher' = [watcher EXCEPT ![p] = [pc |-> "recv"]]
      BY <2>2 DEF SendPing, ToVPP
    <3>2. m \in Message
      <4>1. Working(p)
        BY <3>1 DEF Working
      <4> QED BY <4>1, SentMessage
    <3>3. watcher'[p].pc = "recv" /\ \A o \in Objects \ {p} : watcher'[o] = watcher[o]
      BY <3>1 DEF TypeOK
    <3>4. RequestSent(p, m)
      BY <3>1, <3>3 DEF RequestSent, Working
    <3> QED BY <3>2, <3>4
  <2> QED BY <1>1, <2>1, <2>2
<1>2. ASSUME NEW o \in Objects,
             \/ User(o) \/ TakeRequest(o) \/ RejectRequest(o) \/ SendFails(o)
             \/ SendPingFails(o) \/ SendErrorReply(o) \/ DropErrorReply(o)
             \/ ReleaseFromMap(o) \/ ReleasePutId(o) \/ ResetAndPut(o)
      PROVE  UNCHANGED vppQueue
  BY <1>2 DEF User, NewAPIChannel, Close, SendRequest, ReceiveReply, TakeReply,
     ReplyTimesOut, SetReplyTimeout, TakeRequest, RejectRequest, SendFails, SendPingFails,
     SendErrorReply, DropErrorReply, ReleaseFromMap, ReleasePutId, ResetAndPut, vppVars
<1>3. Reader \/ Environment => Goal
  BY DEF Reader, DeliverReply, DropReply, Environment, VppSendsDetail, VppReplies,
     VppMovesOn, Disconnect, Reconnect, vppVars, VppReady
<1>4. UNCHANGED vars => UNCHANGED vppQueue
  BY DEF vars
<1>5. Goal
  <2>1. UNCHANGED vppQueue => Goal
    OBVIOUS
  <2> HIDE DEF Goal
  <2> QED BY <1>1, <1>2, <1>3, <1>4, <2>1 DEF Next, Watcher
<1> QED BY <1>5

(* How the reader goroutine gets a reply to hand over.                      *)
LEMMA CallbackMoves ==
    ASSUME TypeOK, [Next]_vars
    PROVE  \/ callback' = callback
           \/ callback'.pc = "idle"
           \/ /\ vppQueue # <<>> /\ callback.pc = "idle" /\ callback'.pc = "send"
              /\ callback'.reply.tag = Head(vppQueue).tag
              /\ callback'.reply.kind = "last" =>
                    /\ VppReplies /\ Head(vppQueue).ping
                    /\ unpackRequestContext(Head(vppQueue).context).isMultipart
<1> DEFINE Goal == \/ callback' = callback
                   \/ callback'.pc = "idle"
                   \/ /\ vppQueue # <<>> /\ callback.pc = "idle" /\ callback'.pc = "send"
                      /\ callback'.reply.tag = Head(vppQueue).tag
                      /\ callback'.reply.kind = "last" =>
                            /\ VppReplies /\ Head(vppQueue).ping
                            /\ unpackRequestContext(Head(vppQueue).context).isMultipart
<1>1. CASE VppSendsDetail
  <2>1. VppReady /\ msgCallback(Head(vppQueue).context, Head(vppQueue).tag, FALSE)
    BY <1>1 DEF VppSendsDetail
  <2>2. \/ callback' = Idle
        \/ \E ch, seq : callback' = [pc |-> "send", ch |-> ch,
                reply |-> [tag |-> Head(vppQueue).tag, seq |-> seq, kind |-> "data"]]
    BY <2>1 DEF msgCallback
  <2> QED BY <2>1, <2>2 DEF VppReady, Idle
<1>2. CASE VppReplies
  <2> DEFINE u == unpackRequestContext(Head(vppQueue).context)
             last == Head(vppQueue).ping /\ u.isMultipart
  <2>1. VppReady /\ msgCallback(Head(vppQueue).context, Head(vppQueue).tag, Head(vppQueue).ping)
    BY <1>2 DEF VppReplies
  <2>2. \/ callback' = Idle
        \/ \E ch : callback' = [pc |-> "send", ch |-> ch,
                                reply |-> [tag |-> Head(vppQueue).tag, seq |-> u.seqNum,
                                           kind |-> IF last THEN "last" ELSE "data"]]
    BY <2>1 DEF msgCallback
  <2> HIDE DEF u
  <2> QED BY <1>2, <2>1, <2>2 DEF VppReady, Idle, u
<1>3. ASSUME NEW o \in Objects, User(o) \/ Watcher(o) \/ ResetAndPut(o)
      PROVE  UNCHANGED callback
  BY <1>3 DEF User, NewAPIChannel, Close, SendRequest, ReceiveReply, TakeReply,
     ReplyTimesOut, SetReplyTimeout, Watcher, TakeRequest, RejectRequest, SendToVPP,
     SendFails, SendPing, SendPingFails, SendErrorReply, DropErrorReply, ReleaseFromMap,
     ReleasePutId, ResetAndPut, vppVars
<1>4. Reader => callback' = Idle
  BY DEF Reader, DeliverReply, DropReply
<1>5. VppMovesOn \/ Disconnect \/ Reconnect \/ UNCHANGED vars => UNCHANGED callback
  BY DEF VppMovesOn, Disconnect, Reconnect, vppVars, vars
<1>6. Goal
  <2>1. callback' \in {callback, Idle} => Goal
    BY DEF Idle
  <2>2. VppSendsDetail \/ VppReplies => Goal
    BY <1>1, <1>2
  <2> HIDE DEF Goal
  <2> QED BY <1>3, <1>4, <1>5, <2>1, <2>2 DEF Next, Environment
<1> QED BY <1>6
(* How a step moves replies into replyChan and out of it.                   *)
Delivered(p)     == /\ callback.pc = "send" /\ callback.ch = p /\ callback' = Idle
                    /\ replyChan'[p] = Append(replyChan[p], callback.reply)
ErrorReported(p) == /\ Working(p)
                    /\ replyChan'[p] = Append(replyChan[p], ErrorReply(watcher[p].req))

(* A replyChan only grows by what the reader or a watcher has in hand.      *)
LEMMA ReplyMoves ==
    ASSUME TypeOK, [Next]_vars, NEW p \in Objects
    PROVE  \/ replyChan'[p] = replyChan[p] \/ replyChan'[p] = <<>>
           \/ replyChan[p] # <<>> /\ replyChan'[p] = Tail(replyChan[p])
           \/ Delivered(p) \/ ErrorReported(p)
<1> DEFINE Goal == \/ replyChan'[p] = replyChan[p] \/ replyChan'[p] = <<>>
                   \/ replyChan[p] # <<>> /\ replyChan'[p] = Tail(replyChan[p])
                   \/ Delivered(p) \/ ErrorReported(p)
<1>1. replyChan \in [Objects -> Seq(Reply)]
  BY DEF TypeOK
<1>3. ASSUME DeliverReply
      PROVE  Goal
  <2>1. callback.pc = "send" /\ callback' = Idle
        /\ replyChan' = [replyChan EXCEPT ![callback.ch] =
                            Append(replyChan[callback.ch], callback.reply)]
    BY <1>3 DEF DeliverReply
  <2>2. CASE callback.ch = p
    BY <1>1, <2>1, <2>2 DEF Delivered
  <2>3. CASE callback.ch # p
    BY <1>1, <2>1, <2>3
  <2> QED BY <2>2, <2>3
<1>4. ASSUME NEW o \in Objects, SendErrorReply(o)
      PROVE  Goal
  <2>1. Working(o) /\ replyChan' = [replyChan EXCEPT ![o] =
                            Append(replyChan[o], ErrorReply(watcher[o].req))]
    BY <1>4 DEF SendErrorReply, Working
  <2>2. CASE o = p
    BY <1>1, <2>1, <2>2 DEF ErrorReported
  <2>3. CASE o # p
    BY <1>1, <2>1, <2>3
  <2> QED BY <2>2, <2>3
<1>5. ASSUME NEW o \in Objects, TakeReply(o) \/ ResetAndPut(o)
      PROVE  Goal
  <2>1. \/ replyChan' = [replyChan EXCEPT ![o] = <<>>]
        \/ replyChan[o] # <<>> /\ replyChan' = [replyChan EXCEPT ![o] = Tail(replyChan[o])]
    BY <1>5 DEF TakeReply, ResetAndPut
  <2> QED BY <1>1, <2>1
<1>6. ASSUME NEW o \in Objects,
             \/ NewAPIChannel(o) \/ Close(o)
             \/ \E multi \in BOOLEAN : SendRequest(o, multi)
             \/ \E want \in handles[o] : ReceiveReply(o, want)
             \/ ReplyTimesOut(o)
             \/ \E timeout \in Timeouts : SetReplyTimeout(o, timeout)
             \/ TakeRequest(o) \/ RejectRequest(o) \/ SendToVPP(o) \/ SendFails(o)
             \/ SendPing(o) \/ SendPingFails(o) \/ DropErrorReply(o)
             \/ ReleaseFromMap(o) \/ ReleasePutId(o)
      PROVE  UNCHANGED replyChan
  BY <1>6 DEF NewAPIChannel, Close, SendRequest, ReceiveReply, ReplyTimesOut,
     SetReplyTimeout, TakeRequest, RejectRequest, SendToVPP, SendFails, SendPing,
     SendPingFails, DropErrorReply, ReleaseFromMap, ReleasePutId
<1>7. DropReply \/ Environment \/ UNCHANGED vars => UNCHANGED replyChan
  BY DEF DropReply, Environment, VppSendsDetail, VppReplies, VppMovesOn, Disconnect,
     Reconnect, vars
<1>8. UNCHANGED replyChan => Goal
  OBVIOUS
<1> HIDE DEF Goal
<1>9. Goal
  BY <1>3, <1>4, <1>5, <1>6, <1>7, <1>8 DEF Next, User, Watcher, Reader
<1> QED BY <1>9 DEF Goal

(* The user's two ways to a reply: the slot, which it looks at first, and   *)
(* the select.                                                              *)
FromSlot(p, want, reply) ==
    /\ ReceiveReply(p, want) /\ want \in handles[p]
    /\ reply = delayedReply[p] /\ reply # NoReply
FromSelect(p, want, reply) ==
    /\ TakeReply(p) /\ user[p].pc = "receiving" /\ want = user[p].want
    /\ replyChan[p] # <<>> /\ reply = Head(replyChan[p])
    /\ replyChan'[p] = Tail(replyChan[p])

Returned(p, want, reply) ==
    /\ FromSlot(p, want, reply) \/ FromSelect(p, want, reply)
    /\ ReturnReply(p, want, reply)
    /\ delayedReply'[p] = IF Verdict(want, reply) = "missing" THEN reply ELSE NoReply
    /\ result'[p] = [kind |-> Verdict(want, reply), want |-> want.tag, got |-> reply.tag]
    /\ UNCHANGED <<issued, lost, sent, callback, vppQueue, reqChan, watcher>>

(* Whatever else happens, the slot is kept or emptied, the last result is   *)
(* kept or forgotten, and nothing more is received.                         *)
LEMMA ReturnMoves ==
    ASSUME TypeOK, [Next]_vars
    PROVE  \/ \E p \in Objects : \E want, reply : Returned(p, want, reply)
           \/ /\ UNCHANGED received
              /\ \A o \in Objects : /\ delayedReply'[o] \in {delayedReply[o], NoReply}
                                    /\ result'[o] = result[o] \/ result'[o].kind # "last"
<1> DEFINE Quiet == /\ UNCHANGED received
                    /\ \A o \in Objects : /\ delayedReply'[o] \in {delayedReply[o], NoReply}
                                          /\ result'[o] = result[o] \/ result'[o].kind # "last"
           Goal == \/ \E p \in Objects : \E want, reply : Returned(p, want, reply)
                   \/ Quiet
<1>1. delayedReply = [o \in Objects |-> delayedReply[o]] /\ DOMAIN result = Objects
      /\ replyChan \in [Objects -> Seq(Reply)]
  BY DEF TypeOK
<1>2. NoReply.kind # "last"
  BY DEF NoReply
<1>3. ASSUME NEW p \in Objects, NEW want, NEW reply,
             FromSlot(p, want, reply) \/ FromSelect(p, want, reply),
             ReturnReply(p, want, reply)
      PROVE  Goal
  <2>1. /\ delayedReply'[p] = IF Verdict(want, reply) = "missing" THEN reply ELSE NoReply
        /\ result'[p] = [kind |-> Verdict(want, reply), want |-> want.tag, got |-> reply.tag]
        /\ UNCHANGED lost
    BY <1>1, <1>3 DEF ReturnReply
  <2>2. UNCHANGED <<issued, sent, callback, vppQueue, reqChan, watcher>>
    BY <1>3 DEF FromSlot, FromSelect, ReceiveReply, TakeReply, vppVars
  <2>3. Returned(p, want, reply)
    BY <1>3, <2>1, <2>2 DEF Returned
  <2> QED BY <2>3
<1>4. ASSUME NEW p \in Objects, NEW want \in handles[p], ReceiveReply(p, want)
      PROVE  Goal
  <2>1. CASE delayedReply[p] # NoReply /\ ReturnReply(p, want, delayedReply[p])
    <3>1. FromSlot(p, want, delayedReply[p])
      BY <1>4, <2>1 DEF FromSlot
    <3> HIDE DEF Goal
    <3> QED BY <1>3, <2>1, <3>1
  <2>2. CASE ~(delayedReply[p] # NoReply /\ ReturnReply(p, want, delayedReply[p]))
    <3>1. /\ delayedReply' = [delayedReply EXCEPT ![p] = NoReply] /\ UNCHANGED received
          /\ result' = [result EXCEPT ![p] = NoReply]
      BY <1>4, <2>2 DEF ReceiveReply
    <3> QED BY <1>1, <1>2, <3>1
  <2> QED BY <2>1, <2>2
<1>5. ASSUME NEW p \in Objects, TakeReply(p)
      PROVE  Goal
  <2>1. CASE ReturnReply(p, user[p].want, Head(replyChan[p]))
    <3>1. FromSelect(p, user[p].want, Head(replyChan[p]))
      <4>1. /\ user[p].pc = "receiving" /\ replyChan[p] # <<>>
            /\ replyChan' = [replyChan EXCEPT ![p] = Tail(replyChan[p])]
        BY <1>5 DEF TakeReply
      <4> QED BY <1>1, <1>5, <4>1 DEF FromSelect
    <3> HIDE DEF Goal
    <3> QED BY <1>3, <2>1, <3>1
  <2>2. CASE ~ReturnReply(p, user[p].want, Head(replyChan[p]))
    <3>1. UNCHANGED <<received, delayedReply, result>>
      BY <1>5, <2>2 DEF TakeReply
    <3> QED BY <3>1
  <2> QED BY <2>1, <2>2
<1>6. ASSUME NEW p \in Objects, ReplyTimesOut(p) \/ Close(p)
             \/ \E multi \in BOOLEAN : SendRequest(p, multi)
      PROVE  Quiet
  <2>1. /\ UNCHANGED <<received, delayedReply>>
        /\ \/ result' = [result EXCEPT ![p] = NoReply]
           \/ result' = [result EXCEPT ![p] = [kind |-> "timeout", want |-> user[p].want.tag]]
    BY <1>6 DEF ReplyTimesOut, Close, SendRequest
  <2> QED BY <1>1, <1>2, <2>1
<1>7. ASSUME NEW p \in Objects,
             \/ NewAPIChannel(p) \/ \E timeout \in Timeouts : SetReplyTimeout(p, timeout)
             \/ Watcher(p) \/ ResetAndPut(p)
      PROVE  UNCHANGED <<received, delayedReply, result>>
  BY <1>7 DEF NewAPIChannel, SetReplyTimeout, Watcher, TakeRequest, RejectRequest,
     SendToVPP, SendFails, SendPing, SendPingFails, SendErrorReply, DropErrorReply,
     ReleaseFromMap, ReleasePutId, ResetAndPut, userVars
<1>8. Reader \/ Environment \/ UNCHANGED vars => UNCHANGED <<received, delayedReply, result>>
  BY DEF Reader, DeliverReply, DropReply, Environment, VppSendsDetail, VppReplies,
     VppMovesOn, Disconnect, Reconnect, userVars, vars
<1>9. UNCHANGED <<received, delayedReply, result>> => Quiet
  OBVIOUS
<1>10. Goal
  <2>1. Quiet => Goal
    OBVIOUS
  <2> HIDE DEF Goal, Quiet
  <2> QED BY <1>4, <1>5, <1>6, <1>7, <1>8, <1>9, <2>1 DEF Next, User
<1> QED BY <1>10
(* Nothing about a request comes of what is not about it.                   *)
LEMMA AbsentStays ==
    ASSUME NEW S, NEW q \in Seq(S), NEW t, Absent(q, t)
    PROVE  /\ \A k \in DOMAIN q : q[k].tag # t
           /\ q # <<>> => Head(q).tag # t /\ Absent(Tail(q), t)
           /\ \A x \in S : x.tag # t => Absent(Append(q, x), t)
<1>1. \A k \in DOMAIN q : q[k].tag # t
  BY DEF Absent, About
<1>2. q # <<>> => Head(q).tag # t /\ Absent(Tail(q), t)
  BY TailPlaces DEF Keeps
<1>3. \A x \in S : x.tag # t => Absent(Append(q, x), t)
  BY AppendPlaces DEF Keeps
<1> QED BY <1>1, <1>2, <1>3

(* The error reply of a watcher, and the reply of the reader goroutine.     *)
LEMMA WorkingReply ==
    ASSUME TypeOK, NEW p \in Objects, Working(p)
    PROVE  ErrorReply(watcher[p].req) \in Reply
           /\ ErrorReply(watcher[p].req).tag = watcher[p].req.tag
           /\ ErrorReply(watcher[p].req).kind = "error"
<1>1. watcher[p].req \in Request
  BY WatcherReq DEF Working
<1> QED BY <1>1 DEF ErrorReply, Request, Reply

(* What the reader goroutine has in hand is for an object.                  *)
LEMMA CallbackReply ==
    ASSUME TypeOK, callback.pc = "send"
    PROVE  callback.reply \in Reply /\ callback.ch \in Objects
  BY DEF TypeOK, Idle

(* What has passed a stage does not come back to it.                        *)
LEMMA ClearStays ==
    ASSUME TypeOK, [Next]_vars, NEW t \in 1..issued
    PROVE  /\ Dequeued(t) => Dequeued(t)'
           /\ Processed(t) => Processed(t)'
           /\ Served(t) => Served(t)'
           /\ Handed(t) => Handed(t)'
           /\ Fetched(t) => Fetched(t)'
           /\ Finished(t) => Finished(t)'
<1>1. /\ reqChan \in [Objects -> Seq(Request)] /\ replyChan \in [Objects -> Seq(Reply)]
      /\ vppQueue \in Seq(Message) /\ issued \in Nat /\ t # issued + 1
  BY BoundAssumption DEF TypeOK
<1>2. ASSUME Dequeued(t)
      PROVE  Dequeued(t)'
  <2> SUFFICES ASSUME NEW p \in Objects PROVE Absent(reqChan'[p], t)
    BY DEF Dequeued
  <2>1. Absent(reqChan[p], t) /\ reqChan[p] \in Seq(Request)
    BY <1>1, <1>2 DEF Dequeued
  <2>2. CASE RequestsStay(p)
    <3>1. ASSUME NEW q \in Request, q.tag = issued + 1, reqChan'[p] = Append(reqChan[p], q)
          PROVE  Absent(reqChan'[p], t)
      <4>1. q.tag # t
        BY <1>1, <3>1
      <4>2. Absent(Append(reqChan[p], q), t)
        BY <2>1, <4>1, AbsentStays
      <4> QED BY <3>1, <4>2
    <3> QED BY <2>1, <2>2, <3>1 DEF RequestsStay
  <2>3. CASE RequestTaken(p)
    BY <2>1, <2>3, AbsentStays DEF RequestTaken
  <2> QED BY <2>2, <2>3, RequestMoves
<1>3. ASSUME Processed(t)
      PROVE  Processed(t)'
  <2>1. Dequeued(t)'
    BY <1>2, <1>3 DEF Processed
  <2>2. ASSUME NEW p \in Objects, Working(p)', watcher'[p].req.tag = t
        PROVE  FALSE
    <3>1. CASE Working(p) /\ watcher'[p].req = watcher[p].req
      BY <1>3, <2>2, <3>1 DEF Processed
    <3>2. CASE RequestTaken(p)
      <4>1. Absent(reqChan[p], t) /\ reqChan[p] \in Seq(Request)
        BY <1>1, <1>3 DEF Processed, Dequeued
      <4> QED BY <2>2, <3>2, <4>1, AbsentStays DEF RequestTaken
    <3> QED BY <2>2, <3>1, <3>2, RequestMoves
  <2> QED BY <2>1, <2>2 DEF Processed
<1>4. ASSUME Served(t)
      PROVE  Served(t)'
  <2>1. Processed(t)'
    BY <1>3, <1>4 DEF Served
  <2>2. Absent(vppQueue', t)
    <3>1. Absent(vppQueue, t)
      BY <1>4 DEF Served
    <3>2. ASSUME NEW p \in Objects, NEW m \in Message, RequestSent(p, m)
          PROVE  Absent(vppQueue', t)
      <4>1. m.tag # t
        BY <1>4, <3>2 DEF RequestSent, Served, Processed
      <4> QED BY <1>1, <3>1, <3>2, <4>1, AbsentStays DEF RequestSent
    <3>3. vppQueue # <<>> /\ vppQueue' = Tail(vppQueue) => Absent(vppQueue', t)
      BY <1>1, <3>1, AbsentStays
    <3>4. vppQueue' = <<>> => Absent(vppQueue', t)
      BY SamePlaces
    <3> QED BY <3>1, <3>2, <3>3, <3>4, QueueMoves
  <2>3. OfDump(t)'
    <3> SUFFICES ASSUME NEW o \in Objects, NEW h \in handles'[o], h.tag = t
                 PROVE  h.multi
      BY DEF OfDump
    <3>1. h \in handles[o]
      BY <1>1, HandlesGrow
    <3> QED BY <1>4, <3>1 DEF Served, OfDump
  <2> QED BY <2>1, <2>2, <2>3 DEF Served
<1>5. ASSUME Handed(t)
      PROVE  Handed(t)'
  <2>1. Served(t)'
    BY <1>4, <1>5 DEF Handed
  <2>2. ~(callback'.pc = "send" /\ callback'.reply.tag = t)
    <3>1. Absent(vppQueue, t)
      BY <1>5 DEF Handed, Served
    <3>2. vppQueue # <<>> => Head(vppQueue).tag # t
      BY <1>1, <3>1, AbsentStays
    <3> QED BY <1>5, <3>2, CallbackMoves DEF Handed
  <2> QED BY <2>1, <2>2 DEF Handed
<1>6. ASSUME Fetched(t)
      PROVE  Fetched(t)'
  <2>1. Handed(t)'
    BY <1>5, <1>6 DEF Fetched
  <2>2. ASSUME NEW p \in Objects
        PROVE  Absent(replyChan'[p], t)
    <3>1. Absent(replyChan[p], t) /\ replyChan[p] \in Seq(Reply)
      BY <1>1, <1>6 DEF Fetched
    <3>2. CASE Delivered(p)
      <4>1. callback.reply \in Reply
        BY <3>2, CallbackReply DEF Delivered
      <4>2. callback.reply.tag # t
        BY <1>6, <3>2 DEF Delivered, Fetched, Handed
      <4> QED BY <3>1, <3>2, <4>1, <4>2, AbsentStays DEF Delivered
    <3>3. CASE ErrorReported(p)
      <4>1. ErrorReply(watcher[p].req) \in Reply
            /\ ErrorReply(watcher[p].req).tag = watcher[p].req.tag
        BY <3>3, WorkingReply DEF ErrorReported
      <4>2. watcher[p].req.tag # t
        BY <1>6, <3>3 DEF ErrorReported, Fetched, Handed, Served, Processed
      <4> QED BY <3>1, <3>3, <4>1, <4>2, AbsentStays DEF ErrorReported
    <3>4. replyChan[p] # <<>> /\ replyChan'[p] = Tail(replyChan[p])
            => Absent(replyChan'[p], t)
      BY <3>1, AbsentStays
    <3>5. replyChan'[p] = <<>> => Absent(replyChan'[p], t)
      BY SamePlaces
    <3> QED BY <3>1, <3>2, <3>3, <3>4, <3>5, ReplyMoves
  <2> QED BY <2>1, <2>2 DEF Fetched
<1>7. ASSUME Finished(t)
      PROVE  Finished(t)'
  <2>1. Fetched(t)'
    BY <1>6, <1>7 DEF Finished
  <2>2. ASSUME NEW p \in Objects, Parked(p, t)'
        PROVE  FALSE
    <3>1. ~Parked(p, t)
      BY <1>7 DEF Finished
    <3>2. delayedReply'[p] \notin {delayedReply[p], NoReply}
      BY <2>2, <3>1 DEF Parked
    <3>3a. PICK o \in Objects : \E want, reply : Returned(o, want, reply)
      BY <3>2, ReturnMoves
    <3>3. PICK want, reply : Returned(o, want, reply)
      BY <3>3a
    <3>4. \E x : delayedReply' = [delayedReply EXCEPT ![o] = x]
      BY <3>3 DEF Returned, ReturnReply
    <3>5. o = p /\ delayedReply'[p] = reply
      BY <3>2, <3>3, <3>4 DEF Returned, TypeOK
    <3>6. FromSelect(p, want, reply)
      BY <3>2, <3>3, <3>5 DEF Returned, FromSlot
    <3>7. reply = Head(replyChan[p]) /\ replyChan[p] # <<>> /\ Absent(replyChan[p], t)
          /\ replyChan[p] \in Seq(Reply)
      BY <1>1, <1>7, <3>6 DEF FromSelect, Finished, Fetched
    <3>8. reply.tag # t
      BY <3>7, AbsentStays
    <3> QED BY <2>2, <3>5, <3>8 DEF Parked
  <2> QED BY <2>1, <2>2 DEF Finished
<1> QED BY <1>2, <1>3, <1>4, <1>5, <1>6, <1>7
(* What is last of its request stays so while others come behind it, and    *)
(* while the queue moves on.                                                *)
LEMMA BehindAppend ==
    ASSUME NEW S, NEW q \in Seq(S), NEW x \in S, NEW k \in DOMAIN Append(q, x)
    PROVE  \/ Append(q, x)[k] = x /\ Behind(Append(q, x), k)
           \/ /\ k \in DOMAIN q /\ Append(q, x)[k] = q[k]
              /\ Behind(q, k) /\ x.tag # q[k].tag => Behind(Append(q, x), k)
<1> PICK r : r = Append(q, x)
  OBVIOUS
<1> PICK n \in Nat : n = Len(q)
  OBVIOUS
<1>1. DOMAIN q = 1..n /\ DOMAIN r = 1..n + 1 /\ r[n + 1] = x
      /\ \A j \in 1..n : r[j] = q[j]
  OBVIOUS
<1>2. k \in 1..n + 1
  BY <1>1
<1>3. CASE k = n + 1
  <2>1. \A j \in 1..n + 1 : ~(j > k)
    BY <1>3
  <2>2. Behind(r, k)
    BY <1>1, <2>1 DEF Behind
  <2> QED BY <1>1, <1>3, <2>2
<1>4. CASE k # n + 1
  <2>1. k \in 1..n /\ r[k] = q[k]
    BY <1>1, <1>2, <1>4
  <2>2. ASSUME Behind(q, k), x.tag # q[k].tag, NEW j \in DOMAIN r, j > k
        PROVE  r[j].tag # r[k].tag
    <3>1. CASE j = n + 1
      <4>1. r[j] = x
        BY <1>1, <3>1
      <4> QED BY <2>1, <2>2, <4>1
    <3>2. CASE j # n + 1
      <4>1. j \in DOMAIN q /\ r[j] = q[j]
        <5>1. j \in 1..n + 1
          BY <1>1
        <5>2. j \in 1..n
          BY <3>2, <5>1
        <5> QED BY <1>1, <5>2
      <4> QED BY <2>1, <2>2, <4>1 DEF Behind
    <3> QED BY <3>1, <3>2
  <2>3. Behind(q, k) /\ x.tag # q[k].tag => Behind(r, k)
    BY <2>2 DEF Behind
  <2> QED BY <1>1, <2>1, <2>3
<1> QED BY <1>3, <1>4

(* The head of a queue leaves nothing about it when nothing is behind it.   *)
LEMMA BehindTail ==
    ASSUME NEW S, NEW q \in Seq(S), q # <<>>
    PROVE  /\ \A k \in DOMAIN Tail(q) :
                 /\ k + 1 \in DOMAIN q /\ Tail(q)[k] = q[k + 1]
                 /\ Behind(q, k + 1) => Behind(Tail(q), k)
           /\ 1 \in DOMAIN q /\ Head(q) = q[1]
           /\ Behind(q, 1) => Absent(Tail(q), Head(q).tag)
<1> PICK r : r = Tail(q)
  OBVIOUS
<1> PICK n \in Nat \ {0} : n = Len(q)
  OBVIOUS
<1>1. DOMAIN q = 1..n /\ DOMAIN r = 1..n - 1 /\ Head(q) = q[1]
      /\ \A k \in 1..n - 1 : r[k] = q[k + 1]
  OBVIOUS
<1>2. ASSUME NEW k \in DOMAIN r
      PROVE  k + 1 \in DOMAIN q /\ r[k] = q[k + 1] /\ (Behind(q, k + 1) => Behind(r, k))
  <2>1. k \in 1..n - 1 /\ k + 1 \in DOMAIN q /\ r[k] = q[k + 1]
    BY <1>1
  <2>2. ASSUME Behind(q, k + 1), NEW j \in DOMAIN r, j > k
        PROVE  r[j].tag # r[k].tag
    <3>1. j + 1 \in DOMAIN q /\ r[j] = q[j + 1] /\ j + 1 > k + 1
      BY <1>1, <2>1, <2>2
    <3> QED BY <2>1, <2>2, <3>1 DEF Behind
  <2>3. Behind(q, k + 1) => Behind(r, k)
    BY <2>2 DEF Behind
  <2> QED BY <2>1, <2>3
<1>3. ASSUME Behind(q, 1), NEW j \in DOMAIN r, r[j].tag = q[1].tag
      PROVE  FALSE
  <2>1. j + 1 \in DOMAIN q /\ r[j] = q[j + 1] /\ j + 1 > 1
    BY <1>1
  <2> QED BY <1>3, <2>1 DEF Behind
<1>4. Behind(q, 1) => Absent(r, q[1].tag)
  BY <1>3 DEF Absent, About
<1>5. 1 \in DOMAIN q
  BY <1>1
<1> QED BY <1>1, <1>2, <1>4, <1>5
(* What is known of a state in which the last replies are in order.         *)
Ordered(c, f) == /\ TypeOK /\ IdsExclusive /\ Forgotten /\ SlotFree /\ LastInOrder
                 /\ Numbered(c, f) /\ Requested(f) /\ Answered(f) /\ Located(f)

(* A request is in its reqChan or with its watcher, once.                   *)
LEMMA NextRequestsOnce ==
    ASSUME NEW c, NEW f, Ordered(c, f), [Next]_vars
    PROVE  RequestsOnce'
<1> SUFFICES ASSUME NEW o \in Objects
             PROVE  /\ \A k \in DOMAIN reqChan'[o] : Behind(reqChan'[o], k)
                    /\ Working(o)' => Absent(reqChan'[o], watcher'[o].req.tag)
  BY DEF RequestsOnce
<1>1. /\ TypeOK /\ reqChan[o] \in Seq(Request) /\ issued \in Nat
      /\ \A k \in DOMAIN reqChan[o] : Behind(reqChan[o], k)
      /\ Working(o) => Absent(reqChan[o], watcher[o].req.tag)
      /\ \A k \in DOMAIN reqChan[o] : reqChan[o][k].tag \in 1..issued
      /\ Working(o) => watcher[o].req.tag \in 1..issued
  BY BoundAssumption DEF Ordered, TypeOK, LastInOrder, RequestsOnce, Located
<1>2. ASSUME RequestsStay(o), Working(o)' => Working(o) /\ watcher'[o].req = watcher[o].req
      PROVE  /\ \A k \in DOMAIN reqChan'[o] : Behind(reqChan'[o], k)
             /\ Working(o)' => Absent(reqChan'[o], watcher'[o].req.tag)
  <2>1. CASE reqChan'[o] = reqChan[o]
    BY <1>1, <1>2, <2>1
  <2>2. ASSUME NEW q \in Request, q.tag = issued + 1, reqChan'[o] = Append(reqChan[o], q)
        PROVE  /\ \A k \in DOMAIN reqChan'[o] : Behind(reqChan'[o], k)
               /\ Working(o)' => Absent(reqChan'[o], watcher'[o].req.tag)
    <3>1. \A t \in 1..issued : q.tag # t
      BY <1>1, <2>2
    <3>2. ASSUME NEW k \in DOMAIN Append(reqChan[o], q)
          PROVE  Behind(Append(reqChan[o], q), k)
      BY <1>1, <3>1, BehindAppend
    <3>3. Working(o) => Absent(Append(reqChan[o], q), watcher[o].req.tag)
      BY <1>1, <3>1, AbsentStays
    <3> QED BY <1>2, <2>2, <3>2, <3>3
  <2> QED BY <1>2, <2>1, <2>2 DEF RequestsStay
<1>3. CASE RequestTaken(o)
  <2>1. /\ reqChan[o] # <<>> /\ reqChan'[o] = Tail(reqChan[o])
        /\ watcher'[o].req = Head(reqChan[o])
    BY <1>3 DEF RequestTaken
  <2> QED BY <1>1, <2>1, BehindTail
<1> QED BY <1>1, <1>2, <1>3, RequestMoves

(* The control ping of a dump leaves after its request.                     *)
LEMMA NextPingLast ==
    ASSUME NEW c, NEW f, Ordered(c, f), [Next]_vars
    PROVE  PingLast'
<1>1. /\ TypeOK /\ vppQueue \in Seq(Message) /\ Located(f) /\ PingLast /\ RequestsOnce
      /\ \A k \in DOMAIN vppQueue : vppQueue[k].tag \in 1..issued
  BY DEF Ordered, TypeOK, LastInOrder, Located
<1>2. ASSUME NEW k \in DOMAIN vppQueue, vppQueue[k].ping, NEW t, t = vppQueue[k].tag
      PROVE  Processed(t) /\ Processed(t)' /\ Behind(vppQueue, k)
  <2>1. t \in 1..issued /\ Processed(t) /\ Behind(vppQueue, k)
    BY <1>1, <1>2 DEF PingLast
  <2> QED BY <1>1, <2>1, ClearStays
<1> SUFFICES ASSUME NEW k \in DOMAIN vppQueue', vppQueue'[k].ping, NEW t, t = vppQueue'[k].tag
             PROVE  Processed(t)' /\ Behind(vppQueue', k)
  BY DEF PingLast
<1>3. CASE vppQueue' = vppQueue
  BY <1>2, <1>3
<1>4. CASE vppQueue # <<>> /\ vppQueue' = Tail(vppQueue)
  <2>1. /\ k + 1 \in DOMAIN vppQueue /\ vppQueue'[k] = vppQueue[k + 1]
        /\ Behind(vppQueue, k + 1) => Behind(vppQueue', k)
    BY <1>1, <1>4, BehindTail
  <2> QED BY <1>2, <2>1
<1>5. ASSUME NEW p \in Objects, NEW m \in Message, RequestSent(p, m)
      PROVE  Processed(t)' /\ Behind(vppQueue', k)
  <2>1. /\ Working(p) /\ m.tag = watcher[p].req.tag /\ vppQueue' = Append(vppQueue, m)
        /\ UNCHANGED reqChan
        /\ m.ping => ~Working(p)' /\ \A o \in Objects \ {p} : watcher'[o] = watcher[o]
    BY <1>5 DEF RequestSent
  <2>2. CASE vppQueue'[k] = m /\ Behind(vppQueue', k)
    <3>1. t = watcher[p].req.tag /\ f[t].obj = p
      BY <1>1, <2>1, <2>2 DEF Located
    <3>2. ASSUME NEW o \in Objects
          PROVE  Absent(reqChan'[o], t)
      <4>1. CASE o = p
        BY <1>1, <2>1, <3>1, <4>1 DEF RequestsOnce
      <4>2. CASE o # p
        <5>1. \A j \in DOMAIN reqChan[o] : reqChan[o][j].tag # t
          BY <1>1, <3>1, <4>2 DEF Located
        <5> QED BY <2>1, <5>1 DEF Absent, About
      <4> QED BY <4>1, <4>2
    <3>3. ASSUME NEW o \in Objects, Working(o)', watcher'[o].req.tag = t
          PROVE  FALSE
      <4>1. o # p /\ watcher'[o] = watcher[o]
        BY <2>1, <2>2, <3>3
      <4>2. Working(o) /\ watcher[o].req.tag = t
        BY <3>3, <4>1 DEF Working
      <4> QED BY <1>1, <3>1, <4>1, <4>2 DEF Located
    <3> QED BY <2>2, <3>2, <3>3 DEF Processed, Dequeued
  <2>3. CASE /\ k \in DOMAIN vppQueue /\ vppQueue'[k] = vppQueue[k]
             /\ Behind(vppQueue, k) /\ m.tag # vppQueue[k].tag => Behind(vppQueue', k)
    <3>1. Processed(t) /\ Processed(t)' /\ Behind(vppQueue, k)
      BY <1>2, <2>3
    <3>2. m.tag # t
      BY <2>1, <3>1 DEF Processed
    <3> QED BY <2>3, <3>1, <3>2
  <2> QED BY <1>1, <2>1, <2>2, <2>3, BehindAppend
<1>6. CASE vppQueue' = <<>>
  BY <1>6
<1> QED BY <1>1, <1>3, <1>4, <1>5, <1>6, QueueMoves
(* VPP answers a multipart control ping for a dump only.                    *)
LEMMA PingOfDump ==
    ASSUME NEW c, NEW f, Ordered(c, f), vppQueue # <<>>,
           unpackRequestContext(Head(vppQueue).context).isMultipart
    PROVE  OfDump(Head(vppQueue).tag)
<1> PICK m : m = Head(vppQueue)
  OBVIOUS
<1>1. m \in Carried(f)
  <2>1. vppQueue \in Seq(Carried(f))
    BY DEF Ordered, Answered
  <2> QED BY <2>1
<1>2. f[m.tag].multi
  BY <1>1, CarriedUnpacks DEF Ordered
<1>3. ASSUME NEW o \in Objects, NEW h \in handles[o], h.tag = m.tag
      PROVE  h.multi
  <2>1. f[h.tag].multi = h.multi
    BY HandleFacts DEF Ordered
  <2> QED BY <1>2, <1>3, <2>1
<1> QED BY <1>3 DEF OfDump

(* The reader goroutine gets the last reply when VPP is done with the dump. *)
LEMMA NextCallLast ==
    ASSUME NEW c, NEW f, Ordered(c, f), [Next]_vars
    PROVE  CallLast'
<1> SUFFICES ASSUME callback'.pc = "send", callback'.reply.kind = "last",
                    NEW t, t = callback'.reply.tag
             PROVE  Served(t)'
  BY DEF CallLast
<1>1. /\ TypeOK /\ vppQueue \in Seq(Message) /\ Located(f) /\ PingLast /\ CallLast
  BY DEF Ordered, TypeOK, LastInOrder
<1>2. CASE callback' = callback
  <2>1. Served(t) /\ t \in 1..issued
    BY <1>1, <1>2 DEF CallLast, Located
  <2> QED BY <1>1, <2>1, ClearStays
<1>3. CASE callback' # callback
  <2>1. /\ vppQueue # <<>> /\ t = Head(vppQueue).tag /\ VppReplies /\ Head(vppQueue).ping
        /\ unpackRequestContext(Head(vppQueue).context).isMultipart
    BY <1>1, <1>3, CallbackMoves
  <2>2. /\ 1 \in DOMAIN vppQueue /\ Head(vppQueue) = vppQueue[1]
        /\ Behind(vppQueue, 1) => Absent(Tail(vppQueue), t)
    BY <1>1, <2>1, BehindTail
  <2>3. t \in 1..issued /\ Processed(t) /\ Absent(Tail(vppQueue), t)
    BY <1>1, <2>1, <2>2 DEF PingLast, Located
  <2>4. Processed(t)'
    BY <1>1, <2>3, ClearStays
  <2>5. vppQueue' = Tail(vppQueue) /\ UNCHANGED handles
    BY <2>1 DEF VppReplies, userVars
  <2>6. OfDump(t)'
    BY <2>1, <2>5, PingOfDump DEF OfDump
  <2> QED BY <2>3, <2>4, <2>5, <2>6 DEF Served
<1> QED BY <1>2, <1>3

(* The last reply is behind the details in replyChan.                       *)
LEMMA NextReplyLast ==
    ASSUME NEW c, NEW f, Ordered(c, f), [Next]_vars
    PROVE  ReplyLast'
<1> SUFFICES ASSUME NEW o \in Objects, NEW k \in DOMAIN replyChan'[o],
                    replyChan'[o][k].kind = "last", NEW t, t = replyChan'[o][k].tag
             PROVE  Handed(t)' /\ Behind(replyChan'[o], k)
  BY DEF ReplyLast
<1>1. /\ TypeOK /\ replyChan[o] \in Seq(Reply) /\ Located(f) /\ ReplyLast /\ CallLast
  BY DEF Ordered, TypeOK, LastInOrder
<1>2. ASSUME NEW j \in DOMAIN replyChan[o], replyChan[o][j].kind = "last",
             replyChan[o][j].tag = t
      PROVE  Handed(t) /\ Handed(t)' /\ Behind(replyChan[o], j)
  <2>1. t \in 1..issued /\ Handed(t) /\ Behind(replyChan[o], j)
    BY <1>1, <1>2 DEF ReplyLast, Located
  <2> QED BY <1>1, <2>1, ClearStays
<1>3. CASE replyChan'[o] = replyChan[o]
  BY <1>2, <1>3
<1>4. CASE replyChan'[o] = <<>>
  BY <1>4
<1>5. CASE replyChan[o] # <<>> /\ replyChan'[o] = Tail(replyChan[o])
  <2>1. /\ k + 1 \in DOMAIN replyChan[o] /\ replyChan'[o][k] = replyChan[o][k + 1]
        /\ Behind(replyChan[o], k + 1) => Behind(replyChan'[o], k)
    BY <1>1, <1>5, BehindTail
  <2> QED BY <1>2, <2>1
<1>6. ASSUME NEW x \in Reply, replyChan'[o] = Append(replyChan[o], x),
             x.tag = t => ~Handed(t), x.kind = "last" => Handed(x.tag)'
      PROVE  Handed(t)' /\ Behind(replyChan'[o], k)
  <2>1. CASE replyChan'[o][k] = x /\ Behind(replyChan'[o], k)
    BY <1>6, <2>1
  <2>2. CASE /\ k \in DOMAIN replyChan[o] /\ replyChan'[o][k] = replyChan[o][k]
             /\ Behind(replyChan[o], k) /\ x.tag # replyChan[o][k].tag => Behind(replyChan'[o], k)
    BY <1>2, <1>6, <2>2
  <2> QED BY <1>1, <1>6, <2>1, <2>2, BehindAppend
<1>7. CASE Delivered(o)
  <2> PICK x : x = callback.reply
    OBVIOUS
  <2>1. /\ callback.pc = "send" /\ callback' = Idle
        /\ replyChan'[o] = Append(replyChan[o], x)
    BY <1>7 DEF Delivered
  <2>2. x \in Reply
    BY <1>1, <2>1, CallbackReply
  <2>3. x.tag = t => ~Handed(t)
    BY <2>1 DEF Handed
  <2>4. ASSUME x.kind = "last", NEW u, u = x.tag
        PROVE  Handed(u)'
    <3>1. Served(u) /\ u \in 1..issued
      BY <1>1, <2>1, <2>4 DEF CallLast, Located
    <3>2. Served(u)'
      BY <1>1, <3>1, ClearStays
    <3> QED BY <2>1, <3>2 DEF Handed, Idle
  <2> QED BY <1>6, <2>1, <2>2, <2>3, <2>4
<1>8. CASE ErrorReported(o)
  <2> PICK x : x = ErrorReply(watcher[o].req)
    OBVIOUS
  <2>1. Working(o) /\ replyChan'[o] = Append(replyChan[o], x)
    BY <1>8 DEF ErrorReported
  <2>2. x \in Reply /\ x.tag = watcher[o].req.tag /\ x.kind = "error"
    BY <1>1, <2>1, WorkingReply
  <2>3. x.tag = t => ~Handed(t)
    BY <2>1, <2>2 DEF Handed, Served, Processed
  <2> QED BY <1>6, <2>1, <2>2, <2>3
<1> QED BY <1>1, <1>3, <1>4, <1>5, <1>7, <1>8, ReplyMoves
(* The last reply, taken from replyChan, leaves nothing behind it there.    *)
LEMMA TakenLast ==
    ASSUME NEW c, NEW f, Ordered(c, f), [Next]_vars, NEW o \in Objects, NEW want, NEW reply,
           FromSelect(o, want, reply), reply.kind = "last", NEW t, t = reply.tag
    PROVE  Fetched(t)' /\ t \in 1..issued
<1>1. /\ TypeOK /\ replyChan \in [Objects -> Seq(Reply)] /\ Located(f) /\ ReplyLast
  BY DEF Ordered, TypeOK, LastInOrder
<1>2. /\ replyChan[o] # <<>> /\ reply = Head(replyChan[o])
      /\ replyChan' = [replyChan EXCEPT ![o] = Tail(replyChan[o])]
  BY DEF FromSelect, TakeReply
<1>3. /\ 1 \in DOMAIN replyChan[o] /\ reply = replyChan[o][1]
      /\ Behind(replyChan[o], 1) => Absent(Tail(replyChan[o]), t)
  BY <1>1, <1>2, BehindTail
<1>4. Handed(t) /\ Absent(Tail(replyChan[o]), t) /\ t \in 1..issued /\ f[t].obj = o
  BY <1>1, <1>3 DEF ReplyLast, Located
<1>5. Handed(t)'
  BY <1>1, <1>4, ClearStays
<1>6. ASSUME NEW q \in Objects
      PROVE  Absent(replyChan'[q], t)
  <2>1. CASE q = o
    BY <1>1, <1>2, <1>4, <2>1
  <2>2. CASE q # o
    <3>1. replyChan'[q] = replyChan[q]
      BY <1>1, <1>2, <2>2
    <3>2. \A j \in DOMAIN replyChan[q] : replyChan[q][j].tag # t
      BY <1>1, <1>4, <2>2 DEF Located
    <3> QED BY <3>1, <3>2 DEF Absent, About
  <2> QED BY <2>1, <2>2
<1> QED BY <1>4, <1>5, <1>6 DEF Fetched

(* It gets to the slot when they are all taken.                             *)
LEMMA NextSlotLast ==
    ASSUME NEW c, NEW f, Ordered(c, f), [Next]_vars
    PROVE  SlotLast'
<1> SUFFICES ASSUME NEW o \in Objects, delayedReply'[o].kind = "last",
                    NEW t, t = delayedReply'[o].tag
             PROVE  Fetched(t)'
  BY DEF SlotLast
<1>1. /\ TypeOK /\ Located(f) /\ SlotLast
  BY DEF Ordered, LastInOrder
<1>2. CASE delayedReply'[o] = delayedReply[o]
  <2>1. delayedReply[o] # NoReply
    BY <1>2 DEF NoReply
  <2>2. Fetched(t) /\ t \in 1..issued
    BY <1>1, <1>2, <2>1 DEF SlotLast, Located
  <2> QED BY <1>1, <2>2, ClearStays
<1>3. CASE delayedReply'[o] # delayedReply[o]
  <2>1. delayedReply'[o] # NoReply
    BY DEF NoReply
  <2>2a. PICK p \in Objects : \E want, reply : Returned(p, want, reply)
    BY <1>1, <1>3, <2>1, ReturnMoves
  <2>2. PICK want, reply : Returned(p, want, reply)
    BY <2>2a
  <2>3. \E x : delayedReply' = [delayedReply EXCEPT ![p] = x]
    BY <2>2 DEF Returned, ReturnReply
  <2>4. p = o /\ delayedReply'[o] = reply
    BY <1>1, <1>3, <2>1, <2>2, <2>3 DEF Returned, TypeOK
  <2>5. FromSelect(o, want, reply)
    BY <1>3, <2>2, <2>4 DEF Returned, FromSlot
  <2> QED BY <2>4, <2>5, TakenLast
<1> QED BY <1>2, <1>3

(* Tags are given out one by one.                                           *)
LEMMA IssuedGrows ==
    ASSUME TypeOK, [Next]_vars
    PROVE  issued \in Nat /\ issued' \in {issued, issued + 1}
<1>1. issued \in Nat
  BY BoundAssumption DEF TypeOK
<1>2. ASSUME NEW o \in Objects, User(o) \/ Watcher(o) \/ ResetAndPut(o)
      PROVE  issued' \in {issued, issued + 1}
  BY <1>2 DEF User, NewAPIChannel, Close, SendRequest, ReceiveReply, TakeReply,
     ReplyTimesOut, SetReplyTimeout, Watcher, TakeRequest, RejectRequest, SendToVPP,
     SendFails, SendPing, SendPingFails, SendErrorReply, DropErrorReply, ReleaseFromMap,
     ReleasePutId, ResetAndPut, vppVars
<1>3. Reader \/ Environment \/ UNCHANGED vars => UNCHANGED issued
  BY DEF Reader, DeliverReply, DropReply, Environment, VppSendsDetail, VppReplies,
     VppMovesOn, Disconnect, Reconnect, vppVars, vars
<1> QED BY <1>1, <1>2, <1>3 DEF Next

(* A last reply that is returned is that of the request, and it came with   *)
(* nothing behind it.                                                       *)
LEMMA ReturnedLast ==
    ASSUME NEW c, NEW f, Ordered(c, f), [Next]_vars, NoForeignReply', NEW o \in Objects,
           NEW want, NEW reply, Returned(o, want, reply), result'[o].kind = "last"
    PROVE  /\ reply.kind = "last" /\ reply.tag = want.tag /\ Verdict(want, reply) = "last"
           /\ result'[o].want = want.tag /\ delayedReply'[o] = NoReply
<1>1. /\ result'[o] = [kind |-> Verdict(want, reply), want |-> want.tag, got |-> reply.tag]
      /\ delayedReply'[o] = IF Verdict(want, reply) = "missing" THEN reply ELSE NoReply
  BY DEF Returned
<1> PICK v : v = Verdict(want, reply)
  OBVIOUS
<1>2. v = "last" /\ result'[o].want = want.tag /\ result'[o].got = reply.tag
  BY <1>1
<1>3. reply.kind = "last"
  BY <1>2 DEF Verdict
<1>4. reply.tag = want.tag
  BY <1>2 DEF NoForeignReply
<1> QED BY <1>1, <1>2, <1>3, <1>4

(* After the last reply was returned nothing of the dump is left.           *)
LEMMA NextResultLast ==
    ASSUME NEW c, NEW f, Ordered(c, f), [Next]_vars, NoForeignReply'
    PROVE  ResultLast'
<1> SUFFICES ASSUME NEW o \in Objects, result'[o].kind = "last", NEW t, t = result'[o].want
             PROVE  t \in 1..issued' /\ Finished(t)'
  BY DEF ResultLast
<1>1. /\ TypeOK /\ Located(f) /\ SlotLast /\ ResultLast
  BY DEF Ordered, LastInOrder
<1>2. t \in 1..issued => t \in 1..issued'
  BY <1>1, IssuedGrows
<1>3. CASE result'[o] = result[o]
  <2>1. t \in 1..issued /\ Finished(t)
    BY <1>1, <1>3 DEF ResultLast
  <2> QED BY <1>1, <1>2, <2>1, ClearStays
<1>4. CASE result'[o] # result[o]
  <2>1a. PICK p \in Objects : \E want, reply : Returned(p, want, reply)
    BY <1>1, <1>4, ReturnMoves
  <2>1. PICK want, reply : Returned(p, want, reply)
    BY <2>1a
  <2>2. /\ \E x : result' = [result EXCEPT ![p] = x]
        /\ \E x : delayedReply' = [delayedReply EXCEPT ![p] = x]
    BY <2>1 DEF Returned, ReturnReply
  <2>3. p = o
    BY <1>1, <1>4, <2>2 DEF TypeOK
  <2>4. reply.kind = "last" /\ t = reply.tag /\ delayedReply'[o] = NoReply
    BY <2>1, <2>3, ReturnedLast
  <2>5. Fetched(t)' /\ t \in 1..issued /\ f[t].obj = o
    <3>1. CASE FromSlot(o, want, reply)
      <4>1. reply = delayedReply[o] /\ reply # NoReply
        BY <3>1 DEF FromSlot
      <4>2. Fetched(t) /\ t \in 1..issued /\ f[t].obj = o
        BY <1>1, <2>4, <4>1 DEF SlotLast, Located
      <4> QED BY <1>1, <4>2, ClearStays
    <3>2. CASE FromSelect(o, want, reply)
      <4>1. Fetched(t)' /\ t \in 1..issued
        BY <2>4, <3>2, TakenLast
      <4>2. 1 \in DOMAIN replyChan[o] /\ reply = replyChan[o][1]
        <5>1. replyChan[o] \in Seq(Reply) /\ replyChan[o] # <<>> /\ reply = Head(replyChan[o])
          BY <1>1, <3>2 DEF FromSelect, TypeOK
        <5> QED BY <5>1, BehindTail
      <4>3. f[t].obj = o
        BY <1>1, <2>4, <4>2 DEF Located
      <4> QED BY <4>1, <4>3
    <3> QED BY <2>1, <2>3, <3>1, <3>2 DEF Returned
  <2>6. ASSUME NEW q \in Objects, Parked(q, t)'
        PROVE  FALSE
    <3>1. q # o /\ delayedReply'[q] = delayedReply[q]
      BY <1>1, <2>2, <2>3, <2>4, <2>6 DEF Parked, TypeOK
    <3>2. delayedReply[q] # NoReply /\ delayedReply[q].tag = t
      BY <2>6, <3>1 DEF Parked
    <3> QED BY <1>1, <2>5, <3>1, <3>2 DEF Located
  <2> QED BY <1>2, <2>5, <2>6 DEF Finished
<1> QED BY <1>3, <1>4
(* The details in a queue can be counted.                                   *)
LEMMA DetailsFinite ==
    ASSUME NEW S, NEW q \in Seq(S), NEW t
    PROVE  IsFiniteSet(Details(q, t)) /\ Cardinality(Details(q, t)) \in Nat
<1>1. Details(q, t) \subseteq 1..Len(q) /\ Len(q) \in Nat
  BY DEF Details
<1>2. IsFiniteSet(1..Len(q))
  BY <1>1, FS_Interval
<1> QED BY <1>1, <1>2, FS_Subset, FS_CardinalityType

(* What a message counts for.                                               *)
Counts(x, t) == IF x.tag = t /\ x.kind = "data" THEN 1 ELSE 0

(* A detail that is appended counts.                                        *)
LEMMA DetailsAppend ==
    ASSUME NEW S, NEW q \in Seq(S), NEW x \in S, NEW t
    PROVE  Cardinality(Details(Append(q, x), t))
              = Cardinality(Details(q, t)) + Counts(x, t)
<1> PICK r : r = Append(q, x)
  OBVIOUS
<1> PICK n \in Nat : n = Len(q)
  OBVIOUS
<1>1. DOMAIN q = 1..n /\ DOMAIN r = 1..n + 1 /\ r[n + 1] = x
      /\ \A k \in 1..n : r[k] = q[k]
  OBVIOUS
<1>2. \A k \in 1..n + 1 : k \in 1..n \/ k = n + 1
  OBVIOUS
<1>3. n + 1 \in 1..n + 1 /\ n + 1 \notin 1..n /\ \A k \in 1..n : k \in 1..n + 1 /\ k # n + 1
  OBVIOUS
<1>4. Details(r, t) = Details(q, t)
                        \cup (IF x.tag = t /\ x.kind = "data" THEN {n + 1} ELSE {})
  BY <1>1, <1>2, <1>3 DEF Details
<1>5. n + 1 \notin Details(q, t)
  BY <1>1, <1>3 DEF Details
<1>6. IsFiniteSet(Details(q, t)) /\ Cardinality(Details(q, t)) \in Nat
  BY DetailsFinite
<1>7. CASE x.tag = t /\ x.kind = "data"
  <2>1. Details(r, t) = Details(q, t) \cup {n + 1}
    BY <1>4, <1>7
  <2>2. Cardinality(Details(r, t)) = Cardinality(Details(q, t)) + 1
    BY <1>5, <1>6, <2>1, FS_AddElement
  <2> QED BY <1>7, <2>2 DEF Counts
<1>8. CASE ~(x.tag = t /\ x.kind = "data")
  <2>1. Details(r, t) = Details(q, t)
    BY <1>4, <1>8
  <2> QED BY <1>6, <1>8, <2>1 DEF Counts
<1> QED BY <1>7, <1>8

(* And one that is taken no longer does.                                    *)
LEMMA DetailsTail ==
    ASSUME NEW S, NEW q \in Seq(S), q # <<>>, NEW t
    PROVE  Cardinality(Details(q, t))
              = Cardinality(Details(Tail(q), t)) + Counts(Head(q), t)
<1> PICK r : r = Tail(q)
  OBVIOUS
<1> PICK n \in Nat \ {0} : n = Len(q)
  OBVIOUS
<1>1. DOMAIN q = 1..n /\ DOMAIN r = 1..n - 1 /\ Head(q) = q[1]
      /\ \A k \in 1..n - 1 : r[k] = q[k + 1]
  OBVIOUS
<1> DEFINE A == Details(r, t)
           B == Details(q, t) \ {1}
           F == [k \in A |-> k + 1]
<1>2. A \subseteq 1..n - 1 /\ Details(q, t) \subseteq 1..n
  BY <1>1 DEF Details
<1>3. \A k \in A : k + 1 \in B
  <2> SUFFICES ASSUME NEW k \in A PROVE k + 1 \in B
    OBVIOUS
  <2>1. k \in 1..n - 1 /\ k + 1 \in 1..n /\ k + 1 # 1
    BY <1>2
  <2> QED BY <1>1, <2>1 DEF Details
<1>4. \A k \in B : k - 1 \in A /\ (k - 1) + 1 = k
  <2> SUFFICES ASSUME NEW k \in B PROVE k - 1 \in A /\ (k - 1) + 1 = k
    OBVIOUS
  <2>1. k \in 1..n /\ k # 1
    BY <1>2
  <2>2. k - 1 \in 1..n - 1 /\ (k - 1) + 1 = k
    BY <2>1
  <2> QED BY <1>1, <2>2 DEF Details
<1>5. F \in Bijection(A, B)
  <2>1. F \in [A -> B]
    BY <1>3
  <2>2. ASSUME NEW a \in A, NEW b \in A, F[a] = F[b]
        PROVE  a = b
    BY <1>2, <2>2
  <2>3. ASSUME NEW b \in B
        PROVE  \E a \in A : F[a] = b
    <3>1. b - 1 \in A /\ F[b - 1] = b
      BY <1>4
    <3> QED BY <3>1
  <2> HIDE DEF A, B, F
  <2>4. F \in Injection(A, B)
    BY <2>1, <2>2 DEF Injection, IsInjective
  <2>5. F \in Surjection(A, B)
    BY <2>1, <2>3 DEF Surjection
  <2> QED BY <2>4, <2>5 DEF Bijection
<1>6. IsFiniteSet(A) /\ Cardinality(A) \in Nat
  <2>1. r \in Seq(S)
    OBVIOUS
  <2> QED BY <2>1, DetailsFinite
<1>7. Cardinality(B) = Cardinality(A)
  <2>1. ExistsBijection(A, B)
    BY <1>5 DEF ExistsBijection
  <2> HIDE DEF A, B
  <2> QED BY <1>6, <2>1, FS_Bijection
<1>8. IsFiniteSet(Details(q, t)) /\ Cardinality(Details(q, t)) \in Nat
  BY DetailsFinite
<1>9. 1 \in Details(q, t) <=> Head(q).tag = t /\ Head(q).kind = "data"
  <2>1. 1 \in 1..n
    OBVIOUS
  <2> QED BY <1>1, <2>1 DEF Details
<1>10. Cardinality(B) = Cardinality(Details(q, t)) - Counts(Head(q), t)
  <2> PICK D : D = Details(q, t)
    OBVIOUS
  <2>1. Cardinality(D \ {1}) = IF 1 \in D THEN Cardinality(D) - 1 ELSE Cardinality(D)
    BY <1>8, FS_RemoveElement
  <2>2. Cardinality(D) \in Nat
    BY <1>8
  <2> QED BY <1>9, <2>1, <2>2 DEF Counts
<1> HIDE DEF A, B
<1> QED BY <1>6, <1>7, <1>8, <1>10 DEF A, Counts
(* The user has a context of the request until it has its answer.           *)
LEMMA NextAwaited ==
    ASSUME TypeOK, Awaited, [Next]_vars
    PROVE  Awaited'
<1>1. /\ handles \in [Objects -> SUBSET Request] /\ DOMAIN user = Objects
      /\ Idle.pc = "idle"
  BY DEF TypeOK, Idle
<1>2. ASSUME NEW p \in Objects, NEW want \in handles[p], ReceiveReply(p, want)
      PROVE  Awaited'
  <2>1. \/ \E S : /\ handles' = [handles EXCEPT ![p] = S]
                  /\ user' = [user EXCEPT ![p] = Idle]
        \/ UNCHANGED handles /\ user' = [user EXCEPT ![p] = Receiving(want)]
    BY <1>2 DEF ReceiveReply, ReturnReply
  <2> QED BY <1>1, <1>2, <2>1 DEF Awaited, Receiving
<1>3. ASSUME NEW p \in Objects, TakeReply(p)
      PROVE  Awaited'
  <2>1. \/ \E S : /\ handles' = [handles EXCEPT ![p] = S]
                  /\ user' = [user EXCEPT ![p] = Idle]
        \/ UNCHANGED <<handles, user>>
    BY <1>3 DEF TakeReply, ReturnReply
  <2> QED BY <1>1, <2>1 DEF Awaited
<1>4. ASSUME NEW p \in Objects, ReplyTimesOut(p)
      PROVE  Awaited'
  <2>1. UNCHANGED handles /\ user' = [user EXCEPT ![p] = Idle]
    BY <1>4 DEF ReplyTimesOut
  <2> QED BY <1>1, <2>1 DEF Awaited
<1>5. ASSUME NEW p \in Objects, Close(p) \/ \E multi \in BOOLEAN : SendRequest(p, multi)
      PROVE  Awaited'
  <2>1. user[p] = Idle /\ UNCHANGED user /\ \E S : handles' = [handles EXCEPT ![p] = S]
    BY <1>5 DEF Close, SendRequest
  <2> QED BY <1>1, <2>1 DEF Awaited
<1>6. ASSUME NEW p \in Objects,
             \/ NewAPIChannel(p) \/ \E timeout \in Timeouts : SetReplyTimeout(p, timeout)
             \/ Watcher(p) \/ ResetAndPut(p)
      PROVE  UNCHANGED <<handles, user>>
  BY <1>6 DEF NewAPIChannel, SetReplyTimeout, Watcher, TakeRequest, RejectRequest,
     SendToVPP, SendFails, SendPing, SendPingFails, SendErrorReply, DropErrorReply,
     ReleaseFromMap, ReleasePutId, ResetAndPut, userVars
<1>7. Reader \/ Environment \/ UNCHANGED vars => UNCHANGED <<handles, user>>
  BY DEF Reader, DeliverReply, DropReply, Environment, VppSendsDetail, VppReplies,
     VppMovesOn, Disconnect, Reconnect, userVars, vars
<1>8. UNCHANGED <<handles, user>> => Awaited'
  BY DEF Awaited
<1> QED BY <1>2, <1>3, <1>4, <1>5, <1>6, <1>7, <1>8 DEF Next, User

(* What a reply is returned for is a request the user has a context of.     *)
LEMMA WantKnown ==
    ASSUME Awaited, NEW p \in Objects, NEW want, NEW reply, Returned(p, want, reply)
    PROVE  want \in handles[p]
  BY DEF Returned, FromSlot, FromSelect, Awaited

(* Only VPP sends a detail.                                                 *)
LEMMA SentMoves ==
    ASSUME [Next]_vars
    PROVE  VppSendsDetail \/ UNCHANGED sent
<1>1. ASSUME NEW o \in Objects, User(o) \/ Watcher(o) \/ ResetAndPut(o)
      PROVE  UNCHANGED sent
  BY <1>1 DEF User, NewAPIChannel, Close, SendRequest, ReceiveReply, TakeReply,
     ReplyTimesOut, SetReplyTimeout, Watcher, TakeRequest, RejectRequest, SendToVPP,
     SendFails, SendPing, SendPingFails, SendErrorReply, DropErrorReply, ReleaseFromMap,
     ReleasePutId, ResetAndPut, vppVars
<1>2. Reader \/ VppReplies \/ VppMovesOn \/ Disconnect \/ Reconnect \/ UNCHANGED vars
        => UNCHANGED sent
  BY DEF Reader, DeliverReply, DropReply, VppReplies, VppMovesOn, Disconnect, Reconnect,
     vppVars, vars
<1> QED BY <1>1, <1>2 DEF Next, Environment

(* What is counted for a request changes with its own details only.         *)
LEMMA CountsMove ==
    ASSUME NEW c, NEW f, Ordered(c, f), Awaited, [Next]_vars, NEW t \in Tags
    PROVE  /\ \/ sent'[t] = sent[t]
              \/ /\ VppSendsDetail /\ t = Head(vppQueue).tag /\ vppQueue # <<>>
                 /\ sent'[t] = sent[t] + 1 /\ t \in 1..issued
           /\ \/ received'[t] = received[t]
              \/ \E p \in Objects : \E want \in handles[p] : \E reply :
                    /\ Returned(p, want, reply) /\ Verdict(want, reply) = "data"
                    /\ t = want.tag /\ received'[t] = received[t] + 1 /\ t \in 1..issued
<1>1. /\ TypeOK /\ Located(f) /\ sent \in [Tags -> Nat] /\ received \in [Tags -> Nat]
      /\ vppQueue \in Seq(Message)
  BY DEF Ordered, TypeOK
<1>2. ASSUME VppSendsDetail
      PROVE  \/ sent'[t] = sent[t]
             \/ /\ VppSendsDetail /\ t = Head(vppQueue).tag /\ vppQueue # <<>>
                /\ sent'[t] = sent[t] + 1 /\ t \in 1..issued
  <2> PICK m : m = Head(vppQueue)
    OBVIOUS
  <2>1. vppQueue # <<>> /\ sent' = [sent EXCEPT ![m.tag] = sent[m.tag] + 1]
    BY <1>2 DEF VppSendsDetail, VppReady
  <2>2. m = vppQueue[1] /\ 1 \in DOMAIN vppQueue
    BY <1>1, <2>1
  <2>3. m.tag \in 1..issued
    BY <1>1, <2>2 DEF Located
  <2> QED BY <1>1, <1>2, <2>1, <2>3
<1>3. ASSUME NEW p \in Objects, NEW want, NEW reply, Returned(p, want, reply)
      PROVE  \/ received'[t] = received[t]
             \/ /\ Verdict(want, reply) = "data" /\ t = want.tag
                /\ received'[t] = received[t] + 1 /\ t \in 1..issued /\ want \in handles[p]
  <2>1. want \in handles[p]
    BY <1>3, WantKnown
  <2>2. want.tag \in 1..issued
    BY <1>1, <2>1 DEF Located
  <2>3. received' = IF Verdict(want, reply) = "data"
                    THEN [received EXCEPT ![want.tag] = received[want.tag] + 1]
                    ELSE received
    BY <1>3 DEF Returned, ReturnReply
  <2> QED BY <1>1, <2>1, <2>2, <2>3
<1>4. \/ received'[t] = received[t]
      \/ \E p \in Objects : \E want \in handles[p] : \E reply :
            /\ Returned(p, want, reply) /\ Verdict(want, reply) = "data"
            /\ t = want.tag /\ received'[t] = received[t] + 1 /\ t \in 1..issued
  BY <1>1, <1>3, ReturnMoves
<1>5. \/ sent'[t] = sent[t]
      \/ /\ VppSendsDetail /\ t = Head(vppQueue).tag /\ vppQueue # <<>>
         /\ sent'[t] = sent[t] + 1 /\ t \in 1..issued
  BY <1>2, SentMoves
<1> QED BY <1>4, <1>5

(* So nothing is counted before a request is sent.                          *)
LEMMA NextUncounted ==
    ASSUME NEW c, NEW f, Ordered(c, f), Awaited, Uncounted, [Next]_vars
    PROVE  Uncounted'
<1> SUFFICES ASSUME NEW t \in Tags, t > issued'
             PROVE  sent'[t] = 0 /\ received'[t] = 0
  BY DEF Uncounted
<1>1. t > issued /\ t \notin 1..issued
  <2>1. issued \in Nat /\ issued' \in {issued, issued + 1} /\ t \in Nat
    BY IssuedGrows, BoundAssumption DEF Ordered, Tags
  <2> QED BY <2>1
<1>2. sent'[t] = sent[t] /\ received'[t] = received[t]
  BY <1>1, CountsMove
<1> QED BY <1>1, <1>2 DEF Uncounted
(* The count of the dump t of the user of o is right.                       *)
Owing(o, t) == sent[t] = received[t] + OnTheWay(o, t)

(* What is known of such a dump.                                            *)
Dumped(f, o, t) == /\ t \in Tags /\ t \in 1..issued /\ f[t].obj = o /\ f[t].multi
                   /\ f[t].id = id[o] /\ channels[id[o]] = o

(* The counts are numbers.                                                  *)
LEMMA CountTypes ==
    ASSUME TypeOK, NEW o \in Objects, NEW t \in Tags
    PROVE  /\ sent[t] \in Nat /\ received[t] \in Nat
           /\ InHand(o, t) \in {0, 1} /\ InSlot(o, t) \in {0, 1}
           /\ Cardinality(Details(replyChan[o], t)) \in Nat
           /\ replyChan[o] \in Seq(Reply)
           /\ \A x : Counts(x, t) \in {0, 1}
<1>1. replyChan[o] \in Seq(Reply)
  BY DEF TypeOK
<1> QED BY <1>1, DetailsFinite DEF TypeOK, InHand, InSlot, Counts

(* A step that touches nothing of it.                                       *)
LEMMA OwingStays ==
    ASSUME NEW o, NEW t, Owing(o, t), sent'[t] = sent[t], received'[t] = received[t],
           callback' = callback, replyChan'[o] = replyChan[o],
           delayedReply'[o] = delayedReply[o]
    PROVE  Owing(o, t)'
<1>1. InHand(o, t)' = InHand(o, t) /\ InSlot(o, t)' = InSlot(o, t)
  BY DEF InHand, InSlot
<1>2. Details(replyChan[o], t)' = Details(replyChan[o], t)
  BY DEF Details
<1> QED BY <1>1, <1>2 DEF Owing, OnTheWay

(* VPP sends a detail, which the reader goroutine then has in hand, or      *)
(* something else.                                                          *)
LEMMA VppOwing ==
    ASSUME NEW c, NEW f, Ordered(c, f), NEW o \in Objects, NEW t, Dumped(f, o, t),
           Owing(o, t), VppSendsDetail \/ VppReplies
    PROVE  Owing(o, t)'
<1> PICK m : m = Head(vppQueue)
  OBVIOUS
<1>1. /\ vppQueue # <<>> /\ callback = Idle
      /\ UNCHANGED <<received, replyChan, delayedReply>>
  BY DEF VppSendsDetail, VppReplies, VppReady, userVars
<1>2. m \in Carried(f) /\ m.tag \in Tags
  <2>1. vppQueue \in Seq(Carried(f))
    BY DEF Ordered, Answered
  <2>2. Carried(f) \subseteq Message
    BY DEF Carried
  <2> QED BY <1>1, <2>1, <2>2 DEF Message
<1> PICK u : u = unpackRequestContext(m.context)
  OBVIOUS
<1>3. u.chanID = f[m.tag].id /\ u.isMultipart = f[m.tag].multi /\ f[m.tag].id \in IDs
  BY <1>2, CarriedUnpacks DEF Ordered
<1>4. InHand(o, t) = 0
  BY <1>1 DEF InHand, Idle
<1>5. /\ InSlot(o, t)' = InSlot(o, t)
      /\ Details(replyChan[o], t)' = Details(replyChan[o], t)
  BY <1>1 DEF InSlot, Details
<1>6. /\ sent[t] \in Nat /\ received[t] \in Nat /\ InSlot(o, t) \in {0, 1}
      /\ Cardinality(Details(replyChan[o], t)) \in Nat
  BY CountTypes DEF Ordered, Dumped
<1>7. ASSUME NEW n \in {0, 1}, sent'[t] = sent[t] + n, InHand(o, t)' = n
      PROVE  Owing(o, t)'
  <2>1. sent[t] = received[t] + (Cardinality(Details(replyChan[o], t)) + InSlot(o, t))
    BY <1>4, <1>6 DEF Owing, OnTheWay
  <2>2. OnTheWay(o, t)' = n + Cardinality(Details(replyChan[o], t)) + InSlot(o, t)
    BY <1>5, <1>7 DEF OnTheWay
  <2> QED BY <1>1, <1>6, <1>7, <2>1, <2>2 DEF Owing
<1>8. CASE VppSendsDetail
  <2>1. /\ sent' = [sent EXCEPT ![m.tag] = sent[m.tag] + 1]
        /\ msgCallback(m.context, m.tag, FALSE)
    BY <1>8 DEF VppSendsDetail
  <2>2. CASE m.tag = t
    <3>1. u.chanID = id[o] /\ u.chanID \in IDs /\ channels[u.chanID] = o /\ o # None
      BY <1>3, <2>2, ObjectsAssumption DEF Dumped, None
    <3>2. callback' = [pc |-> "send", ch |-> o,
                       reply |-> [tag |-> t, seq |-> u.seqNum, kind |-> "data"]]
      BY <2>1, <2>2, <3>1 DEF msgCallback
    <3>3. InHand(o, t)' = 1
      BY <3>2 DEF InHand
    <3>4. sent'[t] = sent[t] + 1
      BY <1>2, <2>1, <2>2 DEF Ordered, TypeOK
    <3> QED BY <1>7, <3>3, <3>4
  <2>3. CASE m.tag # t
    <3>1. callback' = Idle \/ callback'.reply.tag = m.tag
      BY <2>1 DEF msgCallback
    <3>2. InHand(o, t)' = 0
      BY <2>3, <3>1 DEF InHand, Idle
    <3>3. sent'[t] = sent[t] + 0
      BY <1>6, <2>1, <2>3 DEF Ordered, TypeOK, Dumped
    <3> QED BY <1>7, <3>2, <3>3
  <2> QED BY <2>2, <2>3
<1>9. CASE VppReplies
  <2>1. ~IsDump(m) /\ UNCHANGED sent /\ msgCallback(m.context, m.tag, m.ping)
    BY <1>9 DEF VppReplies
  <2>2. callback' = Idle \/ /\ callback'.reply.tag = m.tag
                            /\ m.ping /\ u.isMultipart => callback'.reply.kind = "last"
    BY <2>1 DEF msgCallback
  <2>3. m.tag = t => m.ping /\ u.isMultipart
    BY <1>3, <2>1 DEF Dumped, IsDump
  <2>4. InHand(o, t)' = 0
    BY <2>2, <2>3 DEF InHand, Idle
  <2>5. sent'[t] = sent[t] + 0
    BY <1>6, <2>1
  <2> QED BY <1>7, <2>4, <2>5
<1> QED BY <1>8, <1>9

(* The reader goroutine delivers it, or drops it and it is lost.            *)
LEMMA ReaderOwing ==
    ASSUME NEW c, NEW f, Ordered(c, f), NEW o \in Objects, NEW t, Dumped(f, o, t),
           Owing(o, t), t \notin lost', Reader
    PROVE  Owing(o, t)'
<1> PICK r : r = callback.reply
  OBVIOUS
<1>1. /\ callback.pc = "send" /\ callback' = Idle
      /\ UNCHANGED <<sent, received, delayedReply>>
  BY DEF Reader, DeliverReply, DropReply, userVars
<1>2. r \in Reply /\ callback.ch \in Objects /\ f[r.tag].obj = callback.ch
  BY <1>1, CallbackReply DEF Ordered, Located
<1>3. InHand(o, t) = IF callback.ch = o THEN Counts(r, t) ELSE 0
  BY <1>1 DEF InHand, Counts
<1>4. InHand(o, t)' = 0 /\ InSlot(o, t)' = InSlot(o, t)
  BY <1>1 DEF InHand, InSlot, Idle
<1>5. /\ sent[t] \in Nat /\ received[t] \in Nat /\ InSlot(o, t) \in {0, 1}
      /\ Cardinality(Details(replyChan[o], t)) \in Nat /\ replyChan[o] \in Seq(Reply)
      /\ Counts(r, t) \in {0, 1}
  BY CountTypes DEF Ordered, Dumped
<1>6. ASSUME Cardinality(Details(replyChan[o], t))'
                = Cardinality(Details(replyChan[o], t)) + InHand(o, t)
      PROVE  Owing(o, t)'
  <2>1. InHand(o, t) \in {0, 1}
    BY <1>3, <1>5
  <2>2. OnTheWay(o, t)' = OnTheWay(o, t)
    BY <1>4, <1>5, <1>6, <2>1 DEF OnTheWay
  <2> QED BY <1>1, <2>2 DEF Owing
<1>7. CASE DeliverReply
  <2>1. replyChan' = [replyChan EXCEPT ![callback.ch] = Append(replyChan[callback.ch], r)]
    BY <1>7 DEF DeliverReply
  <2>2. CASE callback.ch = o
    <3>1. replyChan'[o] = Append(replyChan[o], r)
      BY <2>1, <2>2 DEF Ordered, TypeOK
    <3>2. Cardinality(Details(Append(replyChan[o], r), t))
            = Cardinality(Details(replyChan[o], t)) + Counts(r, t)
      BY <1>2, <1>5, DetailsAppend
    <3>3. Details(replyChan[o], t)' = Details(Append(replyChan[o], r), t)
      BY <3>1 DEF Details
    <3> QED BY <1>3, <1>6, <2>2, <3>2, <3>3
  <2>3. CASE callback.ch # o
    <3>1. replyChan'[o] = replyChan[o]
      BY <2>1, <2>3 DEF Ordered, TypeOK
    <3>2. Details(replyChan[o], t)' = Details(replyChan[o], t)
      BY <3>1 DEF Details
    <3> QED BY <1>3, <1>5, <1>6, <2>3, <3>2
  <2> QED BY <2>2, <2>3
<1>8. CASE DropReply
  <2>1. r.tag \in lost' /\ UNCHANGED replyChan
    BY <1>8 DEF DropReply
  <2>2. InHand(o, t) = 0
    BY <1>3, <2>1 DEF Counts
  <2>3. Details(replyChan[o], t)' = Details(replyChan[o], t)
    BY <2>1 DEF Details
  <2> QED BY <1>5, <1>6, <2>2, <2>3
<1> QED BY <1>7, <1>8 DEF Reader
(* An error reply is not a detail.                                          *)
LEMMA ErrorOwing ==
    ASSUME NEW c, NEW f, Ordered(c, f), NEW o \in Objects, NEW t, Dumped(f, o, t),
           Owing(o, t), NEW p \in Objects, SendErrorReply(p)
    PROVE  Owing(o, t)'
<1> PICK r : r = ErrorReply(watcher[p].req)
  OBVIOUS
<1>1. /\ Working(p) /\ UNCHANGED <<sent, received, callback, delayedReply>>
      /\ replyChan' = [replyChan EXCEPT ![p] = Append(replyChan[p], r)]
  BY DEF SendErrorReply, Working, userVars, vppVars
<1>2. replyChan \in [Objects -> Seq(Reply)]
  BY DEF Ordered, TypeOK
<1>3. CASE p # o
  <2>1. replyChan'[o] = replyChan[o]
    BY <1>1, <1>2, <1>3
  <2> QED BY <1>1, <2>1, OwingStays
<1>4. CASE p = o
  <2>1. r \in Reply /\ r.kind = "error"
    BY <1>1, WorkingReply DEF Ordered
  <2>2. Cardinality(Details(Append(replyChan[o], r), t))
          = Cardinality(Details(replyChan[o], t)) + Counts(r, t)
    BY <1>2, <2>1, DetailsAppend
  <2>3. Counts(r, t) = 0
    BY <2>1 DEF Counts
  <2>4. Cardinality(Details(replyChan[o], t)) \in Nat
    BY CountTypes DEF Ordered, Dumped
  <2>5. Details(replyChan[o], t)' = Details(Append(replyChan[o], r), t)
    BY <1>1, <1>2, <1>4 DEF Details
  <2>6. Cardinality(Details(replyChan[o], t))' = Cardinality(Details(replyChan[o], t))
    BY <2>2, <2>3, <2>4, <2>5
  <2>7. InHand(o, t)' = InHand(o, t) /\ InSlot(o, t)' = InSlot(o, t)
    BY <1>1 DEF InHand, InSlot
  <2> QED BY <1>1, <2>6, <2>7 DEF Owing, OnTheWay
<1> QED BY <1>3, <1>4

(* What ReceiveReply does with a reply: a detail of the dump is received or *)
(* it is in the slot.                                                       *)
LEMMA ReturnBalance ==
    ASSUME NEW c, NEW f, Ordered(c, f), Awaited, MaxRequests <= SeqMod, NEW o \in Objects,
           NEW t \in Tags, NEW want, NEW reply, Returned(o, want, reply)
    PROVE  received'[t] + InSlot(o, t)' = received[t] + Counts(reply, t)
<1>1. want \in handles[o]
  BY WantKnown
<1>2. want \in Asked(f, o) /\ want \in Request
  BY <1>1, HandleFacts DEF Ordered, Asked
<1>3. reply \in Answers(f, o) /\ reply \in Reply /\ reply # NoReply
  <2>1. CASE FromSlot(o, want, reply)
    <3>1. reply \in Answers(f, o) /\ reply # NoReply
      BY <2>1 DEF FromSlot, Ordered, Answered
    <3> QED BY <3>1 DEF Answers
  <2>2. CASE FromSelect(o, want, reply)
    <3>1. replyChan[o] \in Seq(Answers(f, o)) /\ replyChan[o] # <<>>
          /\ reply = Head(replyChan[o])
      BY <2>2 DEF FromSelect, Ordered, Answered
    <3>2. reply \in Answers(f, o) /\ Answers(f, o) \subseteq Reply
      BY <3>1 DEF Answers
    <3>3. reply.kind \in {"data", "last", "error"}
      BY <3>2 DEF Reply
    <3> QED BY <3>2, <3>3 DEF NoReply
  <2>3. reply \in Answers(f, o) /\ reply # NoReply
    BY <2>1, <2>2 DEF Returned
  <2> QED BY <2>3 DEF Returned, Answers
<1> PICK v : v = Verdict(want, reply)
  OBVIOUS
<1>4. v \in {"missing", "data", "last", "error"} /\ (v # "missing" => v = reply.kind)
  BY <1>3 DEF Returned, ReturnReply, Verdict, Reply
<1>5. /\ delayedReply'[o] = IF v = "missing" THEN reply ELSE NoReply
      /\ received' = IF v = "data"
                     THEN [received EXCEPT ![want.tag] = received[want.tag] + 1]
                     ELSE received
  BY DEF Returned, ReturnReply
<1>6. received \in [Tags -> Nat] /\ want.tag \in Tags
  BY <1>2 DEF Ordered, TypeOK, Request
<1>7. CASE v = "missing"
  <2>1. InSlot(o, t)' = Counts(reply, t)
    BY <1>5, <1>7 DEF InSlot, Counts
  <2> QED BY <1>5, <1>7, <2>1
<1>8. CASE v = "data"
  <2>1. reply.kind = "data" /\ reply.tag = want.tag
    <3>1. reply.tag = want.tag
      <4>1. Verdict(want, reply) \in {"data", "last", "error"}
        BY <1>8
      <4>2. TypeOK /\ Numbered(c, f)
        BY DEF Ordered
      <4> QED BY <1>2, <1>3, <4>1, <4>2, SameNumberSameRequest
    <3> QED BY <1>4, <1>8, <3>1
  <2>2. InSlot(o, t)' = 0
    BY <1>5, <1>8 DEF InSlot, NoReply
  <2>3. Counts(reply, t) = IF want.tag = t THEN 1 ELSE 0
    BY <2>1 DEF Counts
  <2>4. received'[t] = received[t] + Counts(reply, t)
    BY <1>5, <1>6, <1>8, <2>3
  <2> QED BY <1>6, <2>2, <2>3, <2>4
<1>9. CASE v \in {"last", "error"}
  <2>1. Counts(reply, t) = 0 /\ InSlot(o, t)' = 0
    BY <1>4, <1>5, <1>9 DEF Counts, InSlot, NoReply
  <2> QED BY <1>5, <1>9, <2>1
<1> QED BY <1>4, <1>7, <1>8, <1>9

(* The slot counts for what it holds.                                       *)
LEMMA SlotCounts ==
    ASSUME NEW o, NEW t
    PROVE  InSlot(o, t) = IF delayedReply[o] = NoReply THEN 0
                          ELSE Counts(delayedReply[o], t)
  BY DEF InSlot, Counts, NoReply
(* ReceiveReply returns a reply or parks it: the count stays right.         *)
LEMMA ReturnOwing ==
    ASSUME NEW c, NEW f, Ordered(c, f), Awaited, MaxRequests <= SeqMod, NEW o \in Objects,
           NEW t, Dumped(f, o, t), Owing(o, t), NEW p \in Objects, NEW want, NEW reply,
           Returned(p, want, reply)
    PROVE  Owing(o, t)'
<1>1. /\ UNCHANGED <<sent, callback>> /\ TypeOK /\ t \in Tags /\ Located(f)
      /\ FromSlot(p, want, reply) \/ FromSelect(p, want, reply)
      /\ \E x : delayedReply' = [delayedReply EXCEPT ![p] = x]
      /\ received' = IF Verdict(want, reply) = "data"
                     THEN [received EXCEPT ![want.tag] = received[want.tag] + 1]
                     ELSE received
      /\ FromSlot(p, want, reply) => UNCHANGED replyChan /\ reply = delayedReply[p]
                                     /\ reply # NoReply
      /\ FromSelect(p, want, reply) =>
            /\ replyChan' = [replyChan EXCEPT ![p] = Tail(replyChan[p])]
            /\ replyChan[p] # <<>> /\ reply = Head(replyChan[p])
            /\ user[p].pc = "receiving"
  BY DEF Returned, ReturnReply, FromSlot, FromSelect, ReceiveReply, TakeReply, Ordered,
     Dumped
<1>2. CASE p # o
  <2>1. delayedReply'[o] = delayedReply[o] /\ replyChan'[o] = replyChan[o]
    BY <1>1, <1>2 DEF TypeOK
  <2>2. want.tag # t
    <3>1. want \in handles[p]
      BY WantKnown
    <3> QED BY <1>1, <1>2, <3>1 DEF Located, Dumped
  <2>3. received'[t] = received[t]
    BY <1>1, <2>2 DEF TypeOK
  <2> QED BY <1>1, <2>1, <2>3, OwingStays
<1>3. CASE p = o
  <2>1. /\ sent[t] \in Nat /\ received[t] \in Nat
        /\ InHand(o, t) \in {0, 1} /\ InSlot(o, t) \in {0, 1}
        /\ Cardinality(Details(replyChan[o], t)) \in Nat
        /\ replyChan[o] \in Seq(Reply) /\ Counts(reply, t) \in {0, 1}
    BY <1>1, CountTypes
  <2>2. received'[t] + InSlot(o, t)' = received[t] + Counts(reply, t)
    BY <1>1, <1>3, ReturnBalance
  <2>3. InHand(o, t)' = InHand(o, t)
    BY <1>1 DEF InHand
  <2>4. received'[t] \in Nat /\ InSlot(o, t)' \in {0, 1}
    <3>1. received' \in [Tags -> Nat]
      <4>1. want \in Request
        BY <1>1, <1>3, WantKnown DEF TypeOK
      <4>2. want.tag \in Tags /\ received \in [Tags -> Nat]
        BY <1>1, <4>1 DEF TypeOK, Request
      <4>3. received[want.tag] + 1 \in Nat
        BY <4>2
      <4> QED BY <1>1, <4>2, <4>3
    <3> QED BY <1>1, <3>1 DEF InSlot
  <2>5. Cardinality(Details(replyChan[o], t)) + InSlot(o, t)
          = Cardinality(Details(replyChan[o], t))' + Counts(reply, t)
        /\ Cardinality(Details(replyChan[o], t))' \in Nat
    <3>1. CASE FromSlot(o, want, reply)
      <4>1. InSlot(o, t) = Counts(reply, t)
        BY <1>1, <1>3, <3>1, SlotCounts
      <4>2. Details(replyChan[o], t)' = Details(replyChan[o], t)
        BY <1>1, <1>3, <3>1 DEF Details
      <4> QED BY <2>1, <4>1, <4>2
    <3>2. CASE FromSelect(o, want, reply)
      <4>1. delayedReply[o] = NoReply
        BY <1>1, <1>3, <3>2 DEF Ordered, SlotFree
      <4>2. InSlot(o, t) = 0
        BY <4>1, SlotCounts
      <4>3. Cardinality(Details(replyChan[o], t))
              = Cardinality(Details(Tail(replyChan[o]), t)) + Counts(reply, t)
        BY <1>1, <1>3, <2>1, <3>2, DetailsTail
      <4>4. replyChan'[o] = Tail(replyChan[o]) /\ Tail(replyChan[o]) \in Seq(Reply)
        BY <1>1, <1>3, <2>1, <3>2 DEF TypeOK
      <4>5. Details(replyChan[o], t)' = Details(Tail(replyChan[o]), t)
        BY <4>4 DEF Details
      <4>6. Cardinality(Details(Tail(replyChan[o]), t)) \in Nat
        BY <4>4, DetailsFinite
      <4> QED BY <2>1, <4>2, <4>3, <4>5, <4>6
    <3> QED BY <1>1, <1>3, <3>1, <3>2
  <2>6. sent'[t] = sent[t]
    BY <1>1
  <2>7. sent[t] = received[t] + (InHand(o, t) + Cardinality(Details(replyChan[o], t))
                                   + InSlot(o, t))
    BY DEF Owing, OnTheWay
  <2>8. OnTheWay(o, t)' = InHand(o, t) + Cardinality(Details(replyChan[o], t))' + InSlot(o, t)'
    BY <2>3 DEF OnTheWay
  <2>9. sent'[t] = received'[t] + OnTheWay(o, t)'
    <3> PICK a, b, d, e, s, r : /\ a = InHand(o, t) /\ b = Cardinality(Details(replyChan[o], t))
                                /\ d = InSlot(o, t) /\ e = Counts(reply, t)
                                /\ s = sent[t] /\ r = received[t]
      OBVIOUS
    <3> PICK bb, dd, rr : /\ bb = Cardinality(Details(replyChan[o], t))'
                          /\ dd = InSlot(o, t)' /\ rr = received'[t]
      OBVIOUS
    <3>1. /\ a \in Int /\ b \in Int /\ d \in Int /\ e \in Int /\ s \in Int /\ r \in Int
          /\ bb \in Int /\ dd \in Int /\ rr \in Int
      BY <2>1, <2>4, <2>5
    <3>2. rr + dd = r + e /\ b + d = bb + e /\ s = r + (a + b + d)
      BY <2>2, <2>5, <2>7
    <3>3. s = rr + (a + bb + dd)
      BY <3>1, <3>2
    <3> QED BY <2>6, <2>8, <3>3
  <2> QED BY <2>9 DEF Owing
<1> QED BY <1>2, <1>3

(* A reply that is ignored is lost to its dump; without one in the slot     *)
(* ReceiveReply goes on to its select.                                      *)
Ignored(p) == /\ \/ /\ delayedReply' = [delayedReply EXCEPT ![p] = NoReply]
                    /\ UNCHANGED replyChan
                    /\ delayedReply[p] = NoReply \/ delayedReply[p].tag \in lost'
                 \/ /\ replyChan' = [replyChan EXCEPT ![p] = Tail(replyChan[p])]
                    /\ replyChan[p] # <<>> /\ Head(replyChan[p]).tag \in lost'
                    /\ UNCHANGED delayedReply
              /\ UNCHANGED <<sent, received, callback>>

(* It ignores one: the dump is lost, or the reply is no detail of it.       *)
LEMMA IgnoredOwing ==
    ASSUME NEW c, NEW f, Ordered(c, f), NEW o \in Objects, NEW t, Dumped(f, o, t),
           Owing(o, t), t \notin lost', NEW p \in Objects, Ignored(p)
    PROVE  Owing(o, t)'
<1>1. /\ UNCHANGED <<sent, received, callback>> /\ TypeOK /\ t \in Tags
      /\ replyChan[o] \in Seq(Reply)
  BY DEF Ignored, Ordered, Dumped, TypeOK
<1>2. CASE p # o
  <2>1. delayedReply'[o] = delayedReply[o] /\ replyChan'[o] = replyChan[o]
    BY <1>1, <1>2 DEF Ignored, TypeOK
  <2> QED BY <1>1, <2>1, OwingStays
<1>3. CASE p = o
  <2>1. InHand(o, t)' = InHand(o, t)
    BY <1>1 DEF InHand
  <2>2. /\ InSlot(o, t)' = InSlot(o, t)
        /\ Cardinality(Details(replyChan[o], t))' = Cardinality(Details(replyChan[o], t))
    <3>1. CASE /\ delayedReply' = [delayedReply EXCEPT ![p] = NoReply]
               /\ UNCHANGED replyChan
               /\ delayedReply[p] = NoReply \/ delayedReply[p].tag \in lost'
      <4>1. delayedReply'[o] = NoReply
        BY <1>1, <1>3, <3>1 DEF TypeOK
      <4>2. InSlot(o, t)' = 0
        BY <4>1 DEF InSlot, NoReply
      <4>3. InSlot(o, t) = 0
        BY <1>3, <3>1 DEF InSlot, NoReply
      <4>4. Details(replyChan[o], t)' = Details(replyChan[o], t)
        BY <3>1 DEF Details
      <4> QED BY <4>2, <4>3, <4>4
    <3>2. CASE /\ replyChan' = [replyChan EXCEPT ![p] = Tail(replyChan[p])]
               /\ replyChan[p] # <<>> /\ Head(replyChan[p]).tag \in lost'
               /\ UNCHANGED delayedReply
      <4>1. InSlot(o, t)' = InSlot(o, t)
        BY <3>2 DEF InSlot
      <4>2. Cardinality(Details(replyChan[o], t))
              = Cardinality(Details(Tail(replyChan[o]), t)) + Counts(Head(replyChan[o]), t)
        BY <1>1, <1>3, <3>2, DetailsTail
      <4>3. Counts(Head(replyChan[o]), t) = 0
        BY <1>3, <3>2 DEF Counts
      <4>4. replyChan'[o] = Tail(replyChan[o]) /\ Tail(replyChan[o]) \in Seq(Reply)
        BY <1>1, <1>3, <3>2 DEF TypeOK
      <4>5. Details(replyChan[o], t)' = Details(Tail(replyChan[o]), t)
        BY <4>4 DEF Details
      <4>6. Cardinality(Details(Tail(replyChan[o]), t)) \in Nat
        BY <4>4, DetailsFinite
      <4> QED BY <4>1, <4>2, <4>3, <4>5, <4>6
    <3> QED BY <3>1, <3>2 DEF Ignored
  <2> QED BY <1>1, <2>1, <2>2 DEF Owing, OnTheWay
<1> QED BY <1>2, <1>3
(* The user's steps do one or the other.                                    *)
LEMMA UserReplies ==
    ASSUME TypeOK, NEW p \in Objects,
           (\E want \in handles[p] : ReceiveReply(p, want)) \/ TakeReply(p)
    PROVE  (\E want, reply : Returned(p, want, reply)) \/ Ignored(p)
<1>1. DOMAIN delayedReply = Objects /\ DOMAIN result = Objects
      /\ replyChan \in [Objects -> Seq(Reply)]
  BY DEF TypeOK
<1>2. ASSUME NEW want, NEW reply, ReturnReply(p, want, reply),
             FromSlot(p, want, reply) \/ FromSelect(p, want, reply)
      PROVE  Returned(p, want, reply)
  <2>1. /\ delayedReply'[p] = IF Verdict(want, reply) = "missing" THEN reply ELSE NoReply
        /\ result'[p] = [kind |-> Verdict(want, reply), want |-> want.tag, got |-> reply.tag]
        /\ UNCHANGED lost
    BY <1>1, <1>2 DEF ReturnReply
  <2>2. UNCHANGED <<issued, sent, callback, vppQueue, reqChan, watcher>>
    BY <1>2 DEF FromSlot, FromSelect, ReceiveReply, TakeReply, vppVars
  <2> QED BY <1>2, <2>1, <2>2 DEF Returned
<1>3. ASSUME NEW want \in handles[p], ReceiveReply(p, want)
      PROVE  (\E w, reply : Returned(p, w, reply)) \/ Ignored(p)
  <2>1. CASE delayedReply[p] # NoReply /\ ReturnReply(p, want, delayedReply[p])
    <3>1. FromSlot(p, want, delayedReply[p])
      BY <1>3, <2>1 DEF FromSlot
    <3> QED BY <1>2, <2>1, <3>1
  <2>2. CASE ~(delayedReply[p] # NoReply /\ ReturnReply(p, want, delayedReply[p]))
    <3>1. /\ delayedReply' = [delayedReply EXCEPT ![p] = NoReply]
          /\ UNCHANGED <<received, replyChan, sent, callback>>
          /\ delayedReply[p] = NoReply \/ lost' = lost \cup {delayedReply[p].tag}
      BY <1>3, <2>2 DEF ReceiveReply, Ignore, vppVars
    <3> QED BY <3>1 DEF Ignored
  <2> QED BY <2>1, <2>2
<1>4. ASSUME TakeReply(p)
      PROVE  (\E w, reply : Returned(p, w, reply)) \/ Ignored(p)
  <2>1. CASE ReturnReply(p, user[p].want, Head(replyChan[p]))
    <3>1. FromSelect(p, user[p].want, Head(replyChan[p]))
      <4>1. /\ user[p].pc = "receiving" /\ replyChan[p] # <<>>
            /\ replyChan' = [replyChan EXCEPT ![p] = Tail(replyChan[p])]
        BY <1>4 DEF TakeReply
      <4> QED BY <1>1, <1>4, <4>1 DEF FromSelect
    <3> QED BY <1>2, <2>1, <3>1
  <2>2. CASE ~ReturnReply(p, user[p].want, Head(replyChan[p]))
    <3>1. /\ UNCHANGED <<received, delayedReply, sent, callback>>
          /\ replyChan' = [replyChan EXCEPT ![p] = Tail(replyChan[p])]
          /\ replyChan[p] # <<>> /\ lost' = lost \cup {Head(replyChan[p]).tag}
      BY <1>4, <2>2 DEF TakeReply, Ignore, vppVars
    <3> QED BY <3>1 DEF Ignored
  <2> QED BY <2>1, <2>2
<1> QED BY <1>3, <1>4

(* What is lost stays so.                                                   *)
LEMMA LostGrows ==
    ASSUME [Next]_vars
    PROVE  lost \subseteq lost'
<1>1. ASSUME NEW o \in Objects, User(o) \/ Watcher(o) \/ ResetAndPut(o)
      PROVE  lost \subseteq lost'
  BY <1>1 DEF User, NewAPIChannel, Close, SendRequest, ReceiveReply, TakeReply,
     ReturnReply, Ignore,
     ReplyTimesOut, SetReplyTimeout, Watcher, TakeRequest, RejectRequest, SendToVPP,
     SendFails, SendPing, SendPingFails, SendErrorReply, DropErrorReply, ReleaseFromMap,
     ReleasePutId, ResetAndPut
<1>2. Reader \/ Environment \/ UNCHANGED vars => lost \subseteq lost'
  BY DEF Reader, DeliverReply, DropReply, Environment, VppSendsDetail, VppReplies,
     VppMovesOn, Disconnect, Reconnect, vars
<1> QED BY <1>1, <1>2 DEF Next

(* The steps that move no reply.                                            *)
LEMMA QuietOwing ==
    ASSUME TypeOK, NEW o \in Objects, home[o] = "open", NEW t, Owing(o, t), NEW p \in Objects,
           \/ NewAPIChannel(p) \/ Close(p) \/ \E multi \in BOOLEAN : SendRequest(p, multi)
           \/ ReplyTimesOut(p) \/ \E timeout \in Timeouts : SetReplyTimeout(p, timeout)
           \/ TakeRequest(p) \/ RejectRequest(p) \/ SendToVPP(p) \/ SendFails(p)
           \/ SendPing(p) \/ SendPingFails(p) \/ DropErrorReply(p)
           \/ ReleaseFromMap(p) \/ ReleasePutId(p) \/ ResetAndPut(p)
           \/ VppMovesOn \/ Disconnect \/ Reconnect \/ UNCHANGED vars
    PROVE  Owing(o, t)'
<1>1. UNCHANGED <<sent, received, callback, delayedReply>>
  BY DEF NewAPIChannel, Close, SendRequest, ReplyTimesOut, SetReplyTimeout, TakeRequest,
     RejectRequest, SendToVPP, SendFails, SendPing, SendPingFails, DropErrorReply,
     ReleaseFromMap, ReleasePutId, ResetAndPut, VppMovesOn, Disconnect, Reconnect, vars,
     userVars, vppVars
<1>2. replyChan'[o] = replyChan[o]
  <2>1. CASE ResetAndPut(p)
    BY <2>1 DEF ResetAndPut, TypeOK
  <2>2. CASE ~ResetAndPut(p)
    BY <2>2 DEF NewAPIChannel, Close, SendRequest, ReplyTimesOut, SetReplyTimeout,
       TakeRequest, RejectRequest, SendToVPP, SendFails, SendPing, SendPingFails,
       DropErrorReply, ReleaseFromMap, ReleasePutId, VppMovesOn, Disconnect, Reconnect, vars
  <2> QED BY <2>1, <2>2
<1> QED BY <1>1, <1>2, OwingStays

(* Nothing is on its way for a request that is only just sent.              *)
LEMMA NewOwing ==
    ASSUME NEW c, NEW f, Ordered(c, f), Uncounted, NEW o \in Objects, NEW multi \in BOOLEAN,
           SendRequest(o, multi), NEW t, t = issued + 1
    PROVE  Owing(o, t)'
<1>1. /\ TypeOK /\ Located(f) /\ issued \in Nat /\ t \in Tags /\ t > issued /\ t \notin 1..issued
  <2>1. issued \in Nat /\ issued < MaxRequests /\ MaxRequests \in Nat
    BY BoundAssumption DEF SendRequest, Ordered, TypeOK
  <2>2. t \in 1..MaxRequests /\ t > issued /\ t \notin 1..issued
    BY <2>1
  <2> QED BY <2>1, <2>2 DEF Ordered, Tags
<1>2. UNCHANGED <<sent, received, callback, delayedReply, replyChan>>
  BY DEF SendRequest
<1>3. sent[t] = 0 /\ received[t] = 0
  BY <1>1 DEF Uncounted
<1>4. InHand(o, t) = 0 /\ InSlot(o, t) = 0
  BY <1>1 DEF InHand, InSlot, Located, NoReply
<1>5. Details(replyChan[o], t) = {}
  BY <1>1 DEF Details, Located
<1>6. Cardinality(Details(replyChan[o], t)) = 0
  BY <1>5, FS_EmptySet
<1>7. Owing(o, t)
  BY <1>3, <1>4, <1>6 DEF Owing, OnTheWay
<1> QED BY <1>2, <1>7, OwingStays

(* The count of every dump stays right.                                     *)
LEMMA NextDetailsCounted ==
    ASSUME NEW c, NEW f, Ordered(c, f), Awaited, DetailsCounted, Uncounted,
           MaxRequests <= SeqMod, [Next]_vars
    PROVE  DetailsCounted'
<1> SUFFICES ASSUME NEW o \in Objects, NEW h, h \in handles'[o], h.multi, NEW t, t = h.tag,
                    t \notin lost'
             PROVE  Owing(o, t)'
  BY DEF DetailsCounted, Owing
<1>1. TypeOK /\ t \notin lost
  BY LostGrows DEF Ordered
<1>2. CASE h \notin handles[o]
  <2>1. \E multi \in BOOLEAN : SendRequest(o, multi) /\ h.tag = issued + 1
    BY <1>1, <1>2, HandlesGrow
  <2> QED BY <2>1, NewOwing
<1>3. CASE h \in handles[o]
  <2>1. Owing(o, t)
    BY <1>1, <1>3 DEF DetailsCounted, Owing
  <2>2. Dumped(f, o, t) /\ home[o] = "open"
    <3>1. t \in Tags
      BY <1>1, <1>3 DEF TypeOK, Request
    <3> QED BY <1>3, <3>1, HandleFacts DEF Ordered, Dumped
  <2>3. ASSUME NEW p \in Objects,
               (\E want \in handles[p] : ReceiveReply(p, want)) \/ TakeReply(p)
        PROVE  Owing(o, t)'
    BY <1>1, <2>1, <2>2, <2>3, UserReplies, ReturnOwing, IgnoredOwing
  <2>4. ASSUME NEW p \in Objects, SendErrorReply(p)
        PROVE  Owing(o, t)'
    BY <2>1, <2>2, <2>4, ErrorOwing
  <2>5. Reader \/ VppSendsDetail \/ VppReplies => Owing(o, t)'
    BY <2>1, <2>2, ReaderOwing, VppOwing
  <2>6. ASSUME NEW p \in Objects,
           \/ NewAPIChannel(p) \/ Close(p) \/ \E multi \in BOOLEAN : SendRequest(p, multi)
           \/ ReplyTimesOut(p) \/ \E timeout \in Timeouts : SetReplyTimeout(p, timeout)
           \/ TakeRequest(p) \/ RejectRequest(p) \/ SendToVPP(p) \/ SendFails(p)
           \/ SendPing(p) \/ SendPingFails(p) \/ DropErrorReply(p)
           \/ ReleaseFromMap(p) \/ ReleasePutId(p) \/ ResetAndPut(p)
        PROVE  Owing(o, t)'
    BY <1>1, <2>1, <2>2, <2>6, QuietOwing
  <2>7. VppMovesOn \/ Disconnect \/ Reconnect \/ UNCHANGED vars => Owing(o, t)'
    BY <1>1, <2>1, <2>2, QuietOwing
  <2> QED BY <2>3, <2>4, <2>5, <2>6, <2>7 DEF Next, User, Watcher, Environment
<1> QED BY <1>2, <1>3
(* Nothing on its way when the last reply is returned: all was received.    *)
LEMMA LastComplete ==
    ASSUME NEW c, NEW f, Ordered(c, f), Awaited, DetailsCounted, [Next]_vars,
           NoForeignReply', NEW o \in Objects, NEW want, NEW reply,
           Returned(o, want, reply), result'[o].kind = "last", NEW t, t = result'[o].want
    PROVE  received'[t] = sent'[t] \/ t \in lost'
<1>1. /\ TypeOK /\ Located(f) /\ UNCHANGED <<lost, sent>>
  BY DEF Ordered, Returned
<1>2. /\ reply.kind = "last" /\ reply.tag = t /\ want.tag = t
      /\ Verdict(want, reply) = "last"
  BY ReturnedLast
<1>3. received'[t] = received[t]
  BY <1>2 DEF Returned, ReturnReply
<1>4. want \in handles[o]
  BY WantKnown
<1>5. t \in Tags /\ f[t].obj = o
  BY <1>1, <1>2, <1>4 DEF TypeOK, Request, Located
<1>6. Handed(t) /\ Details(replyChan[o], t) \subseteq {1}
      /\ InSlot(o, t) = 0 /\ Cardinality(Details(replyChan[o], t)) = 0
  <2>1. CASE FromSlot(o, want, reply)
    <3>1. reply = delayedReply[o] /\ reply # NoReply
      BY <2>1 DEF FromSlot
    <3>2. Fetched(t)
      BY <1>2, <3>1 DEF Ordered, LastInOrder, SlotLast
    <3>3. InSlot(o, t) = 0
      BY <1>2, <3>1 DEF InSlot
    <3>4. Details(replyChan[o], t) = {}
      BY <3>2 DEF Fetched, Absent, About, Details
    <3> QED BY <3>2, <3>3, <3>4, FS_EmptySet DEF Fetched
  <2>2. CASE FromSelect(o, want, reply)
    <3>1. /\ replyChan[o] # <<>> /\ reply = Head(replyChan[o])
          /\ user[o].pc = "receiving" /\ replyChan[o] \in Seq(Reply)
      BY <1>1, <2>2 DEF FromSelect, TypeOK
    <3>2. /\ 1 \in DOMAIN replyChan[o] /\ reply = replyChan[o][1]
          /\ Behind(replyChan[o], 1) => Absent(Tail(replyChan[o]), t)
      BY <1>2, <3>1, BehindTail
    <3>3. Handed(t) /\ Behind(replyChan[o], 1)
      BY <1>2, <3>2 DEF Ordered, LastInOrder, ReplyLast
    <3>4. InSlot(o, t) = 0
      <4>1. delayedReply[o] = NoReply
        BY <3>1 DEF Ordered, SlotFree
      <4> QED BY <4>1, SlotCounts
    <3>5. Details(replyChan[o], t) = {}
      <4> SUFFICES ASSUME NEW k \in DOMAIN replyChan[o], replyChan[o][k].tag = t,
                          replyChan[o][k].kind = "data"
                   PROVE  FALSE
        BY DEF Details
      <4>1. k \in Nat \ {0}
        BY <3>1
      <4>2. k = 1
        BY <1>2, <3>2, <3>3, <4>1 DEF Behind
      <4> QED BY <1>2, <3>2, <4>2
    <3> QED BY <3>3, <3>4, <3>5, FS_EmptySet
  <2> QED BY <2>1, <2>2 DEF Returned
<1>7. InHand(o, t) = 0
  BY <1>6 DEF Handed, InHand
<1>8. want.multi
  BY <1>2, <1>4, <1>6 DEF Handed, Served, OfDump
<1>9. t \notin lost => Owing(o, t)
  BY <1>2, <1>4, <1>8 DEF DetailsCounted, Owing
<1>10. sent[t] \in Nat /\ received[t] \in Nat
  BY <1>1, <1>5, CountTypes
<1>11. t \notin lost => sent[t] = received[t]
  BY <1>6, <1>7, <1>9, <1>10 DEF Owing, OnTheWay
<1> QED BY <1>1, <1>3, <1>11

(* After that nothing more is sent or received for it.                      *)
LEMMA NextMultiComplete ==
    ASSUME NEW c, NEW f, Ordered(c, f), Awaited, DetailsCounted, MultiComplete,
           [Next]_vars, NoForeignReply'
    PROVE  MultiComplete'
<1> SUFFICES ASSUME NEW o \in Objects, result'[o].kind = "last", NEW t, t = result'[o].want
             PROVE  received'[t] = sent'[t] \/ t \in lost'
  BY DEF MultiComplete
<1>1. TypeOK /\ Located(f) /\ vppQueue \in Seq(Message)
  BY DEF Ordered, TypeOK
<1>2. CASE result'[o] # result[o]
  <2>1a. PICK p \in Objects : \E want, reply : Returned(p, want, reply)
    BY <1>1, <1>2, ReturnMoves
  <2>1. PICK want, reply : Returned(p, want, reply)
    BY <2>1a
  <2>2. \E x : result' = [result EXCEPT ![p] = x]
    BY <2>1 DEF Returned, ReturnReply
  <2>3. p = o
    BY <1>1, <1>2, <2>2 DEF TypeOK
  <2> QED BY <2>1, <2>3, LastComplete
<1>3. CASE result'[o] = result[o]
  <2>1. t \in 1..issued /\ Finished(t)
    BY <1>3 DEF Ordered, LastInOrder, ResultLast
  <2>2. t \in Tags
    BY <1>1, <2>1, BoundAssumption DEF TypeOK, Tags
  <2>3. received[t] = sent[t] \/ t \in lost
    BY <1>3 DEF MultiComplete
  <2>4. sent'[t] = sent[t]
    <3>1. Absent(vppQueue, t)
      BY <2>1 DEF Finished, Fetched, Handed, Served
    <3>2. vppQueue # <<>> => Head(vppQueue).tag # t
      BY <1>1, <3>1, AbsentStays
    <3> QED BY <2>2, <3>2, CountsMove
  <2>5. received'[t] = received[t]
    <3>1. ASSUME NEW p \in Objects, NEW want \in handles[p], NEW reply,
                 Returned(p, want, reply), Verdict(want, reply) = "data", t = want.tag
          PROVE  FALSE
      <4>1. result'[p] = [kind |-> Verdict(want, reply), want |-> want.tag, got |-> reply.tag]
        BY <3>1 DEF Returned
      <4>2. reply.tag = t
        BY <3>1, <4>1 DEF NoForeignReply
      <4>3. CASE FromSlot(p, want, reply)
        BY <2>1, <4>2, <4>3 DEF FromSlot, Finished, Parked
      <4>4. CASE FromSelect(p, want, reply)
        <5>1. /\ replyChan[p] # <<>> /\ reply = Head(replyChan[p])
              /\ replyChan[p] \in Seq(Reply) /\ Absent(replyChan[p], t)
          BY <1>1, <2>1, <4>4 DEF FromSelect, Finished, Fetched, TypeOK
        <5> QED BY <4>2, <5>1, AbsentStays
      <4> QED BY <3>1, <4>3, <4>4 DEF Returned
    <3> QED BY <2>2, <3>1, CountsMove
  <2> QED BY <2>3, <2>4, <2>5, LostGrows
<1> QED BY <1>2, <1>3

(* The inductive invariant: the last replies are in order, and the details  *)
(* are counted.                                                             *)
CompleteInv == /\ ReplyInv /\ SlotFree /\ LastInOrder /\ Awaited
               /\ DetailsCounted /\ Uncounted /\ MultiComplete

(* At first there is no request.                                            *)
LEMMA InitComplete == Init => LastInOrder /\ Awaited /\ DetailsCounted /\ Uncounted
                              /\ MultiComplete
<1> SUFFICES ASSUME Init
             PROVE  LastInOrder /\ Awaited /\ DetailsCounted /\ Uncounted /\ MultiComplete
  OBVIOUS
<1>1. /\ \A o \in Objects : /\ reqChan[o] = <<>> /\ replyChan[o] = <<>>
                            /\ watcher[o].pc = "idle" /\ user[o].pc = "idle"
                            /\ delayedReply[o].kind = "none" /\ result[o].kind = "none"
                            /\ handles[o] = {}
      /\ vppQueue = <<>> /\ callback.pc = "idle"
      /\ \A t \in Tags : sent[t] = 0 /\ received[t] = 0
  BY DEF Init, Idle, NoReply
<1>2. LastInOrder
  BY <1>1 DEF LastInOrder, RequestsOnce, PingLast, CallLast, ReplyLast, SlotLast,
     ResultLast, Working
<1>3. Awaited /\ DetailsCounted /\ Uncounted /\ MultiComplete
  BY <1>1 DEF Awaited, DetailsCounted, Uncounted, MultiComplete
<1> QED BY <1>2, <1>3

(* Every step keeps the whole of it.                                        *)
LEMMA NextComplete ==
    ASSUME MaxRequests <= SeqMod, CompleteInv, [Next]_vars, ReplyInv'
    PROVE  CompleteInv'
<1>1. PICK c, f : Numbered(c, f) /\ Addressed(f) /\ Requested(f) /\ Answered(f)
  BY DEF CompleteInv, ReplyInv, Explained
<1>2. Ordered(c, f)
  BY <1>1, OwnersKnown DEF CompleteInv, ReplyInv, Ordered
<1>3. NoForeignReply'
  BY DEF ReplyInv
<1>4. SlotFree'
  BY NextSlotFree DEF CompleteInv, ReplyInv
<1>5. RequestsOnce' /\ PingLast' /\ CallLast' /\ ReplyLast' /\ SlotLast' /\ ResultLast'
  BY <1>2, <1>3, NextRequestsOnce, NextPingLast, NextCallLast, NextReplyLast, NextSlotLast,
     NextResultLast
<1>6. Awaited'
  BY <1>2, NextAwaited DEF CompleteInv, Ordered
<1>7. DetailsCounted' /\ Uncounted' /\ MultiComplete'
  BY <1>2, <1>3, NextDetailsCounted, NextUncounted, NextMultiComplete DEF CompleteInv
<1> QED BY <1>4, <1>5, <1>6, <1>7 DEF CompleteInv, LastInOrder

(* ReceiveReply reports the end of a multipart reply only when it has       *)
(* returned every detail VPP sent, or one was dropped or ignored, for any   *)
(* number of objects, requests, details, faults and buffer sizes, under the *)
(* hypotheses of NoForeignReplyCorrect.                                     *)
THEOREM MultiCompleteCorrect ==
    ASSUME MaxOpens <= MaxID, MaxRequests <= SeqMod
    PROVE  Spec => []MultiComplete
<1>1. Init => CompleteInv
  <2>1. Init => ReplyInv
    BY InitTypeOK, InitPhases, InitReplyInv DEF ReplyInv
  <2>2. Init => SlotFree
    BY DEF Init, Idle, SlotFree
  <2> QED BY <2>1, <2>2, InitComplete DEF CompleteInv
<1>2. ASSUME CompleteInv, [Next]_vars
      PROVE  CompleteInv'
  <2>1. ReplyInv'
    BY <1>2, NextTypeOK, NextPhases, NextIdsExclusive, NextExplained, NextFreshIds,
       NextDrained, NextForgotten DEF ReplyInv, CompleteInv
  <2> QED BY <1>2, <2>1, NextComplete
<1>3. CompleteInv => MultiComplete
  BY DEF CompleteInv
<1> QED BY <1>1, <1>2, <1>3, PTL DEF Spec
=============================================================================
