------------------------- MODULE WorkerClientProofs -------------------------
(***************************************************************************)
(* Proofs about WorkerClient, for any number of channels, requests,        *)
(* attempts and connections: no request is orphaned between the two        *)
(* threads and none is settled by an answer meant for another; a retry is  *)
(* decided for a loss; and a reconnect that is left alone restores every   *)
(* channel the application holds.                                          *)
(***************************************************************************)
EXTENDS WorkerClient, SequenceTheorems, FiniteSetTheorems, TLAPS

-----------------------------------------------------------------------------
(* The inductive invariant.  It speaks of the messages on their way as two *)
(* sets; only the order of the ids towards the worker matters.             *)

Outbox == {toWorker[i] : i \in DOMAIN toWorker}
Inbox == {toMain[i] : i \in DOMAIN toMain}

InOrder ==
    \A i, j \in DOMAIN toWorker : i < j => toWorker[i].id < toWorker[j].id

\* A request: those about a channel name one.
RequestType ==
    {"init", "connect", "reconnect", "open", "call", "send", "unsubscribe", "close"}

OnChannel == {"open", "call", "send", "unsubscribe"}

Requested ==
    [type : RequestType \ OnChannel, id : Nat \ {0}, ch : {0}]
        \cup [type : OnChannel, id : Nat \ {0}, ch : Channels]

ReplyType ==
    {"ready", "connected", "opened", "openFailed", "error", "response", "ack",
     "cancelled", "closed"}

Told ==
    [type : ReplyType \ {"closed"}, id : Int, ch : Channels \cup {0}]
        \cup [type : {"closed"}, id : Int, ch : {0}]

MainTypes ==
    /\ pending \subseteq Requested
    /\ nextRequest \in Nat \ {0}
    /\ nextChannel \in Int
    /\ tracked \subseteq Channels
    /\ rc \in [pc : {"idle", "await", "reopen"}, auto : BOOLEAN, id : Nat,
               opening : Channels \cup {0}, todo : SUBSET Channels]

WorkerTypes ==
    /\ toWorker \in Seq(Requested)
    /\ toMain \in Seq(Told)
    /\ connectId \in Nat
    /\ wOpen \in [Channels -> Nat]
    /\ wCalls \subseteq Nat
    /\ ops \subseteq Channels \X Nat

\* Ids are given once: all that were given are below the next, those the worker
\* has taken are below those on their way to it, and these are in order.
Given ==
    /\ InOrder
    /\ \A x \in pending \cup Outbox \cup Inbox : x.id < nextRequest
    /\ connectId < nextRequest
    /\ \A c \in Channels : wOpen[c] < nextRequest
    /\ \A n \in wCalls : n < nextRequest
    /\ \A o \in ops : o[2] < nextRequest
    /\ \A w \in Outbox :
          /\ connectId < w.id
          /\ \A c \in Channels : wOpen[c] < w.id
          /\ \A n \in wCalls : n < w.id

\* An id stands for the one request it was given to, wherever it appears.
Means(p) ==
    /\ \A q \in pending \cup Outbox : p.id = q.id => p = q
    /\ connectId = p.id => p.type \in {"connect", "reconnect"}
    /\ \A c \in Channels : wOpen[c] = p.id => p.type = "open" /\ p.ch = c
    /\ p.id \in wCalls => p.type = "call"
    /\ \A o \in ops : o[2] = p.id => p.type = "call" /\ p.ch = o[1]
    /\ \A m \in Inbox : m.id = p.id => m.type \in AnswerTo(p) /\ m.ch \in {0, p.ch}

\* What replaces the connection rejects what was asked before it.
Replaces ==
    \A w \in Outbox : \A p \in pending :
        w.type \in {"connect", "reconnect"} => w.id <= p.id

\* The reconnect() in progress is the one that waits for its request.
Awaits == \A p \in pending : p.type = "reconnect" => rc.pc = "await" /\ rc.id = p.id

\* Ids of channels are given once as well.
ChannelsGiven ==
    /\ \A c \in tracked \cup rc.todo : c < nextChannel
    /\ \A p \in pending : p.type = "open" => p.ch < nextChannel

\* A channel is not opened while its open is pending, unless the application
\* opened it while a reconnect waited for its session.
OpensOnce ==
    "open" \notin disturbed =>
        /\ \A p \in pending : p.type = "open" => rc.pc # "await" /\ p.ch \notin rc.todo
        /\ \A w \in Outbox : \A p \in pending :
              w.type = "open" /\ p.type = "open" /\ w.ch = p.ch => w.id <= p.id

\* Kept of WorkerClient, in terms of the sets.
Waits(p) ==
    \/ p \in Outbox
    \/ \E m \in Inbox : m.id = p.id
    \/ p.type = "init" /\ \E m \in Inbox : m.type = "ready"
    \/ p.type \in {"connect", "reconnect"} /\ connectId = p.id
    \/ p.type = "open" /\ wOpen[p.ch] = p.id
    \/ p.type = "call" /\ p.id \in wCalls
    \/ p.type = "unsubscribe"

AllWait == "open" \notin disturbed => \A p \in pending : Waits(p)

RequestInv ==
    /\ MainTypes /\ WorkerTypes /\ Given /\ (\A p \in pending : Means(p))
    /\ Replaces /\ Awaits /\ ChannelsGiven /\ OpensOnce /\ AllWait

-----------------------------------------------------------------------------
(* The messages between the threads. *)

\* A request posted to the worker.
LEMMA Posting ==
    ASSUME NEW r \in Requested, toWorker \in Seq(Requested), InOrder,
           \A w \in Outbox : w.id < r.id,
           toWorker' = Append(toWorker, r)
    PROVE  /\ toWorker' \in Seq(Requested)
           /\ Outbox' = Outbox \cup {r}
           /\ InOrder'
<1>1. /\ Len(toWorker) \in Nat /\ DOMAIN toWorker = 1 .. Len(toWorker)
      /\ toWorker' \in Seq(Requested) /\ Len(toWorker') = Len(toWorker) + 1
      /\ \A i \in 1 .. Len(toWorker) : toWorker'[i] = toWorker[i]
      /\ toWorker'[Len(toWorker) + 1] = r
  BY AppendProperties, LenProperties
<1>2. DOMAIN toWorker' = 1 .. Len(toWorker) + 1
  BY <1>1, LenProperties
<1>3. Outbox' = Outbox \cup {r}
  <2>1. ASSUME NEW x \in Outbox'  PROVE x \in Outbox \cup {r}
    <3>1. PICK i \in 1 .. Len(toWorker) + 1 : x = toWorker'[i]
      BY <1>2 DEF Outbox
    <3>2. CASE i = Len(toWorker) + 1
      BY <3>1, <3>2, <1>1
    <3>3. CASE i \in 1 .. Len(toWorker)
      BY <3>1, <3>3, <1>1 DEF Outbox
    <3> QED  BY <1>1, <3>2, <3>3
  <2>2. ASSUME NEW x \in Outbox  PROVE x \in Outbox'
    <3>1. PICK i \in 1 .. Len(toWorker) : x = toWorker[i]
      BY <1>1 DEF Outbox
    <3>2. i \in DOMAIN toWorker' /\ toWorker'[i] = x
      BY <1>1, <1>2, <3>1
    <3> QED  BY <3>2 DEF Outbox
  <2>3. r \in Outbox'
    BY <1>1, <1>2 DEF Outbox
  <2> QED  BY <2>1, <2>2, <2>3
<1>4. ASSUME NEW i \in DOMAIN toWorker', NEW j \in DOMAIN toWorker', i < j
      PROVE  toWorker'[i].id < toWorker'[j].id
  <2>1. i \in 1 .. Len(toWorker) /\ toWorker'[i] = toWorker[i]
    BY <1>1, <1>2, <1>4
  <2>2. CASE j = Len(toWorker) + 1
    BY <1>1, <2>1, <2>2 DEF Outbox
  <2>3. CASE j \in 1 .. Len(toWorker)
    BY <1>1, <2>1, <2>3, <1>4 DEF InOrder
  <2> QED  BY <1>1, <1>2, <2>2, <2>3
<1> QED  BY <1>1, <1>3, <1>4 DEF InOrder

\* A request taken by the worker.
LEMMA Taking ==
    ASSUME toWorker \in Seq(Requested), InOrder, toWorker # <<>>,
           toWorker' = Tail(toWorker)
    PROVE  /\ toWorker' \in Seq(Requested)
           /\ Head(toWorker) \in Requested
           /\ Outbox = Outbox' \cup {Head(toWorker)}
           /\ InOrder'
           /\ \A w \in Outbox' : Head(toWorker).id < w.id
<1>1. /\ Len(toWorker) \in Nat \ {0} /\ DOMAIN toWorker = 1 .. Len(toWorker)
      /\ Head(toWorker) = toWorker[1] /\ Head(toWorker) \in Requested
  BY LenProperties, EmptySeq, HeadTailProperties
<1>2. /\ toWorker' \in Seq(Requested) /\ Len(toWorker') = Len(toWorker) - 1
      /\ \A i \in 1 .. Len(toWorker') : toWorker'[i] = toWorker[i + 1]
  BY HeadTailProperties
<1>3. DOMAIN toWorker' = 1 .. Len(toWorker) - 1
  BY <1>2, LenProperties
<1>4. \A i \in DOMAIN toWorker' :
         i + 1 \in DOMAIN toWorker /\ i + 1 > 1 /\ toWorker'[i] = toWorker[i + 1]
  BY <1>1, <1>2, <1>3
<1>5. Outbox = Outbox' \cup {Head(toWorker)}
  <2>1. ASSUME NEW x \in Outbox  PROVE x \in Outbox' \cup {Head(toWorker)}
    <3>1. PICK i \in 1 .. Len(toWorker) : x = toWorker[i]
      BY <1>1 DEF Outbox
    <3>2. CASE i = 1
      BY <1>1, <3>1, <3>2
    <3>3. CASE i - 1 \in 1 .. Len(toWorker) - 1
      <4>1. i - 1 \in DOMAIN toWorker' /\ toWorker'[i - 1] = x
        BY <1>1, <1>2, <1>3, <3>1, <3>3
      <4> QED  BY <4>1 DEF Outbox
    <3> QED  BY <1>1, <3>2, <3>3
  <2>2. ASSUME NEW x \in Outbox'  PROVE x \in Outbox
    BY <1>4 DEF Outbox
  <2>3. Head(toWorker) \in Outbox
    BY <1>1 DEF Outbox
  <2> QED  BY <2>1, <2>2, <2>3
<1>6. InOrder'
  <2>1. ASSUME NEW i \in DOMAIN toWorker', NEW j \in DOMAIN toWorker', i < j
        PROVE  toWorker'[i].id < toWorker'[j].id
    <3>1. i + 1 < j + 1
      BY <1>1, <1>3, <2>1
    <3> QED  BY <1>4, <3>1 DEF InOrder
  <2> QED  BY <2>1 DEF InOrder
<1>7. ASSUME NEW w \in Outbox'  PROVE Head(toWorker).id < w.id
  <2>1. PICK i \in DOMAIN toWorker' : w = toWorker'[i]
    BY DEF Outbox
  <2>2. 1 \in DOMAIN toWorker
    BY <1>1
  <2> QED  BY <1>1, <1>4, <2>1, <2>2 DEF InOrder
<1> QED  BY <1>1, <1>2, <1>5, <1>6, <1>7

\* Replies posted to the main thread.
LEMMA Replying ==
    ASSUME NEW r \in Seq(Told), toMain \in Seq(Told), toMain' = toMain \o r
    PROVE  /\ toMain' \in Seq(Told)
           /\ Inbox' = Inbox \cup {r[i] : i \in DOMAIN r}
<1>1. toMain' \in Seq(Told)
  BY ConcatProperties
<1>2. Range(toMain') = Range(toMain) \cup Range(r)
  BY RangeConcatenation
<1> QED  BY <1>1, <1>2 DEF Inbox, Range

\* A reply taken by the main thread.
LEMMA Reading ==
    ASSUME toMain \in Seq(Told), toMain # <<>>, toMain' = Tail(toMain)
    PROVE  /\ toMain' \in Seq(Told)
           /\ Head(toMain) \in Told
           /\ Inbox = Inbox' \cup {Head(toMain)}
<1>1. /\ Len(toMain) \in Nat \ {0} /\ DOMAIN toMain = 1 .. Len(toMain)
      /\ Head(toMain) = toMain[1] /\ Head(toMain) \in Told
  BY LenProperties, EmptySeq, HeadTailProperties
<1>2. /\ toMain' \in Seq(Told) /\ Len(toMain') = Len(toMain) - 1
      /\ \A i \in 1 .. Len(toMain') : toMain'[i] = toMain[i + 1]
  BY HeadTailProperties
<1>3. DOMAIN toMain' = 1 .. Len(toMain) - 1
  BY <1>2, LenProperties
<1>4. ASSUME NEW x \in Inbox  PROVE x \in Inbox' \cup {Head(toMain)}
  <2>1. PICK i \in 1 .. Len(toMain) : x = toMain[i]
    BY <1>1 DEF Inbox
  <2>2. CASE i = 1
    BY <1>1, <2>1, <2>2
  <2>3. CASE i - 1 \in 1 .. Len(toMain) - 1
    <3>1. i - 1 \in DOMAIN toMain' /\ toMain'[i - 1] = x
      BY <1>1, <1>2, <1>3, <2>1, <2>3
    <3> QED  BY <3>1 DEF Inbox
  <2> QED  BY <1>1, <2>2, <2>3
<1>5. ASSUME NEW x \in Inbox'  PROVE x \in Inbox
  <2>1. PICK i \in DOMAIN toMain' : x = toMain'[i]
    BY DEF Inbox
  <2>2. i + 1 \in DOMAIN toMain /\ toMain[i + 1] = x
    BY <1>1, <1>2, <1>3, <2>1
  <2> QED  BY <2>2 DEF Inbox
<1>6. Head(toMain) \in Inbox
  BY <1>1 DEF Inbox
<1> QED  BY <1>1, <1>2, <1>4, <1>5, <1>6

-----------------------------------------------------------------------------
(* What the two threads do to the requests. *)

\* Channels are numbers.
LEMMA ChannelNumbers == Channels \subseteq Int /\ 0 \notin Channels
<1>1. Cardinality(Channels) \in Nat
  BY WorkerAssumption, FS_CardinalityType
<1> QED  BY <1>1, WorkerAssumption

\* No reconnect() in progress.
LEMMA IdleRc ==
    NoReconnect \in [pc : {"idle", "await", "reopen"}, auto : BOOLEAN, id : Nat,
                     opening : Channels \cup {0}, todo : SUBSET Channels]
  BY DEF NoReconnect

\* The ids are numbers.
LEMMA Numbers ==
    ASSUME RequestInv
    PROVE  /\ nextRequest \in Nat \ {0} /\ connectId \in Nat /\ wCalls \subseteq Nat
           /\ \A c \in Channels : wOpen[c] \in Nat
           /\ \A o \in ops : o[1] \in Channels /\ o[2] \in Nat
           /\ \A x \in pending \cup Outbox : x \in Requested /\ x.id \in Nat \ {0}
           /\ \A m \in Inbox : m \in Told /\ m.id \in Int
<1>1. \A x \in Outbox : x \in Requested
  BY LenProperties, ElementOfSeq DEF RequestInv, WorkerTypes, Outbox
<1>2. \A m \in Inbox : m \in Told
  BY LenProperties, ElementOfSeq DEF RequestInv, WorkerTypes, Inbox
<1>3. \A x \in Requested : x.id \in Nat \ {0}
  BY DEF Requested
<1>4. \A m \in Told : m.id \in Int
  BY DEF Told
<1> QED  BY <1>1, <1>2, <1>3, <1>4 DEF RequestInv, MainTypes, WorkerTypes

\* A step of the worker leaves the main thread alone.
LEMMA WorkerMoves ==
    ASSUME RequestInv, Outbox' \subseteq Outbox, disturbed \subseteq disturbed',
           UNCHANGED <<pending, nextRequest, nextChannel, tracked, rc>>,
           WorkerTypes', Given', \A p \in pending : Means(p)',
           "open" \notin disturbed => \A p \in pending : Waits(p)'
    PROVE  RequestInv'
<1>1. MainTypes' /\ Awaits' /\ ChannelsGiven'
  BY DEF RequestInv, MainTypes, Awaits, ChannelsGiven
<1>2. Replaces' /\ OpensOnce'
  BY DEF RequestInv, Replaces, OpensOnce
<1>3. \A p \in pending' : Means(p)'
  OBVIOUS
<1>4. AllWait'
  BY DEF AllWait
<1> QED  BY <1>1, <1>2, <1>3, <1>4 DEF RequestInv

\* A reply settles what waits for it, and nothing else is forgotten.
LEMMA Settling ==
    ASSUME RequestInv, toMain # <<>>, toMain' = Tail(toMain),
           Head(toMain).type # "ready",
           pending' \subseteq pending,
           \A q \in pending' : q.id # Head(toMain).id,
           tracked' \subseteq tracked,
           \/ rc' = rc
           \/ rc' = NoReconnect /\ \A q \in pending' : q.type # "reconnect",
           UNCHANGED <<nextRequest, nextChannel, toWorker, connectId, wOpen, wCalls,
                       ops, disturbed>>
    PROVE  RequestInv'
<1>1. /\ toMain' \in Seq(Told) /\ Head(toMain) \in Told
      /\ Inbox = Inbox' \cup {Head(toMain)}
  BY Reading DEF RequestInv, WorkerTypes
<1>2. Outbox' = Outbox /\ InOrder' = InOrder
  BY DEF Outbox, InOrder
<1>3. rc'.todo \subseteq rc.todo /\ (rc'.pc = "await" => rc.pc = "await")
  BY DEF NoReconnect, RequestInv, MainTypes
<1>4. MainTypes'
  <2>1. rc' \in [pc : {"idle", "await", "reopen"}, auto : BOOLEAN, id : Nat,
                 opening : Channels \cup {0}, todo : SUBSET Channels]
    BY IdleRc DEF RequestInv, MainTypes
  <2> QED  BY <2>1 DEF RequestInv, MainTypes
<1>5. WorkerTypes'
  BY <1>1 DEF RequestInv, WorkerTypes
<1>6. Given'
  BY <1>1, <1>2 DEF RequestInv, Given
<1>7. ASSUME NEW p \in pending'  PROVE Means(p)'
  BY <1>1, <1>2 DEF RequestInv, Means
<1>8. Replaces'
  BY <1>2 DEF RequestInv, Replaces
<1>9. Awaits'
  BY DEF RequestInv, Awaits
<1>10. ChannelsGiven'
  BY <1>3 DEF RequestInv, ChannelsGiven
<1>11. OpensOnce'
  BY <1>2, <1>3 DEF RequestInv, OpensOnce
<1>12. AllWait'
  <2>1. ASSUME NEW p \in pending', Waits(p)  PROVE Waits(p)'
    BY <1>1, <1>2, <2>1 DEF Waits
  <2> QED  BY <2>1 DEF RequestInv, AllWait
<1> QED  BY <1>4, <1>5, <1>6, <1>7, <1>8, <1>9, <1>10, <1>11, <1>12 DEF RequestInv

\* A request more.  What it may be depends on what is pending.
LEMMA Asking ==
    ASSUME RequestInv, NEW r \in Requested, r.id = nextRequest,
           nextRequest' = nextRequest + 1,
           toWorker' = Append(toWorker, r),
           \/ toMain' = toMain
           \/ /\ toMain # <<>> /\ toMain' = Tail(toMain)
              /\ \A q \in pending' \cap pending :
                    q.id # Head(toMain).id /\ Head(toMain).type # "ready",
           pending' \subseteq pending \cup {r},
           tracked' \subseteq Channels, nextChannel' \in Int,
           rc' \in [pc : {"idle", "await", "reopen"}, auto : BOOLEAN, id : Nat,
                    opening : Channels \cup {0}, todo : SUBSET Channels],
           disturbed \subseteq disturbed',
           UNCHANGED <<connectId, wOpen, wCalls, ops>>,
           r.type \in {"connect", "reconnect"} => pending' \subseteq {r},
           Awaits', ChannelsGiven', OpensOnce'
    PROVE  RequestInv'
<1>1. /\ Inbox' \subseteq Inbox /\ toMain' \in Seq(Told)
      /\ \A m \in Inbox :
            \/ m \in Inbox'
            \/ \A q \in pending' \cap pending : q.id # m.id /\ m.type # "ready"
  <2>1. CASE toMain' = toMain
    BY <2>1 DEF Inbox, RequestInv, WorkerTypes
  <2>2. CASE /\ toMain # <<>> /\ toMain' = Tail(toMain)
             /\ \A q \in pending' \cap pending :
                   q.id # Head(toMain).id /\ Head(toMain).type # "ready"
    <3>1. toMain' \in Seq(Told) /\ Inbox = Inbox' \cup {Head(toMain)}
      BY <2>2, Reading DEF RequestInv, WorkerTypes
    <3> QED  BY <2>2, <3>1
  <2> QED  BY <2>1, <2>2
<1>2. /\ toWorker' \in Seq(Requested) /\ Outbox' = Outbox \cup {r} /\ InOrder'
  <2>1. \A w \in Outbox : w.id < r.id
    BY DEF RequestInv, Given
  <2> QED  BY <2>1, Posting DEF RequestInv, WorkerTypes, Given
<1>3. /\ nextRequest \in Nat \ {0} /\ connectId \in Nat /\ wCalls \subseteq Nat
      /\ \A c \in Channels : wOpen[c] \in Nat
      /\ \A o \in ops : o[2] \in Nat
      /\ \A x \in pending \cup Outbox \cup {r} : x.id \in Nat
      /\ \A m \in Inbox : m.id \in Int
  <2>1. r.id \in Nat
    BY DEF Requested
  <2> QED  BY <2>1, Numbers
<1>4. MainTypes'
  BY <1>3 DEF RequestInv, MainTypes
<1>5. WorkerTypes'
  BY <1>1, <1>2 DEF RequestInv, WorkerTypes
<1>6. Given'
  <2>1. \A x \in pending \cup Outbox \cup Inbox : x.id < nextRequest
    BY DEF RequestInv, Given
  <2>2. \A x \in pending' \cup Outbox' \cup Inbox' : x.id < nextRequest'
    BY <1>1, <1>2, <1>3, <2>1
  <2>3. /\ connectId' < nextRequest'
        /\ \A c \in Channels : wOpen'[c] < nextRequest'
        /\ \A n \in wCalls' : n < nextRequest'
        /\ \A o \in ops' : o[2] < nextRequest'
    BY <1>3 DEF RequestInv, Given
  <2>4. ASSUME NEW w \in Outbox'
        PROVE  /\ connectId' < w.id
               /\ \A c \in Channels : wOpen'[c] < w.id
               /\ \A n \in wCalls' : n < w.id
    BY <1>2, <1>3 DEF RequestInv, Given
  <2> QED  BY <1>2, <2>2, <2>3, <2>4 DEF Given
<1>7. ASSUME NEW p \in pending'  PROVE Means(p)'
  <2>1. CASE p = r
    <3>1. \A q \in pending' \cup Outbox' : p.id = q.id => p = q
      BY <1>2, <1>3, <2>1 DEF RequestInv, Given
    <3>2. /\ connectId' # p.id /\ p.id \notin wCalls'
          /\ \A c \in Channels : wOpen'[c] # p.id
          /\ \A o \in ops' : o[2] # p.id
      BY <1>3, <2>1 DEF RequestInv, Given
    <3>3. \A m \in Inbox' : m.id # p.id
      BY <1>1, <1>3, <2>1 DEF RequestInv, Given
    <3> QED  BY <3>1, <3>2, <3>3 DEF Means
  <2>2. CASE p # r
    <3>1. p \in pending /\ Means(p) /\ p.id # r.id
      BY <1>3, <2>2 DEF RequestInv, Given
    <3> QED  BY <1>1, <1>2, <3>1 DEF Means
  <2> QED  BY <2>1, <2>2
<1>8. Replaces'
  <2>1. ASSUME NEW w \in Outbox', NEW p \in pending', w.type \in {"connect", "reconnect"}
        PROVE  w.id <= p.id
    <3>1. CASE p = r
      BY <1>2, <1>3, <3>1 DEF RequestInv, Given
    <3>2. CASE p # r
      <4>1. p \in pending /\ w \in Outbox
        BY <1>2, <2>1, <3>2
      <4> QED  BY <2>1, <4>1 DEF RequestInv, Replaces
    <3> QED  BY <3>1, <3>2
  <2> QED  BY <2>1 DEF Replaces
<1>9. AllWait'
  <2>1. ASSUME NEW p \in pending' \cap pending, Waits(p)  PROVE Waits(p)'
    BY <1>1, <1>2, <2>1 DEF Waits
  <2>2. \A p \in pending' : p \in pending \/ p = r
    OBVIOUS
  <2>3. r \in Outbox'
    BY <1>2
  <2>4. Waits(r)'
    BY <2>3 DEF Waits
  <2> QED  BY <2>1, <2>2, <2>4 DEF RequestInv, AllWait
<1> QED  BY <1>4, <1>5, <1>6, <1>7, <1>8, <1>9 DEF RequestInv

\* The channel is opened again by the reconnect() that waited for p.
LEMMA Reopening ==
    ASSUME RequestInv, toMain # <<>>, toMain' = Tail(toMain),
           Head(toMain).type # "ready",
           NEW p \in pending, p.id = Head(toMain).id,
           \A q \in pending \ {p} : q.type # "reconnect",
           NEW c \in Channels, c < nextChannel,
           pending' = (pending \ {p}) \cup {Request("open", nextRequest, c)},
           toWorker' = Append(toWorker, Request("open", nextRequest, c)),
           nextRequest' = nextRequest + 1,
           rc' \in [pc : {"reopen"}, auto : BOOLEAN, id : Nat,
                    opening : Channels \cup {0}, todo : SUBSET Channels],
           c \notin rc'.todo,
           tracked' \subseteq Channels,
           \A k \in tracked' \cup rc'.todo : k < nextChannel,
           "open" \notin disturbed =>
               \A q \in pending \ {p} :
                   q.type = "open" => q.ch # c /\ q.ch \notin rc'.todo,
           UNCHANGED <<nextChannel, connectId, wOpen, wCalls, ops, disturbed>>
    PROVE  RequestInv'
<1> DEFINE r == Request("open", nextRequest, c)
<1>1. r \in Requested /\ r.id = nextRequest /\ r.type = "open" /\ r.ch = c
  BY Numbers DEF Request, Requested, OnChannel
<1> HIDE DEF r
<1>2. /\ r \notin pending /\ pending' = (pending \ {p}) \cup {r}
      /\ toWorker' = Append(toWorker, r)
  BY <1>1, Numbers DEF RequestInv, Given, r
<1>3. \A q \in pending' \cap pending : q.id # Head(toMain).id
  BY <1>2 DEF RequestInv, Means
<1>4. rc' \in [pc : {"idle", "await", "reopen"}, auto : BOOLEAN, id : Nat,
               opening : Channels \cup {0}, todo : SUBSET Channels]
  OBVIOUS
<1>5. Awaits'
  BY <1>1, <1>2 DEF Awaits
<1>6. ChannelsGiven'
  BY <1>1, <1>2 DEF RequestInv, ChannelsGiven
<1>7. OpensOnce'
  <2>1. Outbox' = Outbox \cup {r}
    <3>1. \A w \in Outbox : w.id < r.id
      BY <1>1 DEF RequestInv, Given
    <3> QED  BY <1>1, <1>2, <3>1, Posting DEF RequestInv, WorkerTypes, Given
  <2>2. rc'.pc # "await"
    OBVIOUS
  <2>3. \A w \in Outbox' : w.id <= r.id
    <3>1. r.id \in Nat /\ \A w \in Outbox : w.id \in Nat /\ w.id < r.id
      BY <1>1, Numbers DEF RequestInv, Given
    <3> QED  BY <2>1, <3>1
  <2>4. ASSUME "open" \notin disturbed', NEW w \in Outbox', NEW q \in pending',
               w.type = "open", q.type = "open", w.ch = q.ch
        PROVE  w.id <= q.id
    <3>1. CASE q = r
      BY <2>3, <3>1
    <3>2. CASE q # r
      <4>1. q \in pending \ {p} /\ q.ch # c
        BY <1>2, <2>4, <3>2
      <4>2. w \in Outbox
        BY <1>1, <2>1, <2>4, <4>1
      <4> QED  BY <2>4, <4>1, <4>2 DEF RequestInv, OpensOnce
    <3> QED  BY <3>1, <3>2
  <2>5. ASSUME "open" \notin disturbed', NEW q \in pending', q.type = "open"
        PROVE  q.ch \notin rc'.todo
    BY <1>1, <1>2, <2>5
  <2> QED  BY <2>2, <2>4, <2>5 DEF OpensOnce
<1> QED
  BY <1>1, <1>2, <1>3, <1>4, <1>5, <1>6, <1>7, Asking DEF RequestInv, MainTypes

\* A reconnect() that waits for a request of its own waits for no other.
LEMMA Sole ==
    ASSUME RequestInv, NEW p \in pending, p.id = rc.id \/ p.type = "reconnect"
    PROVE  \A q \in pending \ {p} : q.type # "reconnect"
  BY DEF RequestInv, Awaits, Means

\* The synchronous part of reconnect().
LEMMA Reconnecting ==
    ASSUME RequestInv, NEW a \in BOOLEAN, StartReconnect(a),
           toMain' = toMain \/ (toMain # <<>> /\ toMain' = Tail(toMain))
    PROVE  RequestInv'
<1> DEFINE r == Request("reconnect", nextRequest, 0)
<1>1. r \in Requested /\ r.id = nextRequest /\ r.type = "reconnect"
  BY Numbers DEF Request, Requested, OnChannel, RequestType
<1> HIDE DEF r
<1>2. /\ r \notin pending /\ pending' = {r} /\ toWorker' = Append(toWorker, r)
      /\ nextRequest' = nextRequest + 1 /\ tracked' \subseteq tracked
      /\ disturbed \subseteq disturbed'
      /\ UNCHANGED <<nextChannel, connectId, wOpen, wCalls, ops>>
  BY <1>1, Numbers DEF RequestInv, Given, r, StartReconnect, RejectInflight,
                       workerVars, tableVars, engineVars
<1>3. /\ rc' \in [pc : {"idle", "await", "reopen"}, auto : BOOLEAN, id : Nat,
                  opening : Channels \cup {0}, todo : SUBSET Channels]
      /\ rc'.pc = "await" /\ rc'.id = r.id /\ rc'.todo = {}
  BY <1>1, Numbers DEF StartReconnect, NoReconnect
<1>4. Awaits'
  BY <1>2, <1>3 DEF Awaits
<1>5. ChannelsGiven'
  BY <1>1, <1>2, <1>3 DEF RequestInv, ChannelsGiven
<1>6. OpensOnce'
  BY <1>1, <1>2 DEF OpensOnce
<1> QED
  BY <1>1, <1>2, <1>3, <1>4, <1>5, <1>6, Asking DEF RequestInv, MainTypes

-----------------------------------------------------------------------------
(* The steps of the main thread. *)

LEMMA MainReadyKeeps == RequestInv /\ MainReady => RequestInv'
<1> SUFFICES ASSUME RequestInv, MainReady  PROVE RequestInv'
  OBVIOUS
<1> DEFINE r == Request("connect", nextRequest, 0)
<1>1. r \in Requested /\ r.id = nextRequest /\ r.type = "connect"
  BY Numbers DEF Request, Requested, OnChannel, RequestType
<1> HIDE DEF r
<1>2. /\ r \notin pending /\ pending' = {r} /\ toWorker' = Append(toWorker, r)
      /\ nextRequest' = nextRequest + 1
      /\ toMain # <<>> /\ toMain' = Tail(toMain)
      /\ UNCHANGED <<nextChannel, connectId, wOpen, wCalls, ops, tracked, rc, disturbed>>
  BY <1>1, Numbers DEF RequestInv, Given, r, MainReady, FromWorker,
                       workerVars, tableVars, engineVars, historyVars
<1>3. Awaits' /\ ChannelsGiven' /\ OpensOnce'
  BY <1>1, <1>2 DEF RequestInv, Awaits, ChannelsGiven, OpensOnce
<1> QED
  BY <1>1, <1>2, <1>3, Asking DEF RequestInv, MainTypes

\* Nothing waits for the reply.
LEMMA Ignoring ==
    ASSUME RequestInv, toMain # <<>>, toMain' = Tail(toMain),
           Head(toMain).type # "ready", Ignore,
           \A q \in pending : q.id # Head(toMain).id
    PROVE  RequestInv'
<1>1. UNCHANGED <<pending, tracked, rc, nextRequest, nextChannel, toWorker, connectId,
                  wOpen, wCalls, ops, disturbed>>
  BY DEF Ignore, mainVars, workerVars, tableVars, engineVars, historyVars
<1> QED  BY <1>1, Settling

LEMMA MainConnectedKeeps == RequestInv /\ MainConnected => RequestInv'
<1> SUFFICES ASSUME RequestInv, MainConnected  PROVE RequestInv'
  OBVIOUS
<1>1. toMain # <<>> /\ toMain' = Tail(toMain) /\ Head(toMain).type = "connected"
  BY DEF MainConnected, FromWorker
<1>2. CASE Pending(Head(toMain).id) = {} /\ Ignore
  BY <1>1, <1>2, Ignoring DEF Pending
<1>3. ASSUME NEW p \in Pending(Head(toMain).id),
             \/ /\ p.type = "connect"
                /\ pending' = pending \ {p}
                /\ UNCHANGED <<rc, tracked, toWorker, nextRequest>>
             \/ p.type = "reconnect" /\ Reopen(tracked, {}, {p}),
             UNCHANGED <<nextChannel, inflight, auto, kind, workerVars, historyVars>>
      PROVE  RequestInv'
  <2>1. UNCHANGED <<nextChannel, connectId, wOpen, wCalls, ops, disturbed>>
    BY <1>3 DEF workerVars, tableVars, engineVars, historyVars
  <2>2. p \in pending /\ p.id = Head(toMain).id
    BY DEF Pending
  <2>3. \A q \in pending \ {p} : q.id # Head(toMain).id
    BY <2>2 DEF RequestInv, Means
  <2>4. CASE /\ pending' = pending \ {p}
             /\ UNCHANGED <<rc, tracked, toWorker, nextRequest>>
    BY <1>1, <2>1, <2>3, <2>4, Settling
  <2>5. CASE p.type = "reconnect" /\ Reopen(tracked, {}, {p})
    <3>1. \A q \in pending \ {p} : q.type # "reconnect"
      BY <2>2, <2>5, Sole
    <3>2. CASE /\ rc' = NoReconnect /\ tracked' = {} /\ pending' = pending \ {p}
               /\ UNCHANGED <<toWorker, nextRequest>>
      BY <1>1, <2>1, <2>3, <3>1, <3>2, Settling
    <3>3. ASSUME NEW c \in tracked,
                 rc' = [rc EXCEPT !.pc = "reopen", !.id = nextRequest,
                                  !.opening = c, !.todo = tracked \ {c}],
                 tracked' = {} \cup {c},
                 pending' = (pending \ {p}) \cup {Request("open", nextRequest, c)},
                 toWorker' = Append(toWorker, Request("open", nextRequest, c)),
                 nextRequest' = nextRequest + 1
          PROVE  RequestInv'
      <4>1. c \in Channels /\ tracked \subseteq Channels /\ tracked' \subseteq Channels
        BY <3>3 DEF RequestInv, MainTypes
      <4>2. /\ rc' \in [pc : {"reopen"}, auto : BOOLEAN, id : Nat,
                        opening : Channels \cup {0}, todo : SUBSET Channels]
            /\ rc'.todo = tracked \ {c}
        BY <3>3, <4>1, Numbers DEF RequestInv, MainTypes
      <4>3. c < nextChannel /\ \A k \in tracked' \cup rc'.todo : k < nextChannel
        BY <3>3, <4>2 DEF RequestInv, ChannelsGiven
      <4>4. "open" \notin disturbed => \A q \in pending \ {p} : q.type # "open"
        BY <2>2, <2>5 DEF RequestInv, Awaits, OpensOnce
      <4>5. c \notin rc'.todo
        BY <4>2
      <4> QED
        BY <1>1, <2>1, <2>2, <3>1, <3>3, <4>1, <4>2, <4>3, <4>4, <4>5, Reopening
    <3> QED  BY <2>5, <3>2, <3>3, ZenonT(60) DEF Reopen, Track
  <2> QED  BY <1>3, <2>4, <2>5
<1> QED  BY <1>2, <1>3 DEF MainConnected

LEMMA MainOpenedKeeps == RequestInv /\ MainOpened => RequestInv'
<1> SUFFICES ASSUME RequestInv, MainOpened  PROVE RequestInv'
  OBVIOUS
<1>1. toMain # <<>> /\ toMain' = Tail(toMain) /\ Head(toMain).type = "opened"
  BY DEF MainOpened, FromWorker
<1>2. CASE Pending(Head(toMain).id) = {} /\ Ignore
  BY <1>1, <1>2, Ignoring DEF Pending
<1>3. ASSUME NEW p \in Pending(Head(toMain).id),
             \/ p.id = rc.id /\ Reopen(rc.todo, tracked, {p})
             \/ /\ pending' = pending \ {p}
                /\ UNCHANGED <<rc, tracked, toWorker, nextRequest>>,
             UNCHANGED <<nextChannel, workerVars, disturbed>>
      PROVE  RequestInv'
  <2>1. UNCHANGED <<nextChannel, connectId, wOpen, wCalls, ops, disturbed>>
    BY <1>3 DEF workerVars, tableVars, engineVars
  <2>2. p \in pending /\ p.id = Head(toMain).id
    BY DEF Pending
  <2>3. \A q \in pending \ {p} : q.id # Head(toMain).id
    BY <2>2 DEF RequestInv, Means
  <2>4. CASE /\ pending' = pending \ {p}
             /\ UNCHANGED <<rc, tracked, toWorker, nextRequest>>
    BY <1>1, <2>1, <2>3, <2>4, Settling
  <2>5. CASE p.id = rc.id /\ Reopen(rc.todo, tracked, {p})
    <3>1. \A q \in pending \ {p} : q.type # "reconnect"
      BY <2>2, <2>5, Sole
    <3>2. CASE /\ rc' = NoReconnect /\ tracked' = tracked /\ pending' = pending \ {p}
               /\ UNCHANGED <<toWorker, nextRequest>>
      BY <1>1, <2>1, <2>3, <3>1, <3>2, Settling
    <3>3. ASSUME NEW c \in rc.todo,
                 rc' = [rc EXCEPT !.pc = "reopen", !.id = nextRequest,
                                  !.opening = c, !.todo = rc.todo \ {c}],
                 tracked' = tracked \cup {c},
                 pending' = (pending \ {p}) \cup {Request("open", nextRequest, c)},
                 toWorker' = Append(toWorker, Request("open", nextRequest, c)),
                 nextRequest' = nextRequest + 1
          PROVE  RequestInv'
      <4>1. c \in Channels /\ rc.todo \subseteq Channels /\ tracked' \subseteq Channels
        BY <3>3 DEF RequestInv, MainTypes
      <4>2. /\ rc' \in [pc : {"reopen"}, auto : BOOLEAN, id : Nat,
                        opening : Channels \cup {0}, todo : SUBSET Channels]
            /\ rc'.todo = rc.todo \ {c}
        BY <3>3, <4>1, Numbers DEF RequestInv, MainTypes
      <4>3. c < nextChannel /\ \A k \in tracked' \cup rc'.todo : k < nextChannel
        BY <3>3, <4>2 DEF RequestInv, ChannelsGiven
      <4>4. "open" \notin disturbed =>
               \A q \in pending \ {p} :
                   q.type = "open" => q.ch # c /\ q.ch \notin rc'.todo
        BY <4>2 DEF RequestInv, OpensOnce
      <4>5. c \notin rc'.todo
        BY <4>2
      <4> QED
        BY <1>1, <2>1, <2>2, <3>1, <3>3, <4>1, <4>2, <4>3, <4>4, <4>5, Reopening
    <3> QED  BY <2>5, <3>2, <3>3, ZenonT(60) DEF Reopen, Track
  <2> QED  BY <1>3, <2>4, <2>5
<1> QED  BY <1>2, <1>3 DEF MainOpened

LEMMA MainRejectedKeeps == RequestInv /\ MainRejected => RequestInv'
<1> SUFFICES ASSUME RequestInv, MainRejected  PROVE RequestInv'
  OBVIOUS
<1>1. /\ toMain # <<>> /\ toMain' = Tail(toMain)
      /\ Head(toMain).type \in {"openFailed", "error"}
  BY DEF MainRejected, FromWorker
<1>2. CASE Pending(Head(toMain).id) = {} /\ Ignore
  BY <1>1, <1>2, Ignoring DEF Pending
<1>3. ASSUME NEW p \in Pending(Head(toMain).id),
             pending' = pending \ {p}, tracked' \subseteq tracked,
             rc' = rc \/ (p.id = rc.id /\ rc' = NoReconnect),
             UNCHANGED <<nextRequest, nextChannel, toWorker, workerVars, historyVars>>
      PROVE  RequestInv'
  <2>1. UNCHANGED <<nextRequest, nextChannel, toWorker, connectId, wOpen, wCalls, ops,
                    disturbed>>
    BY <1>3 DEF workerVars, tableVars, engineVars, historyVars
  <2>2. p \in pending /\ p.id = Head(toMain).id
    BY DEF Pending
  <2>3. \A q \in pending' : q.id # Head(toMain).id
    BY <1>3, <2>2 DEF RequestInv, Means
  <2>4. rc' = rc \/ (rc' = NoReconnect /\ \A q \in pending' : q.type # "reconnect")
    BY <1>3, <2>2, Sole
  <2> QED  BY <1>1, <1>3, <2>1, <2>3, <2>4, Settling
<1>4. ASSUME NEW p \in Pending(Head(toMain).id),
             tracked' = IF p.type = "open" THEN tracked \ {p.ch} ELSE tracked
      PROVE  tracked' \subseteq tracked
  BY <1>4
<1> QED  BY <1>2, <1>3, <1>4 DEF MainRejected

LEMMA MainResponseKeeps == RequestInv /\ MainResponse => RequestInv'
<1> SUFFICES ASSUME RequestInv, MainResponse  PROVE RequestInv'
  OBVIOUS
<1>1. toMain # <<>> /\ toMain' = Tail(toMain) /\ Head(toMain).type \in {"response", "ack"}
  BY DEF MainResponse, FromWorker
<1>2. /\ pending' = pending \ Pending(Head(toMain).id)
      /\ UNCHANGED <<tracked, rc, nextRequest, nextChannel, toWorker, connectId, wOpen,
                     wCalls, ops, disturbed>>
  BY DEF MainResponse, workerVars, tableVars, engineVars, historyVars
<1>3. \A q \in pending' : q.id # Head(toMain).id
  BY <1>2 DEF Pending
<1> QED  BY <1>1, <1>2, <1>3, Settling

LEMMA MainCancelledKeeps == RequestInv /\ MainCancelled => RequestInv'
<1> SUFFICES ASSUME RequestInv, MainCancelled  PROVE RequestInv'
  OBVIOUS
<1>1. toMain # <<>> /\ toMain' = Tail(toMain) /\ Head(toMain).type = "cancelled"
  BY DEF MainCancelled, FromWorker
<1>2. /\ pending' \subseteq pending
      /\ UNCHANGED <<tracked, rc, nextRequest, nextChannel, toWorker, connectId, wOpen,
                     wCalls, ops, disturbed>>
  BY DEF MainCancelled, workerVars, tableVars, engineVars, historyVars
<1>3. \A q \in pending : q.id # Head(toMain).id
  <2>1. Head(toMain) \in Inbox
    BY <1>1, Reading DEF RequestInv, WorkerTypes
  <2>2. \A q \in pending : "cancelled" \notin AnswerTo(q)
    BY DEF AnswerTo
  <2> QED  BY <1>1, <2>1, <2>2 DEF RequestInv, Means
<1> QED  BY <1>1, <1>2, <1>3, Settling

LEMMA MainClosedKeeps == RequestInv /\ MainClosed => RequestInv'
<1> SUFFICES ASSUME RequestInv, MainClosed  PROVE RequestInv'
  OBVIOUS
<1>1. toMain # <<>> /\ toMain' = Tail(toMain) /\ Head(toMain).type = "closed"
  BY DEF MainClosed, FromWorker
<1>2. CASE Pending(Head(toMain).id) = {} /\ Ignore
  BY <1>1, <1>2, Ignoring DEF Pending
<1>3. ASSUME NEW p \in Pending(Head(toMain).id), pending' = pending \ {p},
             UNCHANGED <<nextRequest, nextChannel, tracked, rc, toWorker, workerVars,
                         historyVars>>
      PROVE  RequestInv'
  <2>1. UNCHANGED <<nextRequest, nextChannel, tracked, rc, toWorker, connectId, wOpen,
                    wCalls, ops, disturbed>>
    BY <1>3 DEF workerVars, tableVars, engineVars, historyVars
  <2>2. \A q \in pending' : q.id # Head(toMain).id
    BY <1>3 DEF RequestInv, Means, Pending
  <2> QED  BY <1>1, <1>3, <2>1, <2>2, Settling
<1> QED  BY <1>2, <1>3 DEF MainClosed

LEMMA MainLostKeeps == RequestInv /\ MainLost => RequestInv'
<1> SUFFICES ASSUME RequestInv, MainLost  PROVE RequestInv'
  OBVIOUS
<1>1. /\ toMain # <<>> /\ toMain' = Tail(toMain)
      /\ Head(toMain).type = "closed" /\ Head(toMain).id = NoId
  BY DEF MainLost, FromWorker
<1>2. CASE MayRetry
  BY <1>1, <1>2, Reconnecting DEF MainLost
<1>3. CASE ~MayRetry
  <2>1. \A q \in pending : q.id # Head(toMain).id
    BY <1>1, Numbers DEF NoId
  <2> QED  BY <1>1, <1>3, <2>1, Ignoring DEF MainLost
<1> QED  BY <1>2, <1>3

-----------------------------------------------------------------------------
(* The steps of the application. *)

\* A request that opens nothing.
LEMMA Using ==
    ASSUME RequestInv, NEW type \in {"call", "send", "unsubscribe", "close"}, NEW c,
           IF type = "close" THEN c = 0 ELSE c \in Channels,
           Ask(type, c), toMain' = toMain, tracked' \subseteq tracked,
           disturbed \subseteq disturbed',
           UNCHANGED <<nextChannel, rc, connectId, wOpen, wCalls, ops>>
    PROVE  RequestInv'
<1> DEFINE r == Request(type, nextRequest, c)
<1>1. r \in Requested /\ r.id = nextRequest /\ r.type = type
  BY Numbers DEF Request, Requested, OnChannel, RequestType
<1> HIDE DEF r
<1>2. /\ pending' = pending \cup {r} /\ toWorker' = Append(toWorker, r)
      /\ nextRequest' = nextRequest + 1
  BY DEF Ask, r
<1>3. Outbox' = Outbox \cup {r}
  <2>1. \A w \in Outbox : w.id < r.id
    BY <1>1 DEF RequestInv, Given
  <2> QED  BY <1>1, <1>2, <2>1, Posting DEF RequestInv, WorkerTypes, Given
<1>4. Awaits' /\ ChannelsGiven'
  BY <1>1, <1>2 DEF RequestInv, Awaits, ChannelsGiven
<1>5. OpensOnce'
  BY <1>1, <1>2, <1>3 DEF RequestInv, OpensOnce
<1>6. r.type \notin {"connect", "reconnect"}
  BY <1>1
<1> QED
  BY <1>1, <1>2, <1>4, <1>5, <1>6, Asking DEF RequestInv, MainTypes

LEMMA AppOpenKeeps ==
    ASSUME RequestInv, NEW c \in Channels, AppOpen(c)
    PROVE  RequestInv'
<1> DEFINE r == Request("open", nextRequest, c)
<1>1. r \in Requested /\ r.id = nextRequest /\ r.type = "open" /\ r.ch = c
  BY Numbers DEF Request, Requested, OnChannel
<1> HIDE DEF r
<1>2. /\ pending' = pending \cup {r} /\ toWorker' = Append(toWorker, r)
      /\ nextRequest' = nextRequest + 1 /\ toMain' = toMain
      /\ c = nextChannel /\ nextChannel' = c + 1 /\ tracked' = tracked \cup {c}
      /\ disturbed \subseteq disturbed'
      /\ rc.pc = "await" => "open" \in disturbed'
      /\ UNCHANGED <<rc, connectId, wOpen, wCalls, ops>>
  BY DEF Ask, r, AppOpen, Track, Disturbs, workerVars, tableVars, engineVars
<1>3. Outbox' = Outbox \cup {r}
  <2>1. \A w \in Outbox : w.id < r.id
    BY <1>1 DEF RequestInv, Given
  <2> QED  BY <1>1, <1>2, <2>1, Posting DEF RequestInv, WorkerTypes, Given
<1>4. /\ c \in Int /\ Channels \subseteq Int
      /\ tracked \subseteq Channels /\ rc.todo \subseteq Channels
      /\ \A p \in pending : p.type = "open" => p.ch \in Channels
  <2>1. \A p \in Requested : p.type = "open" => p.ch \in Channels
    BY DEF Requested, OnChannel
  <2> QED  BY <2>1, ChannelNumbers DEF RequestInv, MainTypes
<1>5. Awaits'
  BY <1>1, <1>2 DEF RequestInv, Awaits
<1>6. ChannelsGiven'
  <2>1. \A k \in Channels : k < c => k < c + 1
    BY <1>4
  <2>2. c < c + 1
    BY <1>4
  <2>3. ASSUME NEW k \in tracked' \cup rc'.todo  PROVE k < nextChannel'
    <3>1. k \in Channels
      BY <1>2, <1>4
    <3>2. k = c \/ k < c
      BY <1>2 DEF RequestInv, ChannelsGiven
    <3> QED  BY <1>2, <2>1, <2>2, <3>1, <3>2
  <2>4. ASSUME NEW p \in pending', p.type = "open"  PROVE p.ch < nextChannel'
    <3>1. CASE p = r
      BY <1>1, <1>2, <2>2, <3>1
    <3>2. CASE p \in pending
      <4>1. p.ch \in Channels /\ p.ch < c
        BY <1>2, <1>4, <2>4, <3>2 DEF RequestInv, ChannelsGiven
      <4> QED  BY <1>2, <2>1, <4>1
    <3> QED  BY <1>2, <3>1, <3>2
  <2> QED  BY <2>3, <2>4 DEF ChannelsGiven
<1>7. c \notin rc.todo /\ \A p \in pending : p.type = "open" => p.ch # c
  BY <1>2, <1>4 DEF RequestInv, ChannelsGiven
<1>8. \A w \in Outbox' : w.id <= r.id
  <2>1. r.id \in Nat /\ \A w \in Outbox : w.id \in Nat /\ w.id < r.id
    BY <1>1, Numbers DEF RequestInv, Given
  <2> QED  BY <1>3, <2>1
<1>9. OpensOnce'
  BY <1>1, <1>2, <1>3, <1>7, <1>8 DEF RequestInv, OpensOnce
<1>10. tracked' \subseteq Channels /\ nextChannel' \in Int
  <2>1. c + 1 \in Int
    BY <1>4
  <2> QED  BY <1>2, <1>4, <2>1
<1> QED
  BY <1>1, <1>2, <1>5, <1>6, <1>9, <1>10, Asking DEF RequestInv, MainTypes

LEMMA AppKeeps == RequestInv /\ AppStep => RequestInv'
<1> SUFFICES ASSUME RequestInv, AppStep  PROVE RequestInv'
  OBVIOUS
<1>1. ASSUME NEW c \in Channels, AppCall(c)  PROVE RequestInv'
  <2>1. /\ Ask("call", c) /\ toMain' = toMain /\ tracked' = tracked
        /\ disturbed \subseteq disturbed'
        /\ UNCHANGED <<nextChannel, rc, connectId, wOpen, wCalls, ops>>
    BY <1>1 DEF AppCall, Disturbs, workerVars, tableVars, engineVars
  <2> QED  BY <2>1, Using
<1>2. ASSUME NEW c \in Channels, AppSend(c)  PROVE RequestInv'
  <2>1. /\ Ask("send", c) /\ toMain' = toMain /\ tracked' = tracked
        /\ disturbed \subseteq disturbed'
        /\ UNCHANGED <<nextChannel, rc, connectId, wOpen, wCalls, ops>>
    BY <1>2 DEF AppSend, Disturbs, workerVars, tableVars, engineVars
  <2> QED  BY <2>1, Using
<1>3. ASSUME NEW c \in Channels, AppUnsubscribe(c)  PROVE RequestInv'
  <2>1. /\ Ask("unsubscribe", c) /\ toMain' = toMain /\ tracked' \subseteq tracked
        /\ disturbed \subseteq disturbed'
        /\ UNCHANGED <<nextChannel, rc, connectId, wOpen, wCalls, ops>>
    BY <1>3 DEF AppUnsubscribe, Disturbs, workerVars, tableVars, engineVars
  <2> QED  BY <2>1, Using
<1>4. CASE AppClose
  <2>1. /\ Ask("close", 0) /\ toMain' = toMain /\ tracked' = tracked
        /\ disturbed' = disturbed
        /\ UNCHANGED <<nextChannel, rc, connectId, wOpen, wCalls, ops>>
    BY <1>4 DEF AppClose, workerVars, tableVars, engineVars, historyVars
  <2> QED  BY <2>1, Using
<1>5. CASE AppReconnect
  BY <1>5, Reconnecting DEF AppReconnect
<1> QED  BY <1>1, <1>2, <1>3, <1>4, <1>5, AppOpenKeeps DEF AppStep

-----------------------------------------------------------------------------
(* The steps of the worker. *)

\* What the worker takes: the head m of its messages, and what the ids say of it.
LEMMA Handling ==
    ASSUME RequestInv, NEW type, FromMain(type)
    PROVE  /\ toWorker' \in Seq(Requested) /\ InOrder'
           /\ Head(toWorker) \in Requested /\ Head(toWorker).type = type
           /\ Head(toWorker).id \in Nat \ {0} /\ Head(toWorker).id < nextRequest
           /\ Outbox = Outbox' \cup {Head(toWorker)}
           /\ \A w \in Outbox' : Head(toWorker).id < w.id
           /\ \A p \in pending : p.id = Head(toWorker).id => p = Head(toWorker)
           /\ UNCHANGED <<pending, nextRequest, nextChannel, tracked, rc>>
<1>1. /\ toWorker # <<>> /\ toWorker' = Tail(toWorker) /\ Head(toWorker).type = type
      /\ UNCHANGED <<pending, nextRequest, nextChannel, tracked, rc>>
  BY DEF FromMain, mainVars
<1>2. /\ toWorker' \in Seq(Requested) /\ InOrder'
      /\ Head(toWorker) \in Requested
      /\ Outbox = Outbox' \cup {Head(toWorker)}
      /\ \A w \in Outbox' : Head(toWorker).id < w.id
  BY <1>1, Taking DEF RequestInv, WorkerTypes, Given
<1>3. Head(toWorker).id \in Nat \ {0} /\ Head(toWorker).id < nextRequest
  BY <1>2, Numbers DEF RequestInv, Given
<1>4. \A p \in pending : p.id = Head(toWorker).id => p = Head(toWorker)
  BY <1>2 DEF RequestInv, Means
<1> QED  BY <1>1, <1>2, <1>3, <1>4

\* One reply.
LEMMA OneReply ==
    ASSUME NEW x \in Told, toMain \in Seq(Told), toMain' = toMain \o <<x>>
    PROVE  toMain' \in Seq(Told) /\ Inbox' = Inbox \cup {x}
<1>1. <<x>> \in Seq(Told) /\ {<<x>>[i] : i \in DOMAIN <<x>>} = {x}
  <2>1. DOMAIN <<x>> = {1} /\ <<x>>[1] = x
    OBVIOUS
  <2> QED  BY <2>1
<1> QED  BY <1>1, Replying

\* Two replies.
LEMMA TwoReplies ==
    ASSUME NEW x \in Told, NEW y \in Told, toMain \in Seq(Told),
           toMain' = toMain \o (<<x>> \o <<y>>)
    PROVE  toMain' \in Seq(Told) /\ Inbox' = Inbox \cup {x, y}
<1>1. <<x>> \in Seq(Told) /\ <<y>> \in Seq(Told)
  OBVIOUS
<1>2. Range(<<x>>) = {x} /\ Range(<<y>>) = {y}
  <2>1. /\ DOMAIN <<x>> = {1} /\ <<x>>[1] = x
        /\ DOMAIN <<y>> = {1} /\ <<y>>[1] = y
    OBVIOUS
  <2> QED  BY <2>1 DEF Range
<1>3. ASSUME NEW s \in Seq(Told), NEW u \in Seq(Told), toMain' = toMain \o (s \o u)
      PROVE  toMain' \in Seq(Told) /\ Inbox' = Inbox \cup Range(s) \cup Range(u)
  <2> DEFINE r == s \o u
  <2>1. r \in Seq(Told) /\ Range(r) = Range(s) \cup Range(u)
    BY ConcatProperties, RangeConcatenation
  <2>2. toMain' = toMain \o r
    BY <1>3
  <2> HIDE DEF r
  <2>3. toMain' \in Seq(Told) /\ Inbox' = Inbox \cup {r[i] : i \in DOMAIN r}
    BY <2>1, <2>2, Replying
  <2> QED  BY <2>1, <2>3 DEF Range
<1>4. toMain' \in Seq(Told) /\ Inbox' = Inbox \cup Range(<<x>>) \cup Range(<<y>>)
  BY <1>1, <1>3, Zenon
<1> QED  BY <1>2, <1>4

\* No reply.
LEMMA NoReply ==
    ASSUME toMain \in Seq(Told), toMain' = toMain \/ toMain' = toMain \o <<>>
    PROVE  toMain' \in Seq(Told) /\ Inbox' = Inbox
<1>1. toMain' = toMain
  BY ConcatEmptySeq
<1> QED  BY <1>1 DEF Inbox

\* The messages of the worker.
LEMMA Replies ==
    /\ Lost \in Told /\ Lost.id = NoId /\ NoId = -1
    /\ \A t \in ReplyType, n \in Int, c \in Channels \cup {0} :
          /\ t # "closed" \/ c = 0 => Reply(t, n, c) \in Told
          /\ Reply(t, n, c).type = t /\ Reply(t, n, c).id = n /\ Reply(t, n, c).ch = c
  BY DEF Lost, Reply, Told, ReplyType, NoId

\* The worker takes a request m and leaves its tables as they are.  What it
\* posts answers nothing but m, and answers it unless nobody waits for that.
LEMMA Acknowledging ==
    ASSUME RequestInv, NEW type, FromMain(type),
           toMain' \in Seq(Told), Inbox \subseteq Inbox',
           \A x \in Inbox' : \/ x \in Inbox \/ x.id = NoId
                             \/ /\ x.id = Head(toWorker).id
                                /\ x.type \in AnswerTo(Head(toWorker))
                                /\ x.ch \in {0, Head(toWorker).ch},
           \/ type = "unsubscribe"
           \/ type = "init" /\ \E x \in Inbox' : x.type = "ready"
           \/ \E x \in Inbox' : x.id = Head(toWorker).id,
           ops' \subseteq ops,
           UNCHANGED <<connectId, wOpen, wCalls, disturbed>>
    PROVE  RequestInv'
<1> DEFINE m == Head(toWorker)
<1>1. /\ toWorker' \in Seq(Requested) /\ InOrder' /\ m.type = type
      /\ m.id \in Nat \ {0} /\ m.id < nextRequest
      /\ Outbox = Outbox' \cup {m}
      /\ \A p \in pending : p.id = m.id => p = m
      /\ UNCHANGED <<pending, nextRequest, nextChannel, tracked, rc>>
  BY Handling
<1>2. \A x \in Inbox' : \/ x \in Inbox \/ x.id = NoId
                        \/ x.id = m.id /\ x.type \in AnswerTo(m) /\ x.ch \in {0, m.ch}
  OBVIOUS
<1>3. \/ type = "unsubscribe"
      \/ type = "init" /\ \E x \in Inbox' : x.type = "ready"
      \/ \E x \in Inbox' : x.id = m.id
  OBVIOUS
<1> HIDE DEF m
<1>4. WorkerTypes'
  BY <1>1 DEF RequestInv, WorkerTypes
<1>5. NoId < nextRequest /\ \A p \in pending : p.id # NoId
  BY Numbers DEF NoId
<1>6. Given'
  <2>1. \A x \in Inbox' : x.id < nextRequest
    BY <1>1, <1>2, <1>5 DEF RequestInv, Given
  <2> QED  BY <1>1, <2>1 DEF RequestInv, Given
<1>7. ASSUME NEW p \in pending  PROVE Means(p)'
  <2>1. \A x \in Inbox' : x.id = p.id => x.type \in AnswerTo(p) /\ x.ch \in {0, p.ch}
    BY <1>1, <1>2, <1>5 DEF RequestInv, Means
  <2> QED  BY <1>1, <2>1 DEF RequestInv, Means
<1>8. ASSUME NEW p \in pending, Waits(p)  PROVE Waits(p)'
  <2>1. CASE p = m
    BY <1>1, <1>3, <2>1 DEF Waits
  <2>2. CASE p # m
    BY <1>1, <1>8, <2>2 DEF Waits
  <2> QED  BY <2>1, <2>2
<1> QED
  BY <1>1, <1>4, <1>6, <1>7, <1>8, WorkerMoves DEF RequestInv, AllWait

\* "host not initialized"
LEMMA HostGoneKeeps ==
    ASSUME RequestInv, NEW type \in {"reconnect", "open", "call", "send", "unsubscribe"},
           FromMain(type), HostGone(Head(toWorker))
    PROVE  RequestInv'
<1> DEFINE x == Reply("error", Head(toWorker).id, 0)
<1>1. Head(toWorker).type = type /\ Head(toWorker).id \in Int
  BY Handling
<1>2. x \in Told /\ x.type = "error" /\ x.id = Head(toWorker).id /\ x.ch = 0
  BY <1>1, Replies DEF ReplyType
<1>3. /\ toMain' = toMain \o <<x>>
      /\ UNCHANGED <<connectId, wOpen, wCalls, ops, disturbed>>
  BY DEF HostGone, Post, workerVars, tableVars, engineVars, historyVars
<1> HIDE DEF x
<1>4. toMain' \in Seq(Told) /\ Inbox' = Inbox \cup {x}
  BY <1>2, <1>3, OneReply DEF RequestInv, WorkerTypes
<1>5. "error" \in AnswerTo(Head(toWorker))
  BY <1>1 DEF AnswerTo
<1> QED  BY <1>2, <1>3, <1>4, <1>5, Acknowledging

LEMMA WorkerInitKeeps == RequestInv /\ WorkerInit => RequestInv'
<1> SUFFICES ASSUME RequestInv, WorkerInit  PROVE RequestInv'
  OBVIOUS
<1>1. /\ FromMain("init")
      /\ UNCHANGED <<connectId, wOpen, wCalls, ops, disturbed>>
  BY DEF WorkerInit, tableVars, engineVars, historyVars
<1>2. Head(toWorker).type = "init" /\ Head(toWorker).id \in Int
  BY <1>1, Handling
<1>3. CASE Post(<<Reply("ready", NoId, 0)>>)
  <2> DEFINE x == Reply("ready", NoId, 0)
  <2>1. x \in Told /\ x.type = "ready" /\ x.id = NoId
    BY Replies DEF ReplyType
  <2>2. toMain' = toMain \o <<x>>
    BY <1>3 DEF Post
  <2> HIDE DEF x
  <2>3. toMain' \in Seq(Told) /\ Inbox' = Inbox \cup {x}
    BY <2>1, <2>2, OneReply DEF RequestInv, WorkerTypes
  <2> QED  BY <1>1, <2>1, <2>3, Acknowledging
<1>4. CASE Post(<<Reply("error", Head(toWorker).id, 0)>>)
  <2> DEFINE x == Reply("error", Head(toWorker).id, 0)
  <2>1. x \in Told /\ x.type = "error" /\ x.id = Head(toWorker).id /\ x.ch = 0
    BY <1>2, Replies DEF ReplyType
  <2>2. toMain' = toMain \o <<x>>
    BY <1>4 DEF Post
  <2> HIDE DEF x
  <2>3. toMain' \in Seq(Told) /\ Inbox' = Inbox \cup {x}
    BY <2>1, <2>2, OneReply DEF RequestInv, WorkerTypes
  <2>4. "error" \in AnswerTo(Head(toWorker))
    BY <1>2 DEF AnswerTo
  <2> QED  BY <1>1, <2>1, <2>3, <2>4, Acknowledging
<1> QED  BY <1>3, <1>4 DEF WorkerInit

LEMMA WorkerCloseKeeps == RequestInv /\ WorkerClose => RequestInv'
<1> SUFFICES ASSUME RequestInv, WorkerClose  PROVE RequestInv'
  OBVIOUS
<1> DEFINE x == Reply("closed", Head(toWorker).id, 0)
<1>1. /\ FromMain("close")
      /\ UNCHANGED <<connectId, wOpen, wCalls, ops, disturbed>>
      /\ toMain' = toMain \o (<<Lost>> \o <<x>>) \/ toMain' = toMain \o (<<>> \o <<x>>)
  BY DEF WorkerClose, Post, tableVars, historyVars
<1>2. Head(toWorker).type = "close" /\ Head(toWorker).id \in Int
  BY <1>1, Handling
<1>3. /\ x \in Told /\ x.type = "closed" /\ x.id = Head(toWorker).id /\ x.ch = 0
      /\ Lost \in Told /\ Lost.id = NoId
  BY <1>2, Replies DEF ReplyType
<1> HIDE DEF x
<1>4. toMain' \in Seq(Told) /\ (Inbox' = Inbox \cup {Lost, x} \/ Inbox' = Inbox \cup {x})
  <2>1. CASE toMain' = toMain \o (<<Lost>> \o <<x>>)
    BY <1>3, <2>1, TwoReplies DEF RequestInv, WorkerTypes
  <2>2. CASE toMain' = toMain \o (<<>> \o <<x>>)
    <3>1. <<>> \o <<x>> = <<x>>
      <4>1. <<x>> \in Seq(Told)
        BY <1>3
      <4> QED  BY <4>1, ConcatEmptySeq
    <3>2. toMain' = toMain \o <<x>>
      BY <2>2, <3>1
    <3> QED  BY <1>3, <3>2, OneReply DEF RequestInv, WorkerTypes
  <2> QED  BY <1>1, <2>1, <2>2
<1>5. "closed" \in AnswerTo(Head(toWorker))
  BY <1>2 DEF AnswerTo
<1> QED  BY <1>1, <1>3, <1>4, <1>5, Acknowledging

LEMMA WorkerUnsubscribeKeeps == RequestInv /\ WorkerUnsubscribe => RequestInv'
<1> SUFFICES ASSUME RequestInv, WorkerUnsubscribe  PROVE RequestInv'
  OBVIOUS
<1>1. FromMain("unsubscribe")
  BY DEF WorkerUnsubscribe
<1>2. CASE HostGone(Head(toWorker))
  BY <1>1, <1>2, HostGoneKeeps
<1>3. ASSUME NEW c, host = "live",
             \/ ops' = {o \in ops : o[1] # c} /\ toMain' = toMain
             \/ Post(<<Lost>>) /\ ops' = ops,
             UNCHANGED <<host, tableVars, transport, historyVars>>
      PROVE  RequestInv'
  <2>1. UNCHANGED <<connectId, wOpen, wCalls, disturbed>> /\ ops' \subseteq ops
    BY <1>3 DEF tableVars, historyVars
  <2>2. CASE toMain' = toMain
    <3>1. toMain' \in Seq(Told) /\ Inbox' = Inbox
      BY <2>2, NoReply DEF RequestInv, WorkerTypes
    <3> QED  BY <1>1, <2>1, <3>1, Acknowledging
  <2>3. CASE Post(<<Lost>>)
    <3>1. Lost \in Told /\ Lost.id = NoId
      BY Replies
    <3>2. toMain' \in Seq(Told) /\ Inbox' = Inbox \cup {Lost}
      BY <2>3, <3>1, OneReply DEF Post, RequestInv, WorkerTypes
    <3> QED  BY <1>1, <2>1, <3>1, <3>2, Acknowledging
  <2> QED  BY <1>3, <2>2, <2>3
<1> QED  BY <1>2, <1>3 DEF WorkerUnsubscribe

\* A new connection takes the place of an older one: the tables of the worker
\* hold nothing that still waits.
LEMMA Replacing ==
    ASSUME RequestInv, NEW type \in {"connect", "reconnect"}, FromMain(type),
           connectId' = Head(toWorker).id,
           \/ UNCHANGED <<wOpen, wCalls>>
           \/ wOpen' = [c \in Channels |-> 0] /\ wCalls' = {},
           ops' = {}, UNCHANGED <<toMain, disturbed>>
    PROVE  RequestInv'
<1> DEFINE m == Head(toWorker)
<1>1. /\ toWorker' \in Seq(Requested) /\ InOrder' /\ m.type = type
      /\ m.id \in Nat \ {0} /\ m.id < nextRequest
      /\ Outbox = Outbox' \cup {m}
      /\ \A w \in Outbox' : m.id < w.id
      /\ \A p \in pending : p.id = m.id => p = m
      /\ UNCHANGED <<pending, nextRequest, nextChannel, tracked, rc>>
      /\ connectId' = m.id
  BY Handling
<1> HIDE DEF m
<1>2. Inbox' = Inbox
  BY DEF Inbox
<1>3. wOpen' \in [Channels -> Nat] /\ wCalls' \subseteq wCalls
  BY DEF RequestInv, WorkerTypes
<1>4. \A c \in Channels : wOpen'[c] = wOpen[c] \/ wOpen'[c] = 0
  OBVIOUS
<1>5. WorkerTypes'
  BY <1>1, <1>3 DEF RequestInv, WorkerTypes
<1>6. Given'
  <2>1. 0 < nextRequest /\ \A w \in Outbox : 0 < w.id
    BY Numbers
  <2>2. \A c \in Channels : wOpen'[c] < nextRequest /\ \A w \in Outbox' : wOpen'[c] < w.id
    BY <1>1, <1>4, <2>1 DEF RequestInv, Given
  <2> QED  BY <1>1, <1>2, <1>3, <2>2 DEF RequestInv, Given
<1>7. ASSUME NEW p \in pending  PROVE Means(p)'
  <2>1. p.id # 0
    BY Numbers
  <2> QED  BY <1>1, <1>2, <1>3, <1>4, <2>1 DEF RequestInv, Means
<1>8. ASSUME NEW p \in pending, Waits(p)  PROVE Waits(p)'
  <2>1. m.id <= p.id /\ m.id \in Nat /\ p.id \in Nat
    BY <1>1, Numbers DEF RequestInv, Replaces
  <2>2. /\ connectId \in Nat /\ connectId < m.id
        /\ \A c \in Channels : wOpen[c] \in Nat /\ wOpen[c] < m.id
        /\ \A n \in wCalls : n \in Nat /\ n < m.id
    BY <1>1, Numbers DEF RequestInv, Given
  <2>3. /\ connectId # p.id /\ p.id \notin wCalls
        /\ \A c \in Channels : wOpen[c] # p.id
    BY <2>1, <2>2
  <2>4. p.type = "open" => p.ch \in Channels
    BY DEF RequestInv, MainTypes, Requested, OnChannel
  <2>5. CASE p = m
    BY <1>1, <2>5 DEF Waits
  <2>6. CASE p # m
    BY <1>1, <1>2, <1>8, <2>3, <2>4, <2>6 DEF Waits
  <2> QED  BY <2>5, <2>6
<1> QED
  BY <1>1, <1>5, <1>6, <1>7, <1>8, WorkerMoves DEF RequestInv, AllWait

LEMMA WorkerConnectKeeps == RequestInv /\ WorkerConnect => RequestInv'
  BY Replacing DEF WorkerConnect, NewConnection

LEMMA WorkerReconnectKeeps == RequestInv /\ WorkerReconnect => RequestInv'
<1> SUFFICES ASSUME RequestInv, WorkerReconnect  PROVE RequestInv'
  OBVIOUS
<1>1. CASE HostGone(Head(toWorker))
  BY <1>1, HostGoneKeeps DEF WorkerReconnect
<1>2. CASE ~HostGone(Head(toWorker))
  BY <1>2, Replacing DEF WorkerReconnect, NewConnection
<1> QED  BY <1>1, <1>2

\* No other open of the channel waits when the worker enters one.
LEMMA WorkerOpenKeeps == RequestInv /\ WorkerOpen => RequestInv'
<1> SUFFICES ASSUME RequestInv, WorkerOpen  PROVE RequestInv'
  OBVIOUS
<1> DEFINE m == Head(toWorker)
<1>1. FromMain("open")
  BY DEF WorkerOpen
<1>2. CASE HostGone(m)
  BY <1>1, <1>2, HostGoneKeeps
<1>3. CASE ~HostGone(m)
  <2>1. /\ toWorker' \in Seq(Requested) /\ InOrder' /\ m.type = "open" /\ m \in Requested
        /\ m.id \in Nat \ {0} /\ m.id < nextRequest
        /\ Outbox = Outbox' \cup {m}
        /\ \A w \in Outbox' : m.id < w.id
        /\ \A p \in pending : p.id = m.id => p = m
        /\ UNCHANGED <<pending, nextRequest, nextChannel, tracked, rc>>
    BY <1>1, Handling
  <2>2. /\ wOpen' = [wOpen EXCEPT ![m.ch] = m.id]
        /\ toMain' = toMain \/ toMain' = toMain \o <<Lost>>
        /\ UNCHANGED <<connectId, wCalls, ops, disturbed>>
    BY <1>3 DEF WorkerOpen, Post, historyVars
  <2> HIDE DEF m
  <2>3. m.ch \in Channels
    BY <2>1 DEF Requested, OnChannel
  <2>4. /\ wOpen' \in [Channels -> Nat] /\ wOpen'[m.ch] = m.id
        /\ \A c \in Channels : c # m.ch => wOpen'[c] = wOpen[c]
    BY <2>1, <2>2, <2>3 DEF RequestInv, WorkerTypes
  <2>5. toMain' \in Seq(Told) /\ (Inbox' = Inbox \/ Inbox' = Inbox \cup {Lost})
    <3>1. CASE toMain' = toMain
      BY <3>1, NoReply DEF RequestInv, WorkerTypes
    <3>2. CASE toMain' = toMain \o <<Lost>>
      BY <3>2, Replies, OneReply DEF RequestInv, WorkerTypes
    <3> QED  BY <2>2, <3>1, <3>2
  <2>6. Lost.id < nextRequest /\ \A p \in pending : p.id # Lost.id /\ p.id \in Nat
    BY Replies, Numbers
  <2>7. WorkerTypes'
    BY <2>1, <2>2, <2>4, <2>5 DEF RequestInv, WorkerTypes
  <2>8. Given'
    <3>1. \A c \in Channels : wOpen'[c] < nextRequest /\ \A w \in Outbox' : wOpen'[c] < w.id
      BY <2>1, <2>4 DEF RequestInv, Given
    <3> QED  BY <2>1, <2>2, <2>5, <2>6, <3>1 DEF RequestInv, Given
  <2>9. ASSUME NEW p \in pending  PROVE Means(p)'
    <3>1. \A c \in Channels : wOpen'[c] = p.id => p.type = "open" /\ p.ch = c
      BY <2>1, <2>3, <2>4 DEF RequestInv, Means
    <3> QED  BY <2>1, <2>2, <2>5, <2>6, <3>1 DEF RequestInv, Means
  <2>10. ASSUME NEW p \in pending, Waits(p), "open" \notin disturbed  PROVE Waits(p)'
    <3>1. CASE p = m
      BY <2>1, <2>4, <3>1 DEF Waits
    <3>2. CASE p # m
      <4>1. p.type = "open" /\ p.ch = m.ch => wOpen[p.ch] # p.id
        <5>1. SUFFICES ASSUME p.type = "open", p.ch = m.ch  PROVE wOpen[p.ch] # p.id
          OBVIOUS
        <5>2. m.id <= p.id
          BY <2>1, <2>10, <5>1 DEF RequestInv, OpensOnce
        <5>3. wOpen[m.ch] < m.id /\ wOpen[m.ch] \in Nat
          BY <2>1, <2>3, Numbers DEF RequestInv, Given
        <5> QED  BY <2>1, <2>6, <5>1, <5>2, <5>3
      <4>2. p.type = "open" => p.ch \in Channels
        BY DEF RequestInv, MainTypes, Requested, OnChannel
      <4> QED  BY <2>1, <2>2, <2>4, <2>5, <2>10, <3>2, <4>1, <4>2 DEF Waits
    <3> QED  BY <3>1, <3>2
  <2> QED
    BY <2>1, <2>2, <2>7, <2>8, <2>9, <2>10, WorkerMoves DEF RequestInv, AllWait
<1> QED  BY <1>2, <1>3

\* A call is entered, and a send acknowledged; the failure that a channel which
\* is not open gives is taken for the answer to its open.
LEMMA WorkerUseKeeps == RequestInv /\ WorkerUse => RequestInv'
<1> SUFFICES ASSUME RequestInv, WorkerUse  PROVE RequestInv'
  OBVIOUS
<1> DEFINE m == Head(toWorker)
           ack == IF m.type = "send" THEN <<Reply("ack", m.id, m.ch)>> ELSE <<>>
           a == Reply("ack", m.id, m.ch)
           f == Reply("openFailed", wOpen[m.ch], m.ch)
<1>1. PICK type \in {"call", "send"} : FromMain(type)
  BY DEF WorkerUse
<1>2. CASE HostGone(m)
  BY <1>1, <1>2, HostGoneKeeps
<1>3. CASE ~HostGone(m)
  <2>1. /\ toWorker' \in Seq(Requested) /\ InOrder' /\ m.type = type /\ m \in Requested
        /\ m.id \in Nat \ {0} /\ m.id < nextRequest
        /\ Outbox = Outbox' \cup {m}
        /\ \A w \in Outbox' : m.id < w.id
        /\ \A p \in pending : p.id = m.id => p = m
        /\ UNCHANGED <<pending, nextRequest, nextChannel, tracked, rc>>
    BY <1>1, Handling
  <2>2. m.ch \in Channels
    BY <2>1 DEF Requested, OnChannel
  <2>3. /\ wCalls' = IF m.type = "call" THEN wCalls \cup {m.id} ELSE wCalls
        /\ \/ toMain' = toMain \o (<<Lost>> \o ack) /\ UNCHANGED <<ops, wOpen>>
           \/ /\ ops' = IF m.type = "call" THEN ops \cup {<<m.ch, m.id>>} ELSE ops
              /\ toMain' = toMain \o ack
              /\ UNCHANGED wOpen
           \/ /\ toMain' = toMain \o (<<f>> \o ack)
              /\ wOpen' = [wOpen EXCEPT ![m.ch] = 0]
              /\ UNCHANGED ops
        /\ UNCHANGED <<connectId, disturbed>>
    BY <1>3 DEF WorkerUse, Post, historyVars
  <2>4. /\ a \in Told /\ a.type = "ack" /\ a.id = m.id /\ a.ch = m.ch
        /\ f \in Told /\ f.type = "openFailed" /\ f.id = wOpen[m.ch] /\ f.ch = m.ch
        /\ Lost \in Told /\ Lost.id = NoId
    BY <2>1, <2>2, Replies, Numbers DEF ReplyType
  <2>5. ack = IF m.type = "send" THEN <<a>> ELSE <<>>
    OBVIOUS
  <2> HIDE DEF m, a, f, ack
  <2>6. \A x \in Told : <<x>> \o <<>> = <<x>>
    <3>1. \A x \in Told : <<x>> \in Seq(Told)
      OBVIOUS
    <3> QED  BY <3>1, ConcatEmptySeq
  <2> DEFINE A == IF m.type = "send" THEN {a} ELSE {}
  <2>7. ASSUME NEW x \in Told, toMain' = toMain \o (<<x>> \o ack)
        PROVE  toMain' \in Seq(Told) /\ Inbox' = Inbox \cup {x} \cup A
    <3>1. CASE m.type = "send"
      <4>1. toMain' = toMain \o (<<x>> \o <<a>>)
        BY <2>5, <2>7, <3>1
      <4>2. toMain \in Seq(Told) /\ a \in Told
        BY <2>4 DEF RequestInv, WorkerTypes
      <4>3. toMain' \in Seq(Told) /\ Inbox' = Inbox \cup {x, a}
        BY <4>1, <4>2, TwoReplies, Zenon
      <4> QED  BY <3>1, <4>3
    <3>2. CASE m.type # "send"
      <4>1. toMain' = toMain \o <<x>>
        BY <2>5, <2>6, <2>7, <3>2
      <4> QED  BY <3>2, <4>1, OneReply DEF RequestInv, WorkerTypes
    <3> QED  BY <3>1, <3>2
  <2>8. ASSUME toMain' = toMain \o ack
        PROVE  toMain' \in Seq(Told) /\ Inbox' = Inbox \cup A
    <3>1. CASE m.type = "send"
      <4>1. toMain' = toMain \o <<a>>
        BY <2>5, <2>8, <3>1
      <4> QED  BY <2>4, <3>1, <4>1, OneReply DEF RequestInv, WorkerTypes
    <3>2. CASE m.type # "send"
      <4>1. toMain' = toMain \o <<>>
        BY <2>5, <2>8, <3>2
      <4> QED  BY <3>2, <4>1, NoReply DEF RequestInv, WorkerTypes
    <3> QED  BY <3>1, <3>2
  <2>9. /\ toMain' \in Seq(Told)
        /\ Inbox \subseteq Inbox' /\ A \subseteq Inbox'
        /\ Inbox' \subseteq Inbox \cup {Lost, f} \cup A
        /\ wOpen' = wOpen \/ (wOpen' = [wOpen EXCEPT ![m.ch] = 0] /\ f \in Inbox')
        /\ \A o \in ops' : o \in ops \/ (m.type = "call" /\ o = <<m.ch, m.id>>)
    <3>1. CASE toMain' = toMain \o (<<Lost>> \o ack) /\ UNCHANGED <<ops, wOpen>>
      BY <2>4, <2>7, <3>1
    <3>2. CASE /\ ops' = IF m.type = "call" THEN ops \cup {<<m.ch, m.id>>} ELSE ops
               /\ toMain' = toMain \o ack
               /\ UNCHANGED wOpen
      BY <2>8, <3>2
    <3>3. CASE /\ toMain' = toMain \o (<<f>> \o ack)
               /\ wOpen' = [wOpen EXCEPT ![m.ch] = 0]
               /\ UNCHANGED ops
      BY <2>4, <2>7, <3>3
    <3> QED  BY <2>3, <3>1, <3>2, <3>3
  <2>10. /\ m.type = "send" => a \in Inbox'
         /\ \A x \in Inbox' : \/ x \in Inbox \/ x = Lost \/ x = f
                              \/ x = a /\ m.type = "send"
    BY <2>9
  <2> HIDE DEF A
  <2>11. /\ wOpen' \in [Channels -> Nat]
         /\ \A c \in Channels : wOpen'[c] = wOpen[c] \/ wOpen'[c] = 0
         /\ \A c \in Channels : wOpen'[c] = wOpen[c] \/ (c = m.ch /\ f \in Inbox')
    BY <2>2, <2>9 DEF RequestInv, WorkerTypes
  <2>12. /\ m.type = "call" => wCalls' = wCalls \cup {m.id}
         /\ m.type = "send" => wCalls' = wCalls
         /\ m.type = "call" \/ m.type = "send"
    BY <2>1, <2>3
  <2>13. \A o \in ops' : o[1] \in Channels /\ o[2] \in Nat /\ o \in Channels \X Nat
    <3>1. <<m.ch, m.id>> \in Channels \X Nat
      BY <2>1, <2>2
    <3> QED  BY <2>9, <3>1 DEF RequestInv, WorkerTypes
  <2>14. WorkerTypes'
    BY <2>1, <2>3, <2>9, <2>11, <2>12, <2>13 DEF RequestInv, WorkerTypes
  <2>15. /\ NoId < nextRequest /\ 0 < nextRequest /\ \A w \in Outbox : 0 < w.id
         /\ \A p \in pending : p.id # NoId /\ p.id # 0
    BY Numbers DEF NoId
  <2>16. Given'
    <3>1. \A x \in Inbox' : x.id < nextRequest
      BY <2>1, <2>2, <2>4, <2>10, <2>15 DEF RequestInv, Given
    <3>2. \A c \in Channels : wOpen'[c] < nextRequest /\ \A w \in Outbox' : wOpen'[c] < w.id
      BY <2>1, <2>11, <2>15 DEF RequestInv, Given
    <3>3. \A n \in wCalls' : n < nextRequest /\ \A w \in Outbox' : n < w.id
      BY <2>1, <2>12 DEF RequestInv, Given
    <3>4. \A o \in ops' : o[2] < nextRequest
      BY <2>1, <2>9 DEF RequestInv, Given
    <3> QED  BY <2>1, <2>3, <3>1, <3>2, <3>3, <3>4 DEF RequestInv, Given
  <2>17. ASSUME NEW p \in pending  PROVE Means(p)'
    <3>1. \A c \in Channels : wOpen'[c] = p.id => p.type = "open" /\ p.ch = c
      BY <2>11, <2>15 DEF RequestInv, Means
    <3>2. p.id \in wCalls' => p.type = "call"
      BY <2>1, <2>12 DEF RequestInv, Means
    <3>3. \A o \in ops' : o[2] = p.id => p.type = "call" /\ p.ch = o[1]
      BY <2>1, <2>9 DEF RequestInv, Means
    <3>4. ASSUME NEW x \in Inbox', x.id = p.id
          PROVE  x.type \in AnswerTo(p) /\ x.ch \in {0, p.ch}
      <4>1. CASE x \in Inbox
        BY <3>4, <4>1 DEF RequestInv, Means
      <4>2. CASE x = f
        <5>1. p.type = "open" /\ p.ch = m.ch
          BY <2>2, <2>4, <3>4, <4>2 DEF RequestInv, Means
        <5> QED  BY <2>4, <4>2, <5>1 DEF AnswerTo
      <4>3. CASE x = a /\ m.type = "send"
        <5>1. p.type = "send" /\ p.ch = m.ch
          BY <2>1, <2>4, <3>4, <4>3
        <5> QED  BY <2>4, <4>3, <5>1 DEF AnswerTo
      <4> QED  BY <2>4, <2>10, <2>15, <3>4, <4>1, <4>2, <4>3
    <3>5. \A q \in pending' \cup Outbox' : p.id = q.id => p = q
      BY <2>1 DEF RequestInv, Means
    <3> QED  BY <2>3, <3>1, <3>2, <3>3, <3>4, <3>5 DEF RequestInv, Means
  <2>18. ASSUME NEW p \in pending, Waits(p)  PROVE Waits(p)'
    <3>1. CASE p = m
      BY <2>4, <2>10, <2>12, <3>1 DEF Waits
    <3>2. CASE p # m
      <4>1. p.type = "open" => p.ch \in Channels
        BY DEF RequestInv, MainTypes, Requested, OnChannel
      <4>2. p.type = "open" /\ wOpen[p.ch] = p.id =>
               wOpen'[p.ch] = p.id \/ \E x \in Inbox' : x.id = p.id
        BY <2>4, <2>11, <4>1
      <4>3. \A n \in wCalls : n \in wCalls'
        BY <2>12
      <4> QED  BY <2>1, <2>3, <2>9, <2>18, <3>2, <4>2, <4>3 DEF Waits
    <3> QED  BY <3>1, <3>2
  <2> QED
    BY <2>1, <2>3, <2>14, <2>16, <2>17, <2>18, WorkerMoves DEF RequestInv, AllWait
<1> QED  BY <1>2, <1>3

-----------------------------------------------------------------------------
(* The events of the transport and the engine. *)

\* The worker posts a reply x, if any, and takes what it answers from a table.
LEMMA Answered ==
    ASSUME RequestInv, OnWorker, NEW x \in Told,
           \/ toMain' = toMain \/ toMain' = toMain \o <<>> \/ toMain' = toMain \o <<x>>,
           x.id < nextRequest,
           \A p \in pending :
               x.id = p.id => x.type \in AnswerTo(p) /\ x.ch \in {0, p.ch},
           wOpen' \in [Channels -> Nat],
           \A c \in Channels :
               \/ wOpen'[c] = wOpen[c]
               \/ wOpen'[c] = 0 /\ toMain' = toMain \o <<x>> /\ x.id = wOpen[c],
           wCalls' \subseteq wCalls,
           \A n \in wCalls \ wCalls' : toMain' = toMain \o <<x>> /\ x.id = n,
           ops' \subseteq ops, disturbed \subseteq disturbed', connectId' = connectId
    PROVE  RequestInv'
<1>1. UNCHANGED <<pending, nextRequest, nextChannel, tracked, rc, toWorker>>
  BY DEF OnWorker, mainVars
<1>2. /\ toMain' \in Seq(Told) /\ Inbox \subseteq Inbox' /\ Inbox' \subseteq Inbox \cup {x}
      /\ toMain' = toMain \o <<x>> => x \in Inbox'
  <2>1. CASE toMain' = toMain \o <<x>>
    <3>1. toMain' \in Seq(Told) /\ Inbox' = Inbox \cup {x}
      BY <2>1, OneReply DEF RequestInv, WorkerTypes
    <3> QED  BY <3>1
  <2>2. CASE toMain' # toMain \o <<x>>
    <3>1. toMain' \in Seq(Told) /\ Inbox' = Inbox
      BY <2>2, NoReply DEF RequestInv, WorkerTypes
    <3> QED  BY <2>2, <3>1
  <2> QED  BY <2>1, <2>2
<1>3. Outbox' = Outbox /\ InOrder' = InOrder
  BY <1>1 DEF Outbox, InOrder
<1>4. /\ 0 < nextRequest /\ \A w \in Outbox : 0 < w.id
      /\ \A p \in pending : p.id # 0
  BY Numbers
<1>5. WorkerTypes'
  BY <1>1, <1>2 DEF RequestInv, WorkerTypes
<1>6. Given'
  <2>1. \A c \in Channels : wOpen'[c] < nextRequest /\ \A w \in Outbox' : wOpen'[c] < w.id
    BY <1>3, <1>4 DEF RequestInv, Given
  <2> QED  BY <1>1, <1>2, <1>3, <2>1 DEF RequestInv, Given
<1>7. ASSUME NEW p \in pending  PROVE Means(p)'
  <2>1. \A c \in Channels : wOpen'[c] = p.id => p.type = "open" /\ p.ch = c
    BY <1>4 DEF RequestInv, Means
  <2>2. \A y \in Inbox' : y.id = p.id => y.type \in AnswerTo(p) /\ y.ch \in {0, p.ch}
    BY <1>2 DEF RequestInv, Means
  <2> QED  BY <1>1, <1>3, <2>1, <2>2 DEF RequestInv, Means
<1>8. ASSUME NEW p \in pending, Waits(p)  PROVE Waits(p)'
  <2>1. p.type = "open" => p.ch \in Channels
    BY DEF RequestInv, MainTypes, Requested, OnChannel
  <2>2. p.type = "open" /\ wOpen[p.ch] = p.id =>
           wOpen'[p.ch] = p.id \/ \E y \in Inbox' : y.id = p.id
    BY <1>2, <2>1
  <2>3. p.id \in wCalls => p.id \in wCalls' \/ \E y \in Inbox' : y.id = p.id
    BY <1>2
  <2> QED  BY <1>1, <1>2, <1>3, <1>8, <2>2, <2>3 DEF Waits
<1> QED
  BY <1>1, <1>3, <1>5, <1>6, <1>7, <1>8, WorkerMoves DEF RequestInv, AllWait

\* Closed without an id, or nothing.
LEMMA Losing ==
    ASSUME RequestInv, OnWorker,
           \/ toMain' = toMain \/ toMain' = toMain \o <<>> \/ toMain' = toMain \o <<Lost>>,
           UNCHANGED <<connectId, wOpen, wCalls>>, ops' \subseteq ops,
           disturbed \subseteq disturbed'
    PROVE  RequestInv'
<1>1. Lost \in Told /\ Lost.id < nextRequest /\ \A p \in pending : Lost.id # p.id
  BY Replies, Numbers
<1>2. wOpen' \in [Channels -> Nat]
  BY DEF RequestInv, WorkerTypes
<1> QED  BY <1>1, <1>2, Answered

LEMMA SessionReadyKeeps == RequestInv /\ SessionReady => RequestInv'
<1> SUFFICES ASSUME RequestInv, SessionReady  PROVE RequestInv'
  OBVIOUS
<1> DEFINE x == Reply("connected", connectId, 0)
<1>1. /\ OnWorker /\ toMain' = toMain \o <<x>>
      /\ UNCHANGED <<connectId, wOpen, wCalls, ops, disturbed>>
  BY DEF SessionReady, Post, tableVars
<1>2. x \in Told /\ x.type = "connected" /\ x.id = connectId /\ x.ch = 0
  BY Replies, Numbers DEF ReplyType
<1> HIDE DEF x
<1>3. x.id < nextRequest /\ wOpen' \in [Channels -> Nat]
  BY <1>1, <1>2 DEF RequestInv, Given, WorkerTypes
<1>4. ASSUME NEW p \in pending, x.id = p.id
      PROVE  x.type \in AnswerTo(p) /\ x.ch \in {0, p.ch}
  <2>1. p.type \in {"connect", "reconnect"}
    BY <1>2, <1>4 DEF RequestInv, Means
  <2> QED  BY <1>2, <2>1 DEF AnswerTo
<1> QED  BY <1>1, <1>2, <1>3, <1>4, Answered

LEMMA OpenAnsweredKeeps ==
    ASSUME RequestInv, NEW c \in Channels, NEW ok \in BOOLEAN, OpenAnswered(c, ok)
    PROVE  RequestInv'
<1> DEFINE t == IF ok THEN "opened" ELSE "openFailed"
           x == Reply(t, wOpen[c], c)
<1>1. /\ OnWorker /\ toMain' = toMain \o <<x>>
      /\ wOpen' = [wOpen EXCEPT ![c] = 0] /\ disturbed \subseteq disturbed'
      /\ UNCHANGED <<connectId, wCalls, ops>>
  BY DEF OpenAnswered, Answering, Post
<1>2. t \in {"opened", "openFailed"}
  OBVIOUS
<1> HIDE DEF t
<1>3. x \in Told /\ x.type = t /\ x.id = wOpen[c] /\ x.ch = c
  BY <1>2, Replies, Numbers DEF ReplyType
<1> HIDE DEF x
<1>4. x.id < nextRequest
  BY <1>3 DEF RequestInv, Given
<1>5. /\ wOpen' \in [Channels -> Nat]
      /\ \A k \in Channels : wOpen'[k] = wOpen[k] \/ (wOpen'[k] = 0 /\ x.id = wOpen[k])
  BY <1>1, <1>3 DEF RequestInv, WorkerTypes
<1>6. ASSUME NEW p \in pending, x.id = p.id
      PROVE  x.type \in AnswerTo(p) /\ x.ch \in {0, p.ch}
  <2>1. p.type = "open" /\ p.ch = c
    BY <1>3, <1>6 DEF RequestInv, Means
  <2> QED  BY <1>2, <1>3, <2>1 DEF AnswerTo
<1> QED  BY <1>1, <1>3, <1>4, <1>5, <1>6, Answered

LEMMA CallAnsweredKeeps ==
    ASSUME RequestInv, NEW o \in ops, CallAnswered(o)
    PROVE  RequestInv'
<1> DEFINE n == IF o[2] \in wCalls THEN o[2] ELSE 0
           x == Reply("response", n, o[1])
<1>1. /\ OnWorker /\ toMain' = toMain \o <<x>>
      /\ wCalls' = wCalls \ {o[2]} /\ ops' \subseteq ops
      /\ UNCHANGED <<connectId, wOpen, disturbed>>
  BY DEF CallAnswered, Answering, Post
<1>2. /\ n \in Nat /\ n < nextRequest /\ (n = o[2] \/ n = 0) /\ o[1] \in Channels
      /\ \A k \in wCalls \ wCalls' : k = n
  BY <1>1, Numbers DEF RequestInv, Given
<1> HIDE DEF n
<1>3. x \in Told /\ x.type = "response" /\ x.id = n /\ x.ch = o[1]
  BY <1>2, Replies DEF ReplyType
<1> HIDE DEF x
<1>4. wOpen' \in [Channels -> Nat]
  BY <1>1 DEF RequestInv, WorkerTypes
<1>5. ASSUME NEW p \in pending, x.id = p.id
      PROVE  x.type \in AnswerTo(p) /\ x.ch \in {0, p.ch}
  <2>1. p.type = "call" /\ p.ch = o[1]
    BY <1>2, <1>3, <1>5, Numbers DEF RequestInv, Means
  <2> QED  BY <1>3, <2>1 DEF AnswerTo
<1> QED  BY <1>1, <1>2, <1>3, <1>4, <1>5, Answered

LEMMA CallCancelledKeeps ==
    ASSUME RequestInv, NEW o \in ops, CallCancelled(o)
    PROVE  RequestInv'
<1> DEFINE x == Reply("cancelled", NoId, o[1])
<1>1. /\ OnWorker /\ toMain' = toMain \o <<x>> /\ ops' \subseteq ops
      /\ UNCHANGED <<connectId, wOpen, wCalls, disturbed>>
  BY DEF CallCancelled, Answering, Post, tableVars
<1>2. x \in Told /\ x.id = NoId
  BY Replies, Numbers DEF ReplyType
<1> HIDE DEF x
<1>3. x.id < nextRequest /\ \A p \in pending : x.id # p.id
  BY <1>2, Numbers DEF NoId
<1>4. wOpen' \in [Channels -> Nat]
  BY <1>1 DEF RequestInv, WorkerTypes
<1> QED  BY <1>1, <1>2, <1>3, <1>4, Answered

-----------------------------------------------------------------------------
(* The theorem. *)

LEMMA InitRequests == Init => RequestInv
<1> SUFFICES ASSUME Init  PROVE RequestInv
  OBVIOUS
<1> DEFINE r == Request("init", 1, 0)
<1>1. r \in Requested /\ r.id = 1 /\ r.type = "init" /\ r.ch = 0
  BY DEF Request, Requested, OnChannel, RequestType
<1>2. pending = {r} /\ toWorker = <<r>> /\ toMain = <<>>
  BY DEF Init
<1> HIDE DEF r
<1>3. Outbox = {r} /\ Inbox = {} /\ InOrder
  <2>1. DOMAIN <<r>> = {1} /\ <<r>>[1] = r
    OBVIOUS
  <2> QED  BY <1>2, <2>1 DEF Outbox, Inbox, InOrder
<1>4. MainTypes
  BY <1>1, <1>2, IdleRc DEF Init, MainTypes
<1>5. WorkerTypes
  <2>1. <<r>> \in Seq(Requested)
    BY <1>1
  <2>2. <<>> \in Seq(Told)
    OBVIOUS
  <2>3. wOpen \in [Channels -> Nat]
    BY DEF Init
  <2>4. connectId \in Nat /\ wCalls \subseteq Nat /\ ops \subseteq Channels \X Nat
    BY DEF Init
  <2> QED  BY <1>2, <2>1, <2>2, <2>3, <2>4 DEF WorkerTypes
<1>6. Given
  BY <1>1, <1>2, <1>3 DEF Init, Given
<1>7. \A p \in pending : Means(p)
  BY <1>1, <1>2, <1>3 DEF Init, Means
<1>8. Replaces /\ Awaits /\ OpensOnce
  BY <1>1, <1>2, <1>3 DEF Replaces, Awaits, OpensOnce
<1>9. ChannelsGiven
  BY <1>1, <1>2 DEF Init, NoReconnect, ChannelsGiven
<1>10. AllWait
  BY <1>2, <1>3 DEF AllWait, Waits
<1> QED  BY <1>4, <1>5, <1>6, <1>7, <1>8, <1>9, <1>10 DEF RequestInv

LEMMA NextRequests == RequestInv /\ [Next]_vars => RequestInv'
<1> SUFFICES ASSUME RequestInv, [Next]_vars  PROVE RequestInv'
  OBVIOUS
<1>1. CASE MainStep
  BY <1>1, MainReadyKeeps, MainConnectedKeeps, MainOpenedKeeps, MainRejectedKeeps,
     MainResponseKeeps, MainCancelledKeeps, MainClosedKeeps, MainLostKeeps DEF MainStep
<1>2. CASE WorkerStep
  BY <1>2, WorkerInitKeeps, WorkerConnectKeeps, WorkerReconnectKeeps, WorkerOpenKeeps,
     WorkerUseKeeps, WorkerUnsubscribeKeeps, WorkerCloseKeeps DEF WorkerStep
<1>3. CASE AppStep
  BY <1>3, AppKeeps
<1>4. CASE Connects
  <2>1. /\ OnWorker
        /\ toMain' = toMain \o <<>> \/ toMain' = toMain \o <<Lost>>
        /\ UNCHANGED <<connectId, wOpen, wCalls, ops, disturbed>>
    BY <1>4 DEF Connects, Post, tableVars
  <2> QED  BY <2>1, Losing
<1>5. CASE EngineFails \/ TransportLost \/ TransportFails
  <2>1. /\ OnWorker /\ disturbed \subseteq disturbed'
        /\ toMain' = toMain \o <<>> \/ toMain' = toMain \o <<Lost>>
        /\ UNCHANGED <<connectId, wOpen, wCalls, ops>>
    BY <1>5 DEF EngineFails, TransportLost, TransportFails, CutsReconnect, Post, tableVars
  <2> QED  BY <2>1, Losing
<1>6. ASSUME NEW o \in ops, PacketDiscarded(o)  PROVE RequestInv'
  <2>1. /\ OnWorker /\ toMain' = toMain \o <<Lost>> /\ ops' \subseteq ops
        /\ UNCHANGED <<connectId, wOpen, wCalls, disturbed>>
    BY <1>6 DEF PacketDiscarded, Post, tableVars
  <2> QED  BY <2>1, Losing
<1>7. CASE UNCHANGED vars
  <2>1. UNCHANGED <<pending, nextRequest, nextChannel, tracked, rc, toWorker, toMain,
                    connectId, wOpen, wCalls, ops, disturbed>>
    BY <1>7 DEF vars, mainVars, workerVars, tableVars, engineVars, historyVars
  <2>2. Outbox' = Outbox /\ Inbox' = Inbox /\ InOrder' = InOrder
    BY <2>1 DEF Outbox, Inbox, InOrder
  <2>3. WorkerTypes' /\ Given'
    BY <2>1, <2>2 DEF RequestInv, WorkerTypes, Given
  <2>4. \A p \in pending : Means(p)'
    BY <2>1, <2>2 DEF RequestInv, Means
  <2>5. \A p \in pending : Waits(p) => Waits(p)'
    BY <2>1, <2>2 DEF Waits
  <2> QED  BY <2>1, <2>2, <2>3, <2>4, <2>5, WorkerMoves DEF RequestInv, AllWait
<1> QED
  BY <1>1, <1>2, <1>3, <1>4, <1>5, <1>6, <1>7, SessionReadyKeeps, OpenAnsweredKeeps,
     CallAnsweredKeeps, CallCancelledKeeps DEF Next

\* The invariant says of every pending request what RequestsKept does.
LEMMA KeptRequests == RequestInv => RequestsKept
<1> SUFFICES ASSUME RequestInv, "open" \notin disturbed, NEW p \in pending
             PROVE  /\ Kept(p)
                    /\ \A i \in DOMAIN toMain : toMain[i].id = p.id =>
                          toMain[i].type \in AnswerTo(p) /\ toMain[i].ch \in {0, p.ch}
  BY DEF RequestsKept
<1>1. Waits(p)
  BY DEF RequestInv, AllWait
<1>2. Kept(p)
  BY <1>1 DEF Waits, Kept, Outbox, Inbox
<1>3. ASSUME NEW i \in DOMAIN toMain, toMain[i].id = p.id
      PROVE  toMain[i].type \in AnswerTo(p) /\ toMain[i].ch \in {0, p.ch}
  <2>1. toMain[i] \in Inbox
    BY DEF Inbox
  <2> QED  BY <1>3, <2>1 DEF RequestInv, Means
<1> QED  BY <1>2, <1>3

\* Ids are given once, name one request wherever they appear, and no open
\* overwrites the entry of another that waits: the two threads agree on what is
\* pending, whatever the overlap of reconnects, losses and closes.
THEOREM RequestInvariant == Spec => []RequestInv
<1>1. Init => RequestInv
  BY InitRequests
<1>2. RequestInv /\ [Next]_vars => RequestInv'
  BY NextRequests
<1> QED  BY <1>1, <1>2, PTL DEF Spec

\* No promise of the main thread is orphaned, and none is settled by a reply to
\* another request (#pending of client.ts and the tables of io-worker.ts).
THEOREM RequestsAreKept == Spec => []RequestsKept
<1>1. RequestInv => RequestsKept
  BY KeptRequests
<1> QED  BY <1>1, RequestInvariant, PTL

-----------------------------------------------------------------------------
(* The automatic reconnect has a cause: a loss that the main thread has yet *)
(* to read of is either still so, or it is read before the answer to the    *)
(* reconnect() that already replaces the connection.                        *)

Down == engine = "failed" \/ transport = "closed"
Lone == "overlap" \notin disturbed

\* The worker answers in the order in which it is asked.
Behind ==
    \A w \in Outbox : /\ \A m \in Inbox : m.id < w.id
                      /\ \A o \in ops : o[2] < w.id

\* While a reconnect() is alone, it holds off the automatic one, and what
\* replaces the connection is its request.
InCharge ==
    Lone => /\ rc.pc = "idle" => rc.id = 0
            /\ rc.pc # "idle" => reconnecting = TRUE
            /\ rc.pc = "await" =>
                  /\ rc.id < nextRequest
                  /\ \A p \in pending : p.id = rc.id => p.type = "reconnect"
            /\ \A w \in Outbox :
                  w.type = "reconnect" => rc.pc = "await" /\ rc.id = w.id

LossesKnown ==
    Lone => \A j \in DOMAIN toMain :
        \/ toMain[j] # Lost
        \/ Down
        \/ /\ rc.pc = "await"
           /\ \A i \in DOMAIN toMain : i < j => toMain[i].id # rc.id

\* create(): init, ready, connect, one after the other, before there is a
\* transport; and never again.
Created ==
    IF transport = "none"
    THEN /\ engine = "new" /\ app \in {"creating", "failed"}
         /\ \/ Outbox \subseteq {Request("init", 1, 0)} /\ toMain = <<>>
            \/ Outbox = {} /\ Len(toMain) = 1 /\ toMain[1].type \in {"ready", "error"}
            \/ /\ Len(toWorker) = 1 /\ toWorker[1].type = "connect"
               /\ toMain = <<>>
    ELSE /\ \A w \in Outbox : w.type \notin {"init", "connect"}
         /\ \A m \in Inbox : m.type # "ready"

CauseInv ==
    /\ RequestInv /\ attempts \in Nat
    /\ Behind /\ InCharge /\ LossesKnown /\ Created

\* A reply is read: the reconnect() that waits for it goes on, or none does.
LEMMA CauseRead ==
    ASSUME CauseInv, RequestInv', toMain # <<>>, toMain' = Tail(toMain),
           Head(toMain).type # "ready", attempts' \in Nat,
           \/ /\ UNCHANGED <<rc, reconnecting, toWorker, nextRequest>>
              /\ pending' \subseteq pending
           \/ /\ Head(toMain).id = rc.id /\ rc' = NoReconnect
              /\ UNCHANGED toWorker
           \/ /\ Head(toMain).id = rc.id /\ rc'.pc = "reopen"
              /\ Lone => rc.pc # "idle"
              /\ UNCHANGED reconnecting
              /\ \E r \in Requested : /\ r.id = nextRequest /\ r.type = "open"
                                      /\ toWorker' = Append(toWorker, r),
           transport = "none" =>
               toWorker' = toWorker /\ app' \in {"creating", "failed"},
           UNCHANGED <<ops, engine, transport, disturbed>>
    PROVE  CauseInv'
<1> USE DEF CauseInv
<1>1. /\ toMain' \in Seq(Told) /\ Head(toMain) \in Told
      /\ Inbox = Inbox' \cup {Head(toMain)}
  BY Reading DEF RequestInv, WorkerTypes
<1>2. /\ Len(toMain) \in Nat \ {0} /\ DOMAIN toMain = 1 .. Len(toMain)
      /\ Head(toMain) = toMain[1]
      /\ Len(toMain') = Len(toMain) - 1 /\ DOMAIN toMain' = 1 .. Len(toMain) - 1
      /\ \A i \in DOMAIN toMain' :
            i + 1 \in DOMAIN toMain /\ toMain'[i] = toMain[i + 1] /\ 1 < i + 1
  <2>1. Len(toMain) \in Nat \ {0} /\ DOMAIN toMain = 1 .. Len(toMain)
    BY LenProperties, EmptySeq DEF RequestInv, WorkerTypes
  <2>2. /\ Len(toMain') = Len(toMain) - 1
        /\ \A i \in 1 .. Len(toMain') : toMain'[i] = toMain[i + 1]
    BY HeadTailProperties DEF RequestInv, WorkerTypes
  <2>3. DOMAIN toMain' = 1 .. Len(toMain')
    BY <1>1, LenProperties
  <2>4. Head(toMain) = toMain[1]
    OBVIOUS
  <2> QED  BY <2>1, <2>2, <2>3, <2>4
<1>3. \/ Outbox' = Outbox
      \/ /\ Head(toMain).id = rc.id /\ rc'.pc = "reopen"
         /\ \E r \in Requested : /\ r.id = nextRequest /\ r.type = "open"
                                 /\ Outbox' = Outbox \cup {r}
  <2>1. CASE toWorker' = toWorker
    BY <2>1 DEF Outbox
  <2>2. CASE /\ Head(toMain).id = rc.id /\ rc'.pc = "reopen"
             /\ \E r \in Requested : /\ r.id = nextRequest /\ r.type = "open"
                                     /\ toWorker' = Append(toWorker, r)
    <3>1. PICK r \in Requested : /\ r.id = nextRequest /\ r.type = "open"
                                 /\ toWorker' = Append(toWorker, r)
      BY <2>2
    <3>2. \A w \in Outbox : w.id < r.id
      BY <3>1 DEF RequestInv, Given
    <3>3. Outbox' = Outbox \cup {r}
      BY <3>1, <3>2, Posting DEF RequestInv, WorkerTypes, Given
    <3> QED  BY <2>2, <3>1, <3>3
  <2> QED  BY <2>1, <2>2
<1>4. Behind'
  <2>1. \A m \in Inbox' : m.id < nextRequest
    BY <1>1 DEF RequestInv, Given
  <2>2. \A o \in ops' : o[2] < nextRequest
    BY DEF RequestInv, Given
  <2> QED  BY <1>1, <1>3, <2>1, <2>2 DEF Behind
<1>5. InCharge'
  <2>1. CASE /\ UNCHANGED <<rc, reconnecting, toWorker, nextRequest>>
             /\ pending' \subseteq pending
    <3>1. Outbox' = Outbox
      BY <2>1 DEF Outbox
    <3> QED  BY <2>1, <3>1 DEF InCharge, Lone
  <2>2. CASE Head(toMain).id = rc.id /\ rc'.pc \in {"idle", "reopen"}
    <3>1. ASSUME Lone, NEW w \in Outbox', w.type = "reconnect"  PROVE FALSE
      <4>1. w \in Outbox
        BY <1>3, <3>1
      <4>2. w.id = Head(toMain).id
        BY <2>2, <3>1, <4>1 DEF InCharge
      <4>3. Head(toMain).id < w.id /\ w.id \in Nat
        BY <1>1, <4>1, Numbers DEF Behind
      <4> QED  BY <4>2, <4>3
    <3>2. Lone => /\ rc'.pc = "idle" => rc'.id = 0
                  /\ rc'.pc # "idle" => reconnecting' = TRUE
      BY DEF InCharge, NoReconnect
    <3> QED  BY <2>2, <3>1, <3>2 DEF InCharge, Lone
  <2> QED  BY <2>1, <2>2 DEF NoReconnect
<1>6. LossesKnown'
  <2>1. ASSUME Lone, NEW j \in DOMAIN toMain', toMain'[j] = Lost, ~Down
        PROVE  /\ rc'.pc = "await"
               /\ \A i \in DOMAIN toMain' : i < j => toMain'[i].id # rc'.id
    <3>1. j + 1 \in DOMAIN toMain /\ toMain[j + 1] = Lost /\ 1 < j + 1
      BY <1>2, <2>1
    <3>2. /\ rc.pc = "await"
          /\ \A i \in DOMAIN toMain : i < j + 1 => toMain[i].id # rc.id
      BY <2>1, <3>1 DEF LossesKnown
    <3>3. Head(toMain).id # rc.id
      BY <1>2, <3>1, <3>2
    <3>4. rc' = rc
      BY <3>3
    <3>5. ASSUME NEW i \in DOMAIN toMain', i < j  PROVE toMain'[i].id # rc.id
      <4>1. i + 1 < j + 1
        BY <1>2, <3>5
      <4> QED  BY <1>2, <3>2, <4>1
    <3> QED  BY <3>2, <3>4, <3>5
  <2>2. Down' <=> Down
    BY DEF Down
  <2> QED  BY <2>1, <2>2 DEF LossesKnown, Lone
<1>7. Created'
  <2>1. CASE transport = "none"
    <3>1. Outbox = {} /\ Len(toMain) = 1
      BY <2>1 DEF Created
    <3>2. toMain' = <<>>
      BY <1>1, <1>2, <3>1, EmptySeq
    <3>3. Outbox' = {}
      BY <2>1, <3>1 DEF Outbox
    <3> QED  BY <2>1, <3>2, <3>3 DEF Created
  <2>2. CASE transport # "none"
    BY <1>1, <1>3, <2>2 DEF Created
  <2> QED  BY <2>1, <2>2
<1> QED  BY <1>4, <1>5, <1>6, <1>7

\* reconnect() starts.
LEMMA CauseReconnect ==
    ASSUME CauseInv, RequestInv', NEW a \in BOOLEAN, StartReconnect(a),
           toMain' = toMain \/ (toMain # <<>> /\ toMain' = Tail(toMain)),
           transport # "none", attempts' \in Nat
    PROVE  CauseInv'
<1> USE DEF CauseInv
<1> DEFINE r == Request("reconnect", nextRequest, 0)
<1>1. r \in Requested /\ r.id = nextRequest /\ r.type = "reconnect"
  BY Numbers DEF Request, Requested, OnChannel, RequestType
<1> HIDE DEF r
<1>2. /\ pending' = {r} /\ toWorker' = Append(toWorker, r)
      /\ nextRequest' = nextRequest + 1
      /\ disturbed \subseteq disturbed' /\ (rc.pc # "idle" => "overlap" \in disturbed')
      /\ reconnecting' = StillReconnecting
      /\ UNCHANGED <<ops, engine, transport>>
  BY DEF r, StartReconnect, RejectInflight, workerVars, tableVars, engineVars
<1>3. rc'.pc = "await" /\ rc'.id = nextRequest
  BY DEF StartReconnect, NoReconnect
<1>4. Outbox' = Outbox \cup {r}
  <2>1. \A w \in Outbox : w.id < r.id
    BY <1>1 DEF RequestInv, Given
  <2> QED  BY <1>1, <1>2, <2>1, Posting DEF RequestInv, WorkerTypes, Given
<1>5. Inbox' \subseteq Inbox
  <2>1. CASE toMain' = toMain
    BY <2>1 DEF Inbox
  <2>2. CASE toMain # <<>> /\ toMain' = Tail(toMain)
    BY <2>2, Reading DEF RequestInv, WorkerTypes
  <2> QED  BY <2>1, <2>2
<1>6. Behind'
  BY <1>1, <1>2, <1>4, <1>5 DEF Behind, RequestInv, Given
<1>7. InCharge'
  <2>1. Lone' => Lone /\ rc.pc = "idle"
    BY <1>2 DEF Lone
  <2>2. Lone' => \A w \in Outbox : w.type # "reconnect"
    BY <2>1 DEF InCharge
  <2>3. Lone' => reconnecting' = TRUE
    BY <1>2, <2>1 DEF StillReconnecting
  <2>4. nextRequest < nextRequest'
    BY <1>2, Numbers
  <2> QED  BY <1>1, <1>2, <1>3, <1>4, <2>2, <2>3, <2>4 DEF InCharge
<1>8. LossesKnown'
  <2>1. \A i \in DOMAIN toMain' : toMain'[i] \in Inbox'
    BY DEF Inbox
  <2>2. \A m \in Inbox' : m.id # nextRequest
    BY <1>5, Numbers DEF RequestInv, Given
  <2> QED  BY <1>3, <2>1, <2>2 DEF LossesKnown
<1>9. Created'
  BY <1>1, <1>2, <1>4, <1>5 DEF Created
<1> QED  BY <1>6, <1>7, <1>8, <1>9

\* The application asks for something else.
LEMMA CauseAsked ==
    ASSUME CauseInv, RequestInv', app = "using", NEW type \in OnChannel \cup {"close"},
           NEW c, type # "close" => c \in Channels, type = "close" => c = 0,
           Ask(type, c), disturbed \subseteq disturbed',
           UNCHANGED <<rc, reconnecting, attempts, ops, engine, transport, toMain>>
    PROVE  CauseInv'
<1> USE DEF CauseInv
<1> DEFINE r == Request(type, nextRequest, c)
<1>1. r \in Requested /\ r.id = nextRequest /\ r.type = type
  BY Numbers DEF Request, Requested, OnChannel, RequestType
<1>2. r.type \notin {"init", "connect", "reconnect"}
  BY <1>1 DEF OnChannel
<1> HIDE DEF r
<1>3. /\ pending' = pending \cup {r} /\ toWorker' = Append(toWorker, r)
      /\ nextRequest' = nextRequest + 1
  BY DEF r, Ask
<1>4. Outbox' = Outbox \cup {r} /\ Inbox' = Inbox
  <2>1. \A w \in Outbox : w.id < r.id
    BY <1>1 DEF RequestInv, Given
  <2>2. Outbox' = Outbox \cup {r}
    BY <1>1, <1>3, <2>1, Posting DEF RequestInv, WorkerTypes, Given
  <2> QED  BY <2>2 DEF Inbox
<1>5. Behind'
  BY <1>1, <1>4 DEF Behind, RequestInv, Given
<1>6. InCharge'
  <2>1. Lone' => Lone
    BY DEF Lone
  <2>2. rc.id \in Nat /\ nextRequest \in Nat
    BY Numbers DEF RequestInv, MainTypes
  <2>3. rc.id < nextRequest => rc.id < nextRequest' /\ rc.id # r.id
    BY <1>1, <1>3, <2>2
  <2> QED  BY <1>2, <1>3, <1>4, <2>1, <2>3 DEF InCharge
<1>7. LossesKnown'
  BY DEF LossesKnown, Lone, Down
<1>8. Created'
  BY <1>2, <1>4 DEF Created
<1> QED  BY <1>5, <1>6, <1>7, <1>8

\* The worker posts s and keeps the connection it has.
LEMMA CausePosted ==
    ASSUME CauseInv, RequestInv', NEW s \in Seq(Told), toMain' = toMain \o s,
           Outbox' \subseteq Outbox,
           \A x \in Range(s) : x.type # "ready" /\ \A w \in Outbox' : x.id < w.id,
           Lost \in Range(s) => Down',
           Down => Down',
           \A o \in ops' : o \in ops \/ \A w \in Outbox' : o[2] < w.id,
           transport # "none", transport' # "none",
           disturbed \subseteq disturbed',
           UNCHANGED <<rc, reconnecting, attempts, pending, nextRequest>>
    PROVE  CauseInv'
<1> USE DEF CauseInv
<1>1. toMain \in Seq(Told)
  BY DEF RequestInv, WorkerTypes
<1>2. /\ Len(toMain) \in Nat /\ Len(s) \in Nat
      /\ DOMAIN toMain = 1 .. Len(toMain) /\ DOMAIN s = 1 .. Len(s)
      /\ toMain' \in Seq(Told) /\ Len(toMain') = Len(toMain) + Len(s)
      /\ \A i \in 1 .. Len(toMain) + Len(s) :
            toMain'[i] = IF i <= Len(toMain) THEN toMain[i] ELSE s[i - Len(toMain)]
  BY <1>1, LenProperties, ConcatProperties
<1>3. DOMAIN toMain' = 1 .. Len(toMain) + Len(s)
  BY <1>2, LenProperties
<1>4. Inbox' = Inbox \cup Range(s)
  BY <1>1, Replying DEF Range
<1>5. Behind'
  BY <1>4 DEF Behind
<1>6. InCharge'
  BY DEF InCharge, Lone
<1>7. LossesKnown'
  <2>1. ASSUME Lone, NEW j \in DOMAIN toMain', toMain'[j] = Lost, ~Down'
        PROVE  /\ rc.pc = "await"
               /\ \A i \in DOMAIN toMain' : i < j => toMain'[i].id # rc.id
    <3>1. CASE j \in 1 .. Len(toMain)
      <4>1. toMain[j] = Lost /\ ~Down
        BY <1>2, <2>1, <3>1
      <4>2. /\ rc.pc = "await"
            /\ \A i \in DOMAIN toMain : i < j => toMain[i].id # rc.id
        BY <1>2, <2>1, <3>1, <4>1 DEF LossesKnown
      <4>3. \A i \in DOMAIN toMain' : i < j => i \in DOMAIN toMain /\ toMain'[i] = toMain[i]
        BY <1>2, <1>3, <3>1
      <4> QED  BY <4>2, <4>3
    <3>2. CASE j - Len(toMain) \in 1 .. Len(s)
      <4>1. s[j - Len(toMain)] = Lost
        BY <1>2, <1>3, <2>1, <3>2
      <4>2. Lost \in Range(s)
        BY <1>2, <3>2, <4>1 DEF Range
      <4> QED  BY <2>1, <4>2
    <3> QED  BY <1>2, <1>3, <3>1, <3>2
  <2> QED  BY <2>1 DEF LossesKnown, Lone
<1>8. Created'
  BY <1>4 DEF Created
<1> QED  BY <1>5, <1>6, <1>7, <1>8

\* Before there is a transport, the main thread reads of nothing but init.
LEMMA ReadAtFirst ==
    ASSUME CauseInv, transport = "none", toMain # <<>>
    PROVE  /\ Outbox = {} /\ Len(toMain) = 1 /\ app \in {"creating", "failed"}
           /\ Head(toMain).type \in {"ready", "error"}
  BY DEF CauseInv, Created

LEMMA CauseReady == CauseInv /\ RequestInv' /\ MainReady => CauseInv'
<1> SUFFICES ASSUME CauseInv, RequestInv', MainReady  PROVE CauseInv'
  OBVIOUS
<1> USE DEF CauseInv
<1> DEFINE r == Request("connect", nextRequest, 0)
<1>1. r \in Requested /\ r.id = nextRequest /\ r.type = "connect"
  BY Numbers DEF Request, Requested, OnChannel, RequestType
<1> HIDE DEF r
<1>2. /\ pending' = {r} /\ toWorker' = Append(toWorker, r)
      /\ nextRequest' = nextRequest + 1
      /\ toMain # <<>> /\ Head(toMain).type = "ready" /\ toMain' = Tail(toMain)
      /\ UNCHANGED <<app, rc, reconnecting, attempts, ops, engine, transport, disturbed>>
  BY DEF r, MainReady, FromWorker, workerVars, engineVars, historyVars
<1>3. transport = "none"
  <2>1. Head(toMain) \in Inbox
    BY <1>2, Reading DEF RequestInv, WorkerTypes
  <2> QED  BY <1>2, <2>1 DEF Created
<1>4. Outbox = {} /\ Len(toMain) = 1 /\ app \in {"creating", "failed"}
  BY <1>2, <1>3, ReadAtFirst
<1>5. toMain' = <<>> /\ Inbox' = {}
  <2>1. toMain' \in Seq(Told) /\ Len(toMain') = 0
    BY <1>2, <1>4, HeadTailProperties DEF RequestInv, WorkerTypes
  <2>2. toMain' = <<>>
    BY <2>1, EmptySeq
  <2>3. DOMAIN <<>> = {}
    OBVIOUS
  <2> QED  BY <2>2, <2>3 DEF Inbox
<1>6. Len(toWorker') = 1 /\ toWorker'[1] = r /\ Outbox' = {r}
  <2>1. /\ toWorker \in Seq(Requested) /\ Len(toWorker) \in Nat
        /\ DOMAIN toWorker = 1 .. Len(toWorker)
    BY LenProperties DEF RequestInv, WorkerTypes
  <2>2. Len(toWorker) = 0
    <3>1. SUFFICES ASSUME Len(toWorker) # 0  PROVE FALSE
      OBVIOUS
    <3>2. 1 \in DOMAIN toWorker
      BY <2>1, <3>1
    <3> QED  BY <1>4, <3>2 DEF Outbox
  <2>3. Len(toWorker') = 1 /\ toWorker'[1] = r
    BY <1>1, <1>2, <2>1, <2>2, AppendProperties
  <2>4. \A w \in Outbox : w.id < r.id
    BY <1>4
  <2>5. Outbox' = Outbox \cup {r}
    BY <1>1, <1>2, <2>4, Posting DEF RequestInv, WorkerTypes, Given
  <2> QED  BY <1>4, <2>3, <2>5
<1>7. Behind'
  BY <1>1, <1>2, <1>5, <1>6 DEF Behind, RequestInv, Given
<1>8. InCharge'
  <2>1. rc.id \in Nat /\ nextRequest \in Nat
    BY Numbers DEF RequestInv, MainTypes
  <2>2. rc.id < nextRequest => rc.id < nextRequest' /\ rc.id # r.id
    BY <1>1, <1>2, <2>1
  <2> QED  BY <1>1, <1>2, <1>6, <2>2 DEF InCharge, Lone
<1>9. LossesKnown'
  <2>1. DOMAIN <<>> = {}
    OBVIOUS
  <2> QED  BY <1>5, <2>1 DEF LossesKnown
<1>10. Created'
  BY <1>1, <1>2, <1>3, <1>4, <1>5, <1>6 DEF Created
<1> QED  BY <1>2, <1>7, <1>8, <1>9, <1>10

\* The reply has nobody waiting for it, or somebody other than reconnect().
LEMMA CauseSettled ==
    ASSUME CauseInv, RequestInv', toMain # <<>>, toMain' = Tail(toMain),
           Head(toMain).type # "ready", pending' \subseteq pending,
           transport = "none" => app' \in {"creating", "failed"},
           UNCHANGED <<rc, reconnecting, attempts, toWorker,
                       nextRequest, workerVars, disturbed>>
    PROVE  CauseInv'
<1>1. UNCHANGED <<ops, engine, transport>> /\ attempts' \in Nat
  BY DEF workerVars, engineVars, CauseInv
<1> QED  BY <1>1, CauseRead

LEMMA CauseIgnored ==
    ASSUME CauseInv, RequestInv', toMain # <<>>, toMain' = Tail(toMain),
           Head(toMain).type # "ready", Ignore
    PROVE  CauseInv'
<1>1. /\ UNCHANGED <<rc, reconnecting, attempts, toWorker,
                     nextRequest, workerVars, disturbed>>
      /\ pending' = pending /\ app' = app
  BY DEF Ignore, mainVars, historyVars
<1>2. transport = "none" => app' \in {"creating", "failed"}
  BY <1>1, ReadAtFirst
<1> QED  BY <1>1, <1>2, CauseSettled

\* reopenTrackedChannels goes on.
LEMMA CauseReopened ==
    ASSUME CauseInv, RequestInv', toMain # <<>>, toMain' = Tail(toMain),
           Head(toMain).type \in {"connected", "opened"}, Head(toMain).id = rc.id,
           Lone => rc.pc # "idle",
           NEW settled, Reopen(tracked, {}, settled) \/ Reopen(rc.todo, tracked, settled),
           UNCHANGED <<workerVars, disturbed>>
    PROVE  CauseInv'
<1>1. UNCHANGED <<ops, engine, transport, disturbed>>
  BY DEF workerVars, engineVars
<1>2. transport # "none"
  BY ReadAtFirst
<1>3. CASE rc' = NoReconnect /\ UNCHANGED toWorker /\ attempts' \in Nat
  BY <1>1, <1>2, <1>3, CauseRead
<1>4. ASSUME NEW c \in tracked \cup rc.todo, rc'.pc = "reopen",
             toWorker' = Append(toWorker, Request("open", nextRequest, c)),
             UNCHANGED <<reconnecting, attempts>>
      PROVE  CauseInv'
  <2> DEFINE r == Request("open", nextRequest, c)
  <2>1. c \in Channels
    BY DEF CauseInv, RequestInv, MainTypes
  <2>2. r \in Requested /\ r.id = nextRequest /\ r.type = "open"
    BY <2>1, Numbers DEF Request, Requested, OnChannel, CauseInv
  <2>3. toWorker' = Append(toWorker, r)
    BY <1>4
  <2> HIDE DEF r
  <2>4. \E x \in Requested : /\ x.id = nextRequest /\ x.type = "open"
                             /\ toWorker' = Append(toWorker, x)
    BY <2>2, <2>3
  <2>5. attempts' \in Nat
    BY <1>4 DEF CauseInv
  <2> QED  BY <1>1, <1>2, <1>4, <2>4, <2>5, CauseRead
<1>5. rc \in [pc : {"idle", "await", "reopen"}, auto : BOOLEAN, id : Nat,
              opening : Channels \cup {0}, todo : SUBSET Channels]
  BY DEF CauseInv, RequestInv, MainTypes
<1>6. \A c, q : [rc EXCEPT !.pc = "reopen", !.id = nextRequest,
                           !.opening = c, !.todo = q].pc = "reopen"
  BY <1>5
<1>7. \/ /\ rc' = NoReconnect
         /\ attempts' = IF rc.auto THEN 0 ELSE attempts
         /\ UNCHANGED <<toWorker, nextRequest>>
      \/ \E c \in tracked \cup rc.todo : \E q :
            /\ rc' = [rc EXCEPT !.pc = "reopen", !.id = nextRequest,
                                !.opening = c, !.todo = q]
            /\ toWorker' = Append(toWorker, Request("open", nextRequest, c))
            /\ UNCHANGED <<reconnecting, attempts>>
  <2>1. CASE Reopen(tracked, {}, settled)
    BY <2>1, ZenonT(60) DEF Reopen
  <2>2. CASE Reopen(rc.todo, tracked, settled)
    BY <2>2, ZenonT(60) DEF Reopen
  <2> QED  BY <2>1, <2>2
<1>8. CASE /\ rc' = NoReconnect
           /\ attempts' = IF rc.auto THEN 0 ELSE attempts
           /\ UNCHANGED <<toWorker, nextRequest>>
  BY <1>3, <1>8 DEF CauseInv
<1>9. ASSUME NEW c \in tracked \cup rc.todo, NEW q,
             rc' = [rc EXCEPT !.pc = "reopen", !.id = nextRequest,
                              !.opening = c, !.todo = q],
             toWorker' = Append(toWorker, Request("open", nextRequest, c)),
             UNCHANGED <<reconnecting, attempts>>
      PROVE  CauseInv'
  <2>1. rc'.pc = "reopen"
    BY <1>6, <1>9
  <2> QED  BY <1>4, <1>9, <2>1
<1> QED  BY <1>7, <1>8, <1>9

LEMMA CauseMain == CauseInv /\ RequestInv' /\ MainStep => CauseInv'
<1> SUFFICES ASSUME CauseInv, RequestInv', MainStep  PROVE CauseInv'
  OBVIOUS
<1>1. CASE MainReady
  BY <1>1, CauseReady
<1>2. CASE MainConnected
  <2>1. toMain # <<>> /\ toMain' = Tail(toMain) /\ Head(toMain).type = "connected"
    BY <1>2 DEF MainConnected, FromWorker
  <2>2. CASE Ignore
    BY <2>1, <2>2, CauseIgnored
  <2>3. ASSUME NEW p \in Pending(Head(toMain).id),
               \/ /\ pending' = pending \ {p}
                  /\ UNCHANGED <<rc, reconnecting, attempts, tracked, toWorker, nextRequest>>
               \/ p.type = "reconnect" /\ Reopen(tracked, {}, {p}),
               UNCHANGED <<workerVars, historyVars>>
        PROVE  CauseInv'
    <3>1. disturbed' = disturbed /\ transport # "none"
      BY <2>1, <2>3, ReadAtFirst DEF historyVars
    <3>2. CASE /\ pending' = pending \ {p}
               /\ UNCHANGED <<rc, reconnecting, attempts, tracked, toWorker, nextRequest>>
      BY <2>1, <2>3, <3>1, <3>2, CauseSettled
    <3>3. CASE p.type = "reconnect" /\ Reopen(tracked, {}, {p})
      <4>1. rc.pc = "await" /\ rc.id = Head(toMain).id
        BY <3>3 DEF CauseInv, RequestInv, Awaits, Pending
      <4> QED  BY <2>1, <2>3, <3>1, <3>3, <4>1, CauseReopened
    <3> QED  BY <2>3, <3>2, <3>3
  <2> QED  BY <1>2, <2>2, <2>3 DEF MainConnected
<1>3. CASE MainOpened
  <2>1. toMain # <<>> /\ toMain' = Tail(toMain) /\ Head(toMain).type = "opened"
    BY <1>3 DEF MainOpened, FromWorker
  <2>2. CASE Ignore
    BY <2>1, <2>2, CauseIgnored
  <2>3. ASSUME NEW p \in Pending(Head(toMain).id),
               \/ p.id = rc.id /\ Reopen(rc.todo, tracked, {p})
               \/ /\ pending' = pending \ {p}
                  /\ UNCHANGED <<rc, reconnecting, attempts, tracked, toWorker, nextRequest>>,
               UNCHANGED <<workerVars, disturbed>>
        PROVE  CauseInv'
    <3>1. transport # "none"
      BY <2>1, ReadAtFirst
    <3>2. CASE /\ pending' = pending \ {p}
               /\ UNCHANGED <<rc, reconnecting, attempts, tracked, toWorker, nextRequest>>
      BY <2>1, <2>3, <3>1, <3>2, CauseSettled
    <3>3. CASE p.id = rc.id /\ Reopen(rc.todo, tracked, {p})
      <4>1. rc.id = Head(toMain).id /\ rc.id # 0
        BY <3>3, Numbers DEF CauseInv, Pending
      <4>2. Lone => rc.pc # "idle"
        BY <4>1 DEF CauseInv, InCharge
      <4> QED  BY <2>1, <2>3, <3>1, <3>3, <4>1, <4>2, CauseReopened
    <3> QED  BY <2>3, <3>2, <3>3
  <2> QED  BY <1>3, <2>2, <2>3 DEF MainOpened
<1>4. CASE MainRejected
  <2>1. /\ toMain # <<>> /\ toMain' = Tail(toMain)
        /\ Head(toMain).type \in {"openFailed", "error"}
    BY <1>4 DEF MainRejected, FromWorker
  <2>2. CASE Ignore
    BY <2>1, <2>2, CauseIgnored
  <2>3. ASSUME NEW p \in Pending(Head(toMain).id), pending' = pending \ {p},
               app' = IF app = "creating" THEN "failed" ELSE app,
               \/ p.id = rc.id /\ rc' = NoReconnect
               \/ UNCHANGED <<rc, reconnecting>>,
               UNCHANGED <<nextRequest, attempts, toWorker, workerVars, historyVars>>
        PROVE  CauseInv'
    <3>1. UNCHANGED <<ops, engine, transport, disturbed>> /\ attempts' \in Nat
      BY <2>3 DEF workerVars, engineVars, historyVars, CauseInv
    <3>2. transport = "none" => app' \in {"creating", "failed"}
      BY <2>1, <2>3, ReadAtFirst
    <3>3. p.id = Head(toMain).id
      BY DEF Pending
    <3> QED  BY <2>1, <2>3, <3>1, <3>2, <3>3, CauseRead
  <2> QED  BY <1>4, <2>2, <2>3 DEF MainRejected
<1>5. CASE MainResponse \/ MainCancelled
  <2>1. /\ toMain # <<>> /\ toMain' = Tail(toMain)
        /\ Head(toMain).type \in {"response", "ack", "cancelled"}
    BY <1>5 DEF MainResponse, MainCancelled, FromWorker
  <2>2. /\ pending' \subseteq pending /\ app' = app
        /\ UNCHANGED <<rc, reconnecting, attempts, toWorker,
                       nextRequest, workerVars, disturbed>>
    BY <1>5 DEF MainResponse, MainCancelled, historyVars
  <2>3. transport # "none"
    BY <2>1, ReadAtFirst
  <2> QED  BY <2>1, <2>2, <2>3, CauseSettled
<1>6. CASE MainClosed
  <2>1. toMain # <<>> /\ toMain' = Tail(toMain) /\ Head(toMain).type = "closed"
    BY <1>6 DEF MainClosed, FromWorker
  <2>2. CASE Ignore
    BY <2>1, <2>2, CauseIgnored
  <2>3. ASSUME NEW p \in Pending(Head(toMain).id), pending' = pending \ {p},
               UNCHANGED <<nextRequest, rc, reconnecting, attempts, toWorker, workerVars,
                           historyVars>>
        PROVE  CauseInv'
    <3>1. disturbed' = disturbed /\ transport # "none"
      BY <2>1, <2>3, ReadAtFirst DEF historyVars
    <3> QED  BY <2>1, <2>3, <3>1, CauseSettled
  <2> QED  BY <1>6, <2>2, <2>3 DEF MainClosed
<1>7. CASE MainLost
  <2>1. toMain # <<>> /\ toMain' = Tail(toMain) /\ Head(toMain).type = "closed"
    BY <1>7 DEF MainLost, FromWorker
  <2>2. CASE Ignore
    BY <2>1, <2>2, CauseIgnored
  <2>3. CASE StartReconnect(TRUE) /\ attempts' = attempts + 1
    <3>1. attempts' \in Nat /\ transport # "none"
      BY <2>1, <2>3, ReadAtFirst DEF CauseInv
    <3> QED  BY <2>1, <2>3, <3>1, CauseReconnect
  <2> QED  BY <1>7, <2>2, <2>3 DEF MainLost
<1> QED  BY <1>1, <1>2, <1>3, <1>4, <1>5, <1>6, <1>7 DEF MainStep

LEMMA CauseApp == CauseInv /\ RequestInv' /\ AppStep => CauseInv'
<1> SUFFICES ASSUME CauseInv, RequestInv', AppStep  PROVE CauseInv'
  OBVIOUS
<1>1. app = "using" /\ transport # "none"
  BY DEF AppStep, AppOpen, AppCall, AppSend, AppUnsubscribe, AppReconnect, AppClose, MayAsk,
         CauseInv, Created
<1>2. ASSUME NEW c \in Channels, AppOpen(c) \/ AppCall(c) \/ AppSend(c) \/ AppUnsubscribe(c)
      PROVE  CauseInv'
  <2>1. /\ \E type \in OnChannel : Ask(type, c)
        /\ disturbed \subseteq disturbed'
        /\ UNCHANGED <<rc, reconnecting, attempts, workerVars, toMain>>
    BY <1>2 DEF AppOpen, AppCall, AppSend, AppUnsubscribe, Disturbs, OnChannel
  <2>2. UNCHANGED <<ops, engine, transport>>
    BY <2>1 DEF workerVars, engineVars
  <2>3. PICK type \in OnChannel : Ask(type, c)
    BY <2>1
  <2>4. type # "close"
    BY DEF OnChannel
  <2> QED  BY <1>1, <2>1, <2>2, <2>3, <2>4, CauseAsked
<1>3. CASE AppReconnect
  BY <1>1, <1>3, CauseReconnect DEF AppReconnect, CauseInv
<1>4. CASE AppClose
  <2>1. /\ Ask("close", 0) /\ disturbed' = disturbed
        /\ UNCHANGED <<rc, reconnecting, attempts, ops, engine, transport, toMain>>
    BY <1>4 DEF AppClose, workerVars, engineVars, historyVars
  <2> QED  BY <1>1, <2>1, CauseAsked
<1> QED  BY <1>2, <1>3, <1>4 DEF AppStep

\* One reply, or none.
LEMMA CauseOne ==
    ASSUME CauseInv, RequestInv', NEW x \in Told,
           \/ toMain' = toMain
           \/ toMain' = toMain \o <<>>
           \/ /\ toMain' = toMain \o <<x>>
              /\ x.type # "ready" /\ (\A w \in Outbox' : x.id < w.id)
              /\ x = Lost => Down',
           Outbox' \subseteq Outbox, Down => Down', ops' \subseteq ops,
           transport # "none", transport' # "none",
           disturbed \subseteq disturbed',
           UNCHANGED <<rc, reconnecting, attempts, pending, nextRequest>>
    PROVE  CauseInv'
<1>1. CASE toMain' = toMain \/ toMain' = toMain \o <<>>
  <2>1. <<>> \in Seq(Told)
    OBVIOUS
  <2>2. toMain' = toMain \o <<>>
    BY <1>1, ConcatEmptySeq DEF CauseInv, RequestInv, WorkerTypes
  <2>3. Range(<<>>) = {}
    BY DEF Range
  <2> QED  BY <2>1, <2>2, <2>3, CausePosted
<1>2. CASE /\ toMain' = toMain \o <<x>>
           /\ x.type # "ready" /\ (\A w \in Outbox' : x.id < w.id)
           /\ x = Lost => Down'
  <2>1. <<x>> \in Seq(Told)
    OBVIOUS
  <2>2. Range(<<x>>) = {x}
    <3>1. DOMAIN <<x>> = {1} /\ <<x>>[1] = x
      OBVIOUS
    <3> QED  BY <3>1 DEF Range
  <2>3. toMain' = toMain \o <<x>>
    BY <1>2
  <2>4. \A y \in Range(<<x>>) : y.type # "ready" /\ \A w \in Outbox' : y.id < w.id
    BY <1>2, <2>2
  <2>5. Lost \in Range(<<x>>) => Down'
    BY <1>2, <2>2
  <2>6. \A o \in ops' : o \in ops \/ \A w \in Outbox' : o[2] < w.id
    OBVIOUS
  <2> HIDE <1>2
  <2> QED  BY <2>1, <2>3, <2>4, <2>5, <2>6, CausePosted
<1> QED  BY <1>1, <1>2

\* Once there is a transport, the worker is asked neither to init nor to connect.
LEMMA TakenLater ==
    ASSUME CauseInv, NEW type, FromMain(type)
    PROVE  /\ type \notin {"init", "connect"} => transport # "none"
           /\ type \in {"init", "connect"} => transport = "none"
           /\ type = "init" => Outbox = {Request("init", 1, 0)} /\ toMain = <<>>
           /\ type = "connect" => Len(toWorker) = 1 /\ toMain = <<>>
           /\ Head(toWorker) \in Outbox
<1>1. toWorker # <<>> /\ Head(toWorker).type = type
  BY DEF FromMain
<1>2. /\ toWorker \in Seq(Requested) /\ Len(toWorker) \in Nat \ {0}
      /\ DOMAIN toWorker = 1 .. Len(toWorker) /\ Head(toWorker) = toWorker[1]
  BY <1>1, LenProperties, EmptySeq DEF CauseInv, RequestInv, WorkerTypes
<1>3. Head(toWorker) \in Outbox
  BY <1>2 DEF Outbox
<1>4. CASE transport = "none"
  <2>1. CASE Outbox \subseteq {Request("init", 1, 0)} /\ toMain = <<>>
    <3>1. Head(toWorker) = Request("init", 1, 0)
      BY <1>3, <2>1
    <3>2. Head(toWorker).type = "init"
      BY <3>1 DEF Request
    <3> QED  BY <1>1, <1>3, <1>4, <2>1, <3>1, <3>2
  <2>2. CASE Outbox = {}
    BY <1>3, <2>2
  <2>3. CASE Len(toWorker) = 1 /\ toWorker[1].type = "connect" /\ toMain = <<>>
    BY <1>1, <1>2, <1>3, <1>4, <2>3
  <2> QED  BY <1>4, <2>1, <2>2, <2>3 DEF CauseInv, Created
<1>5. CASE transport # "none"
  BY <1>1, <1>3, <1>5 DEF CauseInv, Created
<1> QED  BY <1>4, <1>5

LEMMA CauseHostGone ==
    ASSUME CauseInv, RequestInv', NEW type, type \notin {"init", "connect"},
           FromMain(type), HostGone(Head(toWorker))
    PROVE  CauseInv'
<1> DEFINE x == Reply("error", Head(toWorker).id, 0)
<1>1. /\ Head(toWorker).id \in Nat \ {0} /\ Outbox' \subseteq Outbox
      /\ \A w \in Outbox' : Head(toWorker).id < w.id
  BY Handling DEF CauseInv
<1>2. x \in Told /\ x.type = "error" /\ x.id = Head(toWorker).id
  BY <1>1, Replies DEF ReplyType
<1>3. /\ toMain' = toMain \o <<x>>
      /\ UNCHANGED <<ops, engine, transport, disturbed, pending, nextRequest, rc,
                     reconnecting, attempts>>
  BY DEF HostGone, Post, FromMain, mainVars, workerVars, engineVars, historyVars
<1> HIDE DEF x
<1>4. x # Lost
  BY <1>2 DEF Lost, Reply
<1>5. (Down => Down') /\ transport # "none" /\ transport' # "none"
  BY <1>3, TakenLater DEF Down
<1> QED  BY <1>1, <1>2, <1>3, <1>4, <1>5, CauseOne

LEMMA CauseInitialized == CauseInv /\ RequestInv' /\ WorkerInit => CauseInv'
<1> SUFFICES ASSUME CauseInv, RequestInv', WorkerInit  PROVE CauseInv'
  OBVIOUS
<1> USE DEF CauseInv
<1>1. /\ FromMain("init")
      /\ UNCHANGED <<app, ops, engine, transport, disturbed, pending, nextRequest, rc,
                     reconnecting, attempts>>
  BY DEF WorkerInit, FromMain, mainVars, engineVars, historyVars
<1>2. transport = "none" /\ Outbox = {Request("init", 1, 0)} /\ toMain = <<>>
  BY <1>1, TakenLater
<1>3. Outbox' = {}
  <2>1. /\ Outbox = Outbox' \cup {Head(toWorker)} /\ Head(toWorker).id \in Nat
        /\ \A w \in Outbox' : Head(toWorker).id < w.id
    BY <1>1, Handling
  <2>2. ASSUME NEW w \in Outbox'  PROVE FALSE
    <3>1. w = Head(toWorker)
      BY <1>2, <2>1
    <3> QED  BY <2>1, <3>1
  <2> QED  BY <2>2
<1>4. PICK x \in Told : x.type \in {"ready", "error"} /\ toMain' = toMain \o <<x>>
  <2> DEFINE y == Reply("ready", NoId, 0)
             z == Reply("error", Head(toWorker).id, 0)
  <2>1. Head(toWorker).id \in Int
    BY <1>1, Handling
  <2>2. y \in Told /\ y.type = "ready" /\ z \in Told /\ z.type = "error"
    BY <2>1, Replies DEF ReplyType
  <2>3. toMain' = toMain \o <<y>> \/ toMain' = toMain \o <<z>>
    BY DEF WorkerInit, Post
  <2> HIDE DEF y, z
  <2> QED  BY <2>2, <2>3
<1>5. toMain' = <<x>>
  <2>1. <<x>> \in Seq(Told)
    OBVIOUS
  <2> QED  BY <1>2, <1>4, <2>1, ConcatEmptySeq
<1>6. Len(toMain') = 1 /\ toMain'[1] = x /\ DOMAIN toMain' = {1}
  <2>1. Len(<<x>>) = 1 /\ <<x>>[1] = x /\ DOMAIN <<x>> = {1}
    OBVIOUS
  <2> QED  BY <1>5, <2>1
<1>7. Behind'
  BY <1>3 DEF Behind
<1>8. InCharge'
  BY <1>1, <1>3 DEF InCharge, Lone
<1>9. LossesKnown'
  <2>1. x # Lost
    BY <1>4 DEF Lost, Reply
  <2> QED  BY <1>6, <2>1 DEF LossesKnown
<1>10. Created'
  BY <1>1, <1>2, <1>3, <1>4, <1>6 DEF Created
<1> QED  BY <1>1, <1>7, <1>8, <1>9, <1>10

\* The connection is replaced: the losses that are still to be read of are read
\* before the answer.
LEMMA CauseReplaced ==
    ASSUME CauseInv, RequestInv', NEW type \in {"connect", "reconnect"}, FromMain(type),
           NewConnection, UNCHANGED <<toMain, disturbed>>
    PROVE  CauseInv'
<1> USE DEF CauseInv
<1>1. /\ ops' = {} /\ transport' = "connecting"
      /\ UNCHANGED <<pending, nextRequest, rc, reconnecting, attempts>>
  BY DEF NewConnection, FromMain, mainVars
<1>2. /\ Outbox = Outbox' \cup {Head(toWorker)} /\ Head(toWorker).id \in Nat
      /\ Head(toWorker).type = type
      /\ \A w \in Outbox' : Head(toWorker).id < w.id /\ w.id \in Nat
  BY Handling, Numbers
<1>3. Inbox' = Inbox
  BY DEF Inbox
<1>4. Behind'
  BY <1>1, <1>2, <1>3 DEF Behind
<1>5. InCharge'
  BY <1>1, <1>2 DEF InCharge, Lone
<1>6. LossesKnown'
  <2>1. CASE type = "connect"
    <3>1. toMain = <<>>
      BY <2>1, TakenLater
    <3>2. DOMAIN <<>> = {}
      OBVIOUS
    <3> QED  BY <3>1, <3>2 DEF LossesKnown
  <2>2. CASE type = "reconnect"
    <3>1. Lone => rc.pc = "await" /\ rc.id = Head(toWorker).id
      BY <1>2, <2>2 DEF InCharge
    <3>2. \A i \in DOMAIN toMain : toMain[i] \in Inbox
      BY DEF Inbox
    <3>3. \A i \in DOMAIN toMain : toMain[i].id # Head(toWorker).id
      <4>1. \A m \in Inbox : m.id < Head(toWorker).id /\ m.id \in Int
        BY <1>2, Numbers DEF Behind
      <4> QED  BY <1>2, <3>2, <4>1
    <3> QED  BY <1>1, <3>1, <3>3 DEF LossesKnown, Lone
  <2> QED  BY <2>1, <2>2
<1>7. Created'
  <2>1. \A m \in Inbox : m.type # "ready"
    <3>1. CASE type = "connect"
      <4>1. toMain = <<>>
        BY <3>1, TakenLater
      <4>2. DOMAIN <<>> = {}
        OBVIOUS
      <4> QED  BY <4>1, <4>2 DEF Inbox
    <3>2. CASE type = "reconnect"
      BY <3>2, TakenLater DEF Created
    <3> QED  BY <3>1, <3>2
  <2>2. \A w \in Outbox' : w.type \notin {"init", "connect"}
    <3>1. CASE type = "connect"
      <4>1. Len(toWorker) = 1 /\ toWorker # <<>> /\ toWorker' = Tail(toWorker)
        BY <3>1, TakenLater DEF FromMain
      <4>2. toWorker' \in Seq(Requested) /\ Len(toWorker') = 0
        BY <4>1, HeadTailProperties DEF RequestInv, WorkerTypes
      <4>3. DOMAIN toWorker' = {}
        BY <4>2, LenProperties
      <4> QED  BY <4>3 DEF Outbox
    <3>2. CASE type = "reconnect"
      BY <1>2, <3>2, TakenLater DEF Created
    <3> QED  BY <3>1, <3>2
  <2> QED  BY <1>1, <1>3, <2>1, <2>2 DEF Created
<1> QED  BY <1>1, <1>4, <1>5, <1>6, <1>7

\* A call or a send that the worker hands to the engine.
LEMMA CauseUsed ==
    ASSUME CauseInv, RequestInv', WorkerUse, ~HostGone(Head(toWorker))
    PROVE  CauseInv'
<1> USE DEF CauseInv
<1> DEFINE m == Head(toWorker)
           ack == IF m.type = "send" THEN <<Reply("ack", m.id, m.ch)>> ELSE <<>>
           a == Reply("ack", m.id, m.ch)
           f == Reply("openFailed", wOpen[m.ch], m.ch)
<1>1. PICK type \in {"call", "send"} : FromMain(type)
  BY DEF WorkerUse
<1>2. /\ Outbox = Outbox' \cup {m} /\ m \in Requested /\ m.type = type
      /\ m.id \in Nat \ {0} /\ \A w \in Outbox' : m.id < w.id
      /\ UNCHANGED <<pending, nextRequest, rc, reconnecting, attempts>>
  BY <1>1, Handling DEF FromMain, mainVars
<1>3. m.ch \in Channels
  BY <1>2 DEF Requested, OnChannel
<1>4. /\ UNCHANGED <<engine, transport, disturbed>>
      /\ \/ toMain' = toMain \o (<<Lost>> \o ack) /\ engine = "failed" /\ UNCHANGED ops
         \/ /\ ops' = IF m.type = "call" THEN ops \cup {<<m.ch, m.id>>} ELSE ops
            /\ toMain' = toMain \o ack
         \/ toMain' = toMain \o (<<f>> \o ack) /\ UNCHANGED ops
  BY DEF WorkerUse, Post, historyVars
<1>5. /\ a \in Told /\ a.type = "ack" /\ a.id = m.id
      /\ f \in Told /\ f.type = "openFailed" /\ f.id = wOpen[m.ch]
      /\ Lost \in Told /\ Lost.id = NoId /\ Lost.type = "closed"
  <2>1. Lost.type = "closed"
    BY DEF Lost, Reply
  <2> QED  BY <1>2, <1>3, <2>1, Replies, Numbers DEF ReplyType
<1>6. ack = <<a>> \/ ack = <<>>
  OBVIOUS
<1> HIDE DEF m, a, f, ack
<1>7. ack \in Seq(Told) /\ Range(ack) \subseteq {a}
  <2>1. <<a>> \in Seq(Told) /\ <<>> \in Seq(Told)
    BY <1>5
  <2>2. DOMAIN <<a>> = {1} /\ <<a>>[1] = a /\ DOMAIN <<>> = {}
    OBVIOUS
  <2> QED  BY <1>6, <2>1, <2>2 DEF Range
<1>8. \A x \in Told : <<x>> \o ack \in Seq(Told) /\ Range(<<x>> \o ack) \subseteq {x, a}
  <2>1. SUFFICES ASSUME NEW x \in Told
                 PROVE  <<x>> \o ack \in Seq(Told) /\ Range(<<x>> \o ack) \subseteq {x, a}
    OBVIOUS
  <2> DEFINE u == <<x>>
  <2>2. u \in Seq(Told) /\ Range(u) = {x}
    <3>1. DOMAIN <<x>> = {1} /\ <<x>>[1] = x
      OBVIOUS
    <3> QED  BY <3>1 DEF Range
  <2> HIDE DEF u
  <2>3. u \o ack \in Seq(Told) /\ Range(u \o ack) = Range(u) \cup Range(ack)
    BY <1>7, <2>2, ConcatProperties, RangeConcatenation
  <2> QED  BY <1>7, <2>2, <2>3 DEF u
<1>9. \A w \in Outbox' : NoId < w.id /\ wOpen[m.ch] < w.id
  BY <1>2, <1>3, Numbers DEF NoId, RequestInv, Given
<1>10. PICK s \in Seq(Told) :
         /\ toMain' = toMain \o s
         /\ Range(s) \subseteq {Lost, a, f}
         /\ Lost \in Range(s) => engine = "failed"
  <2>1. Lost # a /\ Lost # f
    BY <1>5
  <2>2. CASE toMain' = toMain \o (<<Lost>> \o ack) /\ engine = "failed"
    BY <1>5, <1>8, <2>2
  <2>3. CASE toMain' = toMain \o ack
    BY <1>7, <2>1, <2>3
  <2>4. CASE toMain' = toMain \o (<<f>> \o ack)
    <3>1. <<f>> \o ack \in Seq(Told) /\ Range(<<f>> \o ack) \subseteq {f, a}
      BY <1>5, <1>8
    <3> QED  BY <2>1, <2>4, <3>1
  <2> QED  BY <1>4, <2>2, <2>3, <2>4
<1>11. /\ \A x \in Range(s) : x.type # "ready" /\ \A w \in Outbox' : x.id < w.id
       /\ Lost \in Range(s) => Down'
  BY <1>2, <1>4, <1>5, <1>9, <1>10 DEF Down
<1>12. \A o \in ops' : o \in ops \/ \A w \in Outbox' : o[2] < w.id
  BY <1>2, <1>4
<1>13. (Down => Down') /\ transport # "none" /\ transport' # "none"
  BY <1>1, <1>4, TakenLater DEF Down
<1>14. toMain' = toMain \o s /\ Outbox' \subseteq Outbox /\ disturbed \subseteq disturbed'
  BY <1>2, <1>4, <1>10
<1> QED  BY <1>2, <1>11, <1>12, <1>13, <1>14, CausePosted

LEMMA CauseWorker == CauseInv /\ RequestInv' /\ WorkerStep => CauseInv'
<1> SUFFICES ASSUME CauseInv, RequestInv', WorkerStep  PROVE CauseInv'
  OBVIOUS
<1>1. ASSUME NEW type, FromMain(type), type \notin {"init", "connect"}
      PROVE  /\ UNCHANGED <<pending, nextRequest, rc, reconnecting, attempts>>
             /\ Outbox' \subseteq Outbox /\ transport # "none"
             /\ Head(toWorker).id \in Nat \ {0}
             /\ \A w \in Outbox' : Head(toWorker).id < w.id /\ Lost.id < w.id
  <2>1. /\ UNCHANGED <<pending, nextRequest, rc, reconnecting, attempts>>
        /\ transport # "none"
    BY <1>1, TakenLater DEF FromMain, mainVars
  <2>2. /\ Outbox' \subseteq Outbox /\ Head(toWorker).id \in Nat \ {0}
        /\ \A w \in Outbox' : Head(toWorker).id < w.id
    BY <1>1, Handling DEF CauseInv
  <2>3. \A w \in Outbox : w.id \in Nat
    BY Numbers DEF CauseInv
  <2> QED  BY <2>1, <2>2, <2>3, Replies
<1>2. Lost \in Told /\ Lost.type # "ready"
  BY Replies DEF Lost, Reply
<1>3. CASE WorkerInit
  BY <1>3, CauseInitialized
<1>4. CASE WorkerConnect
  BY <1>4, CauseReplaced DEF WorkerConnect
<1>5. CASE WorkerReconnect
  <2>1. CASE HostGone(Head(toWorker))
    BY <1>5, <2>1, CauseHostGone DEF WorkerReconnect
  <2>2. CASE ~HostGone(Head(toWorker))
    BY <1>5, <2>2, CauseReplaced DEF WorkerReconnect
  <2> QED  BY <2>1, <2>2
<1>6. CASE WorkerOpen
  <2>1. CASE HostGone(Head(toWorker))
    BY <1>6, <2>1, CauseHostGone DEF WorkerOpen
  <2>2. CASE ~HostGone(Head(toWorker))
    <3>1. FromMain("open")
      BY <1>6 DEF WorkerOpen
    <3>2. /\ \/ toMain' = toMain /\ engine' = engine
             \/ toMain' = toMain \o <<Lost>> /\ engine' = "failed"
          /\ UNCHANGED <<ops, transport, disturbed>>
      BY <1>6, <2>2 DEF WorkerOpen, Post, historyVars
    <3>3. (Down => Down') /\ (toMain' = toMain \/ Down')
      BY <3>2 DEF Down
    <3> QED  BY <1>1, <1>2, <3>1, <3>2, <3>3, CauseOne
  <2> QED  BY <2>1, <2>2
<1>7. CASE WorkerUse
  <2>1. CASE HostGone(Head(toWorker))
    BY <1>7, <2>1, CauseHostGone DEF WorkerUse
  <2>2. CASE ~HostGone(Head(toWorker))
    BY <1>7, <2>2, CauseUsed
  <2> QED  BY <2>1, <2>2
<1>8. CASE WorkerUnsubscribe
  <2>1. CASE HostGone(Head(toWorker))
    BY <1>8, <2>1, CauseHostGone DEF WorkerUnsubscribe
  <2>2. CASE ~HostGone(Head(toWorker))
    <3>1. FromMain("unsubscribe")
      BY <1>8 DEF WorkerUnsubscribe
    <3>2. /\ \/ toMain' = toMain /\ engine' = engine
             \/ toMain' = toMain \o <<Lost>> /\ engine' = "failed"
          /\ ops' \subseteq ops
          /\ UNCHANGED <<transport, disturbed>>
      BY <1>8, <2>2 DEF WorkerUnsubscribe, Post, historyVars
    <3>3. (Down => Down') /\ (toMain' = toMain \/ Down')
      BY <3>2 DEF Down
    <3> QED  BY <1>1, <1>2, <3>1, <3>2, <3>3, CauseOne
  <2> QED  BY <2>1, <2>2
<1>9. CASE WorkerClose
  <2> DEFINE x == Reply("closed", Head(toWorker).id, 0)
  <2>1. /\ FromMain("close") /\ engine' = "failed" /\ transport' = "closed"
        /\ UNCHANGED <<ops, disturbed>>
        /\ \/ toMain' = toMain \o (<<Lost>> \o <<x>>)
           \/ toMain' = toMain \o (<<>> \o <<x>>)
    BY <1>9 DEF WorkerClose, Post, historyVars
  <2>2. /\ UNCHANGED <<pending, nextRequest, rc, reconnecting, attempts>>
        /\ Outbox' \subseteq Outbox /\ transport # "none"
        /\ Head(toWorker).id \in Nat \ {0}
        /\ \A w \in Outbox' : Head(toWorker).id < w.id /\ Lost.id < w.id
    BY <1>1, <2>1
  <2>3. x \in Told /\ x.type = "closed" /\ x.id = Head(toWorker).id
    BY <2>2, Replies DEF ReplyType
  <2> HIDE DEF x
  <2>4. <<x>> \in Seq(Told) /\ <<Lost>> \in Seq(Told) /\ <<>> \in Seq(Told)
    BY <1>2, <2>3
  <2>5. Range(<<x>>) = {x} /\ Range(<<Lost>>) = {Lost} /\ Range(<<>>) = {}
    <3>1. /\ DOMAIN <<x>> = {1} /\ <<x>>[1] = x
          /\ DOMAIN <<Lost>> = {1} /\ <<Lost>>[1] = Lost /\ DOMAIN <<>> = {}
      OBVIOUS
    <3> QED  BY <3>1 DEF Range
  <2>6. \A u, v \in Seq(Told) : u \o v \in Seq(Told) /\ Range(u \o v) = Range(u) \cup Range(v)
    BY ConcatProperties, RangeConcatenation
  <2>7. PICK s \in Seq(Told) : toMain' = toMain \o s /\ Range(s) \subseteq {x, Lost}
    <3>1. CASE toMain' = toMain \o (<<Lost>> \o <<x>>)
      <4>1. /\ <<Lost>> \o <<x>> \in Seq(Told)
            /\ Range(<<Lost>> \o <<x>>) = Range(<<Lost>>) \cup Range(<<x>>)
        BY <2>4, <2>6, Zenon
      <4> QED  BY <2>5, <3>1, <4>1
    <3>2. CASE toMain' = toMain \o (<<>> \o <<x>>)
      <4>1. /\ <<>> \o <<x>> \in Seq(Told)
            /\ Range(<<>> \o <<x>>) = Range(<<>>) \cup Range(<<x>>)
        BY <2>4, <2>6, Zenon
      <4> QED  BY <2>5, <3>2, <4>1
    <3> QED  BY <2>1, <3>1, <3>2
  <2>8. \A y \in Range(s) : y.type # "ready" /\ \A w \in Outbox' : y.id < w.id
    BY <1>2, <2>2, <2>3, <2>7
  <2>9. Down' /\ transport' # "none"
    BY <2>1 DEF Down
  <2>10. toMain' = toMain \o s /\ ops' = ops /\ disturbed' = disturbed
    BY <2>1, <2>7
  <2> QED  BY <2>2, <2>8, <2>9, <2>10, CausePosted
<1> QED  BY <1>3, <1>4, <1>5, <1>6, <1>7, <1>8, <1>9 DEF WorkerStep

\* The events of the transport and the engine.
LEMMA CauseEvent ==
    ASSUME CauseInv, RequestInv', OnWorker,
           \/ Connects \/ SessionReady \/ EngineFails \/ TransportLost \/ TransportFails
           \/ \E c \in Channels, ok \in BOOLEAN : OpenAnswered(c, ok)
           \/ \E o \in ops : CallAnswered(o) \/ CallCancelled(o) \/ PacketDiscarded(o)
    PROVE  CauseInv'
<1> USE DEF CauseInv
<1>1. UNCHANGED <<pending, nextRequest, rc, reconnecting, attempts, toWorker>>
  BY DEF OnWorker, mainVars
<1>2. Outbox' = Outbox /\ \A w \in Outbox : w.id \in Nat \ {0}
  BY <1>1, Numbers DEF Outbox
<1>3. /\ Lost \in Told /\ Lost.type # "ready" /\ NoId = -1 /\ Lost.id = NoId
      /\ \A w \in Outbox' : NoId < w.id /\ 0 < w.id
  BY <1>2, Replies DEF Lost, Reply
<1>4. /\ transport \in {"connecting", "open", "stalled"} /\ transport' # "none"
      /\ disturbed \subseteq disturbed' /\ ops' \subseteq ops
      /\ engine = "failed" => engine' = "failed"
  BY DEF Connects, SessionReady, EngineFails, TransportLost, TransportFails,
         OpenAnswered, CallAnswered, CallCancelled, PacketDiscarded, Answering, CutsReconnect
<1>5. Down => Down'
  BY <1>4 DEF Down
<1>6. ASSUME NEW x \in Told, x.type # "ready", x.type # "closed", toMain' = toMain \o <<x>>,
             \A w \in Outbox' : x.id < w.id
      PROVE  CauseInv'
  <2>1. x # Lost
    BY <1>6 DEF Lost, Reply
  <2> QED  BY <1>1, <1>2, <1>4, <1>5, <1>6, <2>1, CauseOne
<1>7. CASE \/ Connects \/ EngineFails \/ TransportLost \/ TransportFails
           \/ \E o \in ops : PacketDiscarded(o)
  <2>1. \/ toMain' = toMain \o <<>>
        \/ toMain' = toMain \o <<Lost>> /\ (engine' = "failed" \/ transport' = "closed")
    BY <1>7 DEF Connects, EngineFails, TransportLost, TransportFails, PacketDiscarded, Post
  <2>2. toMain' = toMain \o <<>> \/ (toMain' = toMain \o <<Lost>> /\ Down')
    BY <2>1 DEF Down
  <2> QED  BY <1>1, <1>2, <1>3, <1>4, <1>5, <2>2, CauseOne
<1>8. CASE SessionReady
  <2> DEFINE x == Reply("connected", connectId, 0)
  <2>1. toMain' = toMain \o <<x>>
    BY <1>8 DEF SessionReady, Post
  <2>2. x \in Told /\ x.type = "connected" /\ x.id = connectId
    BY Replies, Numbers DEF ReplyType
  <2> HIDE DEF x
  <2>3. \A w \in Outbox' : x.id < w.id
    BY <1>2, <2>2 DEF RequestInv, Given
  <2> QED  BY <1>6, <2>1, <2>2, <2>3
<1>9. ASSUME NEW c \in Channels, NEW ok \in BOOLEAN, OpenAnswered(c, ok)  PROVE CauseInv'
  <2> DEFINE t == IF ok THEN "opened" ELSE "openFailed"
             x == Reply(t, wOpen[c], c)
  <2>1. toMain' = toMain \o <<x>>
    BY <1>9 DEF OpenAnswered, Post
  <2>2. t \in {"opened", "openFailed"}
    OBVIOUS
  <2> HIDE DEF t
  <2>3. x \in Told /\ x.type = t /\ x.id = wOpen[c]
    BY <2>2, Replies, Numbers DEF ReplyType
  <2> HIDE DEF x
  <2>4. \A w \in Outbox' : x.id < w.id
    BY <1>2, <2>3 DEF RequestInv, Given
  <2> QED  BY <1>6, <2>1, <2>2, <2>3, <2>4
<1>10. ASSUME NEW o \in ops, CallAnswered(o)  PROVE CauseInv'
  <2> DEFINE n == IF o[2] \in wCalls THEN o[2] ELSE 0
             x == Reply("response", n, o[1])
  <2>1. toMain' = toMain \o <<x>>
    BY <1>10 DEF CallAnswered, Post
  <2>2. n \in Nat /\ o[1] \in Channels /\ \A w \in Outbox' : n < w.id
    BY <1>2, <1>3, Numbers DEF Behind
  <2> HIDE DEF n
  <2>3. x \in Told /\ x.type = "response" /\ x.id = n
    BY <2>2, Replies DEF ReplyType
  <2> HIDE DEF x
  <2> QED  BY <1>6, <2>1, <2>2, <2>3
<1>11. ASSUME NEW o \in ops, CallCancelled(o)  PROVE CauseInv'
  <2> DEFINE x == Reply("cancelled", NoId, o[1])
  <2>1. toMain' = toMain \o <<x>>
    BY <1>11 DEF CallCancelled, Post
  <2>2. x \in Told /\ x.type = "cancelled" /\ x.id = NoId
    BY Replies, Numbers DEF ReplyType
  <2> HIDE DEF x
  <2> QED  BY <1>3, <1>6, <2>1, <2>2
<1> QED  BY <1>7, <1>8, <1>9, <1>10, <1>11

LEMMA InitCause == Init => CauseInv
<1> SUFFICES ASSUME Init  PROVE CauseInv
  OBVIOUS
<1>1. RequestInv
  BY InitRequests
<1> DEFINE r == Request("init", 1, 0)
<1>2. toWorker = <<r>> /\ toMain = <<>> /\ r.type = "init"
  BY DEF Init, Request
<1>3. Outbox = {r} /\ Inbox = {}
  <2>1. DOMAIN <<r>> = {1} /\ <<r>>[1] = r /\ DOMAIN <<>> = {}
    OBVIOUS
  <2> QED  BY <1>2, <2>1 DEF Outbox, Inbox
<1>4. LossesKnown
  <2>1. DOMAIN <<>> = {}
    OBVIOUS
  <2> QED  BY <1>2, <2>1 DEF LossesKnown
<1>5. InCharge
  BY <1>2, <1>3 DEF Init, NoReconnect, InCharge
<1>6. Behind /\ attempts \in Nat
  BY <1>3 DEF Init, Behind
<1>7. Created
  BY <1>2, <1>3 DEF Init, Created
<1> QED  BY <1>1, <1>4, <1>5, <1>6, <1>7 DEF CauseInv

LEMMA NextCause == CauseInv /\ [Next]_vars => CauseInv'
<1> SUFFICES ASSUME CauseInv, [Next]_vars  PROVE CauseInv'
  OBVIOUS
<1>1. RequestInv'
  BY NextRequests DEF CauseInv
<1>2. CASE MainStep
  BY <1>1, <1>2, CauseMain
<1>3. CASE WorkerStep
  BY <1>1, <1>3, CauseWorker
<1>4. CASE AppStep
  BY <1>1, <1>4, CauseApp
<1>5. CASE \/ Connects \/ SessionReady \/ EngineFails \/ TransportLost \/ TransportFails
           \/ \E c \in Channels, ok \in BOOLEAN : OpenAnswered(c, ok)
           \/ \E o \in ops : CallAnswered(o) \/ CallCancelled(o) \/ PacketDiscarded(o)
  <2>1. OnWorker
    BY <1>5 DEF Connects, SessionReady, EngineFails, TransportLost, TransportFails, OpenAnswered,
                CallAnswered, CallCancelled, PacketDiscarded, Answering
  <2> QED  BY <1>1, <1>5, <2>1, CauseEvent
<1>6. CASE UNCHANGED vars
  <2>1. UNCHANGED <<app, pending, nextRequest, rc, reconnecting, attempts, toWorker, toMain,
                    ops, engine, transport, disturbed>>
    BY <1>6 DEF vars, mainVars, workerVars, engineVars, historyVars
  <2>2. Outbox' = Outbox /\ Inbox' = Inbox
    BY <2>1 DEF Outbox, Inbox
  <2>3. Behind' /\ InCharge' /\ Created'
    BY <2>1, <2>2 DEF CauseInv, Behind, InCharge, Lone, Created
  <2>4. LossesKnown'
    BY <2>1 DEF CauseInv, LossesKnown, Lone, Down
  <2> QED  BY <1>1, <2>1, <2>3, <2>4 DEF CauseInv
<1> QED  BY <1>2, <1>3, <1>4, <1>5, <1>6 DEF Next

\* Only the automatic reconnect counts an attempt, and the loss it reads of is
\* one that the invariant knows.
LEMMA RetryHasCause ==
    CauseInv /\ [Next]_vars =>
        (attempts' > attempts /\ "overlap" \notin disturbed
         => engine = "failed" \/ transport = "closed")
<1> SUFFICES ASSUME CauseInv, [Next]_vars, attempts' > attempts, Lone  PROVE Down
  BY DEF Lone, Down
<1>1. attempts \in Nat
  BY DEF CauseInv
<1>2. ~ UNCHANGED attempts
  BY <1>1
<1>3. ~ WorkerStep /\ ~ AppStep
  BY <1>2 DEF WorkerStep, WorkerInit, WorkerConnect, WorkerReconnect, WorkerOpen, WorkerUse,
       WorkerUnsubscribe, WorkerClose, FromMain, mainVars, AppStep, AppOpen, AppCall, AppSend,
       AppUnsubscribe, AppReconnect, AppClose
<1>4. ~ OnWorker /\ ~ UNCHANGED vars
  BY <1>2 DEF OnWorker, vars, mainVars
<1>5. MainStep
  BY <1>3, <1>4 DEF Next, Connects, SessionReady, EngineFails,
         TransportLost, TransportFails, OpenAnswered,
       CallAnswered, CallCancelled, PacketDiscarded, Answering
<1>6. attempts' # 0
  BY <1>1
<1>7. MainLost /\ MayRetry
  <2>1. \A todo, known, settled : ~ Reopen(todo, known, settled)
    BY <1>2, <1>6 DEF Reopen
  <2>2. ~ Ignore
    BY <1>2 DEF Ignore, mainVars
  <2> QED
    BY <1>2, <1>5, <2>1, <2>2 DEF MainStep, MainReady, MainConnected,
         MainOpened, MainRejected,
         MainResponse, MainCancelled, MainClosed, MainLost
<1>8. toMain # <<>> /\ Head(toMain).type = "closed" /\ Head(toMain).id = NoId
  BY <1>7 DEF MainLost, FromWorker
<1>9. rc.pc = "idle"
  BY <1>7 DEF MayRetry, CauseInv, InCharge
<1>10. 1 \in DOMAIN toMain /\ toMain[1] = Head(toMain)
  BY <1>8, LenProperties, EmptySeq DEF CauseInv, RequestInv, WorkerTypes
<1>11. toMain[1] = Lost
  <2>1. toMain[1] \in Told
    BY <1>10, LenProperties, ElementOfSeq DEF CauseInv, RequestInv, WorkerTypes
  <2> QED  BY <1>8, <1>10, <2>1 DEF Told, Lost, Reply
<1> QED  BY <1>9, <1>10, <1>11 DEF CauseInv, LossesKnown

\* The automatic reconnect never tears down a connection that works, however
\* late and however often one loss is reported (#autoReconnect of client.ts).
THEOREM RetriesHaveCause == Spec => RetriesForCause
<1>1. Init => CauseInv
  BY InitCause
<1>2. CauseInv /\ [Next]_vars => CauseInv'
  BY NextCause
<1>3. CauseInv /\ [Next]_vars =>
        [attempts' > attempts /\ "overlap" \notin disturbed
         => engine = "failed" \/ transport = "closed"]_vars
  BY RetryHasCause
<1> QED  BY <1>1, <1>2, <1>3, PTL DEF Spec, RetriesForCause

-----------------------------------------------------------------------------
(* A reconnect that is left alone restores every channel.                  *)

Quiet == disturbed = {} /\ host # "disposed"

\* A request that opens channel c, and one that uses it.
Opens(w) == w.type = "open"
Uses(w) == w.type \in {"call", "send", "unsubscribe"}

\* The main thread knows the channels of the application's objects: they are
\* tracked, or a reconnect() has them left to reopen; and no others are, but
\* for those the application is opening.
HeldTracked ==
    /\ held \subseteq Channels /\ \A c \in held : c < nextChannel
    /\ tracked \subseteq held \cup {p.ch : p \in {q \in pending : Opens(q)}}
    /\ IF rc.pc = "reopen"
       THEN /\ held \subseteq tracked \cup rc.todo
            /\ rc.todo \cap tracked = {}
            /\ rc.opening \in held /\ rc.todo \subseteq held /\ rc.opening \notin rc.todo
       ELSE held \subseteq tracked

\* An open that is pending: of a new channel, or the one reconnect() waits for.
OpensKnown ==
    /\ rc.id < nextRequest
    /\ \A p \in pending : Opens(p) =>
          /\ p.ch \in tracked
          /\ IF p.id = rc.id THEN rc.pc = "reopen" /\ p.ch = rc.opening ELSE p.ch \notin held
          /\ \A q \in pending : Opens(q) /\ q.ch = p.ch => p = q
    /\ \A f \in inflight : /\ f[2] \in Nat /\ f[2] < nextRequest
                           /\ \A p \in pending : f[2] = p.id => p.type = "call"

\* The worker is asked for nothing behind the request to reconnect, which has
\* the connection replaced or is on its way.
Awaited ==
    /\ rc.pc = "await" =>
          /\ \A w \in Outbox : w.id > rc.id => w.type = "close"
          /\ connectId = rc.id \/ \E w \in Outbox : w.type = "reconnect"
    /\ transport = "none" =>
          /\ chan = NewChannels /\ held = {} /\ tracked = {} /\ rc.pc = "idle"
    /\ host = "none" =>
          /\ transport = "none" /\ \A m \in Inbox : m.type # "ready"
          /\ \A w \in Outbox : w.type # "connect"
    /\ \A m \in Inbox : /\ m.type = "error" => transport = "none"
                        /\ rc.pc = "reopen" /\ m.type = "openFailed" => m.id # rc.id

Current == engine # "failed" /\ \A w \in Outbox : w.type # "reconnect"

Restorable(c) == rc.pc = "reopen" /\ c \in rc.todo \cup {rc.opening}

\* The channels of an engine that has not failed.
ChannelsMatch ==
    Current =>
        /\ rc.pc = "await" => chan = NewChannels
        /\ \A c \in Channels :
              /\ c \in held /\ rc.pc # "await" /\ ~Restorable(c) =>
                    /\ chan[c] = "active"
                    /\ \A w \in Outbox : w.type = "unsubscribe" => w.ch # c
              /\ c \in rc.todo /\ rc.pc = "reopen" => chan[c] = "none"
              /\ c >= nextChannel => chan[c] = "none"
              /\ chan[c] = "opening" => Request("open", wOpen[c], c) \in pending
              /\ chan[c] = "active" =>
                    \/ c \in held
                    \/ \E p \in pending : Opens(p) /\ p.ch = c
                    \/ \E w \in Outbox : w.type = "unsubscribe" /\ w.ch = c

\* What is on its way between the threads.
MessagesMatch ==
    Current =>
        /\ \A w \in Outbox :
              /\ Opens(w) => w \in pending /\ chan[w.ch] = "none"
              /\ Uses(w) =>
                    /\ chan[w.ch] = "active" /\ ~Restorable(w.ch)
                    /\ \A p \in pending : Opens(p) => p.ch # w.ch
                    /\ \A u \in Outbox :
                          u.type = "unsubscribe" /\ u.ch = w.ch => w.id <= u.id
        /\ \A m \in Inbox, p \in pending :
              Opens(p) /\ m.id = p.id =>
                  /\ m.type = "opened" => chan[p.ch] = "active"
                  /\ m.type = "openFailed" => chan[p.ch] = "closed"

QuietState == HeldTracked /\ OpensKnown /\ Awaited /\ ChannelsMatch /\ MessagesMatch

ThreadTypes ==
    /\ host \in {"none", "live", "disposed"}
    /\ host = "disposed" => transport # "none"
    /\ chan \in [Channels -> {"none", "opening", "active", "closed"}]

RestoreInv == CauseInv /\ ThreadTypes /\ (Quiet => QuietState)

\* A reply is read that settles no open.
LEMMA ReadQuietly ==
    ASSUME CauseInv, QuietState, Inbox' \subseteq Inbox, toWorker' = toWorker,
           pending' \subseteq pending, \A p \in pending : Opens(p) => p \in pending',
           inflight' \subseteq inflight,
           UNCHANGED <<nextRequest, nextChannel, tracked, rc, held, workerVars>>
    PROVE  QuietState'
<1>1. /\ Outbox' = Outbox
      /\ UNCHANGED <<host, connectId, wOpen, engine, chan, transport>>
  BY DEF Outbox, workerVars, tableVars, engineVars
<1>2. \A p : p \in pending /\ Opens(p) <=> p \in pending' /\ Opens(p)
  OBVIOUS
<1>3. HeldTracked'
  BY <1>2 DEF QuietState, HeldTracked, Opens
<1>4. OpensKnown'
  BY <1>2 DEF QuietState, OpensKnown, Opens
<1>5. Awaited'
  BY <1>1 DEF QuietState, Awaited
<1>6. \A n, c : Request("open", n, c) \in pending => Request("open", n, c) \in pending'
  BY <1>2 DEF Opens, Request
<1>7. Current' <=> Current
  BY <1>1 DEF Current
<1>8. ChannelsMatch'
  BY <1>1, <1>2, <1>6, <1>7 DEF QuietState, ChannelsMatch, Restorable, Opens
<1>9. MessagesMatch'
  BY <1>1, <1>2, <1>7 DEF QuietState, MessagesMatch, Restorable, Opens, Uses
<1> QED  BY <1>3, <1>4, <1>5, <1>8, <1>9 DEF QuietState

\* A step of the worker leaves the main thread alone.
LEMMA MainIsLeft ==
    ASSUME QuietState,
           UNCHANGED <<pending, nextRequest, nextChannel, tracked, inflight, rc, held>>
    PROVE  HeldTracked' /\ OpensKnown'
  BY DEF QuietState, HeldTracked, OpensKnown, Opens

\* The connection stays the one it is.
LEMMA WorkerGoesOn ==
    ASSUME QuietState, UNCHANGED <<tracked, rc, held, connectId, host>>,
           Outbox' \subseteq Outbox, \A w \in Outbox : w.type = "reconnect" => w \in Outbox',
           transport # "none", transport' # "none",
           \A x \in Inbox' : x \in Inbox \/ x.type \notin {"error", "ready"},
           rc.pc = "reopen" => \A x \in Inbox' : \/ x \in Inbox
                                                \/ x.type # "openFailed" \/ x.id # rc.id
    PROVE  Awaited'
  BY DEF QuietState, Awaited

\* The worker posts replies, and opens and closes nothing.
LEMMA PostQuietly ==
    ASSUME CauseInv, QuietState,
           UNCHANGED <<pending, nextRequest, nextChannel, tracked, inflight, rc, held, connectId,
                       host>>,
           Outbox' \subseteq Outbox, \A w \in Outbox : w.type = "reconnect" => w \in Outbox',
           engine = "failed" => engine' = "failed",
           transport # "none", transport' # "none",
           \A x \in Inbox' : x \in Inbox \/ x.type \notin {"error", "ready"},
           rc.pc = "reopen" => \A x \in Inbox' : \/ x \in Inbox
                                                \/ x.type # "openFailed" \/ x.id # rc.id,
           Current' => /\ UNCHANGED <<chan, wOpen>>
                       /\ \A w \in Outbox : w.type = "unsubscribe" => w \in Outbox'
                       /\ \A x \in Inbox' : x \in Inbox \/ x.type \notin {"opened", "openFailed"}
    PROVE  QuietState'
<1>1. HeldTracked' /\ OpensKnown' /\ Awaited'
  BY MainIsLeft, WorkerGoesOn
<1>2. Current' => Current
  BY DEF Current
<1>3. ChannelsMatch'
  BY <1>2 DEF QuietState, ChannelsMatch, Restorable, Opens
<1>4. MessagesMatch'
  BY <1>2 DEF QuietState, MessagesMatch, Restorable, Opens, Uses
<1> QED  BY <1>1, <1>3, <1>4 DEF QuietState

\* What the worker takes, and what stays.
LEMMA QuietTaken ==
    ASSUME CauseInv, NEW type, FromMain(type), type \notin {"init", "connect"}
    PROVE  /\ UNCHANGED <<pending, nextRequest, nextChannel, tracked, inflight, rc>>
           /\ Outbox' \subseteq Outbox /\ transport # "none"
           /\ Head(toWorker) \in Outbox /\ Head(toWorker).type = type
           /\ \A w \in Outbox : w = Head(toWorker) \/ w \in Outbox'
           /\ \A w \in Outbox' : Head(toWorker).id < w.id
<1>1. UNCHANGED <<pending, nextRequest, nextChannel, tracked, inflight, rc>>
  BY DEF FromMain, mainVars
<1>2. /\ Outbox = Outbox' \cup {Head(toWorker)} /\ Head(toWorker).type = type
      /\ \A w \in Outbox' : Head(toWorker).id < w.id
  BY Handling DEF CauseInv
<1>3. transport # "none"
  BY TakenLater
<1> QED  BY <1>1, <1>2, <1>3

\* Nobody asks for a host that is not there, as long as it was not disposed of.
LEMMA HostIsThere ==
    ASSUME CauseInv, ThreadTypes, QuietState, Quiet, NEW type, FromMain(type),
           type \notin {"init", "connect"}
    PROVE  ~HostGone(Head(toWorker))
<1>1. transport # "none"
  BY QuietTaken
<1> QED  BY <1>1 DEF HostGone, ThreadTypes, Quiet, QuietState, Awaited

\* An open: it is the one that is pending, of a channel that is not open.
LEMMA QuietOpen ==
    ASSUME CauseInv, ThreadTypes, QuietState, Quiet, WorkerOpen
    PROVE  QuietState'
<1> DEFINE m == Head(toWorker)
<1>1. FromMain("open")
  BY DEF WorkerOpen
<1>2. /\ UNCHANGED <<pending, nextRequest, nextChannel, tracked, inflight, rc>>
      /\ Outbox' \subseteq Outbox /\ transport # "none"
      /\ m \in Outbox /\ m.type = "open"
      /\ \A w \in Outbox : w = m \/ w \in Outbox'
      /\ \A w \in Outbox' : m.id < w.id
  BY <1>1, QuietTaken
<1>3. ~HostGone(m)
  BY <1>1, HostIsThere
<1>4. /\ wOpen' = [wOpen EXCEPT ![m.ch] = m.id]
      /\ \/ /\ engine = "ready" /\ chan[m.ch] = "none" /\ engine' = engine /\ toMain' = toMain
            /\ chan' = [chan EXCEPT ![m.ch] = "opening"]
         \/ engine' = "failed" /\ toMain' = toMain \o <<Lost>>
      /\ UNCHANGED <<host, connectId, transport, held>>
  BY <1>3 DEF WorkerOpen, Post, historyVars
<1> HIDE DEF m
<1>5. /\ m \in Requested /\ m.ch \in Channels /\ m = Request("open", m.id, m.ch)
      /\ wOpen \in [Channels -> Nat]
      /\ chan \in [Channels -> {"none", "opening", "active", "closed"}]
  <2>1. m \in Requested
    BY <1>2, Numbers DEF CauseInv
  <2> QED  BY <1>2, <2>1 DEF Requested, OnChannel, Request, CauseInv, RequestInv, WorkerTypes,
           ThreadTypes
<1>6. \A x \in Inbox' : x \in Inbox \/ x.type \notin {"error", "ready", "opened", "openFailed"}
  <2>1. toMain \in Seq(Told)
    BY DEF CauseInv, RequestInv, WorkerTypes
  <2>2. Lost \in Told /\ Lost.type = "closed"
    BY Replies DEF Lost, Reply
  <2>3. Inbox' = Inbox \/ Inbox' = Inbox \cup {Lost}
    BY <1>4, <2>1, <2>2, OneReply, NoReply
  <2> QED  BY <2>2, <2>3
<1>7. CASE ~Current'
  BY <1>2, <1>4, <1>6, <1>7, PostQuietly DEF Current
<1>8. CASE Current'
  <2>1. /\ engine = "ready" /\ chan[m.ch] = "none" /\ toMain' = toMain
        /\ chan' = [chan EXCEPT ![m.ch] = "opening"]
    BY <1>4, <1>8 DEF Current
  <2>2. Current /\ Inbox' = Inbox
    BY <1>2, <1>4, <1>8, <2>1 DEF Current, Inbox
  <2>3. HeldTracked' /\ OpensKnown' /\ Awaited'
    BY <1>2, <1>4, <1>6, MainIsLeft, WorkerGoesOn
  <2>4. m \in pending /\ m.ch < nextChannel
    BY <1>2, <2>2 DEF QuietState, MessagesMatch, Opens, CauseInv, RequestInv, ChannelsGiven
  <2>5. /\ chan'[m.ch] = "opening" /\ wOpen'[m.ch] = m.id
        /\ \A c \in Channels : c # m.ch => chan'[c] = chan[c] /\ wOpen'[c] = wOpen[c]
    BY <1>4, <1>5, <2>1
  <2>6. /\ m.ch \in tracked /\ (m.id = rc.id \/ m.ch \notin held)
        /\ m.id = rc.id => rc.pc = "reopen" /\ m.ch = rc.opening
        /\ \A q \in pending : Opens(q) /\ q.ch = m.ch => q = m
    BY <1>2, <2>4 DEF QuietState, OpensKnown, Opens
  <2>7. rc.pc # "await" /\ (rc.pc = "reopen" => m.ch \notin rc.todo)
    <3>1. rc.pc # "await"
      BY <1>2, <2>4 DEF Quiet, CauseInv, RequestInv, OpensOnce, Opens
    <3> QED  BY <2>6, <3>1 DEF QuietState, HeldTracked
  <2>8. ChannelsMatch'
    <3> SUFFICES ASSUME NEW c \in Channels
                 PROVE  /\ c \in held /\ ~Restorable(c) =>
                              /\ chan'[c] = "active"
                              /\ \A w \in Outbox' : w.type = "unsubscribe" => w.ch # c
                        /\ c \in rc.todo /\ rc.pc = "reopen" => chan'[c] = "none"
                        /\ c >= nextChannel => chan'[c] = "none"
                        /\ chan'[c] = "opening" => Request("open", wOpen'[c], c) \in pending
                        /\ chan'[c] = "active" =>
                              \/ c \in held
                              \/ \E p \in pending : Opens(p) /\ p.ch = c
                              \/ \E w \in Outbox' : w.type = "unsubscribe" /\ w.ch = c
      BY <1>2, <1>4, <2>7 DEF ChannelsMatch, Restorable, Opens
    <3>1. /\ c \in held /\ ~Restorable(c) =>
                /\ chan[c] = "active"
                /\ \A w \in Outbox : w.type = "unsubscribe" => w.ch # c
          /\ c \in rc.todo /\ rc.pc = "reopen" => chan[c] = "none"
          /\ c >= nextChannel => chan[c] = "none"
          /\ chan[c] = "opening" => Request("open", wOpen[c], c) \in pending
          /\ chan[c] = "active" =>
                \/ c \in held
                \/ \E p \in pending : Opens(p) /\ p.ch = c
                \/ \E w \in Outbox : w.type = "unsubscribe" /\ w.ch = c
      BY <2>2, <2>7 DEF QuietState, ChannelsMatch
    <3>2. CASE c = m.ch
      <4>1. ~(c >= nextChannel)
        BY <1>5, <2>4, <3>2, ChannelNumbers DEF CauseInv, RequestInv, MainTypes
      <4>2. c \in held => Restorable(c)
        BY <2>6, <3>2 DEF Restorable
      <4> QED  BY <1>5, <2>4, <2>5, <2>7, <3>2, <4>1, <4>2
    <3>3. CASE c # m.ch
      BY <1>2, <2>5, <3>1, <3>3
    <3> QED  BY <3>2, <3>3
  <2>9. MessagesMatch'
    <3>1. /\ \A w \in Outbox :
                /\ Opens(w) => w \in pending /\ chan[w.ch] = "none"
                /\ Uses(w) =>
                      /\ chan[w.ch] = "active" /\ ~Restorable(w.ch)
                      /\ \A p \in pending : Opens(p) => p.ch # w.ch
                      /\ \A u \in Outbox :
                            u.type = "unsubscribe" /\ u.ch = w.ch => w.id <= u.id
          /\ \A x \in Inbox, p \in pending :
                Opens(p) /\ x.id = p.id =>
                    /\ x.type = "opened" => chan[p.ch] = "active"
                    /\ x.type = "openFailed" => chan[p.ch] = "closed"
      BY <2>2 DEF QuietState, MessagesMatch
    <3>2. \A w \in Outbox' : Opens(w) => w.ch # m.ch /\ w.ch \in Channels
      <4> SUFFICES ASSUME NEW w \in Outbox', Opens(w) PROVE w.ch # m.ch /\ w.ch \in Channels
        OBVIOUS
      <4>1. w \in pending /\ w \in Requested /\ m.id < w.id /\ m.id \in Nat /\ w.id \in Nat
        BY <1>2, <3>1, Numbers DEF CauseInv
      <4>2. w # m
        BY <4>1
      <4> QED  BY <2>6, <4>1, <4>2 DEF Opens, Requested, OnChannel
    <3>3. \A w \in Outbox' : Uses(w) => w.ch # m.ch /\ w.ch \in Channels
      <4> SUFFICES ASSUME NEW w \in Outbox', Uses(w) PROVE w.ch # m.ch /\ w.ch \in Channels
        OBVIOUS
      <4>1. w \in Requested /\ w \in Outbox
        BY <1>2, Numbers DEF CauseInv
      <4> QED  BY <1>2, <2>4, <3>1, <4>1 DEF Opens, Uses, Requested, OnChannel
    <3>4. \A p \in pending : Opens(p) => p.ch \in Channels
      BY Numbers DEF CauseInv, Opens, Requested, OnChannel
    <3>5. /\ \A w \in Outbox' :
                /\ Opens(w) => w \in pending /\ chan'[w.ch] = "none"
                /\ Uses(w) => chan'[w.ch] = "active"
      BY <1>2, <2>5, <3>1, <3>2, <3>3
    <3>6. \A x \in Inbox, p \in pending :
             Opens(p) /\ x.id = p.id =>
                 /\ x.type = "opened" => chan'[p.ch] = "active"
                 /\ x.type = "openFailed" => chan'[p.ch] = "closed"
      <4> SUFFICES ASSUME NEW x \in Inbox, NEW p \in pending, Opens(p), x.id = p.id,
                          x.type \in {"opened", "openFailed"}
                   PROVE  p.ch # m.ch
        BY <2>5, <3>1, <3>4
      <4> QED  BY <2>1, <3>1
    <3> QED  BY <1>2, <2>2, <3>1, <3>5, <3>6 DEF MessagesMatch, Restorable, Uses, Opens
  <2> QED  BY <2>3, <2>8, <2>9 DEF QuietState
<1> QED  BY <1>7, <1>8

\* A use finds its channel open, unless a reconnect is about to replace it.
LEMMA QuietUse ==
    ASSUME CauseInv, ThreadTypes, QuietState, Quiet, WorkerUse
    PROVE  QuietState'
<1> DEFINE m == Head(toWorker)
           a == Reply("ack", m.id, m.ch)
           f == Reply("openFailed", wOpen[m.ch], m.ch)
           ack == IF m.type = "send" THEN <<a>> ELSE <<>>
<1>1. PICK type \in {"call", "send"} : FromMain(type)
  BY DEF WorkerUse
<1>2. /\ UNCHANGED <<pending, nextRequest, nextChannel, tracked, inflight, rc>>
      /\ Outbox' \subseteq Outbox /\ transport # "none"
      /\ m \in Outbox /\ m.type = type
      /\ \A w \in Outbox : w = m \/ w \in Outbox'
  BY <1>1, QuietTaken
<1>3. ~HostGone(m)
  BY <1>1, HostIsThere
<1>4. /\ UNCHANGED <<engine, transport, host, held, connectId, chan>>
      /\ \/ toMain' = toMain \o (<<Lost>> \o ack) /\ engine = "failed" /\ UNCHANGED wOpen
         \/ toMain' = toMain \o ack /\ UNCHANGED wOpen
         \/ /\ toMain' = toMain \o (<<f>> \o ack)
            /\ engine # "failed" /\ chan[m.ch] # "active"
  BY <1>3 DEF WorkerUse, Post, historyVars
<1>5. /\ a \in Told /\ a.type = "ack" /\ f \in Told /\ f.type = "openFailed"
      /\ Lost \in Told /\ Lost.type = "closed"
  <2>1. m \in Requested /\ m.ch \in Channels /\ m.id \in Nat /\ wOpen[m.ch] \in Nat
    <3>1. m \in Requested /\ m.id \in Nat
      BY <1>2, Numbers DEF CauseInv
    <3>2. m.ch \in Channels
      BY <1>2, <3>1 DEF Requested, OnChannel
    <3> QED  BY <3>1, <3>2, Numbers DEF CauseInv
  <2>2. Lost.type = "closed"
    BY DEF Lost, Reply
  <2> QED  BY <2>1, <2>2, Replies DEF ReplyType
<1>6. ack = <<a>> \/ ack = <<>>
  OBVIOUS
<1> HIDE DEF m, a, f, ack
<1>7. toMain \in Seq(Told)
  BY DEF CauseInv, RequestInv, WorkerTypes
<1>8. ASSUME NEW y \in Told, toMain' = toMain \o (<<y>> \o ack)
      PROVE  \A x \in Inbox' : x \in Inbox \/ x = y \/ x = a
  <2>1. CASE ack = <<a>>
    <3>1. toMain' = toMain \o (<<y>> \o <<a>>)
      BY <1>8, <2>1, Zenon
    <3>2. Inbox' = Inbox \cup {y, a}
      BY <1>5, <1>7, <3>1, TwoReplies
    <3> QED  BY <3>2
  <2>2. CASE ack = <<>>
    <3>1. <<y>> \o <<>> = <<y>>
      OBVIOUS
    <3> QED  BY <1>7, <1>8, <2>2, <3>1, OneReply
  <2> QED  BY <1>6, <2>1, <2>2
<1>9. ASSUME toMain' = toMain \o ack
      PROVE  \A x \in Inbox' : x \in Inbox \/ x = a
  BY <1>5, <1>6, <1>7, <1>9, OneReply, NoReply
<1>10. CASE toMain' = toMain \o (<<f>> \o ack) /\ engine # "failed" /\ chan[m.ch] # "active"
  <2>1. ~Current
    BY <1>2, <1>10 DEF QuietState, MessagesMatch, Uses
  <2>2. ~Current'
    BY <1>2, <1>4, <1>10, <2>1 DEF Current
  <2>3. \A x \in Inbox' : x \in Inbox \/ x.type \notin {"error", "ready"}
    BY <1>5, <1>8, <1>10
  <2>4. rc.pc = "await"
    BY <1>10, <2>1 DEF Current, Quiet, CauseInv, InCharge, Lone
  <2> QED  BY <1>2, <1>4, <2>2, <2>3, <2>4, PostQuietly
<1>11. CASE ~(toMain' = toMain \o (<<f>> \o ack) /\ engine # "failed" /\ chan[m.ch] # "active")
  <2>1. /\ UNCHANGED wOpen
        /\ \A x \in Inbox' : x \in Inbox \/ x.type \notin {"error", "ready", "opened", "openFailed"}
    BY <1>4, <1>5, <1>8, <1>9, <1>11
  <2> QED  BY <1>2, <1>4, <2>1, PostQuietly
<1> QED  BY <1>10, <1>11

\* A channel that is closed had no open pending, and nothing behind its close.
LEMMA QuietUnsubscribe ==
    ASSUME CauseInv, ThreadTypes, QuietState, Quiet, WorkerUnsubscribe
    PROVE  QuietState'
<1> DEFINE m == Head(toWorker)
<1>1. FromMain("unsubscribe")
  BY DEF WorkerUnsubscribe
<1>2. /\ UNCHANGED <<pending, nextRequest, nextChannel, tracked, inflight, rc>>
      /\ Outbox' \subseteq Outbox /\ transport # "none"
      /\ m \in Outbox /\ m.type = "unsubscribe"
      /\ \A w \in Outbox : w = m \/ w \in Outbox'
      /\ \A w \in Outbox' : m.id < w.id
  BY <1>1, QuietTaken
<1>3. ~HostGone(m)
  BY <1>1, HostIsThere
<1>4. /\ \/ /\ engine = "ready" /\ chan[m.ch] = "active" /\ engine' = engine /\ toMain' = toMain
            /\ chan' = [chan EXCEPT ![m.ch] = "closed"]
         \/ engine' = "failed" /\ toMain' = toMain \o <<Lost>>
      /\ UNCHANGED <<host, connectId, wOpen, transport, held>>
  BY <1>3 DEF WorkerUnsubscribe, Post, historyVars, tableVars
<1> HIDE DEF m
<1>5. m.ch \in Channels /\ chan \in [Channels -> {"none", "opening", "active", "closed"}]
  <2>1. m \in Requested
    BY <1>2, Numbers DEF CauseInv
  <2> QED  BY <1>2, <2>1 DEF Requested, OnChannel, ThreadTypes
<1>6. \A x \in Inbox' : x \in Inbox \/ x.type \notin {"error", "ready", "opened", "openFailed"}
  <2>1. toMain \in Seq(Told)
    BY DEF CauseInv, RequestInv, WorkerTypes
  <2>2. Lost \in Told /\ Lost.type = "closed"
    BY Replies DEF Lost, Reply
  <2>3. Inbox' = Inbox \/ Inbox' = Inbox \cup {Lost}
    BY <1>4, <2>1, <2>2, OneReply, NoReply
  <2> QED  BY <2>2, <2>3
<1>7. CASE ~Current'
  BY <1>2, <1>4, <1>6, <1>7, PostQuietly DEF Current
<1>8. CASE Current'
  <2>1. /\ engine = "ready" /\ toMain' = toMain /\ chan' = [chan EXCEPT ![m.ch] = "closed"]
    BY <1>4, <1>8 DEF Current
  <2>2. Current /\ Inbox' = Inbox
    BY <1>2, <1>4, <1>8, <2>1 DEF Current, Inbox
  <2>3. HeldTracked' /\ OpensKnown' /\ Awaited'
    BY <1>2, <1>4, <1>6, MainIsLeft, WorkerGoesOn
  <2>4. /\ \A w \in Outbox :
              /\ Opens(w) => w \in pending /\ chan[w.ch] = "none"
              /\ Uses(w) =>
                    /\ chan[w.ch] = "active" /\ ~Restorable(w.ch)
                    /\ \A p \in pending : Opens(p) => p.ch # w.ch
                    /\ \A u \in Outbox :
                          u.type = "unsubscribe" /\ u.ch = w.ch => w.id <= u.id
        /\ \A x \in Inbox, p \in pending :
              Opens(p) /\ x.id = p.id =>
                  /\ x.type = "opened" => chan[p.ch] = "active"
                  /\ x.type = "openFailed" => chan[p.ch] = "closed"
    BY <2>2 DEF QuietState, MessagesMatch
  <2>5. /\ chan[m.ch] = "active" /\ ~Restorable(m.ch)
        /\ \A p \in pending : Opens(p) => p.ch # m.ch
    BY <1>2, <2>4 DEF Uses
  <2>6. /\ chan'[m.ch] = "closed"
        /\ \A c \in Channels : c # m.ch => chan'[c] = chan[c]
    BY <1>5, <2>1
  <2>7. rc.pc # "await"
    <3>1. NewChannels[m.ch] = "none"
      BY <1>5 DEF NewChannels
    <3> QED  BY <2>2, <2>5, <3>1 DEF QuietState, ChannelsMatch
  <2>8. ChannelsMatch'
    <3> SUFFICES ASSUME NEW c \in Channels
                 PROVE  /\ c \in held /\ ~Restorable(c) =>
                              /\ chan'[c] = "active"
                              /\ \A w \in Outbox' : w.type = "unsubscribe" => w.ch # c
                        /\ c \in rc.todo /\ rc.pc = "reopen" => chan'[c] = "none"
                        /\ c >= nextChannel => chan'[c] = "none"
                        /\ chan'[c] = "opening" => Request("open", wOpen[c], c) \in pending
                        /\ chan'[c] = "active" =>
                              \/ c \in held
                              \/ \E p \in pending : Opens(p) /\ p.ch = c
                              \/ \E w \in Outbox' : w.type = "unsubscribe" /\ w.ch = c
      BY <1>2, <1>4, <2>7 DEF ChannelsMatch, Restorable, Opens
    <3>1. /\ c \in held /\ ~Restorable(c) =>
                /\ chan[c] = "active"
                /\ \A w \in Outbox : w.type = "unsubscribe" => w.ch # c
          /\ c \in rc.todo /\ rc.pc = "reopen" => chan[c] = "none"
          /\ c >= nextChannel => chan[c] = "none"
          /\ chan[c] = "opening" => Request("open", wOpen[c], c) \in pending
          /\ chan[c] = "active" =>
                \/ c \in held
                \/ \E p \in pending : Opens(p) /\ p.ch = c
                \/ \E w \in Outbox : w.type = "unsubscribe" /\ w.ch = c
      BY <2>2, <2>7 DEF QuietState, ChannelsMatch
    <3>2. CASE c = m.ch
      BY <1>2, <2>5, <2>6, <3>1, <3>2
    <3>3. CASE c # m.ch
      BY <1>2, <2>6, <3>1, <3>3
    <3> QED  BY <3>2, <3>3
  <2>9. MessagesMatch'
    <3>1. \A w \in Outbox' : Opens(w) => w.ch # m.ch /\ w.ch \in Channels
      BY <1>2, <2>4, <2>5, Numbers DEF Opens, CauseInv, Requested, OnChannel
    <3>2. \A w \in Outbox' : Uses(w) => w.ch # m.ch /\ w.ch \in Channels
      <4> SUFFICES ASSUME NEW w \in Outbox', Uses(w) PROVE w.ch # m.ch /\ w.ch \in Channels
        OBVIOUS
      <4>1. w \in Requested /\ w \in Outbox /\ w.id \in Nat /\ m.id \in Nat /\ m.id < w.id
        BY <1>2, Numbers DEF CauseInv
      <4>2. ~(w.id <= m.id)
        BY <4>1
      <4> QED  BY <1>2, <2>4, <4>1, <4>2 DEF Uses, Requested, OnChannel
    <3>3. \A p \in pending : Opens(p) => p.ch \in Channels
      BY Numbers DEF CauseInv, Opens, Requested, OnChannel
    <3>4. /\ \A w \in Outbox' :
                /\ Opens(w) => w \in pending /\ chan'[w.ch] = "none"
                /\ Uses(w) => chan'[w.ch] = "active"
          /\ \A x \in Inbox, p \in pending :
                Opens(p) /\ x.id = p.id =>
                    /\ x.type = "opened" => chan'[p.ch] = "active"
                    /\ x.type = "openFailed" => chan'[p.ch] = "closed"
      BY <1>2, <2>4, <2>5, <2>6, <3>1, <3>2, <3>3
    <3> QED  BY <1>2, <2>2, <2>4, <3>4 DEF MessagesMatch, Restorable, Uses, Opens
  <2> QED  BY <2>3, <2>8, <2>9 DEF QuietState
<1> QED  BY <1>7, <1>8

\* The connection is replaced: the engine has no channels, and no request about
\* one is on its way.
LEMMA QuietReconnect ==
    ASSUME CauseInv, ThreadTypes, QuietState, Quiet, WorkerReconnect
    PROVE  QuietState'
<1> DEFINE m == Head(toWorker)
<1>1. FromMain("reconnect")
  BY DEF WorkerReconnect
<1>2. /\ UNCHANGED <<pending, nextRequest, nextChannel, tracked, inflight, rc>>
      /\ Outbox' \subseteq Outbox /\ transport # "none"
      /\ m \in Outbox /\ m.type = "reconnect"
      /\ \A w \in Outbox' : m.id < w.id
  BY <1>1, QuietTaken
<1>3. ~HostGone(m)
  BY <1>1, HostIsThere
<1>4. /\ connectId' = m.id /\ chan' = NewChannels /\ transport' = "connecting"
      /\ UNCHANGED <<host, toMain, held>>
  BY <1>3 DEF WorkerReconnect, NewConnection
<1> HIDE DEF m
<1>5. rc.pc = "await" /\ rc.id = m.id
  BY <1>2 DEF Quiet, CauseInv, InCharge, Lone
<1>6. Inbox' = Inbox /\ \A w \in Outbox \cup Outbox' : w.id \in Nat
  BY <1>2, <1>4, Numbers DEF Inbox, CauseInv
<1>7. \A w \in Outbox' : w.type = "close"
  BY <1>2, <1>5, <1>6 DEF QuietState, Awaited
<1>8. HeldTracked' /\ OpensKnown'
  BY <1>2, <1>4, MainIsLeft
<1>9. Awaited'
  BY <1>2, <1>4, <1>5, <1>6, <1>7 DEF QuietState, Awaited
<1>10. \A c \in Channels : chan'[c] = "none"
  BY <1>4 DEF NewChannels
<1>11. ChannelsMatch'
  BY <1>2, <1>4, <1>5, <1>10 DEF ChannelsMatch, Restorable
<1>12. \A p \in pending : ~Opens(p)
  BY <1>5 DEF Quiet, CauseInv, RequestInv, OpensOnce, Opens
<1>13. MessagesMatch'
  BY <1>2, <1>7, <1>12 DEF MessagesMatch, Opens, Uses
<1> QED  BY <1>8, <1>9, <1>11, <1>13 DEF QuietState

\* The first connection: nothing is open, nor was anything asked for.
LEMMA QuietConnect ==
    ASSUME CauseInv, ThreadTypes, QuietState, Quiet, WorkerConnect
    PROVE  QuietState'
<1>1. FromMain("connect")
  BY DEF WorkerConnect
<1>2. transport = "none" /\ Len(toWorker) = 1 /\ toMain = <<>>
  BY <1>1, TakenLater
<1>3. UNCHANGED <<pending, nextRequest, nextChannel, tracked, inflight, rc>>
  BY <1>1 DEF FromMain, mainVars
<1>4. /\ chan' = NewChannels /\ transport' = "connecting"
      /\ UNCHANGED <<host, toMain, held>>
  BY DEF WorkerConnect, NewConnection
<1>5. /\ Outbox = Outbox' \cup {Head(toWorker)} /\ Head(toWorker).type = "connect"
      /\ \A w \in Outbox' : Head(toWorker).id < w.id
  BY <1>1, Handling DEF CauseInv
<1>6. Outbox' = {}
  <2>1. \A w \in Outbox : w = Head(toWorker)
    <3>1. toWorker \in Seq(Requested)
      BY DEF CauseInv, RequestInv, WorkerTypes
    <3>2. DOMAIN toWorker = {1} /\ toWorker # <<>>
      BY <1>2, <3>1, LenProperties
    <3>3. Head(toWorker) = toWorker[1]
      BY <3>1, <3>2
    <3> QED  BY <3>2, <3>3 DEF Outbox
  <2>2. \A w \in Outbox : w.id \in Nat
    BY Numbers DEF CauseInv
  <2>3. \A w \in Outbox' : w = Head(toWorker) /\ w.id \in Nat /\ Head(toWorker).id < w.id
    BY <1>5, <2>1, <2>2
  <2>4. \A w \in Outbox' : FALSE
    BY <2>3
  <2> QED  BY <2>4
<1>7. /\ held = {} /\ tracked = {} /\ rc.pc = "idle" /\ host # "none"
  BY <1>2, <1>5 DEF QuietState, Awaited
<1>8. Inbox' = Inbox /\ \A m \in Inbox : FALSE
  <2>1. DOMAIN <<>> = {}
    OBVIOUS
  <2> QED  BY <1>2, <1>4, <2>1 DEF Inbox
<1>9. HeldTracked' /\ OpensKnown'
  BY <1>3, <1>4, MainIsLeft
<1>10. Awaited'
  BY <1>3, <1>4, <1>6, <1>7, <1>8 DEF QuietState, Awaited
<1>11. \A c \in Channels : chan'[c] = "none"
  BY <1>4 DEF NewChannels
<1>12. ChannelsMatch'
  BY <1>3, <1>4, <1>7, <1>11 DEF ChannelsMatch
<1>13. MessagesMatch'
  BY <1>6, <1>8 DEF MessagesMatch
<1> QED  BY <1>9, <1>10, <1>12, <1>13 DEF QuietState

\* init: the worker has its host, or fails at once.
LEMMA QuietInitialized ==
    ASSUME CauseInv, ThreadTypes, QuietState, Quiet, WorkerInit
    PROVE  QuietState'
<1>1. FromMain("init")
  BY DEF WorkerInit
<1>2. /\ transport = "none" /\ toMain = <<>>
      /\ Outbox = {Request("init", 1, 0)}
  BY <1>1, TakenLater
<1>3. UNCHANGED <<pending, nextRequest, nextChannel, tracked, inflight, rc>>
  BY <1>1 DEF FromMain, mainVars
<1>4. /\ UNCHANGED <<connectId, wOpen, engine, chan, transport, held>>
      /\ \/ host' = "live" /\ toMain' = toMain \o <<Reply("ready", NoId, 0)>>
         \/ host' = host /\ toMain' = toMain \o <<Reply("error", Head(toWorker).id, 0)>>
  BY DEF WorkerInit, Post, tableVars, engineVars, historyVars
<1>5. /\ Outbox = Outbox' \cup {Head(toWorker)} /\ Head(toWorker).id \in Nat
  BY <1>1, Handling DEF CauseInv
<1>6. \A w \in Outbox' : w.type = "init"
  BY <1>2, <1>5 DEF Request
<1>7. \/ host' = "live" /\ \A m \in Inbox' : m.type = "ready"
      \/ host' = host /\ \A m \in Inbox' : m.type = "error"
  <2> DEFINE x == Reply("ready", NoId, 0)
             y == Reply("error", Head(toWorker).id, 0)
  <2>1. x \in Told /\ x.type = "ready" /\ y \in Told /\ y.type = "error"
    BY <1>5, Replies DEF ReplyType
  <2>2. toMain \in Seq(Told) /\ Inbox = {}
    <3>1. DOMAIN <<>> = {}
      OBVIOUS
    <3> QED  BY <1>2, <3>1 DEF Inbox, CauseInv, RequestInv, WorkerTypes
  <2>3. \/ host' = "live" /\ toMain' = toMain \o <<x>>
        \/ host' = host /\ toMain' = toMain \o <<y>>
    BY <1>4
  <2> HIDE DEF x, y
  <2> QED  BY <2>1, <2>2, <2>3, OneReply
<1>8. HeldTracked' /\ OpensKnown'
  BY <1>3, <1>4, MainIsLeft
<1>9. rc.pc = "idle"
  BY <1>2 DEF QuietState, Awaited
<1>10. Awaited'
  BY <1>2, <1>3, <1>4, <1>6, <1>7, <1>9 DEF QuietState, Awaited
<1>11. Current' => Current
  BY <1>2, <1>4 DEF Current, Request
<1>12. ChannelsMatch'
  BY <1>2, <1>3, <1>4, <1>9, <1>11 DEF QuietState, ChannelsMatch, Restorable, Opens, Awaited,
     NewChannels
<1>13. MessagesMatch'
  BY <1>6, <1>7 DEF MessagesMatch, Opens, Uses
<1> QED  BY <1>8, <1>10, <1>12, <1>13 DEF QuietState

\* The worker's messages.
LEMMA QuietWorker ==
    ASSUME CauseInv, ThreadTypes, QuietState, Quiet, Quiet', WorkerStep
    PROVE  QuietState'
<1>1. ~WorkerClose
  BY DEF WorkerClose, Quiet
<1> QED  BY <1>1, QuietInitialized, QuietConnect, QuietReconnect, QuietOpen, QuietUse,
            QuietUnsubscribe DEF WorkerStep

\* An open is answered: a refusal of a channel the application holds is what
\* disturbs the reconnect.
LEMMA QuietAnswer ==
    ASSUME CauseInv, ThreadTypes, QuietState, Quiet, Quiet', NEW c \in Channels,
           NEW ok \in BOOLEAN, OpenAnswered(c, ok)
    PROVE  QuietState'
<1> DEFINE t == IF ok THEN "opened" ELSE "openFailed"
           n == wOpen[c]
           x == Reply(t, n, c)
           s == IF ok THEN "active" ELSE "closed"
           p == Request("open", n, c)
<1>1. /\ UNCHANGED <<pending, nextRequest, nextChannel, tracked, inflight, rc, toWorker, host, held,
                     connectId, engine, transport>>
      /\ transport = "open" /\ chan[c] = "opening"
      /\ chan' = [chan EXCEPT ![c] = s]
      /\ toMain' = toMain \o <<x>>
      /\ ok \/ c \notin held
  BY DEF OpenAnswered, Answering, OnWorker, mainVars, Post, Quiet
<1>2. Outbox' = Outbox
  BY <1>1 DEF Outbox
<1>3. t \in {"opened", "openFailed"} /\ n \in Nat
  BY Numbers DEF CauseInv
<1>4. x \in Told /\ x.type = t /\ x.id = n
  BY <1>3, Replies DEF ReplyType
<1>5. p.type = "open" /\ p.id = n /\ p.ch = c
  BY DEF Request
<1>6. Inbox' = Inbox \cup {x}
  BY <1>1, <1>4, OneReply DEF CauseInv, RequestInv, WorkerTypes
<1>7. \A y \in Inbox' : y \in Inbox \/ y.type \notin {"error", "ready"}
  BY <1>3, <1>4, <1>6
<1>8. CASE ~Current'
  <2>1. rc.pc = "await"
    BY <1>1, <1>2, <1>8 DEF Current, Quiet, CauseInv, InCharge, Lone, OpenAnswered, Answering
  <2> QED  BY <1>1, <1>2, <1>7, <1>8, <2>1, PostQuietly
<1>9. CASE Current'
  <2>1. Current
    BY <1>1, <1>2, <1>9 DEF Current
  <2>2. p \in pending
    BY <1>1, <2>1 DEF QuietState, ChannelsMatch
  <2> HIDE DEF p
  <2>3. /\ p.ch \in tracked
        /\ IF p.id = rc.id THEN rc.pc = "reopen" /\ p.ch = rc.opening ELSE p.ch \notin held
        /\ \A q \in pending : Opens(q) /\ q.ch = c => q = p
    BY <1>5, <2>2 DEF QuietState, OpensKnown, Opens
  <2>4. ok \/ p.id # rc.id
    BY <1>1, <1>5, <2>3 DEF QuietState, HeldTracked
  <2>5. rc.pc # "await" /\ c < nextChannel
    BY <1>5, <2>2 DEF Quiet, CauseInv, RequestInv, OpensOnce, ChannelsGiven
  <2>6. /\ chan'[c] = s /\ \A d \in Channels : d # c => chan'[d] = chan[d]
        /\ s \in {"active", "closed"} /\ (ok => s = "active") /\ (~ok => s = "closed")
    BY <1>1 DEF ThreadTypes
  <2>7. wOpen' = [wOpen EXCEPT ![c] = 0] /\ wOpen \in [Channels -> Nat]
    BY DEF OpenAnswered, CauseInv, RequestInv, WorkerTypes
  <2> HIDE DEF s
  <2>8. ChannelsMatch'
    <3> SUFFICES ASSUME NEW d \in Channels
                 PROVE  /\ d \in held /\ ~Restorable(d) =>
                              /\ chan'[d] = "active"
                              /\ \A w \in Outbox : w.type = "unsubscribe" => w.ch # d
                        /\ d \in rc.todo /\ rc.pc = "reopen" => chan'[d] = "none"
                        /\ d >= nextChannel => chan'[d] = "none"
                        /\ chan'[d] = "opening" => Request("open", wOpen'[d], d) \in pending
                        /\ chan'[d] = "active" =>
                              \/ d \in held
                              \/ \E q \in pending : Opens(q) /\ q.ch = d
                              \/ \E w \in Outbox : w.type = "unsubscribe" /\ w.ch = d
      BY <1>1, <1>2, <2>5 DEF ChannelsMatch, Restorable, Opens
    <3>1. /\ d \in held /\ ~Restorable(d) =>
                /\ chan[d] = "active"
                /\ \A w \in Outbox : w.type = "unsubscribe" => w.ch # d
          /\ d \in rc.todo /\ rc.pc = "reopen" => chan[d] = "none"
          /\ d >= nextChannel => chan[d] = "none"
          /\ chan[d] = "opening" => Request("open", wOpen[d], d) \in pending
          /\ chan[d] = "active" =>
                \/ d \in held
                \/ \E q \in pending : Opens(q) /\ q.ch = d
                \/ \E w \in Outbox : w.type = "unsubscribe" /\ w.ch = d
      BY <2>1, <2>5 DEF QuietState, ChannelsMatch
    <3>2. CASE d = c
      <4>1. d \in held => Restorable(d)
        BY <1>5, <2>3, <3>2 DEF Restorable
      <4>2. /\ \E q \in pending : Opens(q) /\ q.ch = d
            /\ chan'[d] # "opening"
        BY <1>5, <2>2, <2>6, <3>2 DEF Opens
      <4>3. ~(d >= nextChannel) /\ ~(d \in rc.todo /\ rc.pc = "reopen")
        BY <1>1, <3>1, <3>2
      <4> QED  BY <4>1, <4>2, <4>3
    <3>3. CASE d # c
      BY <2>6, <2>7, <3>1, <3>3
    <3> QED  BY <3>2, <3>3
  <2>9. MessagesMatch'
    <3>1. /\ \A w \in Outbox :
                /\ Opens(w) => w \in pending /\ chan[w.ch] = "none"
                /\ Uses(w) =>
                      /\ chan[w.ch] = "active" /\ ~Restorable(w.ch)
                      /\ \A q \in pending : Opens(q) => q.ch # w.ch
                      /\ \A u \in Outbox :
                            u.type = "unsubscribe" /\ u.ch = w.ch => w.id <= u.id
          /\ \A y \in Inbox, q \in pending :
                Opens(q) /\ y.id = q.id =>
                    /\ y.type = "opened" => chan[q.ch] = "active"
                    /\ y.type = "openFailed" => chan[q.ch] = "closed"
      BY <2>1 DEF QuietState, MessagesMatch
    <3>2. /\ \A w \in Outbox : Opens(w) \/ Uses(w) => w.ch \in Channels
          /\ \A q \in pending : Opens(q) => q.ch \in Channels
      BY Numbers DEF CauseInv, Opens, Uses, Requested, OnChannel
    <3>3. \A w \in Outbox : /\ Opens(w) => chan'[w.ch] = "none"
                            /\ Uses(w) => chan'[w.ch] = "active"
      BY <1>1, <2>6, <3>1, <3>2
    <3>4. ASSUME NEW y \in Inbox', NEW q \in pending, Opens(q), y.id = q.id
          PROVE  /\ y.type = "opened" => chan'[q.ch] = "active"
                 /\ y.type = "openFailed" => chan'[q.ch] = "closed"
      <4>1. CASE y \in Inbox
        BY <1>1, <2>6, <3>1, <3>2, <3>4, <4>1
      <4>2. CASE y = x
        <5>1. q = p
          <6>1. q.id = p.id
            BY <1>4, <1>5, <3>4, <4>2
          <6> QED  BY <2>2, <6>1 DEF CauseInv, RequestInv, Means
        <5> QED  BY <1>4, <1>5, <2>4, <2>6, <4>2, <5>1
      <4> QED  BY <1>6, <4>1, <4>2
    <3> QED  BY <1>1, <1>2, <3>1, <3>3, <3>4 DEF MessagesMatch, Restorable, Uses, Opens
  <2>10. HeldTracked' /\ OpensKnown' /\ Awaited'
    <3>1. \A y \in Inbox' : y \in Inbox \/ y.type # "openFailed" \/ y.id # rc.id
      BY <1>4, <1>5, <1>6, <2>4
    <3> QED  BY <1>1, <1>2, <1>7, <3>1, MainIsLeft, WorkerGoesOn
  <2> QED  BY <2>8, <2>9, <2>10 DEF QuietState
<1> QED  BY <1>8, <1>9

\* The events of the transport and the engine.
LEMMA QuietEvent ==
    ASSUME CauseInv, ThreadTypes, QuietState, Quiet, Quiet', OnWorker,
           \/ Connects \/ SessionReady \/ EngineFails \/ TransportLost \/ TransportFails
           \/ \E c \in Channels, ok \in BOOLEAN : OpenAnswered(c, ok)
           \/ \E o \in ops : CallAnswered(o) \/ CallCancelled(o) \/ PacketDiscarded(o)
    PROVE  QuietState'
<1>1. /\ UNCHANGED <<pending, nextRequest, nextChannel, tracked, inflight, rc, toWorker, host,
                     held>>
  BY DEF OnWorker, mainVars
<1>2. Outbox' = Outbox
  BY <1>1 DEF Outbox
<1>3. toMain \in Seq(Told)
  BY DEF CauseInv, RequestInv, WorkerTypes
<1>4. ASSUME NEW c \in Channels, NEW ok \in BOOLEAN, OpenAnswered(c, ok)  PROVE QuietState'
  BY <1>4, QuietAnswer
<1>5. ASSUME \/ Connects \/ SessionReady \/ EngineFails \/ TransportLost \/ TransportFails
             \/ \E o \in ops : CallAnswered(o) \/ CallCancelled(o) \/ PacketDiscarded(o)
      PROVE  QuietState'
  <2>1. /\ UNCHANGED <<connectId, wOpen, chan>>
        /\ transport # "none" /\ transport' # "none"
        /\ engine = "failed" => engine' = "failed"
    BY <1>5 DEF Connects, SessionReady, EngineFails,
        TransportLost, TransportFails, CallAnswered, CallCancelled,
       PacketDiscarded, Answering, tableVars
  <2>2. \A o \in ops : o[1] \in Channels /\ o[2] \in Nat
    BY Numbers DEF CauseInv
  <2>3. \/ toMain' = toMain \o <<>>
        \/ \E x \in Told : /\ toMain' = toMain \o <<x>>
                           /\ x.type \in {"closed", "connected", "response", "cancelled"}
    <3>1. /\ Lost \in Told /\ Lost.type = "closed" /\ NoId \in Int
          /\ \A k \in {"connected", "response", "cancelled"}, i \in Int, d \in Channels \cup {0} :
                Reply(k, i, d) \in Told /\ Reply(k, i, d).type = k
      <4>1. Lost.type = "closed" /\ NoId \in Int
        BY DEF Lost, Reply, NoId
      <4> QED  BY <4>1, Replies DEF ReplyType
    <3>2. connectId \in Int
      BY Numbers DEF CauseInv
    <3>3. CASE \/ Connects \/ EngineFails \/ TransportLost \/ TransportFails
               \/ \E o \in ops : PacketDiscarded(o)
      <4>1. toMain' = toMain \o <<>> \/ toMain' = toMain \o <<Lost>>
        BY <3>3 DEF Connects, EngineFails, TransportLost, TransportFails, PacketDiscarded, Post
      <4> QED  BY <3>1, <4>1
    <3>4. CASE SessionReady
      <4>1. toMain' = toMain \o <<Reply("connected", connectId, 0)>>
        BY <3>4 DEF SessionReady, Post
      <4> QED  BY <3>1, <3>2, <4>1
    <3>5. ASSUME NEW o \in ops, CallAnswered(o)
          PROVE  \E x \in Told : /\ toMain' = toMain \o <<x>>
                                 /\ x.type \in {"closed", "connected", "response", "cancelled"}
      <4> DEFINE i == IF o[2] \in wCalls THEN o[2] ELSE 0
      <4>1. toMain' = toMain \o <<Reply("response", i, o[1])>> /\ i \in Int /\ o[1] \in Channels
        BY <2>2, <3>5 DEF CallAnswered, Post
      <4> HIDE DEF i
      <4> QED  BY <3>1, <4>1
    <3>6. ASSUME NEW o \in ops, CallCancelled(o)
          PROVE  \E x \in Told : /\ toMain' = toMain \o <<x>>
                                 /\ x.type \in {"closed", "connected", "response", "cancelled"}
      <4>1. toMain' = toMain \o <<Reply("cancelled", NoId, o[1])>> /\ o[1] \in Channels
        BY <2>2, <3>6 DEF CallCancelled, Post
      <4> QED  BY <3>1, <4>1
    <3> QED  BY <1>5, <3>3, <3>4, <3>5, <3>6
  <2>4. \A y \in Inbox' : \/ y \in Inbox
                          \/ y.type \in {"closed", "connected", "response", "cancelled"}
    <3>1. CASE toMain' = toMain \o <<>>
      BY <1>3, <3>1, NoReply
    <3>2. ASSUME NEW x \in Told, toMain' = toMain \o <<x>>,
                 x.type \in {"closed", "connected", "response", "cancelled"}
          PROVE  \A y \in Inbox' : \/ y \in Inbox
                                   \/ y.type \in {"closed", "connected", "response", "cancelled"}
      BY <1>3, <3>2, OneReply
    <3> QED  BY <2>3, <3>1, <3>2
  <2> QED  BY <1>1, <1>2, <2>1, <2>4, PostQuietly
<1> QED  BY <1>4, <1>5

\* A request posted by the main thread: its id is new.
LEMMA PostedNew ==
    ASSUME RequestInv, NEW r \in Requested, r.id = nextRequest, toWorker' = Append(toWorker, r)
    PROVE  /\ Outbox' = Outbox \cup {r}
           /\ \A x \in pending \cup Outbox \cup Inbox : x.id # r.id /\ x.id < r.id
<1>1. r.id \in Nat /\ \A x \in pending \cup Outbox \cup Inbox : x.id \in Int /\ x.id < r.id
  BY Numbers DEF RequestInv, Given
<1>2. Outbox' = Outbox \cup {r}
  BY <1>1, Posting DEF RequestInv, WorkerTypes, Given
<1> QED  BY <1>1, <1>2

\* Nobody waits for the reply.
LEMMA QuietIgnored ==
    ASSUME CauseInv, QuietState, toMain # <<>>, toMain' = Tail(toMain), Ignore
    PROVE  QuietState'
<1>1. Inbox' \subseteq Inbox
  BY Reading DEF CauseInv, RequestInv, WorkerTypes
<1>2. /\ UNCHANGED <<pending, inflight, nextRequest, nextChannel, tracked, rc, held>>
      /\ toWorker' = toWorker /\ UNCHANGED workerVars
  BY DEF Ignore, mainVars, historyVars
<1> QED  BY <1>1, <1>2, ReadQuietly

\* create() goes on to connect: nothing is open yet.
LEMMA QuietReady ==
    ASSUME CauseInv, QuietState, MainReady
    PROVE  QuietState'
<1> DEFINE r == Request("connect", nextRequest, 0)
<1>1. r \in Requested /\ r.id = nextRequest /\ r.type = "connect"
  BY Numbers DEF CauseInv, Request, Requested, OnChannel, RequestType
<1> HIDE DEF r
<1>2. /\ pending' = {r} /\ toWorker' = Append(toWorker, r)
      /\ nextRequest' = nextRequest + 1
      /\ toMain # <<>> /\ Head(toMain).type = "ready" /\ toMain' = Tail(toMain)
      /\ UNCHANGED <<nextChannel, tracked, inflight, rc, held, host, connectId, wOpen, chan, engine,
                     transport>>
  BY DEF r, MainReady, FromWorker, workerVars, engineVars, tableVars, historyVars
<1>3. Head(toMain) \in Inbox /\ Inbox = Inbox' \cup {Head(toMain)}
  BY <1>2, Reading DEF CauseInv, RequestInv, WorkerTypes
<1>4. transport = "none" /\ host # "none"
  BY <1>2, <1>3 DEF CauseInv, Created, QuietState, Awaited
<1>5. Outbox = {} /\ Len(toMain) = 1
  BY <1>2, <1>4, ReadAtFirst
<1>6. Inbox' = {}
  <2>1. toMain' \in Seq(Told) /\ Len(toMain') = 0
    BY <1>2, <1>5, HeadTailProperties DEF CauseInv, RequestInv, WorkerTypes
  <2>2. toMain' = <<>>
    BY <2>1, EmptySeq
  <2>3. DOMAIN <<>> = {}
    OBVIOUS
  <2> QED  BY <2>2, <2>3 DEF Inbox
<1>7. Outbox' = {r}
  BY <1>1, <1>2, <1>5, PostedNew DEF CauseInv
<1>8. /\ held = {} /\ tracked = {} /\ rc.pc = "idle" /\ chan = NewChannels
      /\ \A c \in Channels : chan[c] = "none"
  BY <1>4 DEF QuietState, Awaited, NewChannels
<1>9. nextRequest \in Nat /\ rc.id \in Nat
  BY Numbers DEF CauseInv, RequestInv, MainTypes
<1>10. HeldTracked' /\ OpensKnown'
  <2>1. \A f \in inflight : f[2] \in Nat /\ f[2] < nextRequest + 1 /\ f[2] # r.id
    BY <1>1, <1>9 DEF QuietState, OpensKnown
  <2>2. rc.id < nextRequest + 1
    BY <1>9 DEF QuietState, OpensKnown
  <2> QED  BY <1>1, <1>2, <1>8, <2>1, <2>2 DEF HeldTracked, OpensKnown, Opens
<1>11. Awaited'
  BY <1>1, <1>2, <1>4, <1>6, <1>7, <1>8 DEF Awaited
<1>12. ChannelsMatch'
  BY <1>2, <1>8 DEF ChannelsMatch
<1>13. MessagesMatch'
  BY <1>1, <1>6, <1>7 DEF MessagesMatch, Opens, Uses
<1> QED  BY <1>10, <1>11, <1>12, <1>13 DEF QuietState

\* A reply that rejects: before there is a transport it is about create(), and
\* later about an open of the application, whose channel is given up.
LEMMA QuietRejected ==
    ASSUME CauseInv, QuietState, Quiet, MainRejected
    PROVE  QuietState'
<1> DEFINE m == Head(toMain)
<1>1. toMain # <<>> /\ toMain' = Tail(toMain) /\ m.type \in {"openFailed", "error"}
  BY DEF MainRejected, FromWorker
<1>2. m \in Inbox /\ Inbox' \subseteq Inbox
  BY <1>1, Reading DEF CauseInv, RequestInv, WorkerTypes
<1>3. CASE Ignore
  BY <1>1, <1>3, QuietIgnored
<1>4. ASSUME NEW p \in pending, p.id = m.id, pending' = pending \ {p},
             tracked' = IF p.type = "open" THEN tracked \ {p.ch} ELSE tracked,
             p.id = rc.id \/ rc' = rc,
             UNCHANGED <<nextRequest, nextChannel, inflight, toWorker, workerVars, held>>
      PROVE  QuietState'
  <2>1. UNCHANGED <<host, connectId, wOpen, engine, chan, transport>> /\ Outbox' = Outbox
    BY <1>4 DEF workerVars, tableVars, engineVars, Outbox
  <2>2. p \in Requested /\ p.id \in Nat \ {0} /\ rc.id \in Nat
    BY Numbers DEF CauseInv, RequestInv, MainTypes
  <2>3. CASE m.type = "error"
    <3>1. tracked = {} /\ rc.pc = "idle"
      BY <1>2, <2>3 DEF QuietState, Awaited
    <3>2. ~Opens(p)
      BY <3>1 DEF QuietState, OpensKnown
    <3>3. rc.id = 0
      BY <3>1 DEF Quiet, CauseInv, InCharge, Lone
    <3>4. rc' = rc /\ tracked' = tracked
      BY <1>4, <2>2, <3>2, <3>3 DEF Opens
    <3> QED  BY <1>2, <1>4, <3>2, <3>4, ReadQuietly
  <2>4. CASE m.type = "openFailed"
    <3>1. p.type = "open"
      <4>1. m.type \in AnswerTo(p)
        BY <1>2, <1>4 DEF CauseInv, RequestInv, Means
      <4> QED  BY <2>4, <4>1 DEF AnswerTo
    <3>2. p.id # rc.id /\ p.ch \notin held
      BY <1>2, <1>4, <2>4, <3>1 DEF QuietState, OpensKnown, Awaited, Opens
    <3>3. rc' = rc /\ tracked' = tracked \ {p.ch}
      BY <1>4, <3>1, <3>2
    <3>4. \A q \in pending : Opens(q) => q = p \/ (q \in pending' /\ q.ch # p.ch)
      BY <1>4, <3>1 DEF QuietState, OpensKnown, Opens
    <3>5. HeldTracked'
      <4>1. tracked' \subseteq held \cup {q.ch : q \in {x \in pending' : Opens(x)}}
        BY <3>3, <3>4 DEF QuietState, HeldTracked
      <4> QED  BY <1>4, <3>2, <3>3, <4>1 DEF QuietState, HeldTracked, Opens
    <3>6. OpensKnown'
      BY <1>4, <3>3, <3>4 DEF QuietState, OpensKnown, Opens
    <3>7. Awaited'
      BY <1>2, <1>4, <2>1, <3>3 DEF QuietState, Awaited
    <3>8. Current' <=> Current
      BY <2>1 DEF Current
    <3>9. Current => chan[p.ch] = "closed"
      BY <1>2, <1>4, <2>4, <3>1 DEF QuietState, MessagesMatch, Opens
    <3>10. ChannelsMatch'
      <4>1. \A n, c : Request("open", n, c) \in pending =>
                c = p.ch \/ Request("open", n, c) \in pending'
        BY <1>4 DEF Request
      <4>2. Current => \A c \in Channels :
               /\ chan[c] = "opening" => Request("open", wOpen[c], c) \in pending'
               /\ chan[c] = "active" =>
                    \/ c \in held
                    \/ \E q \in pending' : Opens(q) /\ q.ch = c
                    \/ \E w \in Outbox : w.type = "unsubscribe" /\ w.ch = c
        BY <3>4, <3>9, <4>1 DEF QuietState, ChannelsMatch
      <4> QED  BY <1>4, <2>1, <3>3, <3>8, <4>2 DEF QuietState, ChannelsMatch, Restorable, Opens
    <3>11. MessagesMatch'
      BY <1>2, <1>4, <2>1, <3>3, <3>8, <3>9 DEF QuietState, MessagesMatch, Restorable, Opens, Uses
    <3> QED  BY <3>5, <3>6, <3>7, <3>10, <3>11 DEF QuietState
  <2> QED  BY <1>1, <2>3, <2>4
<1> QED  BY <1>3, <1>4 DEF MainRejected, Pending, historyVars

\* What reopenTrackedChannels finds, with p answered, todo left to reopen and
\* known in #channels.
Reopens(p, todo, known) ==
    /\ p \in pending /\ rc.id = p.id /\ rc.pc # "idle" /\ transport # "none"
    /\ todo \subseteq held /\ known \cap todo = {} /\ held \subseteq known \cup todo
    /\ known \subseteq held \cup {q.ch : q \in {x \in pending \ {p} : Opens(x)}}
    /\ \A q \in pending \ {p} : Opens(q) => q.ch \in known /\ q.ch \notin held
    /\ Current =>
          /\ \A c \in Channels :
                /\ c \in held \ todo =>
                      /\ chan[c] = "active"
                      /\ \A w \in Outbox : w.type = "unsubscribe" => w.ch # c
                /\ c \in todo => chan[c] = "none"
                /\ chan[c] = "opening" => Request("open", wOpen[c], c) \in pending \ {p}
                /\ chan[c] = "active" =>
                      \/ c \in held
                      \/ \E q \in pending \ {p} : Opens(q) /\ q.ch = c
                      \/ \E w \in Outbox : w.type = "unsubscribe" /\ w.ch = c
          /\ \A w \in Outbox : Opens(w) => w # p

\* The next channel is opened again.
LEMMA QuietNext ==
    ASSUME CauseInv, QuietState, Quiet, Inbox' \subseteq Inbox, NEW p, NEW todo, NEW known,
           Reopens(p, todo, known), NEW c \in todo,
           rc' = [rc EXCEPT !.pc = "reopen", !.id = nextRequest,
                            !.opening = c, !.todo = todo \ {c}],
           tracked' = known \cup {c},
           pending' = (pending \ {p}) \cup {Request("open", nextRequest, c)},
           toWorker' = Append(toWorker, Request("open", nextRequest, c)),
           nextRequest' = nextRequest + 1,
           UNCHANGED <<nextChannel, inflight, held, workerVars>>
    PROVE  QuietState'
<1> DEFINE r == Request("open", nextRequest, c)
<1>1. c \in held /\ c \in Channels
  BY DEF Reopens, QuietState, HeldTracked
<1>2. r \in Requested /\ r.id = nextRequest /\ r.type = "open" /\ r.ch = c
  BY <1>1, Numbers DEF CauseInv, Request, Requested, OnChannel
<1>3. pending' = (pending \ {p}) \cup {r} /\ toWorker' = Append(toWorker, r)
  OBVIOUS
<1>4. UNCHANGED <<host, connectId, wOpen, engine, chan, transport>>
  BY DEF workerVars, tableVars, engineVars
<1>5. rc'.pc = "reopen" /\ rc'.id = r.id /\ rc'.opening = c /\ rc'.todo = todo \ {c}
  BY <1>2 DEF CauseInv, RequestInv, MainTypes
<1> HIDE DEF r
<1>6. /\ Outbox' = Outbox \cup {r}
      /\ \A x \in pending \cup Outbox \cup Inbox : x.id # r.id /\ x.id < r.id
  BY <1>2, <1>3, PostedNew DEF CauseInv
<1>7. nextRequest \in Nat
  BY Numbers DEF CauseInv
<1>8. HeldTracked'
  <2>1. tracked' \subseteq held \cup {q.ch : q \in {x \in pending' : Opens(x)}}
    BY <1>1, <1>3 DEF Reopens
  <2>2. /\ held \subseteq tracked' \cup rc'.todo /\ rc'.todo \cap tracked' = {}
        /\ rc'.opening \in held /\ rc'.todo \subseteq held /\ rc'.opening \notin rc'.todo
    BY <1>1, <1>5 DEF Reopens
  <2> QED  BY <1>5, <2>1, <2>2 DEF QuietState, HeldTracked, Opens
<1>9. OpensKnown'
  <2>1. \A q \in pending' : Opens(q) => \/ q = r
                                        \/ q \in pending \ {p} /\ q.ch \in known /\ q.ch \notin held
    BY <1>3 DEF Reopens
  <2>2. \A f \in inflight : f[2] \in Nat /\ f[2] < nextRequest' /\ f[2] # r.id
    BY <1>2, <1>7 DEF QuietState, OpensKnown
  <2>3. rc'.id < nextRequest'
    BY <1>2, <1>5, <1>7
  <2>4. \A q \in pending' : Opens(q) =>
           /\ q.ch \in tracked'
           /\ IF q.id = rc'.id THEN q.ch = c ELSE q.ch \notin held
           /\ \A x \in pending' : Opens(x) /\ x.ch = q.ch => q = x
    BY <1>1, <1>2, <1>5, <1>6, <2>1 DEF QuietState, OpensKnown
  <2> QED  BY <1>2, <1>3, <1>5, <2>2, <2>3, <2>4 DEF QuietState, OpensKnown, Opens
<1>10. Awaited'
  BY <1>2, <1>4, <1>5, <1>6 DEF QuietState, Awaited, Reopens
<1>11. Current' <=> Current
  BY <1>2, <1>4, <1>6 DEF Current
<1>12. \A d : Restorable(d)' <=> d \in todo
  BY <1>5 DEF Restorable
<1>13. ChannelsMatch'
  <2> SUFFICES ASSUME Current, NEW d \in Channels
               PROVE  /\ d \in held /\ d \notin todo =>
                            /\ chan[d] = "active"
                            /\ \A w \in Outbox' : w.type = "unsubscribe" => w.ch # d
                      /\ d \in todo \ {c} => chan[d] = "none"
                      /\ d >= nextChannel => chan[d] = "none"
                      /\ chan[d] = "opening" => Request("open", wOpen[d], d) \in pending'
                      /\ chan[d] = "active" =>
                            \/ d \in held
                            \/ \E q \in pending' : Opens(q) /\ q.ch = d
                            \/ \E w \in Outbox' : w.type = "unsubscribe" /\ w.ch = d
    BY <1>4, <1>5, <1>11, <1>12 DEF ChannelsMatch, Opens
  <2>1. d >= nextChannel => chan[d] = "none"
    BY DEF QuietState, ChannelsMatch
  <2> QED  BY <1>2, <1>3, <1>6, <2>1 DEF Reopens
<1>14. MessagesMatch'
  <2> SUFFICES ASSUME Current
               PROVE  /\ \A w \in Outbox' :
                            /\ Opens(w) => w \in pending' /\ chan[w.ch] = "none"
                            /\ Uses(w) =>
                                  /\ chan[w.ch] = "active" /\ w.ch \notin todo
                                  /\ \A q \in pending' : Opens(q) => q.ch # w.ch
                                  /\ \A u \in Outbox' :
                                        u.type = "unsubscribe" /\ u.ch = w.ch => w.id <= u.id
                      /\ \A m \in Inbox', q \in pending' :
                            Opens(q) /\ m.id = q.id =>
                                /\ m.type = "opened" => chan[q.ch] = "active"
                                /\ m.type = "openFailed" => chan[q.ch] = "closed"
    BY <1>4, <1>11, <1>12 DEF MessagesMatch, Opens, Uses
  <2>1. /\ \A w \in Outbox :
              /\ Opens(w) => w \in pending /\ chan[w.ch] = "none"
              /\ Uses(w) =>
                    /\ chan[w.ch] = "active"
                    /\ \A q \in pending : Opens(q) => q.ch # w.ch
                    /\ \A u \in Outbox :
                          u.type = "unsubscribe" /\ u.ch = w.ch => w.id <= u.id
        /\ \A m \in Inbox, q \in pending :
              Opens(q) /\ m.id = q.id =>
                  /\ m.type = "opened" => chan[q.ch] = "active"
                  /\ m.type = "openFailed" => chan[q.ch] = "closed"
    BY DEF QuietState, MessagesMatch
  <2>2. \A d \in Channels : d \in todo => chan[d] = "none"
    BY DEF Reopens
  <2>3. ASSUME NEW w \in Outbox', Opens(w)  PROVE w \in pending' /\ chan[w.ch] = "none"
    BY <1>1, <1>2, <1>3, <1>6, <2>1, <2>2, <2>3 DEF Reopens
  <2>4. ASSUME NEW w \in Outbox', Uses(w)
        PROVE  /\ chan[w.ch] = "active" /\ w.ch \notin todo
               /\ \A q \in pending' : Opens(q) => q.ch # w.ch
               /\ \A u \in Outbox' : u.type = "unsubscribe" /\ u.ch = w.ch => w.id <= u.id
    <3>1. w \in Outbox /\ w.ch \in Channels
      BY <1>2, <1>6, <2>4, Numbers DEF Uses, CauseInv, Requested, OnChannel
    <3>2. chan[w.ch] = "active" /\ w.ch \notin todo
      BY <2>1, <2>2, <2>4, <3>1
    <3> QED  BY <1>2, <1>3, <1>6, <2>1, <2>4, <3>1, <3>2
  <2>5. ASSUME NEW m \in Inbox', NEW q \in pending', Opens(q), m.id = q.id
        PROVE  /\ m.type = "opened" => chan[q.ch] = "active"
               /\ m.type = "openFailed" => chan[q.ch] = "closed"
    BY <1>3, <1>6, <2>1, <2>5
  <2> QED  BY <2>3, <2>4, <2>5
<1> QED  BY <1>8, <1>9, <1>10, <1>13, <1>14 DEF QuietState

\* There is none left, and reconnect() is done.
LEMMA QuietDone ==
    ASSUME CauseInv, QuietState, Quiet, Inbox' \subseteq Inbox, NEW p, NEW known,
           Reopens(p, {}, known), rc' = NoReconnect, tracked' = known,
           pending' = pending \ {p},
           UNCHANGED <<toWorker, nextRequest, nextChannel, inflight, held, workerVars>>
    PROVE  QuietState'
<1>1. UNCHANGED <<host, connectId, wOpen, engine, chan, transport>> /\ Outbox' = Outbox
  BY DEF workerVars, tableVars, engineVars, Outbox
<1>2. rc'.pc = "idle" /\ rc'.id = 0
  BY DEF NoReconnect
<1>3. nextRequest \in Nat \ {0} /\ \A q \in pending : q.id # 0
  BY Numbers DEF CauseInv
<1>4. HeldTracked'
  BY <1>2 DEF QuietState, HeldTracked, Opens, Reopens
<1>5. OpensKnown'
  BY <1>2, <1>3 DEF QuietState, OpensKnown, Opens, Reopens
<1>6. Awaited'
  BY <1>1, <1>2 DEF QuietState, Awaited, Reopens
<1>7. Current' <=> Current
  BY <1>1 DEF Current
<1>8. \A d : ~Restorable(d)'
  BY <1>2 DEF Restorable
<1>9. ChannelsMatch'
  <2>1. Current => \A d \in Channels : d >= nextChannel => chan[d] = "none"
    BY DEF QuietState, ChannelsMatch
  <2> QED  BY <1>1, <1>2, <1>7, <2>1 DEF ChannelsMatch, Opens, Reopens
<1>10. MessagesMatch'
  BY <1>1, <1>7, <1>8 DEF QuietState, MessagesMatch, Opens, Uses, Reopens
<1> QED  BY <1>4, <1>5, <1>6, <1>9, <1>10 DEF QuietState

\* reopenTrackedChannels goes on, or is done.
LEMMA QuietReopen ==
    ASSUME CauseInv, QuietState, Quiet, Inbox' \subseteq Inbox, NEW p, NEW todo, NEW known,
           Reopens(p, todo, known), Reopen(todo, known, {p}),
           UNCHANGED <<nextChannel, inflight, held, workerVars>>
    PROVE  QuietState'
<1>1. CASE /\ todo = {} /\ rc' = NoReconnect /\ tracked' = known /\ pending' = pending \ {p}
           /\ UNCHANGED <<toWorker, nextRequest>>
  BY <1>1, QuietDone
<1>2. ASSUME NEW c \in todo,
             rc' = [rc EXCEPT !.pc = "reopen", !.id = nextRequest,
                              !.opening = c, !.todo = todo \ {c}],
             tracked' = known \cup {c},
             pending' = (pending \ {p}) \cup {Request("open", nextRequest, c)},
             toWorker' = Append(toWorker, Request("open", nextRequest, c)),
             nextRequest' = nextRequest + 1
      PROVE  QuietState'
  BY <1>2, QuietNext
<1> QED  BY <1>1, <1>2, ZenonT(60) DEF Reopen, Track

\* The session of reconnect() is ready: the worker has nothing left of the old
\* one, and #channels are those the application holds.
LEMMA QuietConnected ==
    ASSUME CauseInv, QuietState, Quiet, MainConnected
    PROVE  QuietState'
<1> DEFINE m == Head(toMain)
<1>1. toMain # <<>> /\ toMain' = Tail(toMain) /\ m.type = "connected"
  BY DEF MainConnected, FromWorker
<1>2. m \in Inbox /\ Inbox' \subseteq Inbox
  BY <1>1, Reading DEF CauseInv, RequestInv, WorkerTypes
<1>3. CASE Ignore
  BY <1>1, <1>3, QuietIgnored
<1>4. ASSUME NEW p \in pending, p.id = m.id,
             \/ /\ p.type = "connect" /\ pending' = pending \ {p}
                /\ UNCHANGED <<rc, tracked, toWorker, nextRequest>>
             \/ p.type = "reconnect" /\ Reopen(tracked, {}, {p}),
             UNCHANGED <<nextChannel, inflight, held, workerVars>>
      PROVE  QuietState'
  <2>1. CASE /\ p.type = "connect" /\ pending' = pending \ {p}
             /\ UNCHANGED <<rc, tracked, toWorker, nextRequest>>
    BY <1>2, <1>4, <2>1, ReadQuietly DEF Opens
  <2>2. CASE p.type = "reconnect" /\ Reopen(tracked, {}, {p})
    <3>1. rc.pc = "await" /\ rc.id = p.id /\ transport # "none"
      BY <1>1, <2>2, ReadAtFirst DEF CauseInv, RequestInv, Awaits
    <3>2. \A q \in pending : ~Opens(q)
      BY <3>1 DEF Quiet, CauseInv, RequestInv, OpensOnce, Opens
    <3>3. tracked = held
      BY <3>1, <3>2 DEF QuietState, HeldTracked
    <3>4. \A w \in Outbox : w.type = "close"
      <4>1. \A w \in Outbox : m.id < w.id /\ w.id \in Nat
        BY <1>2, Numbers DEF CauseInv, Behind
      <4>2. rc.id = m.id /\ m.id \in Int
        BY <1>2, <1>4, <3>1, Numbers DEF CauseInv
      <4>3. \A w \in Outbox : w.id > rc.id
        BY <4>1, <4>2
      <4> QED  BY <3>1, <4>3 DEF QuietState, Awaited
    <3>5. Current => \A c \in Channels : chan[c] = "none"
      BY <3>1 DEF QuietState, ChannelsMatch, NewChannels
    <3>6. Reopens(p, tracked, {})
      BY <3>1, <3>2, <3>3, <3>4, <3>5 DEF Reopens, Opens
    <3> QED  BY <1>2, <1>4, <2>2, <3>6, QuietReopen
  <2> QED  BY <1>4, <2>1, <2>2
<1> QED  BY <1>3, <1>4 DEF MainConnected, Pending, historyVars

\* A channel is open: the application has its object, or reconnect() goes on
\* with the next.
LEMMA QuietOpened ==
    ASSUME CauseInv, QuietState, Quiet, MainOpened
    PROVE  QuietState'
<1> DEFINE m == Head(toMain)
<1>1. toMain # <<>> /\ toMain' = Tail(toMain) /\ m.type = "opened"
  BY DEF MainOpened, FromWorker
<1>2. m \in Inbox /\ Inbox' \subseteq Inbox
  BY <1>1, Reading DEF CauseInv, RequestInv, WorkerTypes
<1>3. CASE Ignore
  BY <1>1, <1>3, QuietIgnored
<1>4. ASSUME NEW p \in pending, p.id = m.id,
             IF p.id = rc.id
             THEN Reopen(rc.todo, tracked, {p}) /\ UNCHANGED held
             ELSE /\ pending' = pending \ {p}
                  /\ held' = held \cup {p.ch}
                  /\ UNCHANGED <<rc, tracked, toWorker, nextRequest>>,
             UNCHANGED <<nextChannel, inflight, workerVars>>
      PROVE  QuietState'
  <2>1. UNCHANGED <<host, connectId, wOpen, engine, chan, transport>> /\ transport # "none"
    BY <1>1, <1>4, ReadAtFirst DEF workerVars, tableVars, engineVars
  <2>2. p.type = "open"
    <3>1. m.type \in AnswerTo(p)
      BY <1>2, <1>4 DEF CauseInv, RequestInv, Means
    <3> QED  BY <1>1, <3>1 DEF AnswerTo
  <2>3. p.ch \in Channels /\ p.ch < nextChannel
    BY <2>2, Numbers DEF CauseInv, RequestInv, ChannelsGiven, Requested, OnChannel
  <2>4. /\ p.ch \in tracked
        /\ IF p.id = rc.id THEN rc.pc = "reopen" /\ p.ch = rc.opening ELSE p.ch \notin held
        /\ \A q \in pending : Opens(q) /\ q.ch = p.ch => p = q
    BY <2>2 DEF QuietState, OpensKnown, Opens
  <2>5. Current => /\ chan[p.ch] = "active"
                   /\ \A w \in Outbox : w.type = "unsubscribe" => w.ch # p.ch
                   /\ \A w \in Outbox : Opens(w) => w # p
    BY <1>1, <1>2, <1>4, <2>2 DEF QuietState, MessagesMatch, Opens, Uses
  <2>6. Current => \A c \in Channels :
           /\ chan[c] = "opening" => Request("open", wOpen[c], c) \in pending \ {p}
           /\ chan[c] = "active" =>
                 \/ c \in held \/ c = p.ch
                 \/ \E q \in pending \ {p} : Opens(q) /\ q.ch = c
                 \/ \E w \in Outbox : w.type = "unsubscribe" /\ w.ch = c
    BY <2>5 DEF QuietState, ChannelsMatch, Request
  <2>7. CASE p.id = rc.id
    <3>1. rc.pc = "reopen" /\ p.ch = rc.opening
      BY <2>4, <2>7
    <3>2. /\ rc.todo \subseteq held /\ rc.todo \cap tracked = {}
          /\ held \subseteq tracked \cup rc.todo /\ p.ch \in held
      BY <3>1 DEF QuietState, HeldTracked
    <3>3. tracked \subseteq held \cup {q.ch : q \in {x \in pending \ {p} : Opens(x)}}
      BY <3>2 DEF QuietState, HeldTracked
    <3>4. \A q \in pending \ {p} : Opens(q) => q.ch \in tracked /\ q.ch \notin held
      <4>1. \A q \in pending \ {p} : q.id # rc.id
        BY <2>7 DEF CauseInv, RequestInv, Means
      <4> QED  BY <4>1 DEF QuietState, OpensKnown
    <3>5. Current => \A c \in Channels :
             /\ c \in held \ rc.todo =>
                   /\ chan[c] = "active"
                   /\ \A w \in Outbox : w.type = "unsubscribe" => w.ch # c
             /\ c \in rc.todo => chan[c] = "none"
      BY <2>5, <3>1 DEF QuietState, ChannelsMatch, Restorable
    <3>6. Reopens(p, rc.todo, tracked)
      BY <2>1, <2>5, <2>6, <2>7, <3>1, <3>2, <3>3, <3>4, <3>5 DEF Reopens
    <3> QED  BY <1>2, <1>4, <2>7, <3>6, QuietReopen
  <2>8. CASE p.id # rc.id
    <3>1. /\ pending' = pending \ {p} /\ held' = held \cup {p.ch} /\ p.ch \notin held
          /\ UNCHANGED <<rc, tracked, toWorker, nextRequest, nextChannel, inflight>>
          /\ Outbox' = Outbox
      BY <1>4, <2>4, <2>8 DEF Outbox
    <3>2. HeldTracked'
      <4>1. tracked \subseteq held' \cup {q.ch : q \in {x \in pending' : Opens(x)}}
        BY <3>1 DEF QuietState, HeldTracked
      <4> QED  BY <2>3, <2>4, <3>1, <4>1 DEF QuietState, HeldTracked, Opens
    <3>3. OpensKnown'
      BY <2>4, <3>1 DEF QuietState, OpensKnown, Opens
    <3>4. Awaited'
      BY <1>2, <2>1, <3>1 DEF QuietState, Awaited
    <3>5. Current' <=> Current
      BY <2>1, <3>1 DEF Current
    <3>6. ChannelsMatch'
      <4> SUFFICES ASSUME Current, NEW c \in Channels
                   PROVE  /\ c \in held' /\ rc.pc # "await" /\ ~Restorable(c) =>
                                /\ chan[c] = "active"
                                /\ \A w \in Outbox : w.type = "unsubscribe" => w.ch # c
                          /\ chan[c] = "opening" => Request("open", wOpen[c], c) \in pending'
                          /\ chan[c] = "active" =>
                                \/ c \in held'
                                \/ \E q \in pending' : Opens(q) /\ q.ch = c
                                \/ \E w \in Outbox : w.type = "unsubscribe" /\ w.ch = c
        BY <2>1, <3>1, <3>5 DEF QuietState, ChannelsMatch, Restorable, Opens
      <4>1. c \in held /\ rc.pc # "await" /\ ~Restorable(c) =>
               /\ chan[c] = "active"
               /\ \A w \in Outbox : w.type = "unsubscribe" => w.ch # c
        BY DEF QuietState, ChannelsMatch
      <4> QED  BY <2>5, <2>6, <3>1, <4>1
    <3>7. MessagesMatch'
      BY <1>2, <2>1, <2>5, <3>1, <3>5 DEF QuietState, MessagesMatch, Restorable, Opens, Uses
    <3> QED  BY <3>2, <3>3, <3>4, <3>6, <3>7 DEF QuietState
  <2> QED  BY <2>7, <2>8
<1> QED  BY <1>3, <1>4 DEF MainOpened, Pending

\* reconnect() starts: what is left of #channels is what the application holds.
LEMMA QuietStart ==
    ASSUME CauseInv, QuietState, Quiet, Quiet', NEW a \in BOOLEAN, StartReconnect(a),
           Inbox' \subseteq Inbox, transport # "none"
    PROVE  QuietState'
<1> DEFINE r == Request("reconnect", nextRequest, 0)
<1>1. r \in Requested /\ r.id = nextRequest /\ r.type = "reconnect"
  BY Numbers DEF CauseInv, Request, Requested, OnChannel, RequestType
<1> HIDE DEF r
<1>2. /\ pending' = {r} /\ toWorker' = Append(toWorker, r)
      /\ nextRequest' = nextRequest + 1 /\ tracked' = {c \in tracked : ~Opening(c)}
      /\ inflight' = {}
      /\ UNCHANGED <<nextChannel, held, host, connectId, transport>>
  BY <1>1 DEF r, StartReconnect, RejectInflight, workerVars, tableVars, engineVars
<1>3. rc'.pc = "await" /\ rc'.id = r.id
  BY <1>1 DEF StartReconnect, NoReconnect
<1>4. rc.pc = "idle"
  BY DEF StartReconnect, Quiet
<1>5. Outbox' = Outbox \cup {r} /\ \A w \in Outbox : w.id < r.id /\ w.id \in Nat
  BY <1>1, <1>2, PostedNew, Numbers DEF CauseInv
<1>6. tracked' = held
  <2>1. \A p \in pending : Opens(p) => p.ch \notin held
    BY <1>4 DEF QuietState, OpensKnown
  <2>2. /\ held \subseteq tracked
        /\ tracked \subseteq held \cup {p.ch : p \in {q \in pending : Opens(q)}}
    BY <1>4 DEF QuietState, HeldTracked
  <2> QED  BY <1>2, <2>1, <2>2 DEF Opening, Opens
<1>7. HeldTracked'
  BY <1>2, <1>3, <1>6 DEF QuietState, HeldTracked
<1>8. OpensKnown'
  <2>1. r.id < nextRequest'
    BY <1>1, <1>2, Numbers DEF CauseInv
  <2> QED  BY <1>1, <1>2, <1>3, <2>1 DEF OpensKnown, Opens
<1>9. Awaited'
  <2>1. \A w \in Outbox' : ~(w.id > r.id)
    <3>1. r.id \in Nat
      BY <1>1, Numbers DEF CauseInv
    <3> QED  BY <1>5, <3>1
  <2>2. r \in Outbox' /\ host # "none"
    BY <1>5 DEF QuietState, Awaited
  <2>3. \A m \in Inbox : m.type # "error"
    BY DEF QuietState, Awaited
  <2> QED  BY <1>1, <1>2, <1>3, <2>1, <2>2, <2>3 DEF Awaited
<1>10. ~Current'
  BY <1>1, <1>5 DEF Current
<1> QED  BY <1>7, <1>8, <1>9, <1>10 DEF QuietState, ChannelsMatch, MessagesMatch

\* What settles a call, a send or a close settles no open.
LEMMA QuietSettled ==
    ASSUME CauseInv, QuietState, MainResponse \/ MainCancelled \/ MainClosed
    PROVE  QuietState'
<1> DEFINE m == Head(toMain)
<1>1. /\ toMain # <<>> /\ toMain' = Tail(toMain)
      /\ m.type \in {"response", "ack", "cancelled", "closed"}
  BY DEF MainResponse, MainCancelled, MainClosed, FromWorker
<1>2. m \in Inbox /\ Inbox' \subseteq Inbox
  BY <1>1, Reading DEF CauseInv, RequestInv, WorkerTypes
<1>3. \A p \in pending : Opens(p) => p.id # m.id
  <2> SUFFICES ASSUME NEW p \in pending, Opens(p), p.id = m.id  PROVE FALSE
    OBVIOUS
  <2>1. m.type \in AnswerTo(p)
    BY <1>2 DEF CauseInv, RequestInv, Means
  <2> QED  BY <1>1, <2>1 DEF Opens, AnswerTo
<1>4. CASE Ignore
  BY <1>1, <1>4, QuietIgnored
<1>5. ASSUME pending' \subseteq pending, \A p \in pending : Opens(p) => p \in pending',
             inflight' \subseteq inflight,
             UNCHANGED <<nextRequest, nextChannel, tracked, rc, toWorker, workerVars, held>>
      PROVE  QuietState'
  BY <1>2, <1>5, ReadQuietly
<1>6. CASE MainResponse
  BY <1>3, <1>5, <1>6 DEF MainResponse, Pending, historyVars
<1>7. CASE MainCancelled
  <2> DEFINE mine == {f \in inflight : f[1] = m.ch}
  <2>1. pending' = {p \in pending : <<p.ch, p.id>> \notin mine} /\ inflight' = inflight \ mine
    BY <1>7 DEF MainCancelled
  <2>2. \A p \in pending : Opens(p) => <<p.ch, p.id>> \notin inflight
    <3> SUFFICES ASSUME NEW p \in pending, Opens(p), <<p.ch, p.id>> \in inflight  PROVE FALSE
      OBVIOUS
    <3>1. <<p.ch, p.id>>[2] = p.id
      OBVIOUS
    <3> QED  BY <3>1 DEF QuietState, OpensKnown, Opens
  <2>3. UNCHANGED <<nextRequest, nextChannel, tracked, rc, toWorker, workerVars, held>>
    BY <1>7 DEF MainCancelled, historyVars
  <2> QED  BY <1>5, <2>1, <2>2, <2>3
<1>8. CASE MainClosed
  BY <1>3, <1>4, <1>5, <1>8 DEF MainClosed, Pending, historyVars
<1> QED  BY <1>6, <1>7, <1>8

\* The messages of the main thread.
LEMMA QuietMain ==
    ASSUME CauseInv, QuietState, Quiet, Quiet', MainStep
    PROVE  QuietState'
<1>1. CASE MainLost
  <2>1. toMain # <<>> /\ toMain' = Tail(toMain) /\ Head(toMain).type = "closed"
    BY <1>1 DEF MainLost, FromWorker
  <2>2. CASE Ignore
    BY <2>1, <2>2, QuietIgnored
  <2>3. CASE StartReconnect(TRUE)
    <3>1. Inbox' \subseteq Inbox /\ transport # "none"
      BY <2>1, Reading, ReadAtFirst DEF CauseInv, RequestInv, WorkerTypes
    <3> QED  BY <2>3, <3>1, QuietStart
  <2> QED  BY <1>1, <2>2, <2>3 DEF MainLost
<1> QED  BY <1>1, QuietReady, QuietConnected, QuietOpened, QuietRejected, QuietSettled DEF MainStep

\* The application asks for something.
LEMMA AskedNew ==
    ASSUME CauseInv, MayAsk, NEW type \in RequestType, NEW c,
           IF type \in OnChannel THEN c \in Channels ELSE c = 0, Ask(type, c)
    PROVE  LET r == Request(type, nextRequest, c)
           IN  /\ r \in Requested /\ r.id = nextRequest /\ r.type = type /\ r.ch = c
               /\ pending' = pending \cup {r} /\ Outbox' = Outbox \cup {r}
               /\ nextRequest \in Nat /\ nextRequest' = nextRequest + 1
               /\ \A x \in pending \cup Outbox \cup Inbox : x.id # r.id /\ x.id < r.id
               /\ transport # "none"
<1> DEFINE r == Request(type, nextRequest, c)
<1>1. /\ r \in Requested /\ r.id = nextRequest /\ r.type = type /\ r.ch = c
      /\ nextRequest \in Nat
  BY Numbers DEF CauseInv, Request, Requested, RequestType, OnChannel
<1>2. /\ pending' = pending \cup {r} /\ toWorker' = Append(toWorker, r)
      /\ nextRequest' = nextRequest + 1
  BY DEF Ask
<1>3. transport # "none"
  BY DEF MayAsk, CauseInv, Created
<1> HIDE DEF r
<1>4. /\ Outbox' = Outbox \cup {r}
      /\ \A x \in pending \cup Outbox \cup Inbox : x.id # r.id /\ x.id < r.id
  BY <1>1, <1>2, PostedNew DEF CauseInv
<1> QED  BY <1>1, <1>2, <1>3, <1>4 DEF r

\* A new channel.
LEMMA QuietAppOpen ==
    ASSUME CauseInv, QuietState, Quiet, Quiet', NEW c \in Channels, AppOpen(c)
    PROVE  QuietState'
<1> DEFINE r == Request("open", nextRequest, c)
<1>1. /\ r \in Requested /\ r.id = nextRequest /\ r.type = "open" /\ r.ch = c
      /\ pending' = pending \cup {r} /\ Outbox' = Outbox \cup {r}
      /\ nextRequest \in Nat /\ nextRequest' = nextRequest + 1
      /\ \A x \in pending \cup Outbox \cup Inbox : x.id # r.id /\ x.id < r.id
      /\ transport # "none"
  BY AskedNew DEF AppOpen, RequestType, OnChannel
<1>2. /\ c = nextChannel /\ nextChannel' = c + 1 /\ tracked' = tracked \cup {c}
      /\ rc.pc # "await"
      /\ UNCHANGED <<inflight, rc, toMain, held, host, connectId, wOpen, engine, chan, transport>>
  BY DEF AppOpen, Track, Disturbs, Quiet, workerVars, tableVars, engineVars
<1> HIDE DEF r
<1>3. Inbox' = Inbox
  BY <1>2 DEF Inbox
<1>4. c \in Int /\ \A d \in Channels : d \in Int
  BY ChannelNumbers
<1>5. /\ c \notin held /\ c \notin rc.todo /\ \A d \in held : d < nextChannel'
      /\ \A q \in pending : Opens(q) => q.ch # c
  <2>1. /\ \A d \in held \cup rc.todo : d \in Channels /\ d < nextChannel
        /\ \A q \in pending : Opens(q) => q.ch \in Channels /\ q.ch < nextChannel
    BY Numbers DEF CauseInv, RequestInv, MainTypes, ChannelsGiven, QuietState, HeldTracked, Opens,
       Requested, OnChannel
  <2>2. \A d \in Channels : d < nextChannel => d # c /\ d < nextChannel'
    BY <1>2, <1>4
  <2> QED  BY <2>1, <2>2
<1>6. HeldTracked'
  <2>1. tracked' \subseteq held \cup {q.ch : q \in {x \in pending' : Opens(x)}}
    BY <1>1, <1>2 DEF QuietState, HeldTracked, Opens
  <2> QED  BY <1>2, <1>5, <2>1 DEF QuietState, HeldTracked, Opens
<1>7. rc.id \in Nat /\ rc.id < nextRequest
  BY DEF CauseInv, RequestInv, MainTypes, QuietState, OpensKnown
<1>8. OpensKnown'
  <2>1. /\ \A f \in inflight : f[2] \in Nat /\ f[2] < nextRequest' /\ f[2] # r.id
        /\ rc.id < nextRequest' /\ rc.id # r.id
    BY <1>1, <1>7 DEF QuietState, OpensKnown
  <2> QED  BY <1>1, <1>2, <1>5, <2>1 DEF QuietState, OpensKnown, Opens
<1>9. Awaited'
  BY <1>1, <1>2, <1>3 DEF QuietState, Awaited
<1>10. Current' <=> Current
  BY <1>1, <1>2 DEF Current
<1>11. \A d \in Channels : d >= nextChannel' => d >= nextChannel
  BY <1>2, <1>4
<1>12. ChannelsMatch'
  BY <1>1, <1>2, <1>10, <1>11 DEF QuietState, ChannelsMatch, Restorable, Opens
<1>13. Current => chan[c] = "none"
  BY <1>2, <1>4 DEF QuietState, ChannelsMatch
<1>14. MessagesMatch'
  BY <1>1, <1>2, <1>3, <1>10, <1>13 DEF QuietState, MessagesMatch, Restorable, Opens, Uses
<1> QED  BY <1>6, <1>8, <1>9, <1>12, <1>14 DEF QuietState

\* A channel that is open, of which the application has the object, is used; or
\* the client is closed.
LEMMA QuietAppUse ==
    ASSUME CauseInv, QuietState, Quiet, Quiet', NEW c,
           \/ c \in Channels /\ (AppCall(c) \/ AppSend(c))
           \/ c = 0 /\ AppClose
    PROVE  QuietState'
<1>1. PICK type \in {"call", "send", "close"} :
         /\ MayAsk /\ Ask(type, c)
         /\ IF type = "close" THEN c = 0
                              ELSE c \in Channels /\ c \in held /\ ~Unrestored(c)
         /\ inflight' \subseteq inflight \cup {<<c, nextRequest>>}
         /\ type = "call" \/ inflight' = inflight
  BY DEF AppCall, AppSend, AppClose, Disturbs, Quiet
<1> DEFINE r == Request(type, nextRequest, c)
<1>2. /\ r \in Requested /\ r.id = nextRequest /\ r.type = type /\ r.ch = c
      /\ pending' = pending \cup {r} /\ Outbox' = Outbox \cup {r}
      /\ nextRequest \in Nat /\ nextRequest' = nextRequest + 1
      /\ \A x \in pending \cup Outbox \cup Inbox : x.id # r.id /\ x.id < r.id
      /\ transport # "none"
  BY <1>1, AskedNew DEF RequestType, OnChannel
<1>3. UNCHANGED <<nextChannel, tracked, rc, toMain, held, host, connectId, wOpen, engine, chan,
                  transport>>
  BY DEF AppCall, AppSend, AppClose, workerVars, tableVars, engineVars, historyVars
<1> HIDE DEF r
<1>4. Inbox' = Inbox /\ ~Opens(r)
  BY <1>2, <1>3 DEF Inbox, Opens
<1>5. rc.id \in Nat /\ rc.id < nextRequest
  BY DEF CauseInv, RequestInv, MainTypes, QuietState, OpensKnown
<1>6. HeldTracked'
  BY <1>2, <1>3, <1>4 DEF QuietState, HeldTracked, Opens
<1>7. OpensKnown'
  <2>1. <<c, nextRequest>>[2] = r.id
    BY <1>2
  <2>2. \A f \in inflight' : /\ f[2] \in Nat /\ f[2] < nextRequest'
                             /\ (f \in inflight /\ f[2] # r.id) \/ (f[2] = r.id /\ type = "call")
    <3> SUFFICES ASSUME NEW f \in inflight'
                 PROVE  /\ f[2] \in Nat /\ f[2] < nextRequest'
                        /\ (f \in inflight /\ f[2] # r.id) \/ (f[2] = r.id /\ type = "call")
      OBVIOUS
    <3>1. CASE f \in inflight
      <4>1. f[2] \in Nat /\ f[2] < nextRequest
        BY <3>1 DEF QuietState, OpensKnown
      <4> QED  BY <1>2, <3>1, <4>1
    <3>2. CASE f = <<c, nextRequest>> /\ type = "call"
      BY <1>2, <2>1, <3>2
    <3> QED  BY <1>1, <3>1, <3>2
  <2>3. rc.id < nextRequest'
    BY <1>2, <1>5
  <2>4. \A f \in inflight' : \A p \in pending' : f[2] = p.id => p.type = "call"
    BY <1>2, <2>2 DEF QuietState, OpensKnown
  <2> QED  BY <1>2, <1>3, <1>4, <2>2, <2>3, <2>4 DEF QuietState, OpensKnown, Opens
<1>8. Awaited'
  BY <1>1, <1>2, <1>3, <1>4 DEF QuietState, Awaited, Unrestored
<1>9. Current' <=> Current
  BY <1>2, <1>3 DEF Current
<1>10. ChannelsMatch'
  BY <1>2, <1>3, <1>4, <1>9 DEF QuietState, ChannelsMatch, Restorable, Opens
<1>11. Current /\ Uses(r) =>
          /\ chan[r.ch] = "active" /\ ~Restorable(r.ch)
          /\ \A p \in pending : Opens(p) => p.ch # r.ch
          /\ \A w \in Outbox : w.type = "unsubscribe" => w.ch # r.ch
  BY <1>1, <1>2 DEF QuietState, OpensKnown, ChannelsMatch, Restorable, Unrestored, Uses
<1>12. MessagesMatch'
  BY <1>1, <1>2, <1>3, <1>4, <1>9, <1>11 DEF QuietState, MessagesMatch, Restorable, Opens, Uses
<1> QED  BY <1>6, <1>7, <1>8, <1>10, <1>12 DEF QuietState

\* The application gives a channel up.
LEMMA QuietAppUnsubscribe ==
    ASSUME CauseInv, QuietState, Quiet, Quiet', NEW c \in Channels, AppUnsubscribe(c)
    PROVE  QuietState'
<1> DEFINE r == Request("unsubscribe", nextRequest, c)
<1>1. /\ r \in Requested /\ r.id = nextRequest /\ r.type = "unsubscribe" /\ r.ch = c
      /\ pending' = pending \cup {r} /\ Outbox' = Outbox \cup {r}
      /\ nextRequest \in Nat /\ nextRequest' = nextRequest + 1
      /\ \A x \in pending \cup Outbox \cup Inbox : x.id # r.id /\ x.id < r.id
      /\ transport # "none"
  BY AskedNew DEF AppUnsubscribe, RequestType, OnChannel
<1>2. /\ c \in held /\ held' = held \ {c} /\ tracked' = tracked \ {c} /\ ~Unrestored(c)
      /\ UNCHANGED <<nextChannel, inflight, rc, toMain, host, connectId, wOpen, engine, chan,
                     transport>>
  BY DEF AppUnsubscribe, Disturbs, Quiet, workerVars, tableVars, engineVars
<1> HIDE DEF r
<1>3. Inbox' = Inbox /\ ~Opens(r)
  BY <1>1, <1>2 DEF Inbox, Opens
<1>4. rc.pc # "await" /\ c # rc.opening /\ c \notin rc.todo /\ ~Restorable(c)
  BY <1>2 DEF Unrestored, Restorable
<1>5. \A p \in pending : Opens(p) => p.ch # c
  BY <1>2, <1>4 DEF QuietState, OpensKnown
<1>6. rc.id \in Nat /\ rc.id < nextRequest
  BY DEF CauseInv, RequestInv, MainTypes, QuietState, OpensKnown
<1>7. HeldTracked'
  <2>1. tracked' \subseteq held' \cup {q.ch : q \in {x \in pending' : Opens(x)}}
    BY <1>1, <1>2 DEF QuietState, HeldTracked
  <2>2. \A d \in held' : d < nextChannel
    BY <1>2 DEF QuietState, HeldTracked
  <2> QED  BY <1>2, <1>4, <2>1, <2>2 DEF QuietState, HeldTracked, Opens
<1>8. OpensKnown'
  <2>1. /\ \A f \in inflight : f[2] \in Nat /\ f[2] < nextRequest' /\ f[2] # r.id
        /\ rc.id < nextRequest'
    BY <1>1, <1>6 DEF QuietState, OpensKnown
  <2> QED  BY <1>1, <1>2, <1>3, <1>5, <2>1 DEF QuietState, OpensKnown, Opens
<1>9. Awaited'
  BY <1>1, <1>2, <1>3, <1>4 DEF QuietState, Awaited
<1>10. Current' <=> Current
  BY <1>1, <1>2 DEF Current
<1>11. ChannelsMatch'
  BY <1>1, <1>2, <1>4, <1>10 DEF QuietState, ChannelsMatch, Restorable, Opens
<1>12. MessagesMatch'
  <2> SUFFICES ASSUME Current
               PROVE  /\ \A w \in Outbox' :
                            /\ Opens(w) => w \in pending' /\ chan[w.ch] = "none"
                            /\ Uses(w) =>
                                  /\ chan[w.ch] = "active" /\ ~Restorable(w.ch)
                                  /\ \A q \in pending' : Opens(q) => q.ch # w.ch
                                  /\ \A u \in Outbox' :
                                        u.type = "unsubscribe" /\ u.ch = w.ch => w.id <= u.id
                      /\ \A m \in Inbox, q \in pending' :
                            Opens(q) /\ m.id = q.id =>
                                /\ m.type = "opened" => chan[q.ch] = "active"
                                /\ m.type = "openFailed" => chan[q.ch] = "closed"
    BY <1>2, <1>3, <1>10 DEF MessagesMatch, Restorable, Opens, Uses
  <2>1. chan[c] = "active" /\ \A w \in Outbox : w.type = "unsubscribe" => w.ch # c
    BY <1>2, <1>4 DEF QuietState, ChannelsMatch
  <2>2. \A w \in Outbox' : w.id <= r.id
    <3>1. r.id \in Nat /\ \A w \in Outbox : w.id \in Nat /\ w.id < r.id
      BY <1>1, Numbers DEF CauseInv
    <3> QED  BY <1>1, <3>1
  <2>3. /\ \A w \in Outbox :
              /\ Opens(w) => w \in pending /\ chan[w.ch] = "none"
              /\ Uses(w) =>
                    /\ chan[w.ch] = "active" /\ ~Restorable(w.ch)
                    /\ \A q \in pending : Opens(q) => q.ch # w.ch
                    /\ \A u \in Outbox :
                          u.type = "unsubscribe" /\ u.ch = w.ch => w.id <= u.id
        /\ \A m \in Inbox, q \in pending :
              Opens(q) /\ m.id = q.id =>
                  /\ m.type = "opened" => chan[q.ch] = "active"
                  /\ m.type = "openFailed" => chan[q.ch] = "closed"
    BY DEF QuietState, MessagesMatch
  <2> QED  BY <1>1, <1>3, <1>4, <1>5, <2>1, <2>2, <2>3
<1> QED  BY <1>7, <1>8, <1>9, <1>11, <1>12 DEF QuietState

\* The application.
LEMMA QuietApp ==
    ASSUME CauseInv, QuietState, Quiet, Quiet', AppStep
    PROVE  QuietState'
<1>1. CASE AppReconnect
  <2>1. Inbox' = Inbox /\ transport # "none" /\ StartReconnect(FALSE)
    BY <1>1 DEF AppReconnect, MayAsk, CauseInv, Created, Inbox
  <2> QED  BY <2>1, QuietStart
<1>2. CASE AppClose
  BY <1>2, QuietAppUse
<1>3. ASSUME NEW c \in Channels, AppOpen(c) \/ AppCall(c) \/ AppSend(c) \/ AppUnsubscribe(c)
      PROVE  QuietState'
  BY <1>3, QuietAppOpen, QuietAppUse, QuietAppUnsubscribe
<1> QED  BY <1>1, <1>2, <1>3 DEF AppStep

\* The main thread and the application do not touch what is the worker's.
LEMMA MainLeavesWorker ==
    ASSUME MainStep \/ AppStep
    PROVE  UNCHANGED workerVars
<1>1. CASE MainStep
  BY <1>1 DEF MainStep, MainReady, MainConnected, MainOpened, MainRejected, MainResponse,
       MainCancelled, MainClosed, MainLost, Ignore, StartReconnect
<1>2. CASE AppStep
  BY <1>2 DEF AppStep, AppOpen, AppCall, AppSend, AppUnsubscribe, AppReconnect, AppClose,
       StartReconnect
<1> QED  BY <1>1, <1>2

\* A disturbance is not forgotten, nor is the end of the host.
LEMMA DisturbedBefore ==
    ASSUME CauseInv, ThreadTypes, [Next]_vars, Quiet'
    PROVE  Quiet
<1>1. disturbed \subseteq disturbed'
  <2>1. CASE MainStep
    BY <2>1 DEF MainStep, MainReady, MainConnected, MainOpened, MainRejected, MainResponse,
         MainCancelled, MainClosed, MainLost, Ignore, StartReconnect, historyVars
  <2>2. CASE WorkerStep
    BY <2>2 DEF WorkerStep, WorkerInit, WorkerConnect, WorkerReconnect, WorkerOpen, WorkerUse,
         WorkerUnsubscribe, WorkerClose, HostGone, historyVars
  <2>3. CASE AppStep
    BY <2>3 DEF AppStep, AppOpen, AppCall, AppSend, AppUnsubscribe, AppReconnect, AppClose,
         StartReconnect, Disturbs, historyVars
  <2>4. CASE UNCHANGED vars
    BY <2>4 DEF vars, historyVars
  <2> QED  BY <2>1, <2>2, <2>3, <2>4 DEF Next, Connects, SessionReady, EngineFails,
         TransportLost, TransportFails,
         OpenAnswered, CallAnswered, CallCancelled, PacketDiscarded, CutsReconnect
<1>2. host = "disposed" => host' = "disposed"
  <2>1. CASE MainStep \/ AppStep
    <3>1. UNCHANGED workerVars
      BY <2>1, MainLeavesWorker
    <3> QED  BY <3>1 DEF workerVars
  <2>2. CASE WorkerStep
    <3>1. WorkerInit => host # "disposed"
      BY TakenLater DEF WorkerInit, ThreadTypes
    <3> QED  BY <2>2, <3>1 DEF WorkerStep, WorkerConnect, WorkerReconnect, WorkerOpen, WorkerUse,
         WorkerUnsubscribe, WorkerClose, HostGone, workerVars
  <2>3. CASE UNCHANGED vars
    BY <2>3 DEF vars, workerVars
  <2> QED  BY <2>1, <2>2, <2>3 DEF Next, Connects, SessionReady, EngineFails,
         TransportLost, TransportFails,
         OpenAnswered, CallAnswered, CallCancelled, PacketDiscarded, Answering, OnWorker
<1> QED  BY <1>1, <1>2 DEF Quiet

\* The host and the channels of the engine.
LEMMA ThreadsTyped == CauseInv /\ ThreadTypes /\ [Next]_vars => ThreadTypes'
<1> SUFFICES ASSUME CauseInv, ThreadTypes, [Next]_vars  PROVE ThreadTypes'
  OBVIOUS
<1>1. CASE (MainStep \/ AppStep) \/ UNCHANGED vars
  <2>1. UNCHANGED workerVars
    BY <1>1, MainLeavesWorker DEF vars
  <2> QED  BY <2>1 DEF ThreadTypes, workerVars, engineVars
<1>2. CASE WorkerStep
  <2>1. NewChannels \in [Channels -> {"none", "opening", "active", "closed"}]
    BY DEF NewChannels
  <2>2. CASE WorkerInit \/ WorkerClose
    BY <2>2 DEF WorkerInit, WorkerClose, ThreadTypes, engineVars
  <2>3. CASE WorkerConnect \/ WorkerReconnect
    BY <2>1, <2>3 DEF WorkerConnect, WorkerReconnect, NewConnection, HostGone, ThreadTypes,
         workerVars, engineVars
  <2>4. CASE WorkerOpen \/ WorkerUse \/ WorkerUnsubscribe
    BY <2>4 DEF WorkerOpen, WorkerUse, WorkerUnsubscribe, HostGone, ThreadTypes, workerVars,
         engineVars
  <2> QED  BY <1>2, <2>2, <2>3, <2>4 DEF WorkerStep
<1>3. CASE \/ Connects \/ SessionReady \/ EngineFails \/ TransportLost \/ TransportFails
           \/ \E c \in Channels, ok \in BOOLEAN : OpenAnswered(c, ok)
           \/ \E o \in ops : CallAnswered(o) \/ CallCancelled(o) \/ PacketDiscarded(o)
  BY <1>3 DEF Connects, SessionReady, EngineFails,
         TransportLost, TransportFails, OpenAnswered, CallAnswered,
       CallCancelled, PacketDiscarded, Answering, OnWorker, ThreadTypes
<1> QED  BY <1>1, <1>2, <1>3 DEF Next

\* create() has asked for nothing yet.
LEMMA InitRestore == Init => RestoreInv
<1> SUFFICES ASSUME Init  PROVE RestoreInv
  OBVIOUS
<1>1. CauseInv
  BY InitCause
<1>2. /\ pending = {Request("init", 1, 0)} /\ tracked = {} /\ held = {} /\ inflight = {}
      /\ rc.pc = "idle" /\ rc.id = 0 /\ nextRequest = 2 /\ transport = "none" /\ host = "none"
      /\ chan = NewChannels
  BY DEF Init, NoReconnect
<1>3. Outbox = {Request("init", 1, 0)} /\ Inbox = {}
  <2>1. DOMAIN <<Request("init", 1, 0)>> = {1} /\ DOMAIN <<>> = {}
    OBVIOUS
  <2>2. toWorker = <<Request("init", 1, 0)>> /\ toMain = <<>>
    BY DEF Init
  <2> QED  BY <2>1, <2>2 DEF Outbox, Inbox
<1>4. Request("init", 1, 0).type = "init"
  BY DEF Request
<1>5. \A c \in Channels : chan[c] = "none"
  BY <1>2 DEF NewChannels
<1>6. ThreadTypes
  BY <1>2 DEF ThreadTypes, NewChannels
<1>7. HeldTracked /\ OpensKnown
  BY <1>2, <1>4 DEF HeldTracked, OpensKnown, Opens
<1>8. Awaited
  BY <1>2, <1>3, <1>4 DEF Awaited
<1>9. ChannelsMatch /\ MessagesMatch
  BY <1>2, <1>3, <1>4, <1>5 DEF ChannelsMatch, MessagesMatch, Opens, Uses
<1> QED  BY <1>1, <1>6, <1>7, <1>8, <1>9 DEF RestoreInv, QuietState

\* The invariant is inductive.
LEMMA NextRestore == RestoreInv /\ [Next]_vars => RestoreInv'
<1> SUFFICES ASSUME RestoreInv, [Next]_vars  PROVE RestoreInv'
  OBVIOUS
<1>1. CauseInv' /\ ThreadTypes'
  BY NextCause, ThreadsTyped DEF RestoreInv
<1> SUFFICES ASSUME Quiet'  PROVE QuietState'
  BY <1>1 DEF RestoreInv
<1>2. CauseInv /\ ThreadTypes /\ Quiet /\ QuietState
  BY DisturbedBefore DEF RestoreInv
<1>3. CASE MainStep
  BY <1>2, <1>3, QuietMain
<1>4. CASE WorkerStep
  BY <1>2, <1>4, QuietWorker
<1>5. CASE AppStep
  BY <1>2, <1>5, QuietApp
<1>6. CASE \/ Connects \/ SessionReady \/ EngineFails \/ TransportLost \/ TransportFails
           \/ \E c \in Channels, ok \in BOOLEAN : OpenAnswered(c, ok)
           \/ \E o \in ops : CallAnswered(o) \/ CallCancelled(o) \/ PacketDiscarded(o)
  <2>1. OnWorker
    BY <1>6 DEF Connects, SessionReady, EngineFails, TransportLost, TransportFails, OpenAnswered,
                CallAnswered, CallCancelled, PacketDiscarded, Answering
  <2> QED  BY <1>2, <1>6, <2>1, QuietEvent
<1>7. CASE UNCHANGED vars
  <2>1. /\ UNCHANGED <<pending, nextRequest, nextChannel, tracked, inflight, rc, held, toWorker,
                       toMain, workerVars>>
    BY <1>7 DEF vars, mainVars, historyVars
  <2>2. Inbox' = Inbox
    BY <2>1 DEF Inbox
  <2> QED  BY <1>2, <2>1, <2>2, ReadQuietly
<1> QED  BY <1>3, <1>4, <1>5, <1>6, <1>7 DEF Next

\* At rest nothing is on its way and no reconnect() in progress: what the
\* application holds is tracked and open.
LEMMA QuietRest == RestoreInv => QuietlyRestored
<1> SUFFICES ASSUME RestoreInv, disturbed = {}, AtRest  PROVE Restored
  BY DEF QuietlyRestored
<1>1. QuietState /\ rc.pc = "idle" /\ \A p \in pending : ~Opens(p)
  <2>1. Quiet
    BY DEF AtRest, Quiet
  <2>2. \A p \in pending : Opens(p) => p.ch \in Channels
    BY Numbers DEF RestoreInv, CauseInv, Opens, Requested, OnChannel
  <2> QED  BY <2>1, <2>2 DEF RestoreInv, AtRest, Opening, Opens
<1>2. Outbox = {}
  <2>1. DOMAIN <<>> = {}
    OBVIOUS
  <2> QED  BY <2>1 DEF Outbox, AtRest
<1>3. Current
  BY <1>2 DEF Current, AtRest
<1>4. held \subseteq Channels /\ held \subseteq tracked
  BY <1>1 DEF QuietState, HeldTracked
<1> QED  BY <1>1, <1>2, <1>3, <1>4 DEF QuietState, ChannelsMatch, Restorable, Restored

\* reconnect() "re-opens subscribe, publish, service, and action channels with
\* the same client-assigned channel IDs so existing session objects keep
\* working" (types.ts), when it is left alone: for any number of channels,
\* requests, attempts and connections, and however the calls and closes of the
\* application interleave with it.
THEOREM QuietlyRestores == Spec => []QuietlyRestored
<1>1. Init => RestoreInv
  BY InitRestore
<1>2. RestoreInv /\ [Next]_vars => RestoreInv'
  BY NextRestore
<1>3. RestoreInv => QuietlyRestored
  BY QuietRest
<1> QED  BY <1>1, <1>2, <1>3, PTL DEF Spec
=============================================================================
