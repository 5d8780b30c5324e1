-------------------------- MODULE RosWorkerProofs ---------------------------
(***************************************************************************)
(* Proofs about the ROS attachment thread, for any number of connections,  *)
(* entities, goals and requests, and any depth of nested calls.            *)
(*                                                                         *)
(* PlaceInv follows the entities: each is in the tables, in one call or    *)
(* finalised; a connection has one command or one call outstanding, so     *)
(* what it names in a command cannot be the entity of a call in progress.  *)
(* OwedInv follows the requests: which are taken, which are owed, and by   *)
(* whom.  ResponseInv follows the responses: where they wait and for what  *)
(* call.  AccountInv, on top of them, says that no request that was taken  *)
(* is out of sight: answered, owed, or given up for a named cause.         *)
(***************************************************************************)
EXTENDS RosWorker, SequenceTheorems, FiniteSetTheorems, TLAPS

Operation == {"publish", "call", "respond", "goal", "cancel", "feedback",
              "result", "destroy"}
CommandSet ==
    [op : {"create"}, conn : Conns, entity : {0}, kind : Kinds]
    \cup [op : Operation, conn : Conns, entity : Entities, arg : Nat]
Frame == [conn : Conns, entity : Entities, stage : Stage, goal : Nat, req : Nat]

PlaceTypes ==
    /\ queue \in Seq(CommandSet)
    /\ stack \in Seq(Frame)
    /\ waiting \in [Conns -> BOOLEAN]
    /\ holds \in [Conns -> SUBSET Entities]
    /\ nextEntity \in 0 .. MaxEntities
    /\ table \subseteq 1 .. nextEntity
    /\ finalised \in [Entities -> Nat]

\* Where an entity is.
Placed ==
    /\ \A e \in table : finalised[e] = 0
    /\ \A i \in DOMAIN stack :
          /\ stack[i].entity \in 1 .. nextEntity
          /\ stack[i].entity \notin table
          /\ finalised[stack[i].entity] = 0
    /\ \A i, j \in DOMAIN stack : stack[i].entity = stack[j].entity => i = j
    /\ \A e \in 1 .. nextEntity :
          e \notin table /\ (\A i \in DOMAIN stack : stack[i].entity # e)
          => finalised[e] = 1
    /\ \A e \in Entities : nextEntity < e => finalised[e] = 0

\* A connection waits for one command or one call.
OneOutstanding ==
    /\ \A i \in DOMAIN queue : waiting[queue[i].conn]
    /\ \A i \in DOMAIN stack : waiting[stack[i].conn]
    /\ \A i, j \in DOMAIN queue : queue[i].conn = queue[j].conn => i = j
    /\ \A i, j \in DOMAIN stack : stack[i].conn = stack[j].conn => i = j
    /\ \A i \in DOMAIN queue, j \in DOMAIN stack : queue[i].conn # stack[j].conn

\* What a connection holds is its own, and usable but for its own call.
Owned ==
    /\ \A c \in Conns : holds[c] \subseteq 1 .. nextEntity
    /\ \A c, d \in Conns : \A e \in holds[c] : e \in holds[d] => c = d
    /\ ~stopped => \A c \in Conns : \A e \in holds[c] :
          \/ e \in table
          \/ \E i \in DOMAIN stack : stack[i].entity = e /\ stack[i].conn = c
    /\ \A i \in DOMAIN stack : stack[i].entity \in holds[stack[i].conn]
    /\ stopped => queue = <<>> /\ stack = <<>>

\* What a command names: something its connection holds, or has just given up.
Named ==
    \A i \in DOMAIN queue :
        /\ queue[i].op = "destroy" =>
              /\ queue[i].entity \in table
              /\ \A c \in Conns : queue[i].entity \notin holds[c]
              /\ \A j \in DOMAIN queue :
                    queue[j].entity = queue[i].entity => i = j
        /\ queue[i].op \notin {"destroy", "create"} =>
              queue[i].entity \in holds[queue[i].conn]

PlaceInv == PlaceTypes /\ Placed /\ OneOutstanding /\ Owned /\ Named

-----------------------------------------------------------------------------
(* Sequences, place by place. *)

LEMMA Appended ==
    ASSUME NEW S, NEW s \in Seq(S), NEW x \in S
    PROVE  /\ Append(s, x) \in Seq(S)
           /\ DOMAIN Append(s, x) = 1 .. Len(s) + 1
           /\ DOMAIN s = 1 .. Len(s) /\ Len(s) \in Nat
           /\ \A i \in 1 .. Len(s) : Append(s, x)[i] = s[i]
           /\ Append(s, x)[Len(s) + 1] = x
BY AppendProperties, LenProperties

LEMMA Tailed ==
    ASSUME NEW S, NEW s \in Seq(S), s # <<>>
    PROVE  /\ Tail(s) \in Seq(S)
           /\ Head(s) = s[1] /\ 1 \in DOMAIN s
           /\ \A i \in DOMAIN Tail(s) : /\ i \in Nat
                                        /\ i + 1 \in DOMAIN s /\ i + 1 # 1
                                        /\ Tail(s)[i] = s[i + 1]
           /\ \A i \in DOMAIN s : i # 1 => i - 1 \in DOMAIN Tail(s)
<1>1. Len(s) \in Nat /\ Len(s) # 0 /\ DOMAIN s = 1 .. Len(s)
  BY LenProperties, EmptySeq
<1>2. Tail(s) \in Seq(S) /\ Len(Tail(s)) = Len(s) - 1
  BY HeadTailProperties
<1>3. DOMAIN Tail(s) = 1 .. Len(s) - 1
  BY <1>1, <1>2, LenProperties
<1>4. \A i \in 1 .. Len(Tail(s)) : Tail(s)[i] = s[i + 1]
  BY HeadTailProperties
<1>5. Head(s) = s[1]
  BY <1>1
<1> QED  BY <1>1, <1>2, <1>3, <1>4, <1>5

LEMMA Fronted ==
    ASSUME NEW S, NEW s \in Seq(S), s # <<>>
    PROVE  /\ Front(s) \in Seq(S)
           /\ Last(s) = s[Len(s)] /\ Len(s) \in DOMAIN s /\ Last(s) \in S
           /\ Len(s) \in Nat \ {0} /\ DOMAIN s = 1 .. Len(s)
           /\ Len(Front(s)) = Len(s) - 1
           /\ DOMAIN Front(s) = 1 .. Len(s) - 1
           /\ \A i \in 1 .. Len(s) - 1 : Front(s)[i] = s[i]
<1>1. Len(s) \in Nat /\ Len(s) # 0 /\ DOMAIN s = 1 .. Len(s)
  BY LenProperties, EmptySeq
<1>2. \A i \in 1 .. Len(s) - 1 : s[i] \in S
  BY <1>1, ElementOfSeq
<1>3. /\ SubSeq(s, 1, Len(s) - 1) \in Seq(S)
      /\ Len(SubSeq(s, 1, Len(s) - 1)) = Len(s) - 1
      /\ \A i \in 1 .. Len(s) - 1 : SubSeq(s, 1, Len(s) - 1)[i] = s[i]
  BY <1>1, <1>2, SubSeqProperties
<1>4. DOMAIN SubSeq(s, 1, Len(s) - 1) = 1 .. Len(s) - 1
  BY <1>3, LenProperties
<1>5. Last(s) = s[Len(s)] /\ s[Len(s)] \in S
  BY <1>1, ElementOfSeq DEF Last
<1> QED  BY <1>1, <1>3, <1>4, <1>5 DEF Front

-----------------------------------------------------------------------------
(* The places of the entities, step by step. *)

LEMMA PlaceInitially == Init => PlaceInv
<1> SUFFICES ASSUME Init PROVE PlaceInv
  OBVIOUS
<1>1. DOMAIN queue = {} /\ DOMAIN stack = {}
  BY DEF Init
<1>2. /\ queue \in Seq(CommandSet) /\ stack \in Seq(Frame)
      /\ MaxEntities \in Nat
  BY WorkerAssumption DEF Init
<1>3. /\ waiting \in [Conns -> BOOLEAN] /\ holds \in [Conns -> SUBSET Entities]
      /\ finalised \in [Entities -> Nat] /\ nextEntity = 0 /\ table = {}
      /\ \A c \in Conns : holds[c] = {}
      /\ \A e \in Entities : finalised[e] = 0
      /\ ~stopped
  BY DEF Init
<1>4. PlaceTypes
  BY <1>2, <1>3 DEF PlaceTypes
<1> QED
  BY <1>1, <1>3, <1>4 DEF PlaceInv, Placed, OneOutstanding, Owned, Named

LEMMA Elements ==
    ASSUME PlaceTypes
    PROVE  /\ \A i \in DOMAIN queue : queue[i] \in CommandSet /\ queue[i].conn \in Conns
           /\ \A i \in DOMAIN stack : /\ stack[i] \in Frame
                                      /\ stack[i].conn \in Conns
                                      /\ stack[i].entity \in Entities
<1>1. \A i \in DOMAIN queue : queue[i] \in CommandSet
  BY ElementOfSeq, LenProperties DEF PlaceTypes
<1>2. \A i \in DOMAIN stack : stack[i] \in Frame
  BY ElementOfSeq, LenProperties DEF PlaceTypes
<1>3. \A x \in CommandSet : x.conn \in Conns
  BY DEF CommandSet
<1>4. \A x \in Frame : x.conn \in Conns /\ x.entity \in Entities
  BY DEF Frame
<1> QED  BY <1>1, <1>2, <1>3, <1>4

LEMMA EntityRange ==
    ASSUME PlaceTypes
    PROVE  /\ nextEntity \in Nat /\ 1 .. nextEntity \subseteq Entities
           /\ table \subseteq Entities
<1>1. MaxEntities \in Nat
  BY WorkerAssumption
<1>2. nextEntity \in 0 .. MaxEntities
  BY DEF PlaceTypes
<1>3. 1 .. nextEntity \subseteq Entities
  BY <1>1, <1>2 DEF Entities
<1> QED  BY <1>1, <1>2, <1>3 DEF PlaceTypes

\* A step that leaves all of it alone.
LEMMA PlaceUntouched ==
    ASSUME PlaceInv,
           UNCHANGED <<queue, waiting, holds, nextEntity, table, finalised,
                       stack, stopped>>
    PROVE  PlaceInv'
BY DEF PlaceInv, PlaceTypes, Placed, OneOutstanding, Owned, Named

\* What a connection sends names something it holds.
LEMMA SentKeepsPlace ==
    ASSUME PlaceInv, NEW c \in Conns, NEW cmd \in CommandSet, Send(c, cmd),
           cmd.conn = c,
           \/ /\ cmd.op # "destroy"
              /\ cmd.op # "create" => cmd.entity \in holds[c]
              /\ holds' = holds
           \/ /\ cmd.op = "destroy" /\ cmd.entity \in holds[c]
              /\ holds' = [holds EXCEPT ![c] = @ \ {cmd.entity}]
    PROVE  PlaceInv'
<1>1. /\ ~stopped /\ ~waiting[c]
      /\ queue' = Append(queue, cmd)
      /\ waiting' = [waiting EXCEPT ![c] = TRUE]
      /\ UNCHANGED <<nextEntity, table, finalised, stack, stopped>>
  BY DEF Send, entityVars
<1>2. /\ queue' \in Seq(CommandSet)
      /\ DOMAIN queue' = 1 .. Len(queue) + 1
      /\ DOMAIN queue = 1 .. Len(queue) /\ Len(queue) \in Nat
      /\ \A i \in DOMAIN queue : queue'[i] = queue[i]
      /\ queue'[Len(queue) + 1] = cmd
  BY <1>1, Appended DEF PlaceInv, PlaceTypes
<1>3. PlaceTypes' /\ Placed'
  BY <1>1, <1>2 DEF PlaceInv, PlaceTypes, Placed
<1>4. /\ \A i \in DOMAIN queue : queue[i].conn # c /\ queue[i].conn \in Conns
      /\ \A i \in DOMAIN stack : stack[i].conn # c /\ stack[i].conn \in Conns
  BY <1>1, Elements DEF PlaceInv, OneOutstanding
<1>5. \A d \in Conns : waiting'[d] <=> d = c \/ waiting[d]
  BY <1>1 DEF PlaceInv, PlaceTypes
<1>6. OneOutstanding'
  BY <1>1, <1>2, <1>4, <1>5 DEF PlaceInv, OneOutstanding
<1>7. \A d \in Conns : holds'[d] \subseteq holds[d] /\ (d # c => holds'[d] = holds[d])
  BY DEF PlaceInv, PlaceTypes
<1>8. Owned'
  BY <1>1, <1>4, <1>7 DEF PlaceInv, Owned
<1>9. cmd.op # "create" => cmd.entity \in holds[c] /\ cmd.entity \in table
  BY <1>1, <1>4 DEF PlaceInv, Owned, CommandSet
<1>10. \A i \in DOMAIN queue : queue[i].op # "create" /\ cmd.op # "create" =>
          queue[i].entity # cmd.entity
  BY <1>4, <1>9 DEF PlaceInv, Named, Owned
<1>11. /\ cmd.op = "create" => cmd.entity = 0
       /\ \A i \in DOMAIN queue : queue[i].op = "create" => queue[i].entity = 0
       /\ \A e \in table : e # 0
  <2>1. \A x \in CommandSet : x.op = "create" => x.entity = 0
    BY DEF CommandSet, Operation
  <2> QED  BY <2>1, Elements DEF PlaceInv, PlaceTypes
<1>12. ASSUME NEW i \in DOMAIN queue'
       PROVE  /\ queue'[i].op = "destroy" =>
                    /\ queue'[i].entity \in table'
                    /\ \A d \in Conns : queue'[i].entity \notin holds'[d]
                    /\ \A j \in DOMAIN queue' :
                          queue'[j].entity = queue'[i].entity => i = j
              /\ queue'[i].op \notin {"destroy", "create"} =>
                    queue'[i].entity \in holds'[queue'[i].conn]
  <2>1. CASE i \in DOMAIN queue
    <3>1. ASSUME queue[i].op = "destroy", NEW j \in DOMAIN queue',
                 queue'[j].entity = queue[i].entity
          PROVE  j = i
      <4>1. CASE j \in DOMAIN queue
        BY <1>2, <2>1, <3>1, <4>1 DEF PlaceInv, Named
      <4>2. CASE j = Len(queue) + 1
        BY <1>2, <1>10, <1>11, <2>1, <3>1, <4>2 DEF PlaceInv, Named
      <4> QED  BY <1>2, <4>1, <4>2
    <3>2. queue[i].op \notin {"destroy", "create"} =>
             queue[i].entity \in holds'[queue[i].conn]
      BY <1>4, <1>7, <2>1 DEF PlaceInv, Named
    <3> QED  BY <1>1, <1>2, <1>7, <2>1, <3>1, <3>2 DEF PlaceInv, Named
  <2>2. CASE i = Len(queue) + 1
    <3>1. ASSUME cmd.op = "destroy", NEW j \in DOMAIN queue',
                 queue'[j].entity = cmd.entity
          PROVE  j = i
      <4>1. CASE j \in DOMAIN queue
        BY <1>2, <1>9, <1>10, <1>11, <2>2, <3>1, <4>1
      <4> QED  BY <1>2, <2>2, <4>1
    <3>2. ASSUME cmd.op = "destroy", NEW d \in Conns PROVE cmd.entity \notin holds'[d]
      <4>1. cmd.entity \in holds[c] /\ holds' = [holds EXCEPT ![c] = @ \ {cmd.entity}]
        BY <3>2
      <4>2. CASE d = c
        BY <4>1, <4>2 DEF PlaceInv, PlaceTypes
      <4>3. CASE d # c
        BY <1>7, <4>1, <4>3 DEF PlaceInv, Owned
      <4> QED  BY <4>2, <4>3
    <3>3. cmd.op \notin {"destroy", "create"} => cmd.entity \in holds'[c]
      BY <1>9
    <3> QED  BY <1>1, <1>2, <1>9, <2>2, <3>1, <3>2, <3>3
  <2> QED  BY <1>2, <2>1, <2>2
<1>13. Named'
  BY <1>12 DEF Named
<1> QED  BY <1>3, <1>6, <1>8, <1>13 DEF PlaceInv

\* The first command leaves the queue.
LEMMA Dequeued ==
    ASSUME PlaceInv, queue # <<>>, queue' = Tail(queue)
    PROVE  /\ queue' \in Seq(CommandSet)
           /\ 1 \in DOMAIN queue /\ Head(queue) = queue[1]
           /\ Head(queue) \in CommandSet /\ Head(queue).conn \in Conns
           /\ \A i \in DOMAIN queue' : /\ i + 1 \in DOMAIN queue /\ i + 1 # 1
                                       /\ i \in Nat
                                       /\ queue'[i] = queue[i + 1]
                                       /\ queue'[i].conn # Head(queue).conn
           /\ \A i, j \in DOMAIN queue' : queue'[i].conn = queue'[j].conn => i = j
<1>1. /\ queue' \in Seq(CommandSet)
      /\ 1 \in DOMAIN queue /\ Head(queue) = queue[1]
      /\ \A i \in DOMAIN queue' : /\ i + 1 \in DOMAIN queue /\ i + 1 # 1
                                  /\ i \in Nat
                                  /\ queue'[i] = queue[i + 1]
  BY Tailed DEF PlaceInv, PlaceTypes
<1>2. Head(queue) \in CommandSet /\ Head(queue).conn \in Conns
  BY <1>1, Elements DEF PlaceInv
<1>3. \A i \in DOMAIN queue' : queue'[i].conn # Head(queue).conn
  BY <1>1 DEF PlaceInv, OneOutstanding
<1>4. ASSUME NEW i \in DOMAIN queue', NEW j \in DOMAIN queue',
             queue'[i].conn = queue'[j].conn
      PROVE  i = j
  <2>1. i + 1 = j + 1
    BY <1>1, <1>4 DEF PlaceInv, OneOutstanding
  <2> QED  BY <1>1, <2>1
<1> QED  BY <1>1, <1>2, <1>3, <1>4

\* The commands that are left name what they named: an entity that leaves the
\* table must be the one of the command that was taken, or one held.
LEMMA DequeuedNames ==
    ASSUME PlaceInv, queue # <<>>, queue' = Tail(queue),
           \A c \in Conns : holds'[c] = holds[c],
           \A e \in table : \/ e \in table'
                            \/ e = Head(queue).entity
    PROVE  Named'
<1>1. /\ 1 \in DOMAIN queue /\ Head(queue) = queue[1]
      /\ \A i \in DOMAIN queue' : /\ i + 1 \in DOMAIN queue /\ i + 1 # 1
                                  /\ i \in Nat
                                  /\ queue'[i] = queue[i + 1]
  BY Dequeued
<1>2. \A i \in DOMAIN queue' : queue'[i].conn \in Conns
  BY <1>1, Elements DEF PlaceInv
<1>3. ASSUME NEW i \in DOMAIN queue', queue'[i].op = "destroy",
             NEW j \in DOMAIN queue', queue'[j].entity = queue'[i].entity
      PROVE  i = j
  <2>1. i + 1 = j + 1
    BY <1>1, <1>3 DEF PlaceInv, Named
  <2> QED  BY <1>1, <2>1
<1>4. ASSUME NEW i \in DOMAIN queue', queue'[i].op = "destroy"
      PROVE  queue'[i].entity \in table'
  <2>1. queue'[i].entity \in table /\ queue'[i].entity # Head(queue).entity
    BY <1>1, <1>4 DEF PlaceInv, Named
  <2> QED  BY <2>1
<1> QED  BY <1>1, <1>2, <1>3, <1>4 DEF PlaceInv, Named

\* A command that is answered and changes no entity.
LEMMA AnsweredKeepsPlace ==
    ASSUME PlaceInv, queue # <<>>, Taken(TRUE),
           UNCHANGED <<holds, nextEntity, table, finalised, stack, stopped>>
    PROVE  PlaceInv'
<1>1. queue' = Tail(queue) /\ waiting' = [waiting EXCEPT ![Head(queue).conn] = FALSE]
  BY DEF Taken
<1>2. Named'
  BY <1>1, DequeuedNames
<1>3. /\ queue' \in Seq(CommandSet)
      /\ 1 \in DOMAIN queue /\ Head(queue) = queue[1]
      /\ Head(queue).conn \in Conns
      /\ \A i \in DOMAIN queue' : /\ i + 1 \in DOMAIN queue
                                  /\ queue'[i] = queue[i + 1]
                                  /\ queue'[i].conn # Head(queue).conn
      /\ \A i, j \in DOMAIN queue' : queue'[i].conn = queue'[j].conn => i = j
  BY <1>1, Dequeued
<1>4. PlaceTypes' /\ Placed'
  BY <1>1, <1>3 DEF PlaceInv, PlaceTypes, Placed
<1>5. \A d \in Conns : d # Head(queue).conn => waiting'[d] = waiting[d]
  BY <1>1 DEF PlaceInv, PlaceTypes
<1>6. \A i \in DOMAIN stack : stack[i].conn \in Conns /\ stack[i].conn # Head(queue).conn
  BY <1>3, Elements DEF PlaceInv, OneOutstanding
<1>7. \A i \in DOMAIN queue' : queue'[i].conn \in Conns
  BY <1>3, Elements DEF PlaceInv
<1>8. OneOutstanding'
  BY <1>3, <1>5, <1>6, <1>7 DEF PlaceInv, OneOutstanding
<1>9. queue' = <<>> \/ ~stopped
  BY DEF PlaceInv, Owned
<1>10. Owned'
  BY <1>9 DEF PlaceInv, Owned
<1> QED  BY <1>2, <1>4, <1>8, <1>10 DEF PlaceInv

\* A new entity goes to the table and to its connection.
LEMMA CreatedKeepsPlace ==
    ASSUME PlaceInv, HandleCreate(TRUE)
    PROVE  PlaceInv'
<1> DEFINE e == nextEntity + 1
           c == Head(queue).conn
<1>1. /\ queue # <<>> /\ ~stopped /\ queue' = Tail(queue)
      /\ waiting' = [waiting EXCEPT ![c] = FALSE]
      /\ e \in Entities /\ nextEntity' = e /\ table' = table \cup {e}
      /\ holds' = [holds EXCEPT ![c] = @ \cup {e}]
      /\ UNCHANGED <<finalised, stack, stopped>>
  BY DEF HandleCreate, NextIs, Taken
<1>2. /\ queue' \in Seq(CommandSet)
      /\ 1 \in DOMAIN queue /\ Head(queue) = queue[1]
      /\ c \in Conns
      /\ \A i \in DOMAIN queue' : /\ i + 1 \in DOMAIN queue
                                  /\ i \in Nat
                                  /\ queue'[i] = queue[i + 1]
                                  /\ queue'[i].conn # c
      /\ \A i, j \in DOMAIN queue' : queue'[i].conn = queue'[j].conn => i = j
  BY <1>1, Dequeued
<1>3. e \in Nat /\ e \notin 1 .. nextEntity /\ 1 .. e = (1 .. nextEntity) \cup {e}
      /\ e \in 0 .. MaxEntities
  BY <1>1, WorkerAssumption DEF PlaceInv, PlaceTypes, Entities
<1> HIDE DEF e, c
<1>4. PlaceTypes'
  BY <1>1, <1>2, <1>3 DEF PlaceInv, PlaceTypes
<1>5. finalised[e] = 0 /\ \A x \in Entities : e < x => finalised[x] = 0
  <2>1. nextEntity < e /\ nextEntity \in Nat /\ Entities \subseteq Nat
    BY WorkerAssumption DEF e, PlaceInv, PlaceTypes, Entities
  <2> QED  BY <1>1, <1>3, <2>1 DEF PlaceInv, Placed
<1>6. \A i \in DOMAIN stack : stack[i].entity # e /\ stack[i].conn \in Conns
                              /\ stack[i].conn # c
  BY <1>1, <1>2, <1>3, Elements DEF PlaceInv, Placed, OneOutstanding, c
<1>7. Placed'
  BY <1>1, <1>3, <1>5, <1>6 DEF PlaceInv, Placed
<1>8. \A d \in Conns : d # c => waiting'[d] = waiting[d] /\ holds'[d] = holds[d]
  BY <1>1 DEF PlaceInv, PlaceTypes
<1>9. \A i \in DOMAIN queue' : queue'[i].conn \in Conns
  BY <1>2, Elements DEF PlaceInv
<1>10. OneOutstanding'
  BY <1>1, <1>2, <1>6, <1>8, <1>9 DEF PlaceInv, OneOutstanding
<1>11. holds'[c] = holds[c] \cup {e}
  BY <1>1, <1>2 DEF PlaceInv, PlaceTypes
<1>12. \A d \in Conns : e \notin holds[d]
  BY <1>3 DEF PlaceInv, Owned
<1>13. Owned'
  BY <1>1, <1>2, <1>3, <1>6, <1>8, <1>11, <1>12 DEF PlaceInv, Owned
<1>14. Named'
  <2>1. ASSUME NEW i \in DOMAIN queue', queue'[i].op = "destroy"
        PROVE  /\ queue'[i].entity \in table'
               /\ \A d \in Conns : queue'[i].entity \notin holds'[d]
    <3>1. /\ queue'[i].entity \in table
          /\ \A d \in Conns : queue'[i].entity \notin holds[d]
      BY <1>2, <2>1 DEF PlaceInv, Named
    <3>2. queue'[i].entity # e
      BY <1>3, <3>1 DEF PlaceInv, PlaceTypes
    <3> QED  BY <1>1, <1>8, <1>11, <3>1, <3>2
  <2>2. ASSUME NEW i \in DOMAIN queue', queue'[i].op = "destroy",
               NEW j \in DOMAIN queue', queue'[j].entity = queue'[i].entity
        PROVE  i = j
    <3>1. i + 1 = j + 1
      BY <1>2, <2>2 DEF PlaceInv, Named
    <3> QED  BY <1>2, <3>1
  <2>3. ASSUME NEW i \in DOMAIN queue', queue'[i].op \notin {"destroy", "create"}
        PROVE  queue'[i].entity \in holds'[queue'[i].conn]
    <3>1. queue'[i].entity \in holds[queue'[i].conn]
      BY <1>2, <2>3 DEF PlaceInv, Named
    <3> QED  BY <1>2, <1>8, <1>9, <3>1
  <2> QED  BY <2>1, <2>2, <2>3 DEF Named
<1> QED  BY <1>4, <1>7, <1>10, <1>13, <1>14 DEF PlaceInv

\* A call takes its entity out of the table.
LEMMA CalledKeepsPlace ==
    ASSUME PlaceInv, NEW op \in {"call", "goal"}, NEW stage \in {"service", "goal"},
           HandleCall(op, stage, TRUE), Len(req) \in Nat
    PROVE  PlaceInv'
<1> DEFINE e == Head(queue).entity
           c == Head(queue).conn
           f == [conn |-> c, entity |-> e, stage |-> stage,
                 goal |-> Head(queue).arg, req |-> Len(req) + 1]
<1>1. /\ queue # <<>> /\ ~stopped /\ queue' = Tail(queue) /\ waiting' = waiting
      /\ e \in table /\ table' = table \ {e}
      /\ stack' = Append(stack, f)
      /\ Head(queue).op = op
      /\ UNCHANGED <<holds, nextEntity, finalised, stopped>>
  BY DEF HandleCall, NextIs, Taken
<1>2. /\ queue' \in Seq(CommandSet)
      /\ 1 \in DOMAIN queue /\ Head(queue) = queue[1]
      /\ Head(queue) \in CommandSet /\ c \in Conns
      /\ \A i \in DOMAIN queue' : /\ i + 1 \in DOMAIN queue
                                  /\ queue'[i] = queue[i + 1]
                                  /\ queue'[i].conn # c
      /\ \A i, j \in DOMAIN queue' : queue'[i].conn = queue'[j].conn => i = j
  BY <1>1, Dequeued
<1>3. f \in Frame
  <2>1. \A x \in CommandSet : x.op = op => x.entity \in Entities /\ x.arg \in Nat
    BY DEF CommandSet, Operation
  <2> QED  BY <1>1, <1>2, <2>1 DEF Frame, Stage
<1>4. f.entity = e /\ f.conn = c
  OBVIOUS
<1> HIDE DEF f
<1>5. /\ stack' \in Seq(Frame)
      /\ DOMAIN stack' = 1 .. Len(stack) + 1
      /\ DOMAIN stack = 1 .. Len(stack) /\ Len(stack) \in Nat
      /\ \A i \in DOMAIN stack : stack'[i] = stack[i]
      /\ stack'[Len(stack) + 1] = f
  BY <1>1, <1>3, Appended DEF PlaceInv, PlaceTypes
<1>6. Named'
  BY <1>1, DequeuedNames
<1>7. e \in holds[c]
  BY <1>1, <1>2 DEF PlaceInv, Named
<1> HIDE DEF e, c
<1>8. PlaceTypes'
  BY <1>1, <1>2, <1>5 DEF PlaceInv, PlaceTypes
<1>9. \A i \in DOMAIN stack : stack[i].entity # e /\ stack[i].conn # c
  BY <1>1, <1>2 DEF PlaceInv, Placed, OneOutstanding, c
<1>10. e \in 1 .. nextEntity /\ finalised[e] = 0
  BY <1>1 DEF PlaceInv, PlaceTypes, Placed
<1>11. Placed'
  BY <1>1, <1>4, <1>5, <1>9, <1>10 DEF PlaceInv, Placed
<1>12. waiting[c]
  BY <1>2 DEF PlaceInv, OneOutstanding, c
<1>13. OneOutstanding'
  BY <1>1, <1>2, <1>4, <1>5, <1>9, <1>12 DEF PlaceInv, OneOutstanding
<1>14. \A d \in Conns : e \in holds[d] => d = c
  BY <1>2, <1>7 DEF PlaceInv, Owned
<1>15. Owned'
  <2>1. ASSUME NEW d \in Conns, NEW x \in holds[d]
        PROVE  \/ x \in table'
               \/ \E i \in DOMAIN stack' : stack'[i].entity = x /\ stack'[i].conn = d
    <3>1. CASE x = e
      BY <1>4, <1>5, <1>14, <2>1, <3>1
    <3>2. CASE x # e
      BY <1>1, <1>5, <2>1, <3>2 DEF PlaceInv, Owned
    <3> QED  BY <3>1, <3>2
  <2>2. \A i \in DOMAIN stack' : stack'[i].entity \in holds[stack'[i].conn]
    BY <1>4, <1>5, <1>7 DEF PlaceInv, Owned
  <2> QED  BY <1>1, <2>1, <2>2 DEF PlaceInv, Owned
<1> QED  BY <1>6, <1>8, <1>11, <1>13, <1>15 DEF PlaceInv

\* A destroyed entity leaves the table for good.
LEMMA DestroyedKeepsPlace ==
    ASSUME PlaceInv, HandleDestroy
    PROVE  PlaceInv'
<1> DEFINE e == Head(queue).entity
           c == Head(queue).conn
<1>1. /\ queue # <<>> /\ ~stopped /\ queue' = Tail(queue)
      /\ Taken(TRUE) /\ waiting' = [waiting EXCEPT ![c] = FALSE]
      /\ Head(queue).op = "destroy"
      /\ UNCHANGED <<holds, nextEntity, stack, stopped>>
  BY DEF HandleDestroy, NextIs, Taken
<1>2. /\ queue' \in Seq(CommandSet)
      /\ 1 \in DOMAIN queue /\ Head(queue) = queue[1]
      /\ c \in Conns
      /\ \A i \in DOMAIN queue' : /\ i + 1 \in DOMAIN queue
                                  /\ queue'[i] = queue[i + 1]
                                  /\ queue'[i].conn # c
      /\ \A i, j \in DOMAIN queue' : queue'[i].conn = queue'[j].conn => i = j
  BY <1>1, Dequeued
<1>3. e \in table /\ \A d \in Conns : e \notin holds[d]
  BY <1>1, <1>2 DEF PlaceInv, Named
<1>4. table' = table \ {e} /\ finalised' = [finalised EXCEPT ![e] = @ + 1]
  BY <1>3 DEF HandleDestroy
<1>5. Named'
  BY <1>1, <1>4, DequeuedNames
<1> HIDE DEF e, c
<1>6. e \in 1 .. nextEntity /\ e \in Entities /\ finalised[e] = 0
  BY <1>3, EntityRange DEF PlaceInv, PlaceTypes, Placed
<1>7. PlaceTypes'
  BY <1>1, <1>2, <1>4, <1>6 DEF PlaceInv, PlaceTypes
<1>8. finalised'[e] = 1 /\ \A x \in Entities : x # e => finalised'[x] = finalised[x]
  BY <1>4, <1>6 DEF PlaceInv, PlaceTypes
<1>9. 1 .. nextEntity \subseteq Entities
  BY EntityRange DEF PlaceInv
<1>10. \A i \in DOMAIN stack : stack[i].entity # e
  BY <1>3 DEF PlaceInv, Placed
<1>11. Placed'
  <2>1. \A x \in Entities : nextEntity < x => x # e
    BY <1>6 DEF PlaceInv, PlaceTypes, Entities
  <2>2. table' \subseteq Entities
    BY <1>4, <1>9 DEF PlaceInv, PlaceTypes
  <2> QED  BY <1>1, <1>4, <1>8, <1>9, <1>10, <2>1, <2>2 DEF PlaceInv, Placed
<1>12. \A d \in Conns : d # c => waiting'[d] = waiting[d]
  BY <1>1 DEF PlaceInv, PlaceTypes
<1>13. \A i \in DOMAIN stack : stack[i].conn \in Conns /\ stack[i].conn # c
  BY <1>2, Elements DEF PlaceInv, OneOutstanding, c
<1>14. \A i \in DOMAIN queue' : queue'[i].conn \in Conns
  BY <1>2, Elements DEF PlaceInv
<1>15. OneOutstanding'
  BY <1>1, <1>2, <1>12, <1>13, <1>14 DEF PlaceInv, OneOutstanding
<1>16. Owned'
  BY <1>1, <1>3, <1>4 DEF PlaceInv, Owned
<1> QED  BY <1>5, <1>7, <1>11, <1>15, <1>16 DEF PlaceInv

\* The innermost call ends and its entity goes back.
LEMMA ReturnKeepsPlace ==
    ASSUME PlaceInv, stack # <<>>, Return,
           UNCHANGED <<queue, holds, nextEntity, finalised, stopped>>
    PROVE  PlaceInv'
<1> DEFINE f == Last(stack)
           n == Len(stack)
<1>1. /\ stack' \in Seq(Frame)
      /\ f = stack[n] /\ n \in DOMAIN stack /\ n \in Nat \ {0}
      /\ DOMAIN stack = 1 .. n /\ DOMAIN stack' = 1 .. n - 1
      /\ \A i \in DOMAIN stack' : stack'[i] = stack[i] /\ i \in DOMAIN stack /\ i # n
  <2>1. stack' = Front(stack)
    BY DEF Return
  <2>2. /\ Front(stack) \in Seq(Frame)
        /\ Last(stack) = stack[n] /\ n \in DOMAIN stack
        /\ n \in Nat \ {0} /\ DOMAIN stack = 1 .. n
        /\ DOMAIN Front(stack) = 1 .. n - 1
        /\ \A i \in 1 .. n - 1 : Front(stack)[i] = stack[i]
    BY Fronted DEF PlaceInv, PlaceTypes
  <2> QED  BY <2>1, <2>2
<1>2. /\ table' = table \cup {f.entity}
      /\ waiting' = [waiting EXCEPT ![f.conn] = FALSE]
  BY DEF Return
<1>3. /\ f.conn \in Conns /\ f.entity \in 1 .. nextEntity /\ finalised[f.entity] = 0
      /\ f.entity \notin table /\ f.entity \in holds[f.conn]
  BY <1>1, Elements DEF PlaceInv, Placed, Owned
<1>4. /\ \A i \in DOMAIN stack' : /\ stack[i].entity # f.entity
                                  /\ stack[i].conn # f.conn
                                  /\ stack[i].conn \in Conns
      /\ \A i \in DOMAIN queue : queue[i].conn # f.conn /\ queue[i].conn \in Conns
  BY <1>1, Elements DEF PlaceInv, Placed, OneOutstanding
<1>5. \A i \in DOMAIN stack : i \in DOMAIN stack' \/ i = n
  BY <1>1
<1> HIDE DEF f, n
<1>6. PlaceTypes'
  <2>1. waiting' \in [Conns -> BOOLEAN]
    BY <1>2 DEF PlaceInv, PlaceTypes
  <2>2. table' \subseteq 1 .. nextEntity'
    BY <1>2, <1>3 DEF PlaceInv, PlaceTypes
  <2> QED  BY <1>1, <2>1, <2>2 DEF PlaceInv, PlaceTypes
<1>7. Placed'
  <2>1. \A e \in table' : finalised'[e] = 0
    BY <1>2, <1>3 DEF PlaceInv, Placed
  <2>2. \A i \in DOMAIN stack' : /\ stack'[i].entity \in 1 .. nextEntity'
                                 /\ stack'[i].entity \notin table'
                                 /\ finalised'[stack'[i].entity] = 0
    BY <1>1, <1>2, <1>4 DEF PlaceInv, Placed
  <2>3. \A i, j \in DOMAIN stack' : stack'[i].entity = stack'[j].entity => i = j
    BY <1>1 DEF PlaceInv, Placed
  <2>4. ASSUME NEW e \in 1 .. nextEntity', e \notin table',
               \A i \in DOMAIN stack' : stack'[i].entity # e
        PROVE  finalised'[e] = 1
    <3>1. \A i \in DOMAIN stack : stack[i].entity # e
      BY <1>1, <1>2, <1>5, <2>4
    <3> QED  BY <1>2, <2>4, <3>1 DEF PlaceInv, Placed
  <2>5. \A e \in Entities : nextEntity' < e => finalised'[e] = 0
    BY DEF PlaceInv, Placed
  <2> QED  BY <2>1, <2>2, <2>3, <2>4, <2>5 DEF Placed
<1>8. \A d \in Conns : d # f.conn => waiting'[d] = waiting[d]
  BY <1>2 DEF PlaceInv, PlaceTypes
<1>9. OneOutstanding'
  BY <1>1, <1>4, <1>8 DEF PlaceInv, OneOutstanding
<1>10. ~stopped
  BY <1>1 DEF PlaceInv, Owned
<1>11. Owned'
  BY <1>1, <1>2, <1>5, <1>10 DEF PlaceInv, Owned
<1>12. Named'
  BY <1>2 DEF PlaceInv, Named
<1> QED  BY <1>6, <1>7, <1>9, <1>11, <1>12 DEF PlaceInv

\* The calls in progress keep their entities and their connections.
LEMMA SameCallsKeepPlace ==
    ASSUME PlaceInv, ~stopped, stack' \in Seq(Frame), DOMAIN stack' = DOMAIN stack,
           \A i \in DOMAIN stack : /\ stack'[i].entity = stack[i].entity
                                   /\ stack'[i].conn = stack[i].conn,
           UNCHANGED <<queue, waiting, holds, nextEntity, table, finalised, stopped>>
    PROVE  PlaceInv'
<1>1. PlaceTypes' /\ Named'
  BY DEF PlaceInv, PlaceTypes, Named
<1>2. Placed'
  BY DEF PlaceInv, Placed
<1>3. OneOutstanding'
  BY DEF PlaceInv, OneOutstanding
<1>4. Owned'
  BY DEF PlaceInv, Owned
<1> QED  BY <1>1, <1>2, <1>3, <1>4 DEF PlaceInv

\* A goal that goes on to ask for its result is the same call.
LEMMA GoesOnKeepsPlace ==
    ASSUME PlaceInv, stack # <<>>, Len(req) \in Nat,
           stack' = Append(Front(stack),
                       [conn |-> Last(stack).conn, entity |-> Last(stack).entity,
                        stage |-> "result", goal |-> Last(stack).goal,
                        req |-> Len(req) + 1]),
           UNCHANGED <<queue, waiting, holds, nextEntity, table, finalised, stopped>>
    PROVE  PlaceInv'
<1> DEFINE f == [conn |-> Last(stack).conn, entity |-> Last(stack).entity,
                 stage |-> "result", goal |-> Last(stack).goal,
                 req |-> Len(req) + 1]
           n == Len(stack)
<1>1. /\ Front(stack) \in Seq(Frame)
      /\ Last(stack) = stack[n] /\ n \in DOMAIN stack /\ Last(stack) \in Frame
      /\ n \in Nat \ {0} /\ DOMAIN stack = 1 .. n
      /\ Len(Front(stack)) = n - 1
      /\ \A i \in 1 .. n - 1 : Front(stack)[i] = stack[i]
  BY Fronted DEF PlaceInv, PlaceTypes
<1>2. f \in Frame
  BY <1>1 DEF Frame, Stage
<1>3. f.entity = stack[n].entity /\ f.conn = stack[n].conn
  BY <1>1
<1>4. stack' = Append(Front(stack), f)
  OBVIOUS
<1> HIDE DEF f, n
<1>5. /\ stack' \in Seq(Frame) /\ DOMAIN stack' = 1 .. (n - 1) + 1
      /\ \A i \in 1 .. n - 1 : stack'[i] = stack[i]
      /\ stack'[(n - 1) + 1] = f
  BY <1>1, <1>2, <1>4, Appended
<1>6. /\ DOMAIN stack' = DOMAIN stack
      /\ \A i \in DOMAIN stack : /\ stack'[i].entity = stack[i].entity
                                 /\ stack'[i].conn = stack[i].conn
  BY <1>1, <1>3, <1>5
<1>7. ~stopped
  BY <1>1 DEF PlaceInv, Owned
<1> QED  BY <1>5, <1>6, <1>7, SameCallsKeepPlace

\* The thread ends outside every call, and finalises what is in the table.
LEMMA EndsKeepsPlace ==
    ASSUME PlaceInv, ThreadEnds PROVE PlaceInv'
<1>1. /\ stack = <<>> /\ queue' = <<>> /\ table' = {} /\ stopped'
      /\ waiting' = [c \in Conns |-> FALSE]
      /\ finalised' = [e \in Entities |-> IF e \in table THEN finalised[e] + 1
                                                         ELSE finalised[e]]
      /\ UNCHANGED <<holds, nextEntity, stack>>
  BY DEF ThreadEnds
<1>2. DOMAIN queue' = {} /\ DOMAIN stack = {}
  BY <1>1
<1>3. PlaceTypes'
  <2>1. queue' \in Seq(CommandSet)
    BY <1>1
  <2> QED  BY <1>1, <2>1 DEF PlaceInv, PlaceTypes
<1>4. 1 .. nextEntity \subseteq Entities /\ table \subseteq 1 .. nextEntity
      /\ nextEntity \in Nat
  BY WorkerAssumption DEF PlaceInv, PlaceTypes, Entities
<1>5. /\ \A e \in 1 .. nextEntity : finalised'[e] = 1
      /\ \A e \in Entities : nextEntity < e => finalised'[e] = 0
  <2>1. \A e \in table : finalised[e] + 1 = 1
    BY DEF PlaceInv, Placed
  <2>2. \A e \in 1 .. nextEntity : e \notin table => finalised[e] = 1
    BY <1>2 DEF PlaceInv, Placed
  <2>3. \A e \in Entities : nextEntity < e => finalised[e] = 0 /\ e \notin table
    BY <1>4 DEF PlaceInv, Placed, Entities
  <2> QED  BY <1>1, <1>4, <2>1, <2>2, <2>3
<1>6. Placed'
  BY <1>1, <1>2, <1>5 DEF Placed
<1> QED  BY <1>1, <1>2, <1>3, <1>6 DEF PlaceInv, OneOutstanding, Owned, Named

-----------------------------------------------------------------------------
(* The requests, and who owes an answer. *)

RequestRecord ==
    [asker : Entities \cup {0}, stage : Stage, goal : Nat, taken : BOOLEAN,
     answers : {0, 1}]
Slot == [open : BOOLEAN, header : Nat, result : BOOLEAN, succeeded : BOOLEAN]

\* What names a goal names one of Goals.
CallsNameGoals ==
    /\ \A i \in DOMAIN queue :
          queue[i].op \in {"goal", "result"} => queue[i].arg \in Goals
    /\ \A i \in DOMAIN stack : stack[i].stage # "service" => stack[i].goal \in Goals

RequestsNameGoals ==
    \A n \in DOMAIN req : req[n].stage # "service" => req[n].goal \in Goals

OwedTypes ==
    /\ req \in Seq(RequestRecord)
    /\ pending \in [Entities -> SUBSET Nat]
    /\ goals \in [Entities -> [Goals -> Slot]]

\* A request that nobody took is not answered.
AnsweredWereTaken ==
    \A n \in DOMAIN req : req[n].answers = 1 => req[n].taken

\* A request is pending at one service, taken and not answered.
PendingOwed ==
    /\ \A e \in Entities : \A n \in pending[e] :
          /\ n \in DOMAIN req
          /\ req[n].stage = "service" /\ req[n].taken /\ req[n].answers = 0
    /\ \A e, d \in Entities : \A n \in pending[e] : n \in pending[d] => d = e

\* A header kept for a goal without a result is that of one request for it.
HeadersOwed ==
    /\ \A e \in Entities, g \in Goals :
          LET h == goals[e][g].header
          IN  h # 0 => /\ ~goals[e][g].result
                       /\ h \in DOMAIN req /\ req[h].goal = g
                       /\ req[h].stage = "result" /\ req[h].taken
                       /\ req[h].answers = 0
    /\ \A e, d \in Entities, g \in Goals :
          goals[e][g].header # 0 /\ goals[d][g].header = goals[e][g].header
          => d = e

OwedInv ==
    OwedTypes /\ RequestsNameGoals /\ AnsweredWereTaken /\ PendingOwed /\ HeadersOwed

\* The responses that wait at a client are to its own requests, once each.
ResponsesWait ==
    /\ inbox \in [Entities -> Seq(Nat)]
    /\ \A e \in Entities : \A i \in DOMAIN inbox[e] :
          /\ inbox[e][i] \in DOMAIN req
          /\ req[inbox[e][i]].asker = e /\ req[inbox[e][i]].answers = 1
    /\ \A e \in Entities : \A i, j \in DOMAIN inbox[e] :
          inbox[e][i] = inbox[e][j] => i = j

\* The call in progress of an entity waits for request n.
AwaitedNow(e, n) ==
    \E i \in DOMAIN stack : stack[i].entity = e /\ stack[i].req = n

\* The response to request n came, and does not wait any more.
Consumed(e, n) ==
    req[n].answers = 1 /\ \A i \in DOMAIN inbox[e] : inbox[e][i] # n

\* A client of which no call gave up has no request left but its call's own.
NoneLeftOver ==
    \A e \in Entities \ timedOut : \A n \in DOMAIN req :
        req[n].asker = e => AwaitedNow(e, n) \/ Consumed(e, n)

ResponseInv == ResponsesWait /\ NoneLeftOver /\ NestingKeepsAnswersApart

WorkerInv == PlaceInv /\ CallsNameGoals /\ OwedInv /\ ResponseInv

-----------------------------------------------------------------------------
(* What the steps do to the requests, request by request. *)

\* Request n is taken, answered, or both, and no other field changes.
Marked(n, taken, answers) ==
    /\ req' \in Seq(RequestRecord)
    /\ DOMAIN req' = DOMAIN req
    /\ (req'[n].taken <=> taken) /\ req'[n].answers = answers
    /\ \A k \in DOMAIN req : /\ req'[k].asker = req[k].asker
                             /\ req'[k].stage = req[k].stage
                             /\ req'[k].goal = req[k].goal
    /\ \A k \in DOMAIN req : k # n => /\ (req'[k].taken <=> req[k].taken)
                                      /\ req'[k].answers = req[k].answers

LEMMA Remarked ==
    ASSUME req \in Seq(RequestRecord), NEW n \in DOMAIN req,
           NEW r \in RequestRecord,
           r.asker = req[n].asker, r.stage = req[n].stage, r.goal = req[n].goal,
           req' = [req EXCEPT ![n] = r]
    PROVE  Marked(n, r.taken, r.answers)
<1>1. n \in 1 .. Len(req) /\ DOMAIN req = 1 .. Len(req)
  BY LenProperties
<1>2. /\ req' \in Seq(RequestRecord)
      /\ Len(req') = Len(req)
      /\ \A j \in 1 .. Len(req) : req'[j] = IF j = n THEN r ELSE req[j]
  BY <1>1, ExceptSeq
<1>3. DOMAIN req' = 1 .. Len(req)
  BY <1>2, LenProperties
<1> QED  BY <1>1, <1>2, <1>3 DEF Marked

LEMMA NotedMarks ==
    ASSUME OwedTypes, NEW n \in DOMAIN req, NEW taken \in BOOLEAN,
           NEW answers \in {0, 1}, req' = Noted(n, taken, answers)
    PROVE  Marked(n, taken, answers)
<1> DEFINE r == [asker |-> req[n].asker, stage |-> req[n].stage,
                 goal |-> req[n].goal, taken |-> taken, answers |-> answers]
<1>1. req[n] \in RequestRecord
  BY ElementOfSeq, LenProperties DEF OwedTypes
<1>2. r \in RequestRecord
  BY <1>1 DEF RequestRecord
<1>3. req' = [req EXCEPT ![n] = r]
  BY DEF Noted
<1>4. /\ r.asker = req[n].asker /\ r.stage = req[n].stage /\ r.goal = req[n].goal
      /\ r.taken = taken /\ r.answers = answers
  OBVIOUS
<1>5. req \in Seq(RequestRecord)
  BY DEF OwedTypes
<1> HIDE DEF r
<1>6. Marked(n, r.taken, r.answers)
  BY <1>2, <1>3, <1>4, <1>5, Remarked
<1> QED  BY <1>4, <1>6

LEMMA AskedAppends ==
    ASSUME OwedTypes, NEW asker \in Entities \cup {0}, NEW stage \in Stage,
           NEW goal \in Nat, req' = Append(req, Request(asker, stage, goal))
    PROVE  /\ req' \in Seq(RequestRecord)
           /\ DOMAIN req' = 1 .. Len(req) + 1
           /\ DOMAIN req = 1 .. Len(req) /\ Len(req) \in Nat
           /\ \A k \in DOMAIN req : k \in DOMAIN req' /\ req'[k] = req[k]
           /\ \A k \in DOMAIN req' : k \in DOMAIN req \/ k = Len(req) + 1
           /\ req'[Len(req) + 1] = Request(asker, stage, goal)
<1>1. Request(asker, stage, goal) \in RequestRecord
  BY DEF Request, RequestRecord
<1>2. req \in Seq(RequestRecord)
  BY DEF OwedTypes
<1>3. /\ req' \in Seq(RequestRecord)
      /\ DOMAIN req' = 1 .. Len(req) + 1
      /\ DOMAIN req = 1 .. Len(req) /\ Len(req) \in Nat
      /\ \A k \in 1 .. Len(req) : req'[k] = req[k]
      /\ req'[Len(req) + 1] = Request(asker, stage, goal)
  BY <1>1, <1>2, Appended
<1> QED  BY <1>3

SlotPut(e, g, v) == goals' = [goals EXCEPT ![e][g] = v]

LEMMA SlotSet ==
    ASSUME OwedTypes, NEW e \in Entities, NEW g \in Goals, NEW v \in Slot,
           SlotPut(e, g, v)
    PROVE  /\ goals' \in [Entities -> [Goals -> Slot]]
           /\ goals'[e][g] = v
           /\ \A d \in Entities, h \in Goals :
                 d # e \/ h # g => goals'[d][h] = goals[d][h]
<1> DEFINE row == [goals[e] EXCEPT ![g] = v]
<1>1. /\ row \in [Goals -> Slot] /\ row[g] = v
      /\ \A h \in Goals : h # g => row[h] = goals[e][h]
  BY DEF OwedTypes
<1>2. goals' = [goals EXCEPT ![e] = row]
  BY DEF SlotPut
<1> HIDE DEF row
<1> QED  BY <1>1, <1>2 DEF OwedTypes

\* Who is owed, when request n was marked: nobody new.
LEMMA OwedLess ==
    ASSUME OwedInv, NEW n \in DOMAIN req, NEW taken \in BOOLEAN,
           NEW answers \in {0, 1}, Marked(n, taken, answers),
           answers = 1 => taken,
           pending' \in [Entities -> SUBSET Nat],
           goals' \in [Entities -> [Goals -> Slot]],
           \A e \in Entities : pending'[e] \subseteq pending[e] \ {n},
           \A e \in Entities, g \in Goals :
              \/ goals'[e][g].header = 0
              \/ goals'[e][g] = goals[e][g] /\ goals[e][g].header # n
    PROVE  OwedInv'
<1>1. OwedTypes' /\ RequestsNameGoals' /\ AnsweredWereTaken'
  BY DEF OwedInv, OwedTypes, Marked, RequestsNameGoals, AnsweredWereTaken
<1>2. PendingOwed'
  <2>1. /\ DOMAIN req' = DOMAIN req
        /\ \A k \in DOMAIN req : k # n => /\ (req'[k].taken <=> req[k].taken)
                                          /\ req'[k].answers = req[k].answers
        /\ \A k \in DOMAIN req : req'[k].stage = req[k].stage
    BY DEF Marked
  <2>2. ASSUME NEW e \in Entities, NEW k \in pending'[e]
        PROVE  k \in pending[e] /\ k # n /\ k \in DOMAIN req
    BY <2>2 DEF OwedInv, PendingOwed
  <2>3. ASSUME NEW e \in Entities, NEW k \in pending'[e]
        PROVE  /\ k \in DOMAIN req' /\ req'[k].stage = "service"
               /\ req'[k].taken /\ req'[k].answers = 0
    BY <2>1, <2>2 DEF OwedInv, PendingOwed
  <2>4. ASSUME NEW e \in Entities, NEW d \in Entities, NEW k \in pending'[e],
               k \in pending'[d]
        PROVE  d = e
    BY <2>2, <2>4 DEF OwedInv, PendingOwed
  <2> QED  BY <2>3, <2>4 DEF PendingOwed
<1>3. ASSUME NEW e \in Entities, NEW g \in Goals, goals'[e][g].header # 0
      PROVE  /\ goals'[e][g] = goals[e][g]
             /\ ~goals'[e][g].result
             /\ goals'[e][g].header \in DOMAIN req'
             /\ req'[goals'[e][g].header].goal = g
             /\ req'[goals'[e][g].header].stage = "result"
             /\ req'[goals'[e][g].header].taken
             /\ req'[goals'[e][g].header].answers = 0
  <2>1. goals'[e][g] = goals[e][g] /\ goals[e][g].header # n
    BY <1>3
  <2>2. /\ ~goals[e][g].result
        /\ goals[e][g].header \in DOMAIN req
        /\ req[goals[e][g].header].goal = g
        /\ req[goals[e][g].header].stage = "result"
        /\ req[goals[e][g].header].taken
        /\ req[goals[e][g].header].answers = 0
    BY <1>3, <2>1 DEF OwedInv, HeadersOwed
  <2> QED  BY <2>1, <2>2 DEF Marked
<1>4. ASSUME NEW e \in Entities, NEW d \in Entities, NEW g \in Goals,
             goals'[e][g].header # 0,
             goals'[d][g].header = goals'[e][g].header
      PROVE  d = e
  <2>1. goals'[d][g] = goals[d][g] /\ goals'[e][g] = goals[e][g]
    BY <1>3, <1>4
  <2> QED  BY <1>4, <2>1 DEF OwedInv, HeadersOwed
<1>5. HeadersOwed'
  BY <1>3, <1>4 DEF HeadersOwed
<1> QED  BY <1>1, <1>2, <1>5 DEF OwedInv

\* Request n is taken and becomes pending at service e.
LEMMA OwedAtService ==
    ASSUME OwedInv, NEW n \in DOMAIN req, NEW e \in Entities,
           Marked(n, TRUE, req[n].answers), ~req[n].taken,
           req[n].stage = "service", req[n].answers = 0,
           pending' = [pending EXCEPT ![e] = @ \cup {n}], goals' = goals
    PROVE  OwedInv'
<1>0. n \in Nat
  BY LenProperties DEF OwedInv, OwedTypes
<1>1. OwedTypes' /\ RequestsNameGoals' /\ AnsweredWereTaken'
  BY <1>0 DEF OwedInv, OwedTypes, Marked, RequestsNameGoals, AnsweredWereTaken
<1>2. \A d \in Entities : n \notin pending[d]
  BY DEF OwedInv, PendingOwed
<1>3. /\ pending'[e] = pending[e] \cup {n}
      /\ \A d \in Entities : d # e => pending'[d] = pending[d]
  BY DEF OwedInv, OwedTypes
<1>4. PendingOwed'
  BY <1>2, <1>3 DEF OwedInv, PendingOwed, Marked
<1>5. HeadersOwed'
  BY DEF OwedInv, HeadersOwed, Marked
<1> QED  BY <1>1, <1>4, <1>5 DEF OwedInv

\* Request n is taken and its header is kept for goal g at server e.
LEMMA OwedAtGoal ==
    ASSUME OwedInv, NEW n \in DOMAIN req, NEW e \in Entities, NEW g \in Goals,
           Marked(n, TRUE, req[n].answers), ~req[n].taken,
           req[n].stage = "result", req[n].goal = g, req[n].answers = 0,
           goals' \in [Entities -> [Goals -> Slot]],
           goals'[e][g].header = n, ~goals'[e][g].result,
           \A d \in Entities, h \in Goals :
              d # e \/ h # g => goals'[d][h] = goals[d][h],
           pending' = pending
    PROVE  OwedInv'
<1>1. OwedTypes' /\ RequestsNameGoals' /\ AnsweredWereTaken'
  BY DEF OwedInv, OwedTypes, Marked, RequestsNameGoals, AnsweredWereTaken
<1>2. PendingOwed'
  BY DEF OwedInv, PendingOwed, Marked
<1>3. \A d \in Entities, h \in Goals : goals[d][h].header # n
  <2>1. n # 0
    BY LenProperties DEF OwedInv, OwedTypes
  <2> QED  BY <2>1 DEF OwedInv, HeadersOwed
<1>4. ASSUME NEW d \in Entities, NEW h \in Goals, goals'[d][h].header # 0
      PROVE  /\ ~goals'[d][h].result
             /\ goals'[d][h].header \in DOMAIN req'
             /\ req'[goals'[d][h].header].goal = h
             /\ req'[goals'[d][h].header].stage = "result"
             /\ req'[goals'[d][h].header].taken
             /\ req'[goals'[d][h].header].answers = 0
  <2>1. CASE d = e /\ h = g
    BY <2>1 DEF Marked
  <2>2. CASE d # e \/ h # g
    <3>1. /\ goals'[d][h] = goals[d][h] /\ goals[d][h].header # n
      BY <1>3, <2>2
    <3>2. /\ ~goals[d][h].result
          /\ goals[d][h].header \in DOMAIN req
          /\ req[goals[d][h].header].goal = h
          /\ req[goals[d][h].header].stage = "result"
          /\ req[goals[d][h].header].taken
          /\ req[goals[d][h].header].answers = 0
      BY <1>4, <3>1 DEF OwedInv, HeadersOwed
    <3> QED  BY <3>1, <3>2 DEF Marked
  <2> QED  BY <2>1, <2>2
<1>5. ASSUME NEW c \in Entities, NEW d \in Entities, NEW h \in Goals,
             goals'[c][h].header # 0,
             goals'[d][h].header = goals'[c][h].header
      PROVE  d = c
  BY <1>3, <1>5 DEF OwedInv, HeadersOwed
<1>6. HeadersOwed'
  BY <1>4, <1>5 DEF HeadersOwed
<1> QED  BY <1>1, <1>2, <1>6 DEF OwedInv

\* A new request is nobody's yet.
LEMMA OwedAsked ==
    ASSUME OwedInv, NEW asker \in Entities \cup {0}, NEW stage \in Stage,
           NEW goal \in Nat, req' = Append(req, Request(asker, stage, goal)),
           stage # "service" => goal \in Goals,
           UNCHANGED <<pending, goals>>
    PROVE  OwedInv'
<1>1. /\ req' \in Seq(RequestRecord)
      /\ \A k \in DOMAIN req : k \in DOMAIN req' /\ req'[k] = req[k]
      /\ \A k \in DOMAIN req' : k \in DOMAIN req \/ k = Len(req) + 1
      /\ req'[Len(req) + 1] = Request(asker, stage, goal)
  BY AskedAppends DEF OwedInv
<1>2. /\ req'[Len(req) + 1].stage = stage /\ req'[Len(req) + 1].goal = goal
      /\ req'[Len(req) + 1].answers = 0
  BY <1>1 DEF Request
<1>3. OwedTypes'
  BY <1>1 DEF OwedInv, OwedTypes
<1>4. RequestsNameGoals' /\ AnsweredWereTaken'
  BY <1>1, <1>2 DEF OwedInv, RequestsNameGoals, AnsweredWereTaken
<1>5. PendingOwed'
  BY <1>1 DEF OwedInv, PendingOwed
<1>6. HeadersOwed'
  BY <1>1 DEF OwedInv, HeadersOwed
<1> QED  BY <1>3, <1>4, <1>5, <1>6 DEF OwedInv

\* The debts of an entity that goes are forgotten with it.
LEMMA OwedForgotten ==
    ASSUME OwedInv, req' = req,
           pending' \in [Entities -> SUBSET Nat],
           goals' \in [Entities -> [Goals -> Slot]],
           \A e \in Entities : pending'[e] \subseteq pending[e],
           \A e \in Entities, g \in Goals :
              goals'[e][g].header = 0 \/ goals'[e][g] = goals[e][g]
    PROVE  OwedInv'
<1>1. OwedTypes' /\ RequestsNameGoals' /\ AnsweredWereTaken' /\ PendingOwed'
  BY DEF OwedInv, OwedTypes, RequestsNameGoals, AnsweredWereTaken, PendingOwed
<1>2. HeadersOwed'
  BY DEF OwedInv, HeadersOwed
<1> QED  BY <1>1, <1>2 DEF OwedInv

-----------------------------------------------------------------------------
(* The responses. *)

\* RemoveAt keeps every other place, in order.
LEMMA Removed ==
    ASSUME NEW S, NEW s \in Seq(S), NEW p \in DOMAIN s
    PROVE  /\ RemoveAt(s, p) \in Seq(S)
           /\ \A i \in DOMAIN RemoveAt(s, p) :
                 LET k == IF i < p THEN i ELSE i + 1
                 IN  k \in DOMAIN s /\ k # p /\ RemoveAt(s, p)[i] = s[k] /\ i \in Nat
<1> DEFINE a == SubSeq(s, 1, p - 1)
           b == SubSeq(s, p + 1, Len(s))
<1>1. Len(s) \in Nat /\ DOMAIN s = 1 .. Len(s) /\ p \in 1 .. Len(s)
  BY LenProperties
<1>2. /\ a \in Seq(S) /\ Len(a) = p - 1
      /\ \A i \in 1 .. p - 1 : a[i] = s[i]
  <2>1. \A i \in 1 .. p - 1 : s[i] \in S
    BY <1>1, ElementOfSeq
  <2>2. /\ a \in Seq(S) /\ Len(a) = IF 1 <= p - 1 THEN (p - 1) - 1 + 1 ELSE 0
        /\ \A i \in 1 .. (p - 1) - 1 + 1 : a[i] = s[1 + i - 1]
    BY <1>1, <2>1, SubSeqProperties
  <2> QED  BY <1>1, <2>2
<1>3. /\ b \in Seq(S) /\ Len(b) = Len(s) - p
      /\ \A i \in 1 .. Len(s) - p : b[i] = s[p + i]
  <2>1. \A i \in p + 1 .. Len(s) : s[i] \in S
    BY <1>1, ElementOfSeq
  <2>2. /\ b \in Seq(S)
        /\ Len(b) = IF p + 1 <= Len(s) THEN Len(s) - (p + 1) + 1 ELSE 0
        /\ \A i \in 1 .. Len(s) - (p + 1) + 1 : b[i] = s[(p + 1) + i - 1]
    BY <1>1, <2>1, SubSeqProperties
  <2> QED  BY <1>1, <2>2
<1> HIDE DEF a, b
<1>4. /\ a \o b \in Seq(S) /\ Len(a \o b) = Len(a) + Len(b)
      /\ \A i \in 1 .. Len(a) + Len(b) :
            (a \o b)[i] = IF i <= Len(a) THEN a[i] ELSE b[i - Len(a)]
  BY <1>2, <1>3, ConcatProperties
<1>5. RemoveAt(s, p) = a \o b
  BY DEF RemoveAt, a, b
<1>6. DOMAIN (a \o b) = 1 .. Len(s) - 1
  <2>1. Len(a \o b) = Len(s) - 1
    BY <1>1, <1>2, <1>3, <1>4
  <2> QED  BY <1>4, <2>1, LenProperties
<1>7. ASSUME NEW i \in 1 .. Len(s) - 1
      PROVE  LET k == IF i < p THEN i ELSE i + 1
             IN  k \in 1 .. Len(s) /\ k # p /\ (a \o b)[i] = s[k] /\ i \in Nat
  <2>1. CASE i < p
    <3>1. i \in 1 .. Len(a) + Len(b) /\ i <= Len(a) /\ i \in 1 .. p - 1
      BY <1>1, <1>2, <1>3, <2>1
    <3>2. (a \o b)[i] = s[i]
      BY <1>2, <1>4, <3>1
    <3> QED  BY <1>1, <2>1, <3>2
  <2>2. CASE ~(i < p)
    <3>1. (a \o b)[i] = b[i - (p - 1)]
      <4>1. i \in 1 .. Len(a) + Len(b) /\ ~(i <= Len(a)) /\ Len(a) = p - 1
        BY <1>1, <1>2, <1>3, <2>2
      <4> QED  BY <1>4, <4>1
    <3>2. i - (p - 1) \in 1 .. Len(s) - p
      BY <1>1, <2>2
    <3>3. b[i - (p - 1)] = s[p + (i - (p - 1))]
      BY <1>3, <3>2
    <3>4. p + (i - (p - 1)) = i + 1
      BY <1>1
    <3> QED  BY <1>1, <2>2, <3>1, <3>3, <3>4
  <2> QED  BY <2>1, <2>2
<1> QED  BY <1>1, <1>4, <1>5, <1>6, <1>7

\* Neither the answers nor what waits for them change.
LEMMA ResponsesUntouched ==
    ASSUME ResponseInv, UNCHANGED <<inbox, stack, timedOut, mixed>>,
           DOMAIN req' = DOMAIN req,
           \A k \in DOMAIN req : /\ req'[k].asker = req[k].asker
                                 /\ req'[k].answers = req[k].answers
    PROVE  ResponseInv'
<1>1. ResponsesWait'
  BY DEF ResponseInv, ResponsesWait
<1>2. NoneLeftOver'
  BY DEF ResponseInv, NoneLeftOver, AwaitedNow, Consumed
<1> QED  BY <1>1, <1>2 DEF ResponseInv, NestingKeepsAnswersApart

\* Request n is answered for the first time, and its response delivered.
LEMMA ResponseDelivered ==
    ASSUME ResponseInv, NEW n \in DOMAIN req, n \in Nat, NEW taken,
           req[n].answers = 0, Marked(n, taken, 1), Deliver(n),
           UNCHANGED <<stack, timedOut, mixed>>
    PROVE  ResponseInv'
<1> DEFINE a == req[n].asker
<1>0. /\ DOMAIN req' = DOMAIN req /\ req'[n].answers = 1
      /\ \A k \in DOMAIN req : req'[k].asker = req[k].asker
      /\ \A k \in DOMAIN req : k # n => req'[k].answers = req[k].answers
  BY DEF Marked
<1>1. \A e \in Entities : \A i \in DOMAIN inbox[e] : inbox[e][i] # n
  BY DEF ResponseInv, ResponsesWait
<1>2. CASE inbox' = inbox
  <2>1. ResponsesWait'
    BY <1>0, <1>1, <1>2 DEF ResponseInv, ResponsesWait
  <2>2. NoneLeftOver'
    BY <1>0, <1>2 DEF ResponseInv, NoneLeftOver, AwaitedNow, Consumed
  <2> QED  BY <2>1, <2>2 DEF ResponseInv, NestingKeepsAnswersApart
<1>3. CASE a \in Entities /\ inbox' = [inbox EXCEPT ![a] = Append(@, n)]
  <2>1. inbox[a] \in Seq(Nat)
    BY <1>3 DEF ResponseInv, ResponsesWait
  <2>2. /\ inbox'[a] = Append(inbox[a], n)
        /\ inbox' \in [Entities -> Seq(Nat)]
        /\ \A e \in Entities : e # a => inbox'[e] = inbox[e]
    BY <1>3, <2>1 DEF ResponseInv, ResponsesWait
  <2>3. /\ DOMAIN inbox[a] = 1 .. Len(inbox[a]) /\ Len(inbox[a]) \in Nat
        /\ DOMAIN inbox'[a] = 1 .. Len(inbox[a]) + 1
        /\ \A i \in 1 .. Len(inbox[a]) : inbox'[a][i] = inbox[a][i]
        /\ inbox'[a][Len(inbox[a]) + 1] = n
    BY <2>1, <2>2, Appended
  <2> HIDE DEF a
  <2>4. \A i \in DOMAIN inbox'[a] : i \in DOMAIN inbox[a] \/ i = Len(inbox[a]) + 1
    BY <2>3
  <2>5. ResponsesWait'
    <3>1. ASSUME NEW e \in Entities, NEW i \in DOMAIN inbox'[e]
          PROVE  /\ inbox'[e][i] \in DOMAIN req'
                 /\ req'[inbox'[e][i]].asker = e /\ req'[inbox'[e][i]].answers = 1
      <4>1. CASE e # a \/ i \in DOMAIN inbox[a]
        <5>1. i \in DOMAIN inbox[e] /\ inbox'[e][i] = inbox[e][i]
          BY <2>2, <2>3, <3>1, <4>1
        <5> QED  BY <1>0, <1>1, <5>1 DEF ResponseInv, ResponsesWait
      <4>2. CASE e = a /\ i = Len(inbox[a]) + 1
        BY <1>0, <2>3, <4>2 DEF a
      <4> QED  BY <2>4, <3>1, <4>1, <4>2
    <3>2. ASSUME NEW e \in Entities, NEW i \in DOMAIN inbox'[e],
                 NEW j \in DOMAIN inbox'[e], inbox'[e][i] = inbox'[e][j]
          PROVE  i = j
      <4>1. CASE e # a
        BY <2>2, <3>2, <4>1 DEF ResponseInv, ResponsesWait
      <4>2. CASE e = a
        <5>1. i \in DOMAIN inbox'[a] /\ j \in DOMAIN inbox'[a]
          BY <3>2, <4>2
        <5>2. CASE i \in DOMAIN inbox[a] /\ j \in DOMAIN inbox[a]
          <6>1. inbox[a][i] = inbox[a][j]
            BY <2>3, <3>2, <4>2, <5>2
          <6> QED  BY <4>2, <5>2, <6>1 DEF ResponseInv, ResponsesWait
        <5>3. CASE i \notin DOMAIN inbox[a] \/ j \notin DOMAIN inbox[a]
          BY <1>1, <2>3, <2>4, <3>2, <4>2, <5>1, <5>3
        <5> QED  BY <5>2, <5>3
      <4> QED  BY <4>1, <4>2
    <3> QED  BY <2>2, <3>1, <3>2 DEF ResponsesWait
  <2>6. ASSUME NEW e \in Entities \ timedOut, NEW k \in DOMAIN req,
               req[k].asker = e
        PROVE  AwaitedNow(e, k)' \/ Consumed(e, k)'
    <3>1. AwaitedNow(e, k) \/ Consumed(e, k)
      BY <2>6 DEF ResponseInv, NoneLeftOver
    <3>2. CASE AwaitedNow(e, k)
      BY <3>2 DEF AwaitedNow
    <3>3. CASE Consumed(e, k)
      <4>1. k # n /\ req'[k].answers = 1
        BY <1>0, <3>3 DEF Consumed
      <4>2. \A i \in DOMAIN inbox'[e] : inbox'[e][i] # k
        BY <2>2, <2>3, <2>4, <3>3, <4>1 DEF Consumed
      <4> QED  BY <4>1, <4>2 DEF Consumed
    <3> QED  BY <3>1, <3>2, <3>3
  <2>7. NoneLeftOver'
    BY <1>0, <2>6 DEF NoneLeftOver
  <2> QED  BY <2>5, <2>7 DEF ResponseInv, NestingKeepsAnswersApart
<1>4. ASSUME a \notin Entities, inbox' = [inbox EXCEPT ![a] = Append(@, n)]
      PROVE  inbox' = inbox
  BY <1>4 DEF ResponseInv, ResponsesWait
<1> QED  BY <1>2, <1>3, <1>4 DEF Deliver

\* A new request is awaited by the call that makes it, if one does.
LEMMA ResponseAsked ==
    ASSUME OwedTypes, ResponseInv, NEW asker \in Entities \cup {0},
           NEW stage \in Stage, NEW goal \in Nat, NEW new, new = Len(req) + 1,
           req' = Append(req, Request(asker, stage, goal)),
           \A e \in Entities, k \in DOMAIN req : AwaitedNow(e, k) => AwaitedNow(e, k)',
           \A e \in Entities : e = asker => AwaitedNow(e, new)',
           UNCHANGED <<inbox, timedOut, mixed>>
    PROVE  ResponseInv'
<1>1. /\ DOMAIN req = 1 .. Len(req) /\ Len(req) \in Nat
      /\ \A k \in DOMAIN req : k \in DOMAIN req' /\ req'[k] = req[k]
      /\ \A k \in DOMAIN req' : k \in DOMAIN req \/ k = Len(req) + 1
      /\ req'[Len(req) + 1] = Request(asker, stage, goal)
  BY AskedAppends
<1>2. req'[Len(req) + 1].asker = asker
  BY <1>1 DEF Request
<1>3. ResponsesWait'
  BY <1>1 DEF ResponseInv, ResponsesWait
<1>4. ASSUME NEW e \in Entities \ timedOut, NEW k \in DOMAIN req',
             req'[k].asker = e
      PROVE  AwaitedNow(e, k)' \/ Consumed(e, k)'
  <2>1. CASE k \in DOMAIN req
    <3>1. req'[k] = req[k]
      BY <1>1, <2>1
    <3>2. AwaitedNow(e, k) \/ Consumed(e, k)
      BY <1>4, <2>1, <3>1 DEF ResponseInv, NoneLeftOver
    <3>3. Consumed(e, k) => Consumed(e, k)'
      BY <3>1 DEF Consumed
    <3> QED  BY <2>1, <3>2, <3>3
  <2>2. CASE k = Len(req) + 1
    BY <1>2, <1>4, <2>2
  <2> QED  BY <1>1, <2>1, <2>2
<1>5. NoneLeftOver'
  BY <1>4 DEF NoneLeftOver
<1> QED  BY <1>3, <1>5 DEF ResponseInv, NestingKeepsAnswersApart

\* Clients lose what waited for them.
LEMMA ResponsesDropped ==
    ASSUME ResponseInv, UNCHANGED <<req, stack, timedOut, mixed>>,
           inbox' \in [Entities -> Seq(Nat)],
           \A e \in Entities : inbox'[e] = inbox[e] \/ inbox'[e] = <<>>
    PROVE  ResponseInv'
<1>1. ResponsesWait'
  BY DEF ResponseInv, ResponsesWait
<1>2. NoneLeftOver'
  BY DEF ResponseInv, NoneLeftOver, AwaitedNow, Consumed
<1> QED  BY <1>1, <1>2 DEF ResponseInv, NestingKeepsAnswersApart

LEMMA GiveUpResponses ==
    ASSUME PlaceInv, ResponseInv, GiveUp
    PROVE  ResponseInv'
<1> DEFINE f == Last(stack)
           n == Len(stack)
<1>1. /\ stack # <<>> /\ stack' = Front(stack)
      /\ timedOut' = timedOut \cup {f.entity}
      /\ UNCHANGED <<req, inbox, mixed>>
  BY DEF GiveUp, Return, rosVars
<1>2. /\ f = stack[n] /\ DOMAIN stack = 1 .. n /\ n \in Nat \ {0}
      /\ DOMAIN stack' = 1 .. n - 1
      /\ \A i \in 1 .. n - 1 : stack'[i] = stack[i]
  BY <1>1, Fronted DEF PlaceInv, PlaceTypes
<1> HIDE DEF f, n
<1>3. ResponsesWait'
  BY <1>1 DEF ResponseInv, ResponsesWait
<1>4. ASSUME NEW e \in Entities \ timedOut', NEW k \in DOMAIN req,
             req[k].asker = e
      PROVE  AwaitedNow(e, k)' \/ Consumed(e, k)'
  <2>1. e # f.entity /\ (AwaitedNow(e, k) \/ Consumed(e, k))
    BY <1>1, <1>4 DEF ResponseInv, NoneLeftOver
  <2>2. AwaitedNow(e, k) => AwaitedNow(e, k)'
    <3>1. ASSUME NEW i \in DOMAIN stack, stack[i].entity = e, stack[i].req = k
          PROVE  i \in DOMAIN stack' /\ stack'[i].entity = e /\ stack'[i].req = k
      BY <1>2, <2>1, <3>1
    <3> QED  BY <3>1 DEF AwaitedNow
  <2>3. Consumed(e, k) => Consumed(e, k)'
    BY <1>1 DEF Consumed
  <2> QED  BY <2>1, <2>2, <2>3
<1>5. NoneLeftOver'
  BY <1>1, <1>4 DEF NoneLeftOver
<1> QED  BY <1>1, <1>3, <1>5 DEF ResponseInv, NestingKeepsAnswersApart

LEMMA TakeResponseResponses ==
    ASSUME PlaceInv, OwedInv, ResponseInv, CallsNameGoals,
           NEW accepted \in BOOLEAN, TakeResponse(accepted)
    PROVE  ResponseInv'
<1> DEFINE f == Last(stack)
           m == Len(stack)
           e == f.entity
<1>1. /\ stack # <<>> /\ f = stack[m] /\ f \in Frame
      /\ DOMAIN stack = 1 .. m /\ m \in Nat \ {0} /\ m \in DOMAIN stack
      /\ Front(stack) \in Seq(Frame) /\ Len(Front(stack)) = m - 1
      /\ DOMAIN Front(stack) = 1 .. m - 1
      /\ \A i \in 1 .. m - 1 : Front(stack)[i] = stack[i]
  BY Fronted DEF PlaceInv, PlaceTypes, TakeResponse
<1>2. e \in Entities
  BY <1>1 DEF Frame
<1>3. PICK w \in Responses(f) :
         LET n == inbox[w[1]][w[2]]
         IN  /\ inbox' = [inbox EXCEPT ![w[1]] = RemoveAt(@, w[2])]
             /\ \/ /\ f.stage = "goal"
                   /\ req' = Append(req, Request(f.entity, "result", f.goal))
                   /\ stack' = Append(Front(stack),
                          [conn |-> f.conn, entity |-> f.entity,
                           stage |-> "result", goal |-> f.goal,
                           req |-> Len(req) + 1])
                \/ stack' = Front(stack) /\ req' = req
             /\ mixed' = IF n = f.req THEN mixed ELSE mixed \cup {f.entity}
  BY DEF TakeResponse, Return
<1> DEFINE p == w[2]
           n == inbox[e][p]
<1>4. w[1] = e /\ p \in DOMAIN inbox[e]
  BY DEF Responses
<1>5. timedOut' = timedOut
  BY DEF TakeResponse
<1>6. inbox[e] \in Seq(Nat)
  BY <1>2 DEF ResponseInv, ResponsesWait
<1>7. /\ inbox' \in [Entities -> Seq(Nat)]
      /\ inbox'[e] = RemoveAt(inbox[e], p)
      /\ \A d \in Entities : d # e => inbox'[d] = inbox[d]
  <2>1. RemoveAt(inbox[e], p) \in Seq(Nat)
    BY <1>4, <1>6, Removed
  <2>2. inbox' = [inbox EXCEPT ![e] = RemoveAt(inbox[e], p)]
    BY <1>3, <1>4
  <2> QED  BY <1>2, <2>1, <2>2 DEF ResponseInv, ResponsesWait
<1>8. \A i \in DOMAIN inbox'[e] :
         LET k == IF i < p THEN i ELSE i + 1
         IN  k \in DOMAIN inbox[e] /\ k # p /\ inbox'[e][i] = inbox[e][k] /\ i \in Nat
  <2>1. \A i \in DOMAIN RemoveAt(inbox[e], p) :
           LET k == IF i < p THEN i ELSE i + 1
           IN  /\ k \in DOMAIN inbox[e] /\ k # p
               /\ RemoveAt(inbox[e], p)[i] = inbox[e][k] /\ i \in Nat
    <3> HIDE DEF e, p
    <3> QED  BY <1>4, <1>6, Removed
  <2> HIDE DEF e, p
  <2> QED  BY <1>7, <2>1
<1>9. mixed' = IF n = f.req THEN mixed ELSE mixed \cup {e}
  BY <1>3, <1>4
<1>10. /\ n \in DOMAIN req /\ req[n].asker = e /\ req[n].answers = 1
  BY <1>2, <1>4 DEF ResponseInv, ResponsesWait
<1>11. e \notin timedOut => n = f.req
  <2> SUFFICES ASSUME e \notin timedOut PROVE n = f.req
    OBVIOUS
  <2>1. AwaitedNow(e, n) \/ Consumed(e, n)
    BY <1>2, <1>10 DEF ResponseInv, NoneLeftOver
  <2>2. AwaitedNow(e, n)
    BY <1>4, <2>1 DEF Consumed
  <2>3. PICK i \in DOMAIN stack : stack[i].entity = e /\ stack[i].req = n
    BY <2>2 DEF AwaitedNow
  <2>4. i = m
    BY <1>1, <2>3 DEF PlaceInv, Placed
  <2> QED  BY <1>1, <2>3, <2>4
<1>12. \A i \in DOMAIN inbox'[e] : inbox'[e][i] # n
  <2>1. ASSUME NEW i \in DOMAIN inbox'[e]
        PROVE  \E k \in DOMAIN inbox[e] : k # p /\ inbox'[e][i] = inbox[e][k]
    <3> HIDE DEF e, p
    <3> QED  BY <1>8, <2>1
  <2> HIDE DEF e, p
  <2> QED  BY <1>2, <1>4, <2>1 DEF ResponseInv, ResponsesWait, n
<1>13. /\ \A k \in DOMAIN req : k \in DOMAIN req' /\ req'[k] = req[k]
       /\ \/ DOMAIN req' = DOMAIN req /\ stack' = Front(stack)
          \/ /\ \A k \in DOMAIN req' : k \in DOMAIN req \/ k = Len(req) + 1
             /\ req'[Len(req) + 1].asker = e
             /\ DOMAIN stack' = 1 .. m /\ m \in DOMAIN stack'
             /\ \A i \in 1 .. m - 1 : stack'[i] = stack[i]
             /\ stack'[m].entity = e /\ stack'[m].req = Len(req) + 1
  <2>1. CASE stack' = Front(stack) /\ req' = req
    BY <2>1
  <2> DEFINE g == [conn |-> f.conn, entity |-> f.entity, stage |-> "result",
                   goal |-> f.goal, req |-> Len(req) + 1]
  <2>2. CASE /\ f.stage = "goal"
             /\ req' = Append(req, Request(f.entity, "result", f.goal))
             /\ stack' = Append(Front(stack), g)
    <3>1. f.goal \in Nat /\ f.conn \in Conns
      BY <1>1 DEF Frame
    <3>2. /\ \A k \in DOMAIN req : k \in DOMAIN req' /\ req'[k] = req[k]
          /\ \A k \in DOMAIN req' : k \in DOMAIN req \/ k = Len(req) + 1
          /\ req'[Len(req) + 1] = Request(e, "result", f.goal)
          /\ Len(req) \in Nat
      BY <1>2, <2>2, <3>1, AskedAppends DEF OwedInv, Stage
    <3>3. req'[Len(req) + 1].asker = e
      BY <3>2 DEF Request
    <3>4. g \in Frame /\ g.entity = e /\ g.req = Len(req) + 1
      BY <1>2, <3>1, <3>2 DEF Frame, Stage
    <3> HIDE DEF g
    <3>5. /\ DOMAIN stack' = 1 .. (m - 1) + 1
          /\ \A i \in 1 .. m - 1 : stack'[i] = Front(stack)[i]
          /\ stack'[(m - 1) + 1] = g
      <4>1. /\ Front(stack) \in Seq(Frame) /\ Len(Front(stack)) = m - 1
            /\ stack' = Append(Front(stack), g)
        BY <1>1, <2>2
      <4> HIDE DEF f, m
      <4>2. /\ DOMAIN stack' = 1 .. Len(Front(stack)) + 1
            /\ \A i \in 1 .. Len(Front(stack)) : stack'[i] = Front(stack)[i]
            /\ stack'[Len(Front(stack)) + 1] = g
        BY <3>4, <4>1, Appended
      <4> QED  BY <4>1, <4>2
    <3>6. /\ DOMAIN stack' = 1 .. m /\ m \in DOMAIN stack'
          /\ \A i \in 1 .. m - 1 : stack'[i] = stack[i]
          /\ stack'[m] = g
      BY <1>1, <3>5
    <3> QED  BY <3>2, <3>3, <3>4, <3>6
  <2> QED  BY <1>3, <2>1, <2>2
<1> HIDE DEF f, m, e, p, n
<1>14. ResponsesWait'
  <2>1. ASSUME NEW d \in Entities, NEW i \in DOMAIN inbox'[d]
        PROVE  /\ inbox'[d][i] \in DOMAIN req'
               /\ req'[inbox'[d][i]].asker = d /\ req'[inbox'[d][i]].answers = 1
    <3>1. \E k \in DOMAIN inbox[d] : inbox'[d][i] = inbox[d][k]
      BY <1>7, <1>8, <2>1
    <3> QED  BY <1>13, <3>1 DEF ResponseInv, ResponsesWait
  <2>2. ASSUME NEW d \in Entities, NEW i \in DOMAIN inbox'[d],
               NEW j \in DOMAIN inbox'[d], inbox'[d][i] = inbox'[d][j]
        PROVE  i = j
    <3>1. CASE d # e
      BY <1>7, <2>2, <3>1 DEF ResponseInv, ResponsesWait
    <3>2. CASE d = e
      <4> DEFINE k == IF i < p THEN i ELSE i + 1
                 l == IF j < p THEN j ELSE j + 1
      <4>1. /\ k \in DOMAIN inbox[e] /\ k # p /\ inbox'[e][i] = inbox[e][k]
            /\ i \in Nat
        BY <1>8, <2>2, <3>2
      <4>2. /\ l \in DOMAIN inbox[e] /\ l # p /\ inbox'[e][j] = inbox[e][l]
            /\ j \in Nat
        BY <1>8, <2>2, <3>2
      <4>3. inbox[e][k] = inbox[e][l]
        BY <2>2, <3>2, <4>1, <4>2
      <4> HIDE DEF k, l
      <4>4. k = l
        BY <1>2, <4>1, <4>2, <4>3 DEF ResponseInv, ResponsesWait
      <4>5. p \in Nat
        BY <1>4, <1>6, LenProperties
      <4> QED  BY <4>1, <4>2, <4>4, <4>5 DEF k, l
    <3> QED  BY <3>1, <3>2
  <2> QED  BY <1>7, <2>1, <2>2 DEF ResponsesWait
<1>15. ASSUME NEW d \in Entities \ timedOut, NEW k \in DOMAIN req',
              req'[k].asker = d
       PROVE  AwaitedNow(d, k)' \/ Consumed(d, k)'
  <2>1. CASE k \notin DOMAIN req
    BY <1>13, <1>15, <2>1 DEF AwaitedNow
  <2>2. CASE k \in DOMAIN req
    <3>1. req'[k] = req[k]
      BY <1>13, <2>2
    <3>2. AwaitedNow(d, k) \/ Consumed(d, k)
      BY <1>15, <2>2, <3>1 DEF ResponseInv, NoneLeftOver
    <3>3. CASE Consumed(d, k)
      <4>1. \A i \in DOMAIN inbox'[d] : inbox'[d][i] # k
        BY <1>7, <1>8, <3>3 DEF Consumed
      <4> QED  BY <3>1, <3>3, <4>1 DEF Consumed
    <3>4. CASE AwaitedNow(d, k)
      <4>1. PICK i \in DOMAIN stack : stack[i].entity = d /\ stack[i].req = k
        BY <3>4 DEF AwaitedNow
      <4>2. CASE i # m
        <5>1. i \in 1 .. m - 1 /\ i \in DOMAIN stack' /\ stack'[i] = stack[i]
          BY <1>1, <1>13, <4>1, <4>2
        <5> QED  BY <4>1, <5>1 DEF AwaitedNow
      <4>3. CASE i = m
        <5>1. d = e /\ k = n
          BY <1>1, <1>11, <1>15, <4>1, <4>3 DEF e
        <5> QED  BY <1>10, <1>12, <3>1, <5>1 DEF Consumed
      <4> QED  BY <4>2, <4>3
    <3> QED  BY <3>2, <3>3, <3>4
  <2> QED  BY <2>1, <2>2
<1>16. NoneLeftOver'
  BY <1>5, <1>15 DEF NoneLeftOver
<1>17. NestingKeepsAnswersApart'
  BY <1>5, <1>9, <1>11 DEF ResponseInv, NestingKeepsAnswersApart
<1> QED  BY <1>14, <1>16, <1>17 DEF ResponseInv

-----------------------------------------------------------------------------
(* The steps. *)

LEMMA WorkerInitially == Init => WorkerInv
<1> SUFFICES ASSUME Init PROVE WorkerInv
  OBVIOUS
<1>1. PlaceInv
  BY PlaceInitially
<1>2. DOMAIN queue = {} /\ DOMAIN stack = {} /\ DOMAIN req = {}
  BY DEF Init
<1>3. NoSlot \in Slot /\ NoSlot.header = 0
  BY DEF NoSlot, GoalSlot, Slot
<1>4. /\ req \in Seq(RequestRecord) /\ pending \in [Entities -> SUBSET Nat]
      /\ \A e \in Entities : pending[e] = {}
  BY DEF Init
<1>5. /\ goals \in [Entities -> [Goals -> Slot]]
      /\ \A e \in Entities, g \in Goals : goals[e][g].header = 0
  BY <1>3 DEF Init
<1>6. CallsNameGoals
  BY <1>2 DEF CallsNameGoals
<1>7. OwedInv
  BY <1>2, <1>4, <1>5 DEF OwedInv, OwedTypes, RequestsNameGoals,
                          AnsweredWereTaken, PendingOwed, HeadersOwed
<1>8. inbox \in [Entities -> Seq(Nat)] /\ \A e \in Entities : DOMAIN inbox[e] = {}
  BY DEF Init
<1>9. ResponseInv
  BY <1>2, <1>8 DEF ResponseInv, ResponsesWait, NoneLeftOver,
                    NestingKeepsAnswersApart, Init
<1> QED  BY <1>1, <1>6, <1>7, <1>9 DEF WorkerInv

\* Requests, debts and responses stay as they are.
LEMMA RequestsUntouched ==
    ASSUME WorkerInv, UNCHANGED <<req, pending, goals, inbox, stack, history>>
    PROVE  OwedInv' /\ ResponseInv'
<1>1. OwedInv'
  BY DEF WorkerInv, OwedInv, OwedTypes, RequestsNameGoals, AnsweredWereTaken,
         PendingOwed, HeadersOwed
<1>2. ResponseInv'
  BY ResponsesUntouched DEF WorkerInv, history
<1> QED  BY <1>1, <1>2

LEMMA DequeuedGoals ==
    ASSUME WorkerInv, queue # <<>>, queue' = Tail(queue), stack' = stack
    PROVE  CallsNameGoals'
<1>1. \A i \in DOMAIN queue' : i + 1 \in DOMAIN queue /\ queue'[i] = queue[i + 1]
  BY Dequeued DEF WorkerInv
<1> QED  BY <1>1 DEF WorkerInv, CallsNameGoals

\* What the connections may send.
LEMMA UsesTyped ==
    ASSUME OwedTypes, NEW k, NEW u \in Uses(k)
    PROVE  /\ u[1] \in Operation \ {"destroy"} /\ u[2] \in Nat
           /\ u[1] \in {"goal", "result"} => u[2] \in Goals
<1>1. \A n \in DOMAIN req : n \in Nat
  BY LenProperties DEF OwedTypes
<1>2. Goals \subseteq Nat
  BY WorkerAssumption
<1> QED  BY <1>1, <1>2 DEF Uses, Operation

LEMMA SendKeeps ==
    ASSUME WorkerInv, NEW c \in Conns, NEW cmd \in CommandSet, Send(c, cmd),
           cmd.conn = c,
           \/ /\ cmd.op # "destroy"
              /\ cmd.op # "create" => cmd.entity \in holds[c]
              /\ holds' = holds
           \/ /\ cmd.op = "destroy" /\ cmd.entity \in holds[c]
              /\ holds' = [holds EXCEPT ![c] = @ \ {cmd.entity}],
           cmd.op \in {"goal", "result"} => cmd.arg \in Goals
    PROVE  WorkerInv'
<1>1. PlaceInv'
  BY SentKeepsPlace DEF WorkerInv
<1>2. /\ queue' = Append(queue, cmd) /\ stack' = stack
      /\ UNCHANGED <<req, pending, goals, inbox, stack, history>>
  BY DEF Send, rosVars
<1>3. /\ DOMAIN queue' = 1 .. Len(queue) + 1
      /\ DOMAIN queue = 1 .. Len(queue) /\ Len(queue) \in Nat
      /\ \A i \in DOMAIN queue : queue'[i] = queue[i]
      /\ queue'[Len(queue) + 1] = cmd
  BY <1>2, Appended DEF WorkerInv, PlaceInv, PlaceTypes
<1>4. \A i \in DOMAIN queue' : i \in DOMAIN queue \/ i = Len(queue) + 1
  BY <1>3
<1>5. CallsNameGoals'
  BY <1>2, <1>3, <1>4 DEF WorkerInv, CallsNameGoals
<1>6. OwedInv' /\ ResponseInv'
  BY <1>2, RequestsUntouched
<1> QED  BY <1>1, <1>5, <1>6 DEF WorkerInv

LEMMA ConnectionsKeep == ASSUME WorkerInv, Connections PROVE WorkerInv'
<1>1. ASSUME NEW c \in Conns, NEW k \in Kinds, SendCreate(c, k) PROVE WorkerInv'
  <2> DEFINE cmd == [op |-> "create", conn |-> c, entity |-> 0, kind |-> k]
  <2>1. cmd \in CommandSet /\ cmd.op = "create" /\ cmd.conn = c
    BY DEF CommandSet
  <2>2. Send(c, cmd) /\ holds' = holds
    BY <1>1 DEF SendCreate
  <2> HIDE DEF cmd
  <2> QED  BY <2>1, <2>2, SendKeeps
<1>2. ASSUME NEW c \in Conns, NEW e \in Entities, SendUse(c, e) PROVE WorkerInv'
  <2>1. PICK u \in Uses(kind[e]) : Send(c, Command(u[1], c, e, u[2]))
    BY <1>2 DEF SendUse
  <2>2. /\ u[1] \in Operation \ {"destroy"} /\ u[2] \in Nat
        /\ u[1] \in {"goal", "result"} => u[2] \in Goals
    BY UsesTyped DEF WorkerInv, OwedInv
  <2> DEFINE cmd == Command(u[1], c, e, u[2])
  <2>3. /\ cmd \in CommandSet /\ cmd.op = u[1] /\ cmd.conn = c /\ cmd.arg = u[2]
        /\ cmd.entity = e
    BY <2>2 DEF Command, CommandSet
  <2>4. Send(c, cmd) /\ holds' = holds /\ e \in holds[c]
    BY <1>2, <2>1 DEF SendUse
  <2> HIDE DEF cmd
  <2> QED  BY <2>2, <2>3, <2>4, SendKeeps
<1>3. ASSUME NEW c \in Conns, NEW e \in Entities, SendDestroy(c, e) PROVE WorkerInv'
  <2> DEFINE cmd == Command("destroy", c, e, 0)
  <2>1. /\ cmd \in CommandSet /\ cmd.op = "destroy" /\ cmd.conn = c
        /\ cmd.entity = e
    BY DEF Command, CommandSet, Operation
  <2>2. Send(c, cmd) /\ e \in holds[c] /\ holds' = [holds EXCEPT ![c] = @ \ {e}]
    BY <1>3 DEF SendDestroy
  <2> HIDE DEF cmd
  <2> QED  BY <2>1, <2>2, SendKeeps
<1> QED  BY <1>1, <1>2, <1>3 DEF Connections

LEMMA CreateKeeps == ASSUME WorkerInv, NEW ok \in BOOLEAN, HandleCreate(ok)
                     PROVE  WorkerInv'
<1>1. /\ queue # <<>> /\ Taken(TRUE) /\ queue' = Tail(queue) /\ stack' = stack
      /\ UNCHANGED <<req, pending, goals, inbox, stack, history>>
  BY DEF HandleCreate, NextIs, Taken, rosVars
<1>2. PlaceInv'
  <2>1. CASE ok = TRUE
    BY <2>1, CreatedKeepsPlace DEF WorkerInv
  <2>2. CASE ok = FALSE
    BY <1>1, <2>2, AnsweredKeepsPlace DEF WorkerInv, HandleCreate
  <2> QED  BY <2>1, <2>2
<1>3. CallsNameGoals'
  BY <1>1, DequeuedGoals
<1> QED  BY <1>1, <1>2, <1>3, RequestsUntouched DEF WorkerInv

LEMMA ForwardKeeps == ASSUME WorkerInv, HandleForward PROVE WorkerInv'
<1>1. /\ queue # <<>> /\ Taken(TRUE) /\ queue' = Tail(queue)
      /\ UNCHANGED <<req, pending, goals, inbox, stack, history>>
      /\ UNCHANGED <<holds, nextEntity, table, finalised, stack, stopped>>
  BY DEF HandleForward, NextIs, Taken, rosVars, entityVars
<1>2. PlaceInv'
  BY <1>1, AnsweredKeepsPlace DEF WorkerInv
<1>3. CallsNameGoals'
  BY <1>1, DequeuedGoals
<1> QED  BY <1>1, <1>2, <1>3, RequestsUntouched DEF WorkerInv

\* A debt that is paid.
LEMMA AnswerKeeps ==
    ASSUME WorkerInv, NEW n \in DOMAIN req, req[n].taken, req[n].answers = 0,
           Answer(n), UNCHANGED <<stack, history>>,
           pending' \in [Entities -> SUBSET Nat],
           goals' \in [Entities -> [Goals -> Slot]],
           \A e \in Entities : pending'[e] \subseteq pending[e] \ {n},
           \A e \in Entities, g \in Goals :
              \/ goals'[e][g].header = 0
              \/ goals'[e][g] = goals[e][g] /\ goals[e][g].header # n
    PROVE  OwedInv' /\ ResponseInv'
<1>1. n \in Nat /\ req[n] \in RequestRecord
  BY LenProperties, ElementOfSeq DEF WorkerInv, OwedInv, OwedTypes
<1>2. req[n].taken = TRUE
  BY <1>1 DEF RequestRecord
<1>3. req' = Noted(n, TRUE, 1)
  <2>1. req' = Noted(n, req[n].taken, req[n].answers + 1)
    BY DEF Answer
  <2>2. req[n].answers + 1 = 1
    OBVIOUS
  <2> QED  BY <1>2, <2>1, <2>2
<1>4. Marked(n, TRUE, 1)
  BY <1>3, NotedMarks DEF WorkerInv, OwedInv
<1>5. OwedInv'
  BY <1>4, OwedLess DEF WorkerInv
<1>6. ResponseInv'
  BY <1>1, <1>4, ResponseDelivered DEF WorkerInv, Answer, history
<1> QED  BY <1>5, <1>6

LEMMA RespondKeeps == ASSUME WorkerInv, NEW ok \in BOOLEAN, HandleRespond(ok)
                      PROVE  WorkerInv'
<1> DEFINE e == Head(queue).entity
           n == Head(queue).arg
           known == e \in table /\ n \in pending[e]
<1>1. /\ queue # <<>> /\ Taken(TRUE) /\ queue' = Tail(queue)
      /\ UNCHANGED <<goals, stack, history>>
      /\ UNCHANGED <<holds, nextEntity, table, finalised, stack, stopped>>
      /\ IF known
         THEN /\ pending' = [pending EXCEPT ![e] = @ \ {n}]
              /\ IF ok THEN Answer(n) ELSE UNCHANGED rosVars
         ELSE UNCHANGED <<pending, rosVars>>
  BY DEF HandleRespond, NextIs, Taken, entityVars
<1>2. PlaceInv'
  BY <1>1, AnsweredKeepsPlace DEF WorkerInv
<1>3. CallsNameGoals'
  BY <1>1, DequeuedGoals
<1>4. CASE ~known
  <2>1. UNCHANGED <<req, pending, goals, inbox, stack, history>>
    BY <1>1, <1>4 DEF rosVars
  <2> QED  BY <1>2, <1>3, <2>1, RequestsUntouched DEF WorkerInv
<1>5. CASE known
  <2>1. e \in Entities /\ n \in pending[e]
    BY <1>5, EntityRange DEF WorkerInv, PlaceInv
  <2>2. pending' = [pending EXCEPT ![e] = @ \ {n}]
    BY <1>1, <1>5
  <2> HIDE DEF e, n
  <2>3. /\ pending' \in [Entities -> SUBSET Nat]
        /\ pending'[e] = pending[e] \ {n}
        /\ \A d \in Entities : d # e => pending'[d] = pending[d]
    BY <2>1, <2>2 DEF WorkerInv, OwedInv, OwedTypes
  <2>4. \A d \in Entities : pending'[d] \subseteq pending[d] \ {n}
    BY <2>1, <2>3 DEF WorkerInv, OwedInv, PendingOwed
  <2>5. /\ n \in DOMAIN req /\ req[n].taken /\ req[n].answers = 0
        /\ req[n].stage = "service"
    BY <2>1 DEF WorkerInv, OwedInv, PendingOwed
  <2>6. \A d \in Entities, g \in Goals :
           goals[d][g].header = 0 \/ goals[d][g].header # n
    BY <2>5 DEF WorkerInv, OwedInv, HeadersOwed
  <2>7. goals' \in [Entities -> [Goals -> Slot]]
    BY <1>1 DEF WorkerInv, OwedInv, OwedTypes
  <2>8. CASE ok
    <3>1. Answer(n)
      BY <1>1, <1>5, <2>8
    <3>2. OwedInv' /\ ResponseInv'
      BY <1>1, <2>3, <2>4, <2>5, <2>6, <2>7, <3>1, AnswerKeeps
    <3> QED  BY <1>2, <1>3, <3>2 DEF WorkerInv
  <2>9. CASE ~ok
    <3>1. UNCHANGED <<req, inbox, stack, timedOut, mixed>>
      BY <1>1, <1>5, <2>9 DEF rosVars, history
    <3>2. OwedInv'
      BY <1>1, <2>3, <2>4, <2>7, <3>1, OwedForgotten DEF WorkerInv
    <3>3. ResponseInv'
      BY <3>1, ResponsesUntouched DEF WorkerInv
    <3> QED  BY <1>2, <1>3, <3>2, <3>3 DEF WorkerInv
  <2> QED  BY <2>8, <2>9
<1> QED  BY <1>4, <1>5

LEMMA CallKeeps ==
    ASSUME WorkerInv, NEW sent \in BOOLEAN, NEW op, NEW stage,
           \/ op = "call" /\ stage = "service"
           \/ op = "goal" /\ stage = "goal",
           HandleCall(op, stage, sent)
    PROVE  WorkerInv'
<1> DEFINE e == Head(queue).entity
           c == Head(queue).conn
           g == Head(queue).arg
           f == [conn |-> c, entity |-> e, stage |-> stage, goal |-> g,
                 req |-> Len(req) + 1]
<1>1. /\ queue # <<>> /\ queue' = Tail(queue) /\ Head(queue).op = op
      /\ UNCHANGED <<pending, goals, inbox, history>>
      /\ UNCHANGED <<holds, nextEntity, finalised, stopped>>
  BY DEF HandleCall, NextIs, Taken
<1>2. CASE sent = FALSE
  <2>1. /\ Taken(TRUE)
        /\ UNCHANGED <<req, pending, goals, inbox, stack, history>>
        /\ UNCHANGED <<holds, nextEntity, table, finalised, stack, stopped>>
    BY <1>1, <1>2 DEF HandleCall
  <2>2. PlaceInv'
    BY <1>1, <2>1, AnsweredKeepsPlace DEF WorkerInv
  <2>3. CallsNameGoals'
    BY <1>1, <2>1, DequeuedGoals
  <2> QED  BY <2>1, <2>2, <2>3, RequestsUntouched DEF WorkerInv
<1>3. CASE sent = TRUE
  <2>1. Len(req) \in Nat
    BY LenProperties DEF WorkerInv, OwedInv, OwedTypes
  <2>2. PlaceInv'
    BY <1>3, <2>1, CalledKeepsPlace DEF WorkerInv
  <2>3. /\ req' = Append(req, Request(e, stage, g))
        /\ stack' = Append(stack, f)
    BY <1>3 DEF HandleCall
  <2>4. /\ Head(queue) \in CommandSet /\ 1 \in DOMAIN queue
        /\ Head(queue) = queue[1]
        /\ \A i \in DOMAIN queue' : i + 1 \in DOMAIN queue /\ queue'[i] = queue[i + 1]
    BY <1>1, Dequeued DEF WorkerInv
  <2>5. e \in Entities /\ g \in Nat /\ c \in Conns
    <3>1. \A x \in CommandSet : x.op \in {"call", "goal"} =>
             x.entity \in Entities /\ x.arg \in Nat /\ x.conn \in Conns
      BY DEF CommandSet, Operation
    <3> QED  BY <1>1, <2>4, <3>1
  <2>6. stage # "service" => g \in Goals
    BY <1>1, <2>4 DEF WorkerInv, CallsNameGoals
  <2>7. f \in Frame
    BY <2>1, <2>5 DEF Frame, Stage
  <2>8. /\ f.entity = e /\ f.req = Len(req) + 1 /\ f.stage = stage /\ f.goal = g
    OBVIOUS
  <2> HIDE DEF e, c, g, f
  <2>9. /\ DOMAIN stack' = 1 .. Len(stack) + 1
        /\ DOMAIN stack = 1 .. Len(stack) /\ Len(stack) \in Nat
        /\ \A i \in DOMAIN stack : stack'[i] = stack[i]
        /\ stack'[Len(stack) + 1] = f
    BY <2>3, <2>7, Appended DEF WorkerInv, PlaceInv, PlaceTypes
  <2>10. /\ \A i \in DOMAIN stack : i \in DOMAIN stack'
         /\ \A i \in DOMAIN stack' : i \in DOMAIN stack \/ i = Len(stack) + 1
         /\ Len(stack) + 1 \in DOMAIN stack'
    BY <2>9
  <2>11. CallsNameGoals'
    BY <2>4, <2>6, <2>8, <2>9, <2>10 DEF WorkerInv, CallsNameGoals
  <2>12. stage \in Stage
    BY DEF Stage
  <2>13. OwedInv'
    BY <1>1, <2>3, <2>5, <2>6, <2>12, OwedAsked DEF WorkerInv
  <2>14. \A x \in Entities, k \in DOMAIN req : AwaitedNow(x, k) => AwaitedNow(x, k)'
    BY <2>9, <2>10 DEF AwaitedNow
  <2>15. PICK new : new = Len(req) + 1
    OBVIOUS
  <2>16. ASSUME NEW x \in Entities, x = e PROVE AwaitedNow(x, new)'
    BY <2>8, <2>9, <2>10, <2>15, <2>16 DEF AwaitedNow
  <2>17. ResponseInv'
    <3>1. OwedTypes /\ ResponseInv
      BY DEF WorkerInv, OwedInv
    <3>2. UNCHANGED <<inbox, timedOut, mixed>>
      BY <1>1 DEF history
    <3>3. \A x \in Entities : x = e => AwaitedNow(x, new)'
      BY <2>16
    <3> QED  BY <2>3, <2>5, <2>12, <2>14, <2>15, <3>1, <3>2, <3>3, ResponseAsked
  <2> QED  BY <2>2, <2>11, <2>13, <2>17 DEF WorkerInv
<1> QED  BY <1>2, <1>3

LEMMA ResultKeeps ==
    ASSUME WorkerInv, NEW ok \in BOOLEAN, NEW sent \in BOOLEAN,
           HandleResult(ok, sent)
    PROVE  WorkerInv'
<1> DEFINE e == Head(queue).entity
           g == Head(queue).arg
           slot == goals[e][g]
           succeeds == slot.succeeded \/ ok
           known == e \in table /\ slot.open
           v == GoalSlot(TRUE, 0, TRUE, succeeds)
<1>1. /\ queue # <<>> /\ Taken(TRUE) /\ queue' = Tail(queue)
      /\ Head(queue).op = "result"
      /\ UNCHANGED <<pending, stack, history>>
      /\ UNCHANGED <<holds, nextEntity, table, finalised, stack, stopped>>
      /\ IF known THEN goals' = [goals EXCEPT ![e][g] = v] ELSE UNCHANGED goals
      /\ IF known /\ succeeds /\ sent /\ slot.header # 0
         THEN Answer(slot.header) ELSE UNCHANGED rosVars
  BY DEF HandleResult, NextIs, Taken, entityVars
<1>2. PlaceInv'
  BY <1>1, AnsweredKeepsPlace DEF WorkerInv
<1>3. CallsNameGoals'
  BY <1>1, DequeuedGoals
<1>4. CASE ~known
  <2>1. UNCHANGED <<req, pending, goals, inbox, stack, history>>
    BY <1>1, <1>4 DEF rosVars
  <2> QED  BY <1>2, <1>3, <2>1, RequestsUntouched DEF WorkerInv
<1>5. CASE known
  <2>1. e \in Entities
    BY <1>5, EntityRange DEF WorkerInv, PlaceInv
  <2>2. g \in Goals
    <3>1. 1 \in DOMAIN queue /\ Head(queue) = queue[1]
      BY <1>1, Dequeued DEF WorkerInv
    <3> QED  BY <1>1, <3>1 DEF WorkerInv, CallsNameGoals
  <2>3. v \in Slot /\ v.header = 0
    BY DEF GoalSlot, Slot
  <2>4. SlotPut(e, g, v)
    BY <1>1, <1>5 DEF SlotPut
  <2>5. slot.header # 0 => ~slot.result /\ slot.header \in DOMAIN req
                           /\ req[slot.header].goal = g
                           /\ req[slot.header].stage = "result"
                           /\ req[slot.header].taken
                           /\ req[slot.header].answers = 0
    BY <2>1, <2>2, ZenonT(60) DEF WorkerInv, OwedInv, HeadersOwed
  <2> HIDE DEF e, g, v
  <2>6. /\ goals' \in [Entities -> [Goals -> Slot]] /\ goals'[e][g] = v
        /\ \A d \in Entities, h \in Goals :
              d # e \/ h # g => goals'[d][h] = goals[d][h]
    <3>1. OwedTypes
      BY DEF WorkerInv, OwedInv
    <3> QED  BY <2>1, <2>2, <2>3, <2>4, <3>1, SlotSet
  <2>7. /\ pending' \in [Entities -> SUBSET Nat]
        /\ \A d \in Entities : pending'[d] \subseteq pending[d]
    BY <1>1 DEF WorkerInv, OwedInv, OwedTypes
  <2>8. CASE succeeds /\ sent /\ slot.header # 0
    <3> DEFINE n == slot.header
    <3>1. Answer(n) /\ n \in DOMAIN req /\ req[n].taken /\ req[n].answers = 0
          /\ req[n].stage = "result" /\ req[n].goal = g
      BY <1>1, <1>5, <2>5, <2>8
    <3>2. \A d \in Entities : pending'[d] \subseteq pending[d] \ {n}
      BY <1>1, <3>1 DEF WorkerInv, OwedInv, PendingOwed
    <3>3. ASSUME NEW d \in Entities, NEW h \in Goals, d # e \/ h # g,
                 goals[d][h].header # 0
          PROVE  goals[d][h].header # n
      <4>1. CASE h = g
        BY <2>1, <2>8, <3>3, <4>1 DEF WorkerInv, OwedInv, HeadersOwed
      <4>2. CASE h # g
        BY <2>1, <3>1, <3>3, <4>2 DEF WorkerInv, OwedInv, HeadersOwed
      <4> QED  BY <4>1, <4>2
    <3>4. \A d \in Entities, h \in Goals :
             \/ goals'[d][h].header = 0
             \/ goals'[d][h] = goals[d][h] /\ goals[d][h].header # n
      BY <2>3, <2>6, <3>3
    <3> HIDE DEF n
    <3>5. OwedInv' /\ ResponseInv'
      BY <1>1, <2>6, <2>7, <3>1, <3>2, <3>4, AnswerKeeps
    <3> QED  BY <1>2, <1>3, <3>5 DEF WorkerInv
  <2>9. CASE ~(succeeds /\ sent /\ slot.header # 0)
    <3>1. UNCHANGED <<req, inbox, stack, timedOut, mixed>>
      BY <1>1, <2>9 DEF rosVars, history
    <3>2. \A d \in Entities, h \in Goals :
             goals'[d][h].header = 0 \/ goals'[d][h] = goals[d][h]
      BY <2>3, <2>6
    <3>3. OwedInv'
      BY <2>6, <2>7, <3>1, <3>2, OwedForgotten DEF WorkerInv
    <3>4. ResponseInv'
      BY <3>1, ResponsesUntouched DEF WorkerInv
    <3> QED  BY <1>2, <1>3, <3>3, <3>4 DEF WorkerInv
  <2> QED  BY <2>8, <2>9
<1> QED  BY <1>4, <1>5

LEMMA DestroyKeeps == ASSUME WorkerInv, HandleDestroy PROVE WorkerInv'
<1> DEFINE e == Head(queue).entity
<1>1. /\ queue # <<>> /\ queue' = Tail(queue)
      /\ UNCHANGED <<req, stack, timedOut, mixed>>
      /\ IF e \in table
         THEN /\ pending' = [pending EXCEPT ![e] = {}]
              /\ goals' = [goals EXCEPT ![e] = [g \in Goals |-> NoSlot]]
              /\ inbox' = [inbox EXCEPT ![e] = <<>>]
         ELSE UNCHANGED <<pending, goals, inbox>>
  BY DEF HandleDestroy, NextIs, Taken, history
<1>2. PlaceInv'
  BY DestroyedKeepsPlace DEF WorkerInv
<1>3. CallsNameGoals'
  BY <1>1, DequeuedGoals
<1> HIDE DEF e
<1>4. pending' \in [Entities -> SUBSET Nat]
      /\ \A d \in Entities : pending'[d] \subseteq pending[d]
  BY <1>1 DEF WorkerInv, OwedInv, OwedTypes
<1>5. /\ goals' \in [Entities -> [Goals -> Slot]]
      /\ \A d \in Entities, h \in Goals :
            goals'[d][h].header = 0 \/ goals'[d][h] = goals[d][h]
  <2> DEFINE row == [g \in Goals |-> NoSlot]
  <2>1. row \in [Goals -> Slot] /\ \A g \in Goals : row[g].header = 0
    BY DEF NoSlot, GoalSlot, Slot
  <2>2. goals' = [goals EXCEPT ![e] = row] \/ goals' = goals
    BY <1>1
  <2> HIDE DEF row
  <2> QED  BY <2>1, <2>2 DEF WorkerInv, OwedInv, OwedTypes
<1>6. /\ inbox' \in [Entities -> Seq(Nat)]
      /\ \A d \in Entities : inbox'[d] = inbox[d] \/ inbox'[d] = <<>>
  <2>1. <<>> \in Seq(Nat)
    OBVIOUS
  <2> QED  BY <1>1, <2>1 DEF WorkerInv, ResponseInv, ResponsesWait
<1>7. OwedInv'
  BY <1>1, <1>4, <1>5, OwedForgotten DEF WorkerInv
<1>8. ResponseInv'
  BY <1>1, <1>6, ResponsesDropped DEF WorkerInv
<1> QED  BY <1>2, <1>3, <1>7, <1>8 DEF WorkerInv

\* The calls and the commands stay as they are.
LEMMA CallsUntouched ==
    ASSUME WorkerInv, UNCHANGED <<connVars, entityVars, stack, stopped>>
    PROVE  PlaceInv' /\ CallsNameGoals'
<1>1. PlaceInv'
  BY PlaceUntouched DEF WorkerInv, connVars, entityVars
<1>2. CallsNameGoals'
  BY DEF WorkerInv, CallsNameGoals, connVars
<1> QED  BY <1>1, <1>2

\* A request that nobody took is owed by nobody.
LEMMA UntakenOwedByNone ==
    ASSUME OwedInv, NEW n \in DOMAIN req, ~req[n].taken
    PROVE  /\ n \in Nat \ {0} /\ req[n] \in RequestRecord /\ req[n].answers = 0
           /\ \A e \in Entities : n \notin pending[e]
           /\ \A e \in Entities, g \in Goals : goals[e][g].header # n
<1>1. n \in Nat \ {0} /\ req[n] \in RequestRecord
  BY LenProperties, ElementOfSeq DEF OwedInv, OwedTypes
<1>2. req[n].answers = 0
  BY <1>1 DEF OwedInv, AnsweredWereTaken, RequestRecord
<1>3. \A e \in Entities : n \notin pending[e]
  BY DEF OwedInv, PendingOwed
<1>4. \A e \in Entities, g \in Goals : goals[e][g].header # n
  BY <1>1 DEF OwedInv, HeadersOwed
<1> QED  BY <1>1, <1>2, <1>3, <1>4

\* A request is taken by whoever answers it at once.
LEMMA TakeAndAnswerKeeps ==
    ASSUME WorkerInv, NEW n \in DOMAIN req, ~req[n].taken, TakeAndAnswer(n),
           UNCHANGED <<connVars, entityVars, stack, stopped, pending, history>>,
           goals' \in [Entities -> [Goals -> Slot]],
           \A e \in Entities, g \in Goals :
              goals'[e][g].header = 0 \/ goals'[e][g] = goals[e][g]
    PROVE  WorkerInv'
<1>1. /\ n \in Nat /\ req[n].answers = 0
      /\ \A e \in Entities : n \notin pending[e]
      /\ \A e \in Entities, g \in Goals : goals[e][g].header # n
  BY UntakenOwedByNone DEF WorkerInv
<1>2. req' = Noted(n, TRUE, 1)
  <2>1. req[n].answers + 1 = 1
    BY <1>1
  <2> QED  BY <2>1 DEF TakeAndAnswer
<1>3. Marked(n, TRUE, 1)
  BY <1>2, NotedMarks DEF WorkerInv, OwedInv
<1>4. /\ pending' \in [Entities -> SUBSET Nat]
      /\ \A e \in Entities : pending'[e] \subseteq pending[e] \ {n}
  <2>1. pending' = pending /\ pending \in [Entities -> SUBSET Nat]
    BY DEF WorkerInv, OwedInv, OwedTypes
  <2> QED  BY <1>1, <2>1
<1>5. OwedInv'
  <2>1. \A e \in Entities, g \in Goals :
           \/ goals'[e][g].header = 0
           \/ goals'[e][g] = goals[e][g] /\ goals[e][g].header # n
    BY <1>1
  <2>2. OwedInv
    BY DEF WorkerInv
  <2> QED  BY <1>3, <1>4, <2>1, <2>2, OwedLess
<1>6. ResponseInv'
  BY <1>1, <1>3, ResponseDelivered DEF WorkerInv, TakeAndAnswer, history
<1> QED  BY <1>5, <1>6, CallsUntouched DEF WorkerInv

\* A request is taken and leaves no trace where it was taken.
LEMMA TakeOnlyKeeps ==
    ASSUME WorkerInv, NEW n \in DOMAIN req, ~req[n].taken, TakeOnly(n),
           UNCHANGED <<connVars, entityVars, stack, stopped, pending, history>>,
           goals' \in [Entities -> [Goals -> Slot]],
           \A e \in Entities, g \in Goals :
              goals'[e][g].header = 0 \/ goals'[e][g] = goals[e][g]
    PROVE  WorkerInv'
<1>1. /\ n \in Nat /\ req[n].answers = 0
      /\ \A e \in Entities : n \notin pending[e]
      /\ \A e \in Entities, g \in Goals : goals[e][g].header # n
  BY UntakenOwedByNone DEF WorkerInv
<1>2. Marked(n, TRUE, 0)
  BY <1>1, NotedMarks DEF WorkerInv, OwedInv, TakeOnly
<1>3. /\ pending' \in [Entities -> SUBSET Nat]
      /\ \A e \in Entities : pending'[e] \subseteq pending[e] \ {n}
  <2>1. pending' = pending /\ pending \in [Entities -> SUBSET Nat]
    BY DEF WorkerInv, OwedInv, OwedTypes
  <2> QED  BY <1>1, <2>1
<1>4. OwedInv'
  <2>1. \A e \in Entities, g \in Goals :
           \/ goals'[e][g].header = 0
           \/ goals'[e][g] = goals[e][g] /\ goals[e][g].header # n
    BY <1>1
  <2>2. OwedInv
    BY DEF WorkerInv
  <2> QED  BY <1>2, <1>3, <2>1, <2>2, OwedLess
<1>5. /\ DOMAIN req' = DOMAIN req
      /\ \A k \in DOMAIN req : /\ req'[k].asker = req[k].asker
                               /\ req'[k].answers = req[k].answers
  BY <1>1, <1>2 DEF Marked
<1>6. ResponseInv'
  BY <1>5, ResponsesUntouched DEF WorkerInv, TakeOnly, history
<1> QED  BY <1>4, <1>6, CallsUntouched DEF WorkerInv

-----------------------------------------------------------------------------
(* The pump. *)

LEMMA PumpServiceKeeps ==
    ASSUME WorkerInv, NEW e \in Entities, NEW n \in DOMAIN req, PumpService(e, n)
    PROVE  WorkerInv'
<1>1. /\ ~req[n].taken /\ req[n].stage = "service"
      /\ req' = Noted(n, TRUE, req[n].answers)
      /\ pending' = [pending EXCEPT ![e] = @ \cup {n}]
      /\ UNCHANGED <<connVars, entityVars, stack, stopped>>
      /\ UNCHANGED <<inbox, stack, timedOut, mixed>> /\ goals' = goals
  BY DEF PumpService, Arrived, history
<1>2. req[n].answers = 0
  BY <1>1, UntakenOwedByNone DEF WorkerInv
<1>3. Marked(n, TRUE, 0)
  BY <1>1, <1>2, NotedMarks DEF WorkerInv, OwedInv
<1>4. OwedInv'
  BY <1>1, <1>2, <1>3, OwedAtService DEF WorkerInv
<1>5. /\ DOMAIN req' = DOMAIN req
      /\ \A k \in DOMAIN req : /\ req'[k].asker = req[k].asker
                               /\ req'[k].answers = req[k].answers
  BY <1>2, <1>3 DEF Marked
<1>6. ResponseInv'
  BY <1>1, <1>5, ResponsesUntouched DEF WorkerInv
<1> QED  BY <1>1, <1>4, <1>6, CallsUntouched DEF WorkerInv

LEMMA PumpGoalKeeps ==
    ASSUME WorkerInv, NEW e \in Entities, NEW n \in DOMAIN req,
           NEW ok \in BOOLEAN, PumpGoal(e, n, ok)
    PROVE  WorkerInv'
<1> DEFINE g == req[n].goal
           v == GoalSlot(TRUE, 0, FALSE, FALSE)
<1>1. /\ ~req[n].taken /\ req[n].stage = "goal"
      /\ UNCHANGED <<connVars, entityVars, stack, stopped, pending, history>>
      /\ \/ TakeAndAnswer(n) /\ goals' = [goals EXCEPT ![e][g] = v]
         \/ TakeOnly(n) /\ goals' = goals
  BY DEF PumpGoal, Arrived
<1>2. g \in Goals
  BY <1>1 DEF WorkerInv, OwedInv, RequestsNameGoals
<1>3. v \in Slot /\ v.header = 0
  BY DEF GoalSlot, Slot
<1> HIDE DEF g, v
<1>4. CASE TakeAndAnswer(n) /\ goals' = [goals EXCEPT ![e][g] = v]
  <2>1. /\ goals' \in [Entities -> [Goals -> Slot]] /\ goals'[e][g] = v
        /\ \A d \in Entities, h \in Goals :
              d # e \/ h # g => goals'[d][h] = goals[d][h]
    <3>1. OwedTypes /\ SlotPut(e, g, v)
      BY <1>4 DEF SlotPut, WorkerInv, OwedInv
    <3> QED  BY <1>2, <1>3, <3>1, SlotSet
  <2>2. \A d \in Entities, h \in Goals :
           goals'[d][h].header = 0 \/ goals'[d][h] = goals[d][h]
    BY <1>3, <2>1
  <2> QED  BY <1>1, <1>4, <2>1, <2>2, TakeAndAnswerKeeps
<1>5. CASE TakeOnly(n) /\ goals' = goals
  <2>1. goals' \in [Entities -> [Goals -> Slot]]
    BY <1>5 DEF WorkerInv, OwedInv, OwedTypes
  <2> QED  BY <1>1, <1>5, <2>1, TakeOnlyKeeps
<1> QED  BY <1>1, <1>4, <1>5

LEMMA PumpResultKeeps ==
    ASSUME WorkerInv, NEW e \in Entities, NEW n \in DOMAIN req,
           NEW ok \in BOOLEAN, NEW sent \in BOOLEAN,
           PumpResult(e, n, ok, sent)
    PROVE  WorkerInv'
<1> DEFINE g == req[n].goal
           slot == goals[e][g]
           succeeds == slot.succeeded \/ ok
           done == GoalSlot(TRUE, 0, TRUE, succeeds)
           kept == GoalSlot(TRUE, n, FALSE, slot.succeeded)
<1>1. /\ ~req[n].taken /\ req[n].stage = "result"
      /\ UNCHANGED <<connVars, entityVars, stack, stopped, pending, history>>
      /\ IF slot.open
         THEN goals' = [goals EXCEPT ![e][g] = IF slot.result THEN done ELSE kept]
         ELSE UNCHANGED goals
      /\ IF slot.open /\ slot.result /\ succeeds /\ sent
         THEN TakeAndAnswer(n) ELSE TakeOnly(n)
  BY DEF PumpResult, Arrived
<1>2. g \in Goals
  BY <1>1 DEF WorkerInv, OwedInv, RequestsNameGoals
<1>3. /\ n \in Nat /\ req[n].answers = 0
  BY <1>1, UntakenOwedByNone DEF WorkerInv
<1>4. done \in Slot /\ done.header = 0
  BY DEF GoalSlot, Slot
<1>5. kept \in Slot /\ kept.header = n /\ ~kept.result
  <2>1. slot \in Slot
    BY <1>2 DEF WorkerInv, OwedInv, OwedTypes
  <2>2. slot.succeeded \in BOOLEAN
    BY <2>1 DEF Slot
  <2> HIDE DEF slot
  <2> QED  BY <1>3, <2>2 DEF GoalSlot, Slot
<1>6. TakeAndAnswer(n) \/ TakeOnly(n)
  BY <1>1
<1>7. CASE ~slot.open
  <2>1. goals' = goals /\ goals' \in [Entities -> [Goals -> Slot]]
    BY <1>1, <1>7 DEF WorkerInv, OwedInv, OwedTypes
  <2> QED  BY <1>1, <1>6, <2>1, TakeOnlyKeeps, TakeAndAnswerKeeps
<1>8. CASE slot.open /\ slot.result
  <2>1. SlotPut(e, g, done)
    BY <1>1, <1>8 DEF SlotPut
  <2> HIDE DEF g, done
  <2>2. /\ goals' \in [Entities -> [Goals -> Slot]] /\ goals'[e][g] = done
        /\ \A d \in Entities, h \in Goals :
              d # e \/ h # g => goals'[d][h] = goals[d][h]
    <3>1. OwedTypes /\ e \in Entities /\ g \in Goals /\ done \in Slot
      BY <1>2, <1>4 DEF WorkerInv, OwedInv
    <3> QED  BY <2>1, <3>1, SlotSet
  <2>3. \A d \in Entities, h \in Goals :
           goals'[d][h].header = 0 \/ goals'[d][h] = goals[d][h]
    BY <1>4, <2>2
  <2> QED  BY <1>1, <1>6, <2>2, <2>3, TakeOnlyKeeps, TakeAndAnswerKeeps
<1>9. CASE slot.open /\ ~slot.result
  <2>1. SlotPut(e, g, kept) /\ TakeOnly(n)
    BY <1>1, <1>9 DEF SlotPut
  <2>2. g = req[n].goal
    OBVIOUS
  <2> HIDE DEF g, kept
  <2>3. /\ goals' \in [Entities -> [Goals -> Slot]] /\ goals'[e][g] = kept
        /\ \A d \in Entities, h \in Goals :
              d # e \/ h # g => goals'[d][h] = goals[d][h]
    <3>1. OwedTypes /\ e \in Entities /\ g \in Goals /\ kept \in Slot
      BY <1>2, <1>5 DEF WorkerInv, OwedInv
    <3> QED  BY <2>1, <3>1, SlotSet
  <2>4. Marked(n, TRUE, 0)
    BY <1>3, <2>1, NotedMarks DEF WorkerInv, OwedInv, TakeOnly
  <2>5. OwedInv'
    <3>1. OwedInv /\ pending' = pending /\ Marked(n, TRUE, req[n].answers)
      BY <1>1, <1>3, <2>4 DEF WorkerInv
    <3>2. goals'[e][g].header = n /\ ~goals'[e][g].result
      BY <1>5, <2>3
    <3>3. ~req[n].taken /\ req[n].stage = "result" /\ req[n].answers = 0
      BY <1>1, <1>3
    <3>4. req[n].goal = g
      BY <2>2
    <3> HIDE DEF slot
    <3> QED  BY <1>2, <2>3, <3>1, <3>2, <3>3, <3>4, OwedAtGoal, ZenonT(60)
  <2>6. /\ DOMAIN req' = DOMAIN req
        /\ \A k \in DOMAIN req : /\ req'[k].asker = req[k].asker
                                 /\ req'[k].answers = req[k].answers
    BY <1>3, <2>4 DEF Marked
  <2>7. ResponseInv'
    BY <1>1, <2>1, <2>6, ResponsesUntouched DEF WorkerInv, TakeOnly, history
  <2> QED  BY <1>1, <2>5, <2>7, CallsUntouched DEF WorkerInv
<1> QED  BY <1>7, <1>8, <1>9

-----------------------------------------------------------------------------
(* The rest of the graph, the end of a call and the end of the thread. *)

LEMMA OthersAnswerKeeps ==
    ASSUME WorkerInv, NEW n \in DOMAIN req, OthersAnswer(n)
    PROVE  WorkerInv'
<1>1. goals' = goals /\ goals' \in [Entities -> [Goals -> Slot]]
  BY DEF OthersAnswer, WorkerInv, OwedInv, OwedTypes
<1> QED  BY <1>1, TakeAndAnswerKeeps DEF OthersAnswer

LEMMA OthersAskKeeps ==
    ASSUME WorkerInv, NEW stage \in Stage, NEW g \in Nat,
           stage # "service" => g \in Goals, OthersAsk(stage, g)
    PROVE  WorkerInv'
<1>1. /\ req' = Append(req, Request(0, stage, g))
      /\ UNCHANGED <<connVars, entityVars, stack, stopped>>
      /\ UNCHANGED <<pending, goals>> /\ UNCHANGED <<inbox, timedOut, mixed>>
  BY DEF OthersAsk, history
<1>2. OwedInv'
  BY <1>1, OwedAsked DEF WorkerInv
<1>3. ResponseInv'
  <2>1. PICK new : new = Len(req) + 1
    OBVIOUS
  <2>2. \A x \in Entities, k \in DOMAIN req : AwaitedNow(x, k) => AwaitedNow(x, k)'
    BY <1>1 DEF AwaitedNow
  <2>3. \A x \in Entities : x = 0 => AwaitedNow(x, new)'
    BY DEF Entities
  <2>4. OwedTypes /\ ResponseInv
    BY DEF WorkerInv, OwedInv
  <2> QED  BY <1>1, <2>1, <2>2, <2>3, <2>4, ResponseAsked
<1> QED  BY <1>1, <1>2, <1>3, CallsUntouched DEF WorkerInv

\* The calls that are left name what they named.
LEMMA FrontNamesGoals ==
    ASSUME WorkerInv, stack # <<>>, stack' = Front(stack), queue' = queue
    PROVE  CallsNameGoals'
<1>1. /\ DOMAIN stack' = 1 .. Len(stack) - 1 /\ Len(stack) \in Nat \ {0}
      /\ DOMAIN stack = 1 .. Len(stack)
      /\ \A i \in 1 .. Len(stack) - 1 : stack'[i] = stack[i]
  BY Fronted DEF WorkerInv, PlaceInv, PlaceTypes
<1>2. \A i \in DOMAIN stack' : i \in DOMAIN stack /\ stack'[i] = stack[i]
  BY <1>1
<1> QED  BY <1>2 DEF WorkerInv, CallsNameGoals

LEMMA OwedUntouched ==
    ASSUME OwedInv, UNCHANGED <<req, pending, goals>>
    PROVE  OwedInv'
BY DEF OwedInv, OwedTypes, RequestsNameGoals, AnsweredWereTaken, PendingOwed,
       HeadersOwed

LEMMA GiveUpKeeps == ASSUME WorkerInv, GiveUp PROVE WorkerInv'
<1>1. /\ stack # <<>> /\ Return /\ stack' = Front(stack)
      /\ UNCHANGED <<queue, holds, nextEntity, finalised, stopped>>
      /\ UNCHANGED <<req, pending, goals>> /\ queue' = queue
  BY DEF GiveUp, Return, rosVars
<1>2. PlaceInv'
  BY <1>1, ReturnKeepsPlace DEF WorkerInv
<1>3. CallsNameGoals'
  BY <1>1, FrontNamesGoals
<1>4. OwedInv'
  BY <1>1, OwedUntouched DEF WorkerInv
<1>5. ResponseInv'
  BY GiveUpResponses DEF WorkerInv
<1> QED  BY <1>2, <1>3, <1>4, <1>5 DEF WorkerInv

LEMMA TakeResponseKeeps ==
    ASSUME WorkerInv, NEW accepted \in BOOLEAN, TakeResponse(accepted)
    PROVE  WorkerInv'
<1> DEFINE f == [conn |-> Last(stack).conn, entity |-> Last(stack).entity,
                 stage |-> "result", goal |-> Last(stack).goal,
                 req |-> Len(req) + 1]
           n == Len(stack)
<1>1. /\ stack # <<>>
      /\ UNCHANGED <<queue, holds, nextEntity, finalised, stopped>>
      /\ UNCHANGED <<pending, goals>> /\ queue' = queue
      /\ \/ /\ Last(stack).stage = "goal"
            /\ req' = Append(req, Request(Last(stack).entity, "result",
                                          Last(stack).goal))
            /\ stack' = Append(Front(stack), f)
            /\ UNCHANGED <<table, waiting>>
         \/ Return /\ req' = req
  BY DEF TakeResponse
<1>2. ResponseInv'
  BY TakeResponseResponses DEF WorkerInv
<1>3. CASE Return /\ req' = req
  <2>1. PlaceInv'
    BY <1>1, <1>3, ReturnKeepsPlace DEF WorkerInv
  <2>2. CallsNameGoals'
    BY <1>1, <1>3, FrontNamesGoals DEF Return
  <2>3. OwedInv'
    BY <1>1, <1>3, OwedUntouched DEF WorkerInv
  <2> QED  BY <1>2, <2>1, <2>2, <2>3 DEF WorkerInv
<1>4. CASE /\ Last(stack).stage = "goal"
           /\ req' = Append(req, Request(Last(stack).entity, "result",
                                         Last(stack).goal))
           /\ stack' = Append(Front(stack), f)
           /\ UNCHANGED <<table, waiting>>
  <2>1. /\ Front(stack) \in Seq(Frame)
        /\ Last(stack) = stack[n] /\ n \in DOMAIN stack /\ Last(stack) \in Frame
        /\ n \in Nat \ {0} /\ DOMAIN stack = 1 .. n
        /\ Len(Front(stack)) = n - 1
        /\ \A i \in 1 .. n - 1 : Front(stack)[i] = stack[i]
    BY <1>1, Fronted DEF WorkerInv, PlaceInv, PlaceTypes
  <2>2. /\ Last(stack).goal \in Goals
    BY <1>4, <2>1 DEF WorkerInv, CallsNameGoals
  <2>3. /\ Last(stack).entity \in Entities /\ Last(stack).goal \in Nat
    BY <2>1 DEF Frame
  <2>4. Len(req) \in Nat
    BY LenProperties DEF WorkerInv, OwedInv, OwedTypes
  <2>5. PlaceInv'
    BY <1>1, <1>4, <2>4, GoesOnKeepsPlace DEF WorkerInv
  <2>6. OwedInv'
    <3>1. "result" \in Stage /\ OwedInv
      BY DEF Stage, WorkerInv
    <3> QED  BY <1>1, <1>4, <2>2, <2>3, <3>1, OwedAsked
  <2>7. f \in Frame /\ f.goal = Last(stack).goal
    BY <2>1, <2>4 DEF Frame, Stage
  <2> HIDE DEF f, n
  <2>8. /\ DOMAIN stack' = 1 .. (n - 1) + 1
        /\ \A i \in 1 .. n - 1 : stack'[i] = stack[i]
        /\ stack'[(n - 1) + 1] = f
    BY <1>4, <2>1, <2>7, Appended
  <2>9. \A i \in DOMAIN stack' : \/ i \in DOMAIN stack /\ stack'[i] = stack[i]
                                 \/ stack'[i] = f
    BY <2>1, <2>8
  <2>10. CallsNameGoals'
    BY <1>1, <2>2, <2>7, <2>9 DEF WorkerInv, CallsNameGoals
  <2> QED  BY <1>2, <2>5, <2>6, <2>10 DEF WorkerInv
<1> QED  BY <1>1, <1>3, <1>4

LEMMA EndsKeeps == ASSUME WorkerInv, ThreadEnds PROVE WorkerInv'
<1>1. /\ stack = <<>> /\ queue' = <<>> /\ UNCHANGED <<req, stack, timedOut, mixed>>
      /\ pending' = [e \in Entities |-> {}]
      /\ goals' = [e \in Entities |-> [g \in Goals |-> NoSlot]]
      /\ inbox' = [e \in Entities |-> <<>>]
  BY DEF ThreadEnds, history
<1>2. PlaceInv'
  BY EndsKeepsPlace DEF WorkerInv
<1>3. DOMAIN queue' = {} /\ DOMAIN stack' = {}
  BY <1>1
<1>4. CallsNameGoals'
  BY <1>3 DEF CallsNameGoals
<1>5. /\ pending' \in [Entities -> SUBSET Nat]
      /\ \A e \in Entities : pending'[e] \subseteq pending[e]
  BY <1>1
<1>6. NoSlot \in Slot /\ NoSlot.header = 0
  BY DEF NoSlot, GoalSlot, Slot
<1>7. /\ goals' \in [Entities -> [Goals -> Slot]]
      /\ \A e \in Entities, g \in Goals : goals'[e][g].header = 0
  BY <1>1, <1>6
<1>8. OwedInv'
  BY <1>1, <1>5, <1>7, OwedForgotten DEF WorkerInv
<1>9. /\ inbox' \in [Entities -> Seq(Nat)]
      /\ \A e \in Entities : inbox'[e] = <<>>
  BY <1>1
<1>10. ResponseInv'
  BY <1>1, <1>9, ResponsesDropped DEF WorkerInv
<1> QED  BY <1>2, <1>4, <1>8, <1>10 DEF WorkerInv

LEMMA WorkerStep == WorkerInv /\ [Next]_vars => WorkerInv'
<1> SUFFICES ASSUME WorkerInv, [Next]_vars PROVE WorkerInv'
  OBVIOUS
<1>1. CASE Connections
  BY <1>1, ConnectionsKeep
<1>2. CASE Handle
  <2>1. ASSUME NEW ok \in BOOLEAN,
               HandleCall("call", "service", ok) \/ HandleCall("goal", "goal", ok)
        PROVE  WorkerInv'
    BY <2>1, CallKeeps
  <2> QED  BY <1>2, <2>1, CreateKeeps, RespondKeeps, ResultKeeps, ForwardKeeps,
              DestroyKeeps DEF Handle
<1>3. CASE Pump
  BY <1>3, PumpServiceKeeps, PumpGoalKeeps, PumpResultKeeps DEF Pump
<1>4. CASE Ends
  BY <1>4, GiveUpKeeps, TakeResponseKeeps DEF Ends
<1>5. CASE ThreadEnds
  BY <1>5, EndsKeeps
<1>6. CASE Others
  <2>1. /\ Goals \subseteq Nat
        /\ "service" \in Stage /\ "goal" \in Stage /\ "result" \in Stage
    BY WorkerAssumption DEF Stage
  <2>2. CASE OthersAsk("service", 0)
    BY <2>1, <2>2, OthersAskKeeps
  <2>3. ASSUME NEW stage \in {"goal", "result"}, NEW g \in Goals,
               OthersAsk(stage, g)
        PROVE  WorkerInv'
    <3>1. stage \in Stage /\ g \in Nat
      BY <2>1
    <3> QED  BY <2>3, <3>1, OthersAskKeeps
  <2> QED  BY <1>6, <2>2, <2>3, OthersAnswerKeeps DEF Others
<1>7. CASE UNCHANGED vars
  <2>1. /\ UNCHANGED <<connVars, entityVars, stack, stopped>>
        /\ UNCHANGED <<req, pending, goals, inbox, stack, history>>
    BY <1>7 DEF vars, rosVars
  <2> QED  BY <2>1, CallsUntouched, RequestsUntouched DEF WorkerInv
<1> QED  BY <1>1, <1>2, <1>3, <1>4, <1>5, <1>6, <1>7 DEF Next

\* The inductive invariant of the worker.
THEOREM WorkerInvariant == Spec => []WorkerInv
<1>1. Init => WorkerInv
  BY WorkerInitially
<1>2. WorkerInv /\ [Next]_vars => WorkerInv'
  BY WorkerStep
<1> QED  BY <1>1, <1>2, PTL DEF Spec

(***************************************************************************)
(* However deep calls nest, and whichever of them fail or give up: every   *)
(* entity that call_client and send_action_goal take out of the worker's   *)
(* maps is in the maps, in one call, or finalised once, by destroy_entity  *)
(* or by the teardown.                                                     *)
(***************************************************************************)
THEOREM OnePlace == Spec => []EntityInOnePlace
<1>1. WorkerInv => EntityInOnePlace
  <2> SUFFICES ASSUME WorkerInv, NEW e \in 1 .. nextEntity
               PROVE  \E n : /\ n = Cardinality({i \in DOMAIN stack :
                                                    stack[i].entity = e})
                             /\ (IF e \in table THEN 1 ELSE 0) + n
                                  + finalised[e] = 1
    BY DEF EntityInOnePlace
  <2> DEFINE calls == {i \in DOMAIN stack : stack[i].entity = e}
  <2>1. CASE calls = {}
    <3>1. Cardinality(calls) = 0
      BY <2>1, FS_EmptySet
    <3>2. CASE e \in table
      <4>1. finalised[e] = 0
        BY <3>2 DEF WorkerInv, PlaceInv, Placed
      <4>2. (IF e \in table THEN 1 ELSE 0) + 0 + finalised[e] = 1
        BY <3>2, <4>1
      <4> QED  BY <3>1, <4>2
    <3>3. CASE e \notin table
      <4>1. finalised[e] = 1
        BY <2>1, <3>3 DEF WorkerInv, PlaceInv, Placed
      <4> QED  BY <3>1, <3>3, <4>1
    <3> QED  BY <3>2, <3>3
  <2>2. CASE calls # {}
    <3>1. PICK i \in DOMAIN stack : stack[i].entity = e
      BY <2>2
    <3>2. calls = {i}
      BY <3>1 DEF WorkerInv, PlaceInv, Placed
    <3>3. e \notin table /\ finalised[e] = 0
      BY <3>1 DEF WorkerInv, PlaceInv, Placed
    <3>4. Cardinality(calls) = 1
      BY <3>2, FS_Singleton
    <3>5. (IF e \in table THEN 1 ELSE 0) + 1 + finalised[e] = 1
      BY <3>3
    <3> QED  BY <3>4, <3>5
  <2> QED  BY <2>1, <2>2
<1> QED  BY <1>1, WorkerInvariant, PTL

(***************************************************************************)
(* No command of a connection meets an entity that is out of the maps: a   *)
(* connection sends nothing while its own call is in progress, and no      *)
(* other connection names what it holds.                                   *)
(***************************************************************************)
THEOREM CommandsFind == Spec => []CommandsFindTheirEntity
<1>1. WorkerInv => CommandsFindTheirEntity
  <2> SUFFICES ASSUME WorkerInv, NEW i \in DOMAIN queue, queue[i].entity # 0
               PROVE  queue[i].entity \in table
    BY DEF CommandsFindTheirEntity
  <2>1. queue[i] \in CommandSet /\ queue[i].conn \in Conns
    BY Elements DEF WorkerInv, PlaceInv
  <2>2. queue[i].op # "create"
    BY <2>1 DEF CommandSet, Operation
  <2>3. CASE queue[i].op = "destroy"
    BY <2>3 DEF WorkerInv, PlaceInv, Named
  <2>4. CASE queue[i].op # "destroy"
    <3>1. queue[i].entity \in holds[queue[i].conn]
      BY <2>2, <2>4 DEF WorkerInv, PlaceInv, Named
    <3>2. queue # <<>>
      OBVIOUS
    <3>3. \/ queue[i].entity \in table
          \/ \E j \in DOMAIN stack : stack[j].conn = queue[i].conn
      BY <2>1, <3>1, <3>2 DEF WorkerInv, PlaceInv, Owned
    <3> QED  BY <3>3 DEF WorkerInv, PlaceInv, OneOutstanding
  <2> QED  BY <2>3, <2>4
<1> QED  BY <1>1, WorkerInvariant, PTL

-----------------------------------------------------------------------------
(* No request is lost: one that was taken is answered, waits, or was given *)
(* up.  Beside WorkerInv, which says who owes what.                        *)

Settled(n) == req[n].answers = 1 \/ Waits(n) \/ n \in excused

AccountInv == \A n \in DOMAIN req : req[n].taken => Settled(n)

\* The requests of T are settled by the step, and the others keep what they
\* had.
LEMMA AccountsKept ==
    ASSUME AccountInv, excused \subseteq excused', NEW T,
           \A k \in DOMAIN req' :
              \/ k \in T
              \/ ~req'[k].taken
              \/ /\ k \in DOMAIN req /\ req[k].taken
                 /\ req[k].answers = 1 => req'[k].answers = 1,
           \A k \in T : req'[k].answers = 1 \/ k \in excused' \/ Waits(k)',
           \A d \in Entities : \A k \in Owed(d) :
              k \in T \/ k \in excused' \/ k \in Owed(d)'
    PROVE  AccountInv'
<1> SUFFICES ASSUME NEW k \in DOMAIN req', req'[k].taken
             PROVE  Settled(k)'
  BY DEF AccountInv
<1>1. CASE k \in T
  BY <1>1 DEF Settled
<1>2. CASE k \notin T
  <2>1. /\ k \in DOMAIN req /\ req[k].taken
        /\ req[k].answers = 1 => req'[k].answers = 1
    BY <1>2
  <2>2. req[k].answers = 1 \/ Waits(k) \/ k \in excused
    BY <2>1 DEF AccountInv, Settled
  <2>3. CASE Waits(k)
    <3>1. PICK d \in Entities : k \in Owed(d)
      BY <2>3 DEF Waits
    <3>2. k \in excused' \/ k \in Owed(d)'
      BY <1>2, <3>1
    <3>3. k \in excused' \/ Waits(k)'
      BY <3>2 DEF Waits
    <3> QED  BY <3>3 DEF Settled
  <2> QED  BY <2>1, <2>2, <2>3 DEF Settled
<1> QED  BY <1>1, <1>2

\* Nothing about the requests changes.
LEMMA AccountsUntouched ==
    ASSUME AccountInv, UNCHANGED <<req, pending, goals, excused>>
    PROVE  AccountInv'
BY DEF AccountInv, Settled, Waits, Owed

\* A request is made.
LEMMA AccountsAsked ==
    ASSUME WorkerInv, AccountInv, NEW asker \in Entities \cup {0},
           NEW stage \in Stage, NEW goal \in Nat,
           req' = Append(req, Request(asker, stage, goal)),
           UNCHANGED <<pending, goals, excused>>
    PROVE  AccountInv'
<1>1. /\ \A k \in DOMAIN req : k \in DOMAIN req' /\ req'[k] = req[k]
      /\ \A k \in DOMAIN req' : k \in DOMAIN req \/ k = Len(req) + 1
      /\ req'[Len(req) + 1] = Request(asker, stage, goal)
  BY AskedAppends DEF WorkerInv, OwedInv
<1>2. req'[Len(req) + 1].taken = FALSE
  BY <1>1 DEF Request
<1>3. \A k \in DOMAIN req' :
         \/ ~req'[k].taken
         \/ /\ k \in DOMAIN req /\ req[k].taken
            /\ req[k].answers = 1 => req'[k].answers = 1
  BY <1>1, <1>2
<1>4. \A d \in Entities : \A k \in Owed(d) : k \in Owed(d)'
  BY <1>1 DEF Owed
<1>5. excused \subseteq excused'
  OBVIOUS
<1> QED  BY <1>3, <1>4, <1>5, AccountsKept

\* Request n is marked as taken.  Those owed at other places keep theirs.
LEMMA AccountsMarked ==
    ASSUME WorkerInv, AccountInv, NEW n \in DOMAIN req, NEW answers \in {0, 1},
           Marked(n, TRUE, answers), excused \subseteq excused',
           answers = 1 \/ n \in excused' \/ Waits(n)',
           \A d \in Entities : \A k \in Owed(d) :
              k = n \/ k \in excused' \/ k \in Owed(d)'
    PROVE  AccountInv'
<1>1. /\ DOMAIN req' = DOMAIN req /\ req'[n].answers = answers
      /\ \A k \in DOMAIN req : k # n => /\ (req'[k].taken <=> req[k].taken)
                                        /\ req'[k].answers = req[k].answers
  BY DEF Marked
<1>2. \A k \in DOMAIN req' :
         \/ k \in {n}
         \/ ~req'[k].taken
         \/ /\ k \in DOMAIN req /\ req[k].taken
            /\ req[k].answers = 1 => req'[k].answers = 1
  BY <1>1
<1>3. \A k \in {n} : req'[k].answers = 1 \/ k \in excused' \/ Waits(k)'
  BY <1>1
<1>4. \A d \in Entities : \A k \in Owed(d) :
         k \in {n} \/ k \in excused' \/ k \in Owed(d)'
  OBVIOUS
<1> HIDE DEF Waits, Owed
<1> QED  BY <1>2, <1>3, <1>4, AccountsKept

\* Debts are dropped, and no request is marked.
LEMMA AccountsDropped ==
    ASSUME AccountInv, req' = req, excused \subseteq excused',
           \A d \in Entities : \A k \in Owed(d) :
              k \in excused' \/ k \in Owed(d)'
    PROVE  AccountInv'
<1>1. \A k \in DOMAIN req' :
         \/ ~req'[k].taken
         \/ /\ k \in DOMAIN req /\ req[k].taken
            /\ req[k].answers = 1 => req'[k].answers = 1
  OBVIOUS
<1> QED  BY <1>1, AccountsKept

\* What is owed after a change of one place of goals or of pending.
LEMMA OwedElsewhere ==
    ASSUME DOMAIN req' = DOMAIN req, NEW d \in Entities, NEW k \in Owed(d),
           \/ k \in pending[d] /\ k \in pending'[d]
           \/ \E g \in Goals : /\ goals[d][g].header = k /\ ~goals[d][g].result
                               /\ goals'[d][g] = goals[d][g]
    PROVE  k \in Owed(d)'
BY DEF Owed

LEMMA RespondAccounts ==
    ASSUME WorkerInv, AccountInv, NEW ok \in BOOLEAN, HandleRespond(ok)
    PROVE  AccountInv'
<1> DEFINE e == Head(queue).entity
           n == Head(queue).arg
           known == e \in table /\ n \in pending[e]
<1>1. /\ queue # <<>> /\ goals' = goals
      /\ excused' = excused \cup ((IF known /\ ~ok THEN {n} ELSE {}) \ {0})
      /\ IF known
         THEN /\ pending' = [pending EXCEPT ![e] = @ \ {n}]
              /\ IF ok THEN Answer(n) ELSE UNCHANGED rosVars
         ELSE UNCHANGED <<pending, rosVars>>
  BY DEF HandleRespond, NextIs, Excuse
<1>2. CASE ~known
  <2>1. UNCHANGED <<req, pending, goals, excused>>
    BY <1>1, <1>2 DEF rosVars
  <2> QED  BY <2>1, AccountsUntouched
<1>3. CASE known
  <2>1. e \in Entities /\ n \in pending[e]
    BY <1>1, <1>3, EntityRange DEF WorkerInv, PlaceInv
  <2> HIDE DEF e, n
  <2>2. /\ n \in DOMAIN req /\ req[n].taken /\ req[n].answers = 0
    BY <2>1 DEF WorkerInv, OwedInv, PendingOwed
  <2>3. n \in Nat \ {0} /\ req[n] \in RequestRecord
    BY <2>2, LenProperties, ElementOfSeq DEF WorkerInv, OwedInv, OwedTypes
  <2>4. /\ pending'[e] = pending[e] \ {n}
        /\ \A d \in Entities : d # e => pending'[d] = pending[d]
    BY <1>1, <1>3, <2>1 DEF WorkerInv, OwedInv, OwedTypes
  <2>5. \A d \in Entities : \A k \in pending[d] : k = n \/ k \in pending'[d]
    BY <2>4
  <2>6. ASSUME DOMAIN req' = DOMAIN req
        PROVE  \A d \in Entities : \A k \in Owed(d) : k = n \/ k \in Owed(d)'
    BY <1>1, <2>5, <2>6 DEF Owed
  <2>7. CASE ok
    <3>1. Answer(n)
      BY <1>1, <1>3, <2>7
    <3>2. req[n].taken = TRUE /\ req[n].answers + 1 = 1
      BY <2>2, <2>3 DEF RequestRecord
    <3>3. Marked(n, TRUE, 1)
      BY <2>2, <3>1, <3>2, NotedMarks DEF WorkerInv, OwedInv, Answer
    <3>4. DOMAIN req' = DOMAIN req /\ excused \subseteq excused'
      BY <1>1, <3>3 DEF Marked
    <3> QED  BY <2>2, <2>6, <3>3, <3>4, AccountsMarked
  <2>8. CASE ~ok
    <3>1. req' = req /\ n \in excused' /\ excused \subseteq excused'
      BY <1>1, <1>3, <2>3, <2>8 DEF rosVars
    <3> QED  BY <2>6, <3>1, AccountsDropped
  <2> QED  BY <2>7, <2>8
<1> QED  BY <1>2, <1>3

LEMMA ResultAccounts ==
    ASSUME WorkerInv, AccountInv, NEW ok \in BOOLEAN, NEW sent \in BOOLEAN,
           HandleResult(ok, sent)
    PROVE  AccountInv'
<1> DEFINE e == Head(queue).entity
           g == Head(queue).arg
           slot == goals[e][g]
           n == slot.header
           succeeds == slot.succeeded \/ ok
           known == e \in table /\ slot.open
           v == GoalSlot(TRUE, 0, TRUE, succeeds)
<1>1. /\ queue # <<>> /\ Head(queue).op = "result" /\ pending' = pending
      /\ IF known THEN goals' = [goals EXCEPT ![e][g] = v] ELSE UNCHANGED goals
      /\ IF known /\ succeeds /\ sent /\ n # 0
         THEN Answer(n) ELSE UNCHANGED rosVars
      /\ excused' = excused \cup
            ((IF known /\ ~(succeeds /\ sent) THEN {n} ELSE {}) \ {0})
  BY DEF HandleResult, NextIs, Excuse
<1>2. CASE ~known
  <2>1. UNCHANGED <<req, pending, goals, excused>>
    BY <1>1, <1>2 DEF rosVars
  <2> QED  BY <2>1, AccountsUntouched
<1>3. CASE known
  <2>1. e \in Entities
    BY <1>1, <1>3, EntityRange DEF WorkerInv, PlaceInv
  <2>2. g \in Goals
    <3>1. 1 \in DOMAIN queue /\ Head(queue) = queue[1]
      BY <1>1, Dequeued DEF WorkerInv
    <3> QED  BY <1>1, <3>1 DEF WorkerInv, CallsNameGoals
  <2>3. v \in Slot
    BY DEF GoalSlot, Slot
  <2>4. SlotPut(e, g, v)
    BY <1>1, <1>3 DEF SlotPut
  <2>5. n # 0 => n \in DOMAIN req /\ req[n].taken /\ req[n].answers = 0
    BY <2>1, <2>2, ZenonT(60) DEF WorkerInv, OwedInv, HeadersOwed
  <2> HIDE DEF e, g, v
  <2>6. \A d \in Entities, h \in Goals : d # e \/ h # g => goals'[d][h] = goals[d][h]
    <3>1. OwedTypes
      BY DEF WorkerInv, OwedInv
    <3> QED  BY <2>1, <2>2, <2>3, <2>4, <3>1, SlotSet
  <2>7. ASSUME DOMAIN req' = DOMAIN req, NEW d \in Entities, NEW k \in Owed(d)
        PROVE  k = n \/ k \in Owed(d)'
    <3>1. CASE k \in pending[d]
      BY <1>1, <2>7, <3>1, OwedElsewhere
    <3>2. CASE k \notin pending[d]
      <4>1. PICK h \in Goals : goals[d][h].header = k /\ ~goals[d][h].result
        BY <3>2 DEF Owed
      <4>2. CASE d = e /\ h = g
        BY <4>1, <4>2
      <4>3. CASE d # e \/ h # g
        <5>1. goals'[d][h] = goals[d][h]
          BY <2>6, <4>3
        <5> QED  BY <2>7, <4>1, <5>1, OwedElsewhere
      <4> QED  BY <4>2, <4>3
    <3> QED  BY <3>1, <3>2
  <2> HIDE DEF n
  <2>8. CASE succeeds /\ sent /\ n # 0
    <3>1. Answer(n) /\ n \in DOMAIN req /\ req[n].taken /\ req[n].answers = 0
      BY <1>1, <1>3, <2>5, <2>8
    <3>2. req[n] \in RequestRecord
      BY <3>1, LenProperties, ElementOfSeq DEF WorkerInv, OwedInv, OwedTypes
    <3>3. req[n].taken = TRUE /\ req[n].answers + 1 = 1
      BY <3>1, <3>2 DEF RequestRecord
    <3>4. Marked(n, TRUE, 1)
      BY <3>1, <3>3, NotedMarks DEF WorkerInv, OwedInv, Answer
    <3>5. DOMAIN req' = DOMAIN req /\ excused \subseteq excused'
      BY <1>1, <3>4 DEF Marked
    <3>6. \A d \in Entities : \A k \in Owed(d) : k = n \/ k \in Owed(d)'
      BY <2>7, <3>5
    <3> QED  BY <3>1, <3>4, <3>5, <3>6, AccountsMarked
  <2>9. CASE ~(succeeds /\ sent /\ n # 0)
    <3>1. req' = req /\ excused \subseteq excused' /\ (n # 0 => n \in excused')
      BY <1>1, <1>3, <2>9 DEF rosVars
    <3>2. \A d \in Entities : 0 \notin Owed(d)
      BY LenProperties DEF Owed, WorkerInv, OwedInv, OwedTypes
    <3>3. \A d \in Entities : \A k \in Owed(d) : k \in excused' \/ k \in Owed(d)'
      BY <2>7, <3>1, <3>2
    <3> QED  BY <3>1, <3>3, AccountsDropped
  <2> QED  BY <2>8, <2>9
<1> QED  BY <1>2, <1>3

LEMMA DestroyAccounts ==
    ASSUME WorkerInv, AccountInv, HandleDestroy
    PROVE  AccountInv'
<1> DEFINE e == Head(queue).entity
           empty == [g \in Goals |-> NoSlot]
<1>1. /\ req' = req
      /\ excused' = excused \cup ((IF e \in table THEN Owed(e) ELSE {}) \ {0})
      /\ IF e \in table
         THEN /\ pending' = [pending EXCEPT ![e] = {}]
              /\ goals' = [goals EXCEPT ![e] = empty]
         ELSE UNCHANGED <<pending, goals>>
  BY DEF HandleDestroy, Excuse
<1> HIDE DEF e, empty
<1>2. CASE e \notin table
  BY <1>1, <1>2, AccountsUntouched
<1>3. CASE e \in table
  <2>1. \A d \in Entities : 0 \notin Owed(d)
    BY LenProperties DEF Owed, WorkerInv, OwedInv, OwedTypes
  <2>2. \A d \in Entities : d # e => pending'[d] = pending[d] /\ goals'[d] = goals[d]
    BY <1>1, <1>3 DEF WorkerInv, OwedInv, OwedTypes
  <2>3. ASSUME NEW d \in Entities, NEW k \in Owed(d)
        PROVE  k \in excused' \/ k \in Owed(d)'
    <3>1. CASE d = e
      BY <1>1, <1>3, <2>1, <3>1
    <3>2. CASE d # e
      BY <1>1, <2>2, <3>2 DEF Owed
    <3> QED  BY <3>1, <3>2
  <2>4. excused \subseteq excused'
    BY <1>1
  <2> QED  BY <1>1, <2>3, <2>4, AccountsDropped
<1> QED  BY <1>2, <1>3

LEMMA EndsAccounts ==
    ASSUME WorkerInv, AccountInv, ThreadEnds
    PROVE  AccountInv'
<1>1. req' = req /\ excused' = excused \cup ((UNION {Owed(e) : e \in Entities}) \ {0})
  BY DEF ThreadEnds, Excuse
<1>2. \A d \in Entities : 0 \notin Owed(d)
  BY LenProperties DEF Owed, WorkerInv, OwedInv, OwedTypes
<1>3. \A d \in Entities : \A k \in Owed(d) : k \in excused'
  BY <1>1, <1>2
<1>4. excused \subseteq excused'
  BY <1>1
<1> QED  BY <1>1, <1>3, <1>4, AccountsDropped

LEMMA PumpServiceAccounts ==
    ASSUME WorkerInv, AccountInv, NEW e \in Entities, NEW n \in DOMAIN req,
           PumpService(e, n)
    PROVE  AccountInv'
<1>1. /\ ~req[n].taken /\ req' = Noted(n, TRUE, req[n].answers)
      /\ pending' = [pending EXCEPT ![e] = @ \cup {n}]
      /\ goals' = goals /\ excused' = excused
  BY DEF PumpService, Arrived
<1>2. req[n].answers = 0
  BY <1>1, UntakenOwedByNone DEF WorkerInv
<1>3. Marked(n, TRUE, 0)
  BY <1>1, <1>2, NotedMarks DEF WorkerInv, OwedInv
<1>4. DOMAIN req' = DOMAIN req
  BY <1>3 DEF Marked
<1>5. /\ n \in pending'[e]
      /\ \A d \in Entities : pending[d] \subseteq pending'[d]
  BY <1>1 DEF WorkerInv, OwedInv, OwedTypes
<1>6. \A d \in Entities : \A k \in Owed(d) : k \in Owed(d)'
  BY <1>1, <1>4, <1>5 DEF Owed
<1>7. Waits(n)'
  BY <1>4, <1>5 DEF Waits, Owed
<1> QED  BY <1>1, <1>3, <1>6, <1>7, AccountsMarked

\* A request is taken; the slot of goal g at server e may change.
LEMMA TakenAccounts ==
    ASSUME WorkerInv, AccountInv, NEW n \in DOMAIN req, ~req[n].taken,
           NEW e \in Entities, NEW g \in Goals, NEW v \in Slot,
           SlotPut(e, g, v), pending' = pending,
           \/ TakeAndAnswer(n)
           \/ TakeOnly(n) /\ n \in excused'
           \/ TakeOnly(n) /\ v.header = n /\ ~v.result,
           excused \subseteq excused',
           \/ goals[e][g].header = 0
           \/ goals[e][g].header \in excused'
           \/ v = goals[e][g]
    PROVE  AccountInv'
<1>1. req[n].answers = 0 /\ req[n].answers + 1 = 1
  BY UntakenOwedByNone DEF WorkerInv
<1>2. OwedTypes
  BY DEF WorkerInv, OwedInv
<1>3. /\ goals'[e][g] = v
      /\ \A d \in Entities, h \in Goals : d # e \/ h # g => goals'[d][h] = goals[d][h]
  BY <1>2, SlotSet
<1>4. PICK answers \in {0, 1} :
         /\ Marked(n, TRUE, answers)
         /\ answers = 1 \/ n \in excused' \/ (v.header = n /\ ~v.result)
  <2>1. CASE TakeAndAnswer(n)
    <3>1. Marked(n, TRUE, 1)
      BY <1>1, <1>2, <2>1, NotedMarks DEF TakeAndAnswer
    <3> QED  BY <3>1
  <2>2. CASE TakeOnly(n)
    <3>1. Marked(n, TRUE, 0)
      BY <1>1, <1>2, <2>2, NotedMarks DEF TakeOnly
    <3>2. CASE n \in excused'
      BY <3>1, <3>2
    <3>3. CASE n \notin excused' /\ ~TakeAndAnswer(n)
      BY <3>1, <3>3
    <3> QED  BY <2>1, <3>2, <3>3
  <2> QED  BY <2>1, <2>2
<1>5. DOMAIN req' = DOMAIN req
  BY <1>4 DEF Marked
<1>6. v.header = n /\ ~v.result => Waits(n)'
  BY <1>3, <1>5 DEF Waits, Owed
<1>7. \A d \in Entities : 0 \notin Owed(d)
  BY <1>2, LenProperties DEF Owed, OwedTypes
<1>8. ASSUME NEW d \in Entities, NEW k \in Owed(d)
      PROVE  k \in excused' \/ k \in Owed(d)'
  <2>1. CASE k \in pending[d]
    BY <1>5, <2>1, OwedElsewhere
  <2>2. CASE k \notin pending[d]
    <3>1. PICK h \in Goals : goals[d][h].header = k /\ ~goals[d][h].result
      BY <2>2 DEF Owed
    <3>2. CASE goals'[d][h] = goals[d][h]
      BY <1>5, <3>1, <3>2, OwedElsewhere
    <3>3. CASE goals'[d][h] # goals[d][h]
      <4>1. d = e /\ h = g /\ v # goals[e][g]
        BY <1>3, <3>3
      <4> QED  BY <1>7, <3>1, <4>1
    <3> QED  BY <3>2, <3>3
  <2> QED  BY <2>1, <2>2
<1>9. answers = 1 \/ n \in excused' \/ Waits(n)'
  BY <1>4, <1>6
<1> QED  BY <1>4, <1>8, <1>9, AccountsMarked

\* The same, with the slots left alone.
LEMMA TakenAloneAccounts ==
    ASSUME WorkerInv, AccountInv, NEW n \in DOMAIN req, ~req[n].taken,
           UNCHANGED <<pending, goals>>, excused \subseteq excused',
           TakeAndAnswer(n) \/ (TakeOnly(n) /\ n \in excused')
    PROVE  AccountInv'
<1>1. req[n].answers = 0 /\ req[n].answers + 1 = 1
  BY UntakenOwedByNone DEF WorkerInv
<1>2. OwedTypes
  BY DEF WorkerInv, OwedInv
<1>3. PICK answers \in {0, 1} :
         Marked(n, TRUE, answers) /\ (answers = 1 \/ n \in excused')
  <2>1. CASE TakeAndAnswer(n)
    <3>1. Marked(n, TRUE, 1)
      BY <1>1, <1>2, <2>1, NotedMarks DEF TakeAndAnswer
    <3> QED  BY <3>1
  <2>2. CASE TakeOnly(n) /\ n \in excused'
    <3>1. Marked(n, TRUE, 0)
      BY <1>1, <1>2, <2>2, NotedMarks DEF TakeOnly
    <3> QED  BY <2>2, <3>1
  <2> QED  BY <2>1, <2>2
<1>4. DOMAIN req' = DOMAIN req
  BY <1>3 DEF Marked
<1>5. \A d \in Entities : \A k \in Owed(d) : k \in Owed(d)'
  BY <1>4 DEF Owed
<1> QED  BY <1>3, <1>5, AccountsMarked

LEMMA PumpGoalAccounts ==
    ASSUME WorkerInv, AccountInv, NEW e \in Entities, NEW n \in DOMAIN req,
           NEW ok \in BOOLEAN, PumpGoal(e, n, ok)
    PROVE  AccountInv'
<1> DEFINE g == req[n].goal
           v == GoalSlot(TRUE, 0, FALSE, FALSE)
           h == goals[e][g].header
<1>1. /\ ~req[n].taken /\ req[n].stage = "goal" /\ pending' = pending
      /\ excused' = excused \cup ((IF ok THEN {h} ELSE {n}) \ {0})
      /\ \/ ok /\ TakeAndAnswer(n) /\ SlotPut(e, g, v)
         \/ ~ok /\ TakeOnly(n) /\ goals' = goals
  BY DEF PumpGoal, Arrived, Excuse, SlotPut
<1>2. g \in Goals
  BY <1>1 DEF WorkerInv, OwedInv, RequestsNameGoals
<1>3. v \in Slot
  BY DEF GoalSlot, Slot
<1>4. n # 0
  BY <1>1, UntakenOwedByNone DEF WorkerInv
<1>5. excused \subseteq excused'
  BY <1>1
<1> HIDE DEF g, v
<1>6. CASE ok
  <2>1. goals[e][g].header = 0 \/ goals[e][g].header \in excused'
    BY <1>1, <1>6
  <2> HIDE DEF h
  <2> QED  BY <1>1, <1>2, <1>3, <1>5, <1>6, <2>1, TakenAccounts
<1>7. CASE ~ok
  BY <1>1, <1>4, <1>5, <1>7, TakenAloneAccounts
<1> QED  BY <1>6, <1>7

LEMMA PumpResultAccounts ==
    ASSUME WorkerInv, AccountInv, NEW e \in Entities, NEW n \in DOMAIN req,
           NEW ok \in BOOLEAN, NEW sent \in BOOLEAN,
           PumpResult(e, n, ok, sent)
    PROVE  AccountInv'
<1> DEFINE g == req[n].goal
           slot == goals[e][g]
           succeeds == slot.succeeded \/ ok
           answered == slot.open /\ slot.result /\ succeeds /\ sent
           done == GoalSlot(TRUE, 0, TRUE, succeeds)
           kept == GoalSlot(TRUE, n, FALSE, slot.succeeded)
           given == CASE answered -> {}
                      [] slot.open /\ ~slot.result -> {slot.header}
                      [] OTHER -> {n}
<1>1. /\ ~req[n].taken /\ req[n].stage = "result" /\ pending' = pending
      /\ slot.open /\ slot.result => SlotPut(e, g, done)
      /\ slot.open /\ ~slot.result => SlotPut(e, g, kept)
      /\ ~slot.open => goals' = goals
      /\ IF answered THEN TakeAndAnswer(n) ELSE TakeOnly(n)
      /\ excused' = excused \cup (given \ {0})
  BY DEF PumpResult, Arrived, Excuse, SlotPut
<1>2. g \in Goals
  BY <1>1 DEF WorkerInv, OwedInv, RequestsNameGoals
<1>3. n \in Nat \ {0}
  BY <1>1, UntakenOwedByNone DEF WorkerInv
<1>4. done \in Slot
  BY DEF GoalSlot, Slot
<1>5. kept \in Slot /\ kept.header = n /\ ~kept.result
  <2>1. slot \in Slot
    BY <1>2 DEF WorkerInv, OwedInv, OwedTypes
  <2>2. slot.succeeded \in BOOLEAN
    BY <2>1 DEF Slot
  <2> HIDE DEF slot
  <2> QED  BY <1>3, <2>2 DEF GoalSlot, Slot
<1>6. slot.result => slot.header = 0
  BY <1>2 DEF WorkerInv, OwedInv, HeadersOwed
<1>7. excused \subseteq excused'
  BY <1>1
<1>8. CASE ~slot.open
  <2>1. ~answered /\ given = {n}
    BY <1>8
  <2>2. TakeOnly(n) /\ n \in excused' /\ goals' = goals
    BY <1>1, <1>3, <1>8, <2>1
  <2> HIDE DEF g, slot, succeeds, answered, done, kept, given
  <2> QED  BY <1>1, <1>7, <2>2, TakenAloneAccounts
<1>9. CASE slot.open /\ slot.result
  <2>1. answered \/ (~answered /\ given = {n})
    BY <1>9
  <2>2. TakeAndAnswer(n) \/ (TakeOnly(n) /\ n \in excused')
    BY <1>1, <1>3, <2>1
  <2>3. goals[e][g].header = 0 /\ SlotPut(e, g, done)
    BY <1>1, <1>6, <1>9
  <2> HIDE DEF g, slot, succeeds, answered, done, kept, given
  <2> QED  BY <1>1, <1>2, <1>4, <1>7, <2>2, <2>3, TakenAccounts
<1>10. CASE slot.open /\ ~slot.result
  <2>1. ~answered /\ given = {slot.header}
    BY <1>10
  <2>2. /\ TakeOnly(n) /\ SlotPut(e, g, kept)
        /\ goals[e][g].header = 0 \/ goals[e][g].header \in excused'
    BY <1>1, <1>10, <2>1
  <2> HIDE DEF g, slot, succeeds, answered, done, kept, given
  <2> QED  BY <1>1, <1>2, <1>5, <1>7, <2>2, TakenAccounts
<1> QED  BY <1>8, <1>9, <1>10

LEMMA CallAccounts ==
    ASSUME WorkerInv, AccountInv, NEW sent \in BOOLEAN, NEW op, NEW stage,
           \/ op = "call" /\ stage = "service"
           \/ op = "goal" /\ stage = "goal",
           HandleCall(op, stage, sent)
    PROVE  AccountInv'
<1> DEFINE e == Head(queue).entity
           g == Head(queue).arg
<1>1. /\ queue # <<>> /\ Head(queue).op = op
      /\ UNCHANGED <<pending, goals, excused>>
      /\ req' = Append(req, Request(e, stage, g)) \/ req' = req
  BY DEF HandleCall, NextIs
<1>2. e \in Entities /\ g \in Nat
  <2>1. Head(queue) \in CommandSet
    BY <1>1, Dequeued, Elements DEF WorkerInv, PlaceInv
  <2>2. \A x \in CommandSet : x.op \in {"call", "goal"} =>
           x.entity \in Entities /\ x.arg \in Nat
    BY DEF CommandSet, Operation
  <2> QED  BY <1>1, <2>1, <2>2
<1>3. stage \in Stage
  BY DEF Stage
<1> HIDE DEF e, g
<1>4. CASE req' = req
  BY <1>1, <1>4, AccountsUntouched
<1>5. CASE req' = Append(req, Request(e, stage, g))
  BY <1>1, <1>2, <1>3, <1>5, AccountsAsked
<1> QED  BY <1>1, <1>4, <1>5

LEMMA TakeResponseAccounts ==
    ASSUME WorkerInv, AccountInv, NEW accepted \in BOOLEAN,
           TakeResponse(accepted)
    PROVE  AccountInv'
<1> DEFINE f == Last(stack)
<1>1. /\ stack # <<>> /\ UNCHANGED <<pending, goals, excused>>
      /\ req' = Append(req, Request(f.entity, "result", f.goal)) \/ req' = req
  BY DEF TakeResponse
<1>2. f \in Frame
  BY <1>1, Fronted DEF WorkerInv, PlaceInv, PlaceTypes
<1>3. f.entity \in Entities /\ f.goal \in Nat /\ "result" \in Stage
  BY <1>2 DEF Frame, Stage
<1> HIDE DEF f
<1>4. CASE req' = req
  BY <1>1, <1>4, AccountsUntouched
<1>5. CASE req' = Append(req, Request(f.entity, "result", f.goal))
  BY <1>1, <1>3, <1>5, AccountsAsked
<1> QED  BY <1>1, <1>4, <1>5

LEMMA AccountStep == WorkerInv /\ AccountInv /\ [Next]_vars => AccountInv'
<1> SUFFICES ASSUME WorkerInv, AccountInv, [Next]_vars PROVE AccountInv'
  OBVIOUS
<1>1. CASE Connections
  <2>1. UNCHANGED <<req, pending, goals, excused>>
    BY <1>1 DEF Connections, SendCreate, SendUse, SendDestroy, Send, rosVars
  <2> QED  BY <2>1, AccountsUntouched
<1>2. CASE Handle
  <2>1. ASSUME NEW ok \in BOOLEAN, HandleCreate(ok) PROVE AccountInv'
    BY <2>1, AccountsUntouched DEF HandleCreate, rosVars
  <2>2. ASSUME NEW ok \in BOOLEAN,
               HandleCall("call", "service", ok) \/ HandleCall("goal", "goal", ok)
        PROVE  AccountInv'
    BY <2>2, CallAccounts
  <2>3. CASE HandleForward
    BY <2>3, AccountsUntouched DEF HandleForward, rosVars
  <2> QED  BY <1>2, <2>1, <2>2, <2>3, RespondAccounts, ResultAccounts,
              DestroyAccounts DEF Handle
<1>3. CASE Pump
  BY <1>3, PumpServiceAccounts, PumpGoalAccounts, PumpResultAccounts DEF Pump
<1>4. CASE Ends
  <2>1. CASE GiveUp
    BY <2>1, AccountsUntouched DEF GiveUp, rosVars
  <2> QED  BY <1>4, <2>1, TakeResponseAccounts DEF Ends
<1>5. CASE ThreadEnds
  BY <1>5, EndsAccounts
<1>6. CASE Others
  <2>1. ASSUME NEW n \in DOMAIN req, OthersAnswer(n) PROVE AccountInv'
    <3>1. /\ ~req[n].taken /\ TakeAndAnswer(n) /\ UNCHANGED <<pending, goals>>
          /\ excused \subseteq excused'
      BY <2>1 DEF OthersAnswer
    <3> QED  BY <3>1, TakenAloneAccounts
  <2>2. ASSUME NEW stage \in Stage, NEW g \in Nat, OthersAsk(stage, g)
        PROVE  AccountInv'
    BY <2>2, AccountsAsked DEF OthersAsk
  <2>3. /\ Goals \subseteq Nat
        /\ "service" \in Stage /\ "goal" \in Stage /\ "result" \in Stage
    BY WorkerAssumption DEF Stage
  <2> QED  BY <1>6, <2>1, <2>2, <2>3 DEF Others
<1>7. CASE UNCHANGED vars
  BY <1>7, AccountsUntouched DEF vars, rosVars
<1> QED  BY <1>1, <1>2, <1>3, <1>4, <1>5, <1>6, <1>7 DEF Next

(***************************************************************************)
(* A request that a service or an action server of the worker took is      *)
(* answered, once, or waits, unanswered, where the worker will find it, or *)
(* was given up for a cause that send_service_response,                    *)
(* send_action_result, pump_one_action_server, destroy_entity or the       *)
(* teardown names: whatever the order of goals, results, requests for      *)
(* results, failures of rcl and destructions.                              *)
(***************************************************************************)
THEOREM NoneForgotten == Spec => []NobodyForgotten
<1>1. Init => AccountInv
  BY DEF Init, AccountInv
<1>2. WorkerInv /\ AccountInv /\ [Next]_vars => AccountInv'
  BY AccountStep
<1>3. WorkerInv /\ AccountInv => NobodyForgotten
  <2> SUFFICES ASSUME WorkerInv, AccountInv, NEW n \in DOMAIN req
               PROVE  /\ req[n].answers <= 1
                      /\ Waits(n) => req[n].answers = 0
                      /\ req[n].taken => Settled(n)
    BY DEF NobodyForgotten, Settled
  <2>1. req[n] \in RequestRecord /\ n # 0
    BY LenProperties, ElementOfSeq DEF WorkerInv, OwedInv, OwedTypes
  <2>2. req[n].answers <= 1
    BY <2>1 DEF RequestRecord
  <2>3. ASSUME NEW e \in Entities, n \in Owed(e) PROVE req[n].answers = 0
    <3>1. CASE n \in pending[e]
      BY <3>1 DEF WorkerInv, OwedInv, PendingOwed
    <3>2. CASE n \notin pending[e]
      <4>1. PICK g \in Goals : goals[e][g].header = n
        BY <2>3, <3>2 DEF Owed
      <4> QED  BY <2>1, <4>1 DEF WorkerInv, OwedInv, HeadersOwed
    <3> QED  BY <3>1, <3>2
  <2>4. Waits(n) => req[n].answers = 0
    BY <2>3 DEF Waits
  <2> QED  BY <2>2, <2>4 DEF AccountInv
<1> QED  BY <1>1, <1>2, <1>3, WorkerInvariant, PTL DEF Spec

-----------------------------------------------------------------------------
(***************************************************************************)
(* Calls on one client that nest, in call_client's draining loop, never    *)
(* take each other's response: a wrong one needs a call that gave up.      *)
(***************************************************************************)
THEOREM AnswersApart == Spec => []NestingKeepsAnswersApart
<1>1. WorkerInv => NestingKeepsAnswersApart
  BY DEF WorkerInv, ResponseInv
<1> QED  BY <1>1, WorkerInvariant, PTL
=============================================================================
