----------------------------- MODULE RosWorker ------------------------------
(***************************************************************************)
(* The ROS attachment thread of the gateway (Worker in ros/backend.rs) and *)
(* the connections that command it through RclBackend.  One thread owns    *)
(* every rcl entity.  A service call or an action goal blocks the thread,  *)
(* and while it waits the thread keeps draining commands, so that calls    *)
(* nest: the entity of a call in progress is out of its table and is put   *)
(* back when the call returns, innermost first.                            *)
(***************************************************************************)
EXTENDS Integers, Sequences, FiniteSets, SequencesExt

CONSTANTS
    Conns,          \* connections
    Kinds,          \* kinds of entity they create
    Goals,          \* goal uuids, positive numbers
    MaxEntities,    \* bound: entities created
    MaxOwn,         \* bound: ROS requests its entities make
    MaxOthers       \* bound: ROS requests others make

ASSUME WorkerAssumption ==
    /\ Kinds \subseteq {"subscription", "publisher", "client", "service",
                        "actionClient", "actionServer"}
    /\ Goals \subseteq Nat \ {0}
    /\ {MaxEntities, MaxOwn, MaxOthers} \subseteq Nat

VARIABLES
    queue,          \* the command channel
    waiting,        \* [Conns -> the connection awaits a reply]
    holds,          \* [Conns -> entities it was given and has not destroyed]
    nextEntity,     \* next_entity
    kind,           \* [Entities -> kind, or "none"]
    table,          \* entities in the worker's maps
    stack,          \* calls in progress, the innermost one last
    pending,        \* [Entities -> requests a service took and owes]
    goals,          \* [Entities -> [Goals -> GoalSlot]] of action servers
    req,            \* ROS requests made, by anyone
    inbox,          \* [Entities -> responses that wait at a client]
    stopped,        \* the thread ended
    finalised,      \* history: [Entities -> times its fini was called]
    timedOut,       \* history: clients of which a call gave up
    mixed,          \* history: clients of which a call got a wrong answer
    excused         \* history: requests given up, for a cause (see Excuse)

connVars == <<queue, waiting, holds>>
entityVars == <<nextEntity, kind, table, finalised>>
rosVars == <<req, inbox>>
history == <<timedOut, mixed>>
vars == <<connVars, entityVars, rosVars, stack, pending, goals, stopped,
          history, excused>>

Entities == 1 .. MaxEntities
Stage == {"service", "goal", "result"}
GoalSlot(open, header, result, succeeded) ==
    [open |-> open, header |-> header, result |-> result, succeeded |-> succeeded]
NoSlot == GoalSlot(FALSE, 0, FALSE, FALSE)

Init ==
    /\ queue = <<>>
    /\ waiting = [c \in Conns |-> FALSE]
    /\ holds = [c \in Conns |-> {}]
    /\ nextEntity = 0
    /\ kind = [e \in Entities |-> "none"]
    /\ table = {}
    /\ stack = <<>>
    /\ pending = [e \in Entities |-> {}]
    /\ goals = [e \in Entities |-> [g \in Goals |-> NoSlot]]
    /\ req = <<>>
    /\ inbox = [e \in Entities |-> <<>>]
    /\ stopped = FALSE
    /\ finalised = [e \in Entities |-> 0]
    /\ timedOut = {}
    /\ mixed = {}
    /\ excused = {}

-----------------------------------------------------------------------------
(* RclBackend: a connection sends a command and awaits the reply.          *)

Send(c, cmd) ==
    /\ ~stopped /\ ~waiting[c]
    /\ queue' = Append(queue, cmd)
    /\ waiting' = [waiting EXCEPT ![c] = TRUE]
    /\ UNCHANGED <<entityVars, rosVars, stack, pending, goals, stopped,
                   history, excused>>

Command(op, c, e, arg) == [op |-> op, conn |-> c, entity |-> e, arg |-> arg]

SendCreate(c, k) ==
    /\ Send(c, [op |-> "create", conn |-> c, entity |-> 0, kind |-> k])
    /\ UNCHANGED holds

\* The operations of the entities of a kind, and what they name.
Uses(k) ==
    CASE k = "publisher" -> {<<"publish", 0>>}
      [] k = "client" -> {<<"call", 0>>}
      [] k = "service" -> {"respond"} \X {n \in DOMAIN req : req[n].taken}
      [] k = "actionClient" -> {"goal", "cancel"} \X Goals
      [] k = "actionServer" -> {"feedback", "result"} \X Goals
      [] OTHER -> {}

SendUse(c, e) ==
    /\ e \in holds[c]
    /\ \E u \in Uses(kind[e]) : Send(c, Command(u[1], c, e, u[2]))
    /\ UNCHANGED holds

\* Fault: the connection goes on to use what it destroyed.
SendDestroyKeeping(c, e) ==
    /\ e \in holds[c]
    /\ Send(c, Command("destroy", c, e, 0))
    /\ UNCHANGED holds

SendDestroy(c, e) ==
    /\ e \in holds[c]
    /\ Send(c, Command("destroy", c, e, 0))
    /\ holds' = [holds EXCEPT ![c] = @ \ {e}]

-----------------------------------------------------------------------------
(* handle: one command.                                                    *)

NextIs(op) == queue # <<>> /\ ~stopped /\ Head(queue).op = op

\* Take the command; the reply, if it is given now, is an answer to no call.
Taken(replied) ==
    /\ queue' = Tail(queue)
    /\ waiting' = IF replied THEN [waiting EXCEPT ![Head(queue).conn] = FALSE]
                             ELSE waiting

HandleCreate(ok) ==
    /\ NextIs("create")
    /\ Taken(TRUE)
    /\ IF ok
       THEN LET e == nextEntity + 1
            IN  /\ e \in Entities
                /\ nextEntity' = e
                /\ kind' = [kind EXCEPT ![e] = Head(queue).kind]
                /\ table' = table \cup {e}
                /\ holds' = [holds EXCEPT ![Head(queue).conn] = @ \cup {e}]
       ELSE UNCHANGED <<nextEntity, kind, table, holds>>
    /\ UNCHANGED <<finalised, rosVars, stack, pending, goals, stopped,
                   history, excused>>

\* publish, feedback and status (here one operation with feedback) go to rcl
\* and are over; cancel also blocks the thread, without draining commands,
\* until it is answered or gives up.
HandleForward ==
    /\ \E op \in {"publish", "feedback", "cancel"} : NextIs(op)
    /\ Taken(TRUE)
    /\ UNCHANGED <<holds, entityVars, rosVars, stack, pending, goals,
                   stopped, history, excused>>

InCall == {stack[i].entity : i \in DOMAIN stack}

\* The response to request n reaches the client that asked, if it is one of
\* the worker's and still there.
Deliver(n) ==
    inbox' = IF req[n].asker \in table \cup InCall
             THEN [inbox EXCEPT ![req[n].asker] = Append(@, n)]
             ELSE inbox

\* The requests once n is taken or answered.
Noted(n, taken, answers) ==
    [req EXCEPT ![n] = [asker |-> @.asker, stage |-> @.stage, goal |-> @.goal,
                        taken |-> taken, answers |-> answers]]

\* The requests server e took, and did not answer yet.
Owed(e) ==
    {n \in DOMAIN req :
        \/ n \in pending[e]
        \/ \E g \in Goals : goals[e][g].header = n /\ ~goals[e][g].result}

\* The requests of S are given up; 0 is no request.
Excuse(S) == excused' = excused \cup (S \ {0})

Answer(n) ==
    req' = Noted(n, req[n].taken, req[n].answers + 1) /\ Deliver(n)

\* send_service_response.
HandleRespond(ok) ==
    LET cmd == Head(queue)
        known == cmd.entity \in table /\ cmd.arg \in pending[cmd.entity]
    IN  /\ NextIs("respond")
        /\ Taken(TRUE)
        /\ IF known
           THEN /\ pending' = [pending EXCEPT ![cmd.entity] = @ \ {cmd.arg}]
                /\ IF ok THEN Answer(cmd.arg) ELSE UNCHANGED rosVars
           ELSE UNCHANGED <<pending, rosVars>>
        /\ Excuse(IF known /\ ~ok THEN {cmd.arg} ELSE {})
        /\ UNCHANGED <<holds, entityVars, stack, goals, stopped, history>>

Made(own) == Len(SelectSeq(req, LAMBDA r : (r.asker # 0) = own))

Request(asker, stage, goal) ==
    [asker |-> asker, stage |-> stage, goal |-> goal, taken |-> FALSE,
     answers |-> 0]

\* call_client and send_action_goal: send the request and wait, with the
\* entity out of its table.  A send that fails puts it back at once.
HandleCall(op, stage, sent) ==
    LET cmd == Head(queue)
        e == cmd.entity
    IN  /\ NextIs(op)
        /\ sent => e \in table /\ Made(TRUE) < MaxOwn
        /\ Taken(~sent)
        /\ IF sent
           THEN /\ table' = table \ {e}
                /\ req' = Append(req, Request(e, stage, cmd.arg))
                /\ stack' = Append(stack, [conn |-> cmd.conn, entity |-> e,
                                           stage |-> stage, goal |-> cmd.arg,
                                           req |-> Len(req) + 1])
           ELSE UNCHANGED <<table, req, stack>>
        /\ UNCHANGED <<holds, nextEntity, kind, finalised, inbox,
                       pending, goals, stopped, history, excused>>

\* Fault: the result is stored, and the request that waits for it is not sent it.
HandleResultUnsent(done, sent) ==
    LET cmd == Head(queue)
        slot == goals[cmd.entity][cmd.arg]
        known == cmd.entity \in table /\ slot.open
    IN  /\ NextIs("result")
        /\ Taken(TRUE)
        /\ IF known
           THEN goals' = [goals EXCEPT ![cmd.entity][cmd.arg] =
                            GoalSlot(TRUE, 0, TRUE, slot.succeeded \/ done)]
           ELSE UNCHANGED goals
        /\ UNCHANGED <<holds, entityVars, rosVars, stack, pending, stopped,
                       history, excused>>

\* send_action_result: the slot gets its result and gives up its header,
\* succeed_goal is done or fails, and send_result answers the request that
\* waits, or fails.
HandleResult(done, sent) ==
    LET cmd == Head(queue)
        slot == goals[cmd.entity][cmd.arg]
        known == cmd.entity \in table /\ slot.open
        succeeds == slot.succeeded \/ done
    IN  /\ NextIs("result")
        /\ Taken(TRUE)
        /\ IF known
           THEN goals' = [goals EXCEPT ![cmd.entity][cmd.arg] =
                            GoalSlot(TRUE, 0, TRUE, succeeds)]
           ELSE UNCHANGED goals
        /\ IF known /\ succeeds /\ sent /\ slot.header # 0
           THEN Answer(slot.header)
           ELSE UNCHANGED rosVars
        /\ Excuse(IF known /\ ~(succeeds /\ sent) THEN {slot.header} ELSE {})
        /\ UNCHANGED <<holds, entityVars, stack, pending, stopped, history>>

\* destroy_entity, of an entity that is in a table or of one that is not.
HandleDestroy ==
    LET e == Head(queue).entity
    IN  /\ NextIs("destroy")
        /\ Taken(TRUE)
        /\ IF e \in table
           THEN /\ table' = table \ {e}
                /\ finalised' = [finalised EXCEPT ![e] = @ + 1]
                /\ kind' = [kind EXCEPT ![e] = "none"]
                /\ pending' = [pending EXCEPT ![e] = {}]
                /\ goals' = [goals EXCEPT ![e] = [g \in Goals |-> NoSlot]]
                /\ inbox' = [inbox EXCEPT ![e] = <<>>]
           ELSE UNCHANGED <<table, finalised, kind, pending, goals, inbox>>
        /\ Excuse(IF e \in table THEN Owed(e) ELSE {})
        /\ UNCHANGED <<holds, nextEntity, req, stack, stopped, history>>

Handle ==
    \/ \E ok \in BOOLEAN :
          \/ HandleCreate(ok)
          \/ HandleRespond(ok)
          \/ HandleCall("call", "service", ok)
          \/ HandleCall("goal", "goal", ok)
          \/ \E sent \in BOOLEAN : HandleResult(ok, sent)
    \/ HandleForward
    \/ HandleDestroy

-----------------------------------------------------------------------------
(* The pump: requests that reached the worker's own servers.               *)

Arrived(n, stage) == ~stopped /\ req[n].stage = stage /\ ~req[n].taken

\* pump_ready_services.  The operation id made up for a request stands for it.
PumpService(e, n) ==
    /\ e \in table /\ kind[e] = "service"
    /\ Arrived(n, "service")
    /\ req' = Noted(n, TRUE, req[n].answers)
    /\ pending' = [pending EXCEPT ![e] = @ \cup {n}]
    /\ UNCHANGED <<connVars, entityVars, inbox, stack, goals, stopped,
                   history, excused>>

\* Action servers are pumped by the loop and by a goal, not by a service call.
PumpsActions == ~(stack # <<>> /\ Last(stack).stage = "service")

TakeAndAnswer(n) ==
    /\ req' = Noted(n, TRUE, req[n].answers + 1)
    /\ Deliver(n)

TakeOnly(n) ==
    /\ req' = Noted(n, TRUE, req[n].answers)
    /\ UNCHANGED inbox

\* pump_one_action_server: take_goal and accept_goal.
PumpGoal(e, n, ok) ==
    /\ e \in table /\ kind[e] = "actionServer" /\ PumpsActions
    /\ Arrived(n, "goal")
    /\ IF ok
       THEN /\ TakeAndAnswer(n)
            /\ goals' = [goals EXCEPT ![e][req[n].goal] =
                            GoalSlot(TRUE, 0, FALSE, FALSE)]
       ELSE TakeOnly(n) /\ UNCHANGED goals
    /\ Excuse(IF ok THEN {goals[e][req[n].goal].header} ELSE {n})
    /\ UNCHANGED <<connVars, entityVars, stack, pending, stopped, history>>

\* take_result_request: answered when the result is there, else the slot
\* keeps its header, in the place of an earlier one.
PumpResult(e, n, done, sent) ==
    LET slot == goals[e][req[n].goal]
        succeeds == slot.succeeded \/ done
        answered == slot.open /\ slot.result /\ succeeds /\ sent
    IN  /\ e \in table /\ kind[e] = "actionServer" /\ PumpsActions
        /\ Arrived(n, "result")
        /\ IF slot.open
           THEN goals' = [goals EXCEPT ![e][req[n].goal] =
                            IF slot.result
                            THEN GoalSlot(TRUE, 0, TRUE, succeeds)
                            ELSE GoalSlot(TRUE, n, FALSE, slot.succeeded)]
           ELSE UNCHANGED goals
        /\ IF answered THEN TakeAndAnswer(n) ELSE TakeOnly(n)
        /\ Excuse(CASE answered -> {}
                    [] slot.open /\ ~slot.result -> {slot.header}
                    [] OTHER -> {n})
        /\ UNCHANGED <<connVars, entityVars, stack, pending, stopped, history>>

Pump ==
    \E e \in Entities, n \in DOMAIN req :
        \/ PumpService(e, n)
        \/ \E ok \in BOOLEAN :
              \/ PumpGoal(e, n, ok)
              \/ \E sent \in BOOLEAN : PumpResult(e, n, ok, sent)

-----------------------------------------------------------------------------
(* The end of the innermost call.                                          *)

\* Fault: the entity is not put back.
ReturnDropping ==
    LET f == Last(stack)
    IN  /\ stack' = Front(stack)
        /\ UNCHANGED table
        /\ waiting' = [waiting EXCEPT ![f.conn] = FALSE]

\* The entity goes back to its table and the connection gets its reply.
Return ==
    LET f == Last(stack)
    IN  /\ stack' = Front(stack)
        /\ table' = table \cup {f.entity}
        /\ waiting' = [waiting EXCEPT ![f.conn] = FALSE]

\* Fault: the responses at every client are looked at.
ResponsesAnywhere(f) ==
    {w \in Entities \X DOMAIN req :
        w[2] \in DOMAIN inbox[w[1]] /\ req[inbox[w[1]][w[2]]].stage = f.stage}

\* The responses a call looks at, as places <<client, position>>: those at its
\* client, of its stage.
Responses(f) ==
    {w \in {f.entity} \X DOMAIN inbox[f.entity] :
        req[inbox[f.entity][w[2]]].stage = f.stage}

\* rcl_take_response and its like for actions: the oldest response that
\* waits, whichever request it answers.  An accepted goal goes on to ask for
\* its result; a rejected one is an error.
TakeResponse(accepted) ==
    /\ stack # <<>>
    /\ LET f == Last(stack)
       IN  \E w \in Responses(f) :
             LET n == inbox[w[1]][w[2]]
             IN  /\ \A v \in Responses(f) : v[1] = w[1] => w[2] <= v[2]
                 /\ inbox' = [inbox EXCEPT ![w[1]] = RemoveAt(@, w[2])]
                 /\ IF f.stage = "goal" /\ accepted
                    THEN /\ Made(TRUE) < MaxOwn
                         /\ req' = Append(req, Request(f.entity, "result", f.goal))
                         /\ stack' = Append(Front(stack),
                                [conn |-> f.conn, entity |-> f.entity,
                                 stage |-> "result", goal |-> f.goal,
                                 req |-> Len(req) + 1])
                         /\ UNCHANGED <<table, waiting>>
                    ELSE Return /\ UNCHANGED req
                 /\ mixed' = IF n = f.req THEN mixed ELSE mixed \cup {f.entity}
    /\ UNCHANGED <<queue, holds, nextEntity, kind, finalised, pending, goals,
                   stopped, timedOut, excused>>

\* The deadline passed, also when an inner call took the time, or rcl failed.
GiveUp ==
    /\ stack # <<>>
    /\ timedOut' = timedOut \cup {Last(stack).entity}
    /\ Return
    /\ UNCHANGED <<queue, holds, nextEntity, kind, finalised, rosVars, pending,
                   goals, stopped, mixed, excused>>

\* wait_and_pump failed: the thread ends, its teardown finalises what is in
\* the tables, and the replies of the commands left are dropped.
ThreadEnds ==
    /\ ~stopped /\ stack = <<>>
    /\ stopped' = TRUE
    /\ finalised' = [e \in Entities |-> IF e \in table THEN finalised[e] + 1
                                                       ELSE finalised[e]]
    /\ table' = {}
    /\ kind' = [e \in Entities |-> "none"]
    /\ pending' = [e \in Entities |-> {}]
    /\ goals' = [e \in Entities |-> [g \in Goals |-> NoSlot]]
    /\ inbox' = [e \in Entities |-> <<>>]
    /\ queue' = <<>>
    /\ waiting' = [c \in Conns |-> FALSE]
    /\ Excuse(UNION {Owed(e) : e \in Entities})
    /\ UNCHANGED <<holds, nextEntity, req, stack, history>>

-----------------------------------------------------------------------------
(* The rest of the ROS graph, as long as the thread is part of it. *)

OthersAnswer(n) ==
    /\ ~stopped /\ ~req[n].taken /\ req[n].asker # 0
    /\ TakeAndAnswer(n)
    /\ UNCHANGED <<connVars, entityVars, stack, pending, goals, stopped,
                   history, excused>>

OthersAsk(stage, g) ==
    /\ ~stopped /\ Made(FALSE) < MaxOthers
    /\ \E e \in table :
          kind[e] = IF stage = "service" THEN "service" ELSE "actionServer"
    /\ req' = Append(req, Request(0, stage, g))
    /\ UNCHANGED <<connVars, entityVars, inbox, stack, pending, goals, stopped,
                   history, excused>>

Connections ==
    \E c \in Conns :
        \/ \E k \in Kinds : SendCreate(c, k)
        \/ \E e \in Entities : SendUse(c, e) \/ SendDestroy(c, e)

Ends == GiveUp \/ \E accepted \in BOOLEAN : TakeResponse(accepted)

Others == \/ \E n \in DOMAIN req : OthersAnswer(n)
          \/ OthersAsk("service", 0)
          \/ \E stage \in {"goal", "result"}, g \in Goals : OthersAsk(stage, g)

Next == Connections \/ Handle \/ Pump \/ Ends \/ ThreadEnds \/ Others

Spec == Init /\ [][Next]_vars

-----------------------------------------------------------------------------
\* The values of the variables.
TypeOK ==
    /\ waiting \in [Conns -> BOOLEAN]
    /\ holds \in [Conns -> SUBSET Entities]
    /\ nextEntity \in 0 .. MaxEntities
    /\ kind \in [Entities -> Kinds \cup {"none"}]
    /\ table \subseteq Entities
    /\ timedOut \subseteq Entities /\ mixed \subseteq Entities
    /\ excused \subseteq DOMAIN req
    /\ stopped \in BOOLEAN
    /\ \A n \in DOMAIN req : /\ req[n].stage \in Stage
                             /\ req[n].asker \in Entities \cup {0}
                             /\ req[n].answers \in 0 .. 1
    /\ pending \in [Entities -> SUBSET DOMAIN req]
    /\ \A e \in Entities, g \in Goals :
          goals[e][g].header \in {0} \cup DOMAIN req

(***************************************************************************)
(* Every rcl entity is in exactly one place, however calls nest and fail:  *)
(* in the worker's tables, in one call in progress, or finalised, once.    *)
(***************************************************************************)
EntityInOnePlace ==
    \A e \in 1 .. nextEntity :
        LET calls == Cardinality({i \in DOMAIN stack : stack[i].entity = e})
            tabled == IF e \in table THEN 1 ELSE 0
        IN  tabled + calls + finalised[e] = 1

(***************************************************************************)
(* A command never meets an unknown entity: what a connection names in a   *)
(* command that waits is in its table, although other calls take entities  *)
(* out of the tables and the commands are handled inside those calls.      *)
(***************************************************************************)
CommandsFindTheirEntity ==
    \A i \in DOMAIN queue : queue[i].entity # 0 => queue[i].entity \in table

\* Some server still owes request n an answer, and remembers it.
Waits(n) == \E e \in Entities : n \in Owed(e)

(***************************************************************************)
(* No request that a service or an action server took is lost: it was      *)
(* answered, once; or it waits, unanswered, at a service or at a goal that *)
(* has no result yet; or it was given up for one of these causes: rcl      *)
(* failed to accept the goal, to let it succeed or to send the response;   *)
(* its goal is unknown; a later request for the result took its place, or  *)
(* a later goal of the same uuid the place of its goal; its server was     *)
(* destroyed, or the thread ended.                                         *)
(***************************************************************************)
NobodyForgotten ==
    \A n \in DOMAIN req :
        /\ req[n].answers <= 1
        /\ Waits(n) => req[n].answers = 0
        /\ req[n].taken => req[n].answers = 1 \/ Waits(n) \/ n \in excused

(***************************************************************************)
(* backend.rs: "Call a service client entity; returns the serialized       *)
(* response": a call that succeeds returns the response to its own         *)
(* request.                                                                *)
(***************************************************************************)
CallGetsItsAnswer == mixed = {}

(***************************************************************************)
(* A response to another request is returned only by a client of which an  *)
(* earlier call gave up: nested calls alone never mix their responses up.  *)
(***************************************************************************)
NestingKeepsAnswersApart == mixed \subseteq timedOut
=============================================================================
