---------------------------- MODULE MqttClients ----------------------------
(***************************************************************************)
(* mqtt: the clients of all brokers that MQTT outputs talk to, made while  *)
(* the schedule file is loaded, one per broker; the thread that runs their *)
(* shared io_context; and the stop at the end of the program.              *)
(*                                                                         *)
(* The clients are kept in a std::map whose comparison is not an order: of *)
(* a broker with the smaller name and one with the smaller port each comes *)
(* before the other.  So the map is modelled by what libstdc++ does with   *)
(* its tree, of at most two nodes, which it never rotates.                 *)
(***************************************************************************)
EXTENDS Naturals, Sequences

CONSTANTS
  Names, Ports,   \* numbers, in the order of strcmp and of <
  MaxOutputs      \* bound on the MQTT outputs of a file

ASSUME AddressAssumption == Names \subseteq Nat /\ Ports \subseteq Nat
ASSUME BoundAssumption == MaxOutputs \in Nat

\* mqtt_address.
Addresses == [name : Names, port : Ports]
Nothing == [name |-> 0, port |-> 0]

VARIABLES
  main,        \* "loading", "connecting", "inserting", "starting", "refused", "serving",
               \* "joining", "stopped", "terminated"
  address,     \* the argument of the call of mqtt::instance
  client,      \* the client it is about to insert, a number
  made,        \* the number of clients connected so far
  root, child, \* the nodes of _instances, [key, client], or <<>>
  side,        \* on which side of the root the child is
  outputs,     \* the outputs created: their [address, client]
  connected,   \* the clients with a read pending in the io_context
  lost,        \* history: a connection broke
  unreachable, \* history: a broker could not be connected to
  io,          \* the thread: "none", "starting", "testing", "running", "exited"
  isRunning,   \* _is_running
  shouldStop,  \* _should_stop
  stopped      \* whether the io_context is

callVars == <<address, client, made, unreachable>>
mapVars == <<root, child, side>>
threadVars == <<io, isRunning>>
vars == <<main, callVars, mapVars, outputs, connected, lost, threadVars, shouldStop, stopped>>

-----------------------------------------------------------------------------
(* The map.                                                                *)

\* Mutant of Before: the ports are not compared.
BeforeByName(a, b) == a.name < b.name

\* Mutant of Before: the ports are compared the other way round.
BeforeByLargerPort(a, b) == a.name < b.name \/ a.port > b.port

\* mqtt_address_cmp.
Before(a, b) == a.name < b.name \/ a.port < b.port

\* The node of the child if it hangs on the given side.
On(s) == IF side = s THEN child ELSE <<>>

\* lower_bound and find: the last node on the way down that does not come
\* before the key is the one, unless the key comes before it.
LowerBound(key) ==
  LET down == IF root = <<>> THEN <<>>
              ELSE IF Before(root[1].key, key) THEN On("right") ELSE On("left")
  IN  IF down # <<>> /\ ~Before(down[1].key, key) THEN down
      ELSE IF root # <<>> /\ ~Before(root[1].key, key) THEN root ELSE <<>>
Found(key) ==
  LET node == LowerBound(key) IN IF node # <<>> /\ ~Before(key, node[1].key) THEN node ELSE <<>>

\* emplace: the side of the root the way down leads to; and the node that ends
\* up before the new one, which must come before its key - none if the new one
\* would be the first of all.
SideFor(key) == IF Before(key, root[1].key) THEN "left" ELSE "right"
Predecessor(key) ==
  LET s == SideFor(key)
      below == On(s)
  IN  IF below = <<>> THEN (IF s = "left" THEN <<>> ELSE root)
      ELSE IF ~Before(key, below[1].key) THEN below
      ELSE IF s = "left" THEN <<>> ELSE root
Insertable(key) ==
  root # <<>> => (Predecessor(key) # <<>> => Before(Predecessor(key)[1].key, key))

-----------------------------------------------------------------------------
(* mqtt::instance, called by mqtt_output::create_for_interface.            *)

\* A client for the address is there, or has to be made.
Instance(a) ==
  /\ main = "loading" /\ Len(outputs) < MaxOutputs
  /\ address' = a
  /\ IF stopped
     THEN main' = "refused" /\ UNCHANGED outputs
     ELSE IF Found(a) # <<>>
     THEN /\ outputs' = Append(outputs, [address |-> a, client |-> Found(a)[1].client])
          /\ UNCHANGED main
     ELSE main' = "connecting" /\ UNCHANGED outputs
  /\ UNCHANGED <<client, made, unreachable, mapVars, connected, lost, threadVars, shouldStop, stopped>>

\* connect succeeds, and the client begins to read.
Connect ==
  /\ main = "connecting"
  /\ made' = made + 1 /\ client' = made + 1
  /\ connected' = connected \cup {made + 1}
  /\ main' = "inserting"
  /\ UNCHANGED <<address, unreachable, mapVars, outputs, lost, threadVars, shouldStop, stopped>>

ConnectFails ==
  /\ main = "connecting"
  /\ main' = "refused" /\ unreachable' = TRUE
  /\ UNCHANGED <<address, client, made, mapVars, outputs, connected, lost, threadVars, shouldStop, stopped>>

\* emplace; of a client that finds no place only the pending read is left.
\* Bound: a third broker is not modelled.
Insert ==
  /\ main = "inserting"
  /\ IF ~Insertable(address)
     THEN main' = "refused" /\ UNCHANGED <<mapVars, outputs>>
     ELSE /\ child = <<>>
          /\ main' = "starting"
          /\ outputs' = Append(outputs, [address |-> address, client |-> client])
          /\ LET node == <<[key |-> address, client |-> client]>>
             IN  IF root = <<>>
                 THEN root' = node /\ UNCHANGED <<child, side>>
                 ELSE child' = node /\ side' = SideFor(address) /\ UNCHANGED root
  /\ UNCHANGED <<callVars, connected, lost, threadVars, shouldStop, stopped>>

\* start_interface.  A thread that was started and has not come to set the
\* flag is swapped out, and destroyed while it is joinable.
StartInterface ==
  /\ main = "starting"
  /\ IF isRunning THEN main' = "loading" /\ UNCHANGED io
     ELSE IF io # "none" THEN main' = "terminated" /\ UNCHANGED io
     ELSE main' = "loading" /\ io' = "starting"
  /\ UNCHANGED <<callVars, mapVars, outputs, connected, lost, isRunning, shouldStop, stopped>>

\* The file is loaded and the program runs.
Serve ==
  /\ main = "loading"
  /\ main' = "serving"
  /\ UNCHANGED <<callVars, mapVars, outputs, connected, lost, threadVars, shouldStop, stopped>>

\* Mutant of StopAll: the context is left to run out of work.
StopGently ==
  /\ main \in {"serving", "refused"}
  /\ shouldStop' = TRUE
  /\ main' = "joining"
  /\ UNCHANGED <<callVars, mapVars, outputs, connected, lost, threadVars, stopped>>

\* stop_all_instances, from the static destructor, after a file that was
\* refused too.
StopAll ==
  /\ main \in {"serving", "refused"}
  /\ shouldStop' = TRUE /\ stopped' = TRUE
  /\ main' = "joining"
  /\ UNCHANGED <<callVars, mapVars, outputs, connected, lost, threadVars>>

JoinIo ==
  /\ main = "joining" /\ io \in {"none", "exited"}
  /\ main' = "stopped"
  /\ UNCHANGED <<callVars, mapVars, outputs, connected, lost, threadVars, shouldStop, stopped>>

-----------------------------------------------------------------------------
(* io_handler.                                                             *)

EnterIo ==
  /\ io = "starting"
  /\ io' = "testing" /\ isRunning' = TRUE
  /\ UNCHANGED <<main, callVars, mapVars, outputs, connected, lost, shouldStop, stopped>>

\* Mutant of TestStop: the thread leaves with its work.
TestWork ==
  /\ io = "testing"
  /\ IF shouldStop \/ connected = {}
     THEN io' = "exited" /\ isRunning' = FALSE
     ELSE io' = "running" /\ UNCHANGED isRunning
  /\ UNCHANGED <<main, callVars, mapVars, outputs, connected, lost, shouldStop, stopped>>

TestStop ==
  /\ io = "testing"
  /\ IF shouldStop
     THEN io' = "exited" /\ isRunning' = FALSE
     ELSE io' = "running" /\ UNCHANGED isRunning
  /\ UNCHANGED <<main, callVars, mapVars, outputs, connected, lost, shouldStop, stopped>>

\* io_context::run returns when the context is stopped, or has no work left,
\* and then stops itself; nobody restarts it.
RunReturns ==
  /\ io = "running" /\ (stopped \/ connected = {})
  /\ stopped' = TRUE
  /\ io' = "testing"
  /\ UNCHANGED <<main, callVars, mapVars, outputs, connected, lost, isRunning, shouldStop>>

\* A connection breaks, as the thread finds out.
Disconnect(c) ==
  /\ io = "running" /\ c \in connected
  /\ connected' = connected \ {c}
  /\ lost' = TRUE
  /\ UNCHANGED <<main, callVars, mapVars, outputs, threadVars, shouldStop, stopped>>

-----------------------------------------------------------------------------

Init ==
  /\ main = "loading"
  /\ address = Nothing /\ client = 0 /\ made = 0 /\ unreachable = FALSE
  /\ root = <<>> /\ child = <<>> /\ side = "left"
  /\ outputs = <<>> /\ connected = {} /\ lost = FALSE
  /\ io = "none" /\ isRunning = FALSE /\ shouldStop = FALSE /\ stopped = FALSE

Main ==
  \/ \E a \in Addresses : Instance(a)
  \/ Connect \/ ConnectFails \/ Insert \/ StartInterface \/ Serve \/ StopAll \/ JoinIo

Io == EnterIo \/ TestStop \/ RunReturns

\* The end of the program, and the bound of Insert.
Over ==
  /\ main \in {"stopped", "terminated"} \/ (main = "inserting" /\ Insertable(address) /\ child # <<>>)
  /\ UNCHANGED vars

Next ==
  \/ Main
  \/ main # "terminated" /\ Io
  \/ main # "terminated" /\ \E c \in connected : Disconnect(c)
  \/ Over

Spec == Init /\ [][Next]_vars

\* The thread is scheduled, and so is main when it waits for it.
FairSpec == Spec /\ WF_vars(main # "terminated" /\ Io) /\ WF_vars(JoinIo)

-----------------------------------------------------------------------------

\* The variables keep to their types.
TypeOK ==
  /\ main \in {"loading", "connecting", "inserting", "starting", "refused", "serving", "joining",
               "stopped", "terminated"}
  /\ address \in Addresses \cup {Nothing}
  /\ made \in 0 .. MaxOutputs /\ client \in 0 .. made /\ connected \subseteq 1 .. made
  /\ \A node \in {root, child} : node \in Seq([key : Addresses, client : 1 .. made]) /\ Len(node) <= 1
  /\ side \in {"left", "right"}
  /\ outputs \in Seq([address : Addresses, client : 1 .. made])
  /\ lost \in BOOLEAN /\ unreachable \in BOOLEAN
  /\ io \in {"none", "starting", "testing", "running", "exited"}
  /\ isRunning \in BOOLEAN /\ shouldStop \in BOOLEAN /\ stopped \in BOOLEAN

\* Outputs have the same client if and only if they have the same broker,
\* although the comparison the map relies on is not an order.
ClientPerBroker ==
  \A i, j \in DOMAIN outputs :
     outputs[i].address = outputs[j].address <=> outputs[i].client = outputs[j].client

\* a has the smaller name and b the smaller port.
Crossing(a, b) == a.name < b.name /\ b.port < a.port

\* If all brokers answer and no connection breaks, a file is refused for one
\* reason only: an output names a broker again that crosses another one, which
\* came before it, so that the map does not find it.
RefusedOnlyCrossed ==
  (main = "refused" /\ ~lost /\ ~unreachable) =>
    /\ child # <<>> /\ child[1].key = address
    /\ Crossing(root[1].key, address) \/ Crossing(address, root[1].key)

\* A second broker can only terminate the program before the thread of the
\* first one has begun; and a thread that was begun leaves only when it is
\* told to stop, also after all its clients were disconnected.
OneThread ==
  /\ main = "terminated" => io = "starting"
  /\ io = "exited" => shouldStop

\* stop_all_instances returns, whatever the clients are waiting for.
StopReturns == (main = "joining") ~> (main = "stopped")

=============================================================================
