------------------------- MODULE MqttClientsProofs -------------------------
(***************************************************************************)
(* Proofs about MqttClients for any names, ports and number of outputs:    *)
(* what the map finds and refuses although its comparison is no order, and *)
(* that one thread serves the clients.                                     *)
(***************************************************************************)
EXTENDS MqttClients, SequenceTheorems, TLAPS

-----------------------------------------------------------------------------
(* The inductive invariant.                                                *)

\* A child was put where the comparison led: it is another broker's than the
\* root, and on the right only if it comes after it.
Placed ==
  /\ root = <<>> => child = <<>>
  /\ child # <<>> =>
       /\ root[1].key # child[1].key /\ root[1].client # child[1].client
       /\ side = SideFor(child[1].key)
       /\ side = "right" => Before(root[1].key, child[1].key)

\* Each output has a node of the map.
Has(o, node) == node # <<>> /\ o.address = node[1].key /\ o.client = node[1].client
Owned == \A i \in DOMAIN outputs : Has(outputs[i], root) \/ Has(outputs[i], child)

\* A client is only made for a broker that is not found.
Asking ==
  /\ main \in {"connecting", "inserting"} =>
       address \in Addresses /\ Found(address) = <<>> /\ Len(outputs) < MaxOutputs
  /\ main = "inserting" =>
       /\ client = made /\ made > 0
       /\ root # <<>> => root[1].client < made
       /\ child # <<>> => child[1].client < made

\* There are no more clients than outputs, but for one under way.
Counted ==
  /\ main \in {"loading", "connecting", "starting", "serving"} => made <= Len(outputs)
  /\ main = "inserting" => made <= Len(outputs) + 1
  /\ main = "starting" => made > 0

\* The flag belongs to the thread, and only the stop ends it.
Threads ==
  /\ isRunning <=> io \in {"testing", "running"}
  /\ io = "exited" => shouldStop
  /\ shouldStop => main \in {"joining", "stopped"}
  /\ main = "terminated" => io = "starting"

\* The context has work, and is not stopped, as long as no connection broke.
Working ==
  /\ ~lost => connected = 1 .. made
  /\ io # "none" => made > 0
  /\ stopped => lost \/ shouldStop

IInv == TypeOK /\ Placed /\ Owned /\ Asking /\ Counted /\ Threads /\ Working /\ RefusedOnlyCrossed

-----------------------------------------------------------------------------
(* The map.                                                                *)

\* Only equal addresses are not before each other.
LEMMA BeforeTotal ==
  ASSUME NEW a \in Addresses, NEW b \in Addresses, ~Before(a, b), ~Before(b, a)
  PROVE  a = b
<1>1. /\ a.name \in Nat /\ b.name \in Nat /\ a.port \in Nat /\ b.port \in Nat
      /\ a = [name |-> a.name, port |-> a.port] /\ b = [name |-> b.name, port |-> b.port]
  BY AddressAssumption DEF Addresses
<1>2. a.name = b.name /\ a.port = b.port
  BY <1>1 DEF Before
<1> QED
  BY <1>1, <1>2

\* No address is before itself, and of two that are before each other one has
\* the smaller name and the other the smaller port.
LEMMA BeforeBoth ==
  ASSUME NEW a \in Addresses, NEW b \in Addresses
  PROVE  /\ ~Before(a, a)
         /\ Before(a, b) /\ Before(b, a) => Crossing(a, b) \/ Crossing(b, a)
<1>1. a.name \in Nat /\ b.name \in Nat /\ a.port \in Nat /\ b.port \in Nat
  BY AddressAssumption DEF Addresses
<1> QED
  BY <1>1 DEF Before, Crossing

\* A sequence over a set is one over a larger set.
LEMMA SeqWider ==
  ASSUME NEW S, NEW T, S \subseteq T, NEW seq \in Seq(S)
  PROVE  seq \in Seq(T)
OBVIOUS

\* The nodes of the map have addresses and clients.
LEMMA NodeType ==
  ASSUME TypeOK, NEW node \in {root, child}, node # <<>>
  PROVE  /\ node[1].key \in Addresses /\ node[1].client \in 1 .. made
         /\ Len(node) = 1 /\ node[1] \in [key : Addresses, client : 1 .. made]
<1> DEFINE Nodes == [key : Addresses, client : 1 .. made]
<1>1. node \in Seq(Nodes) /\ Len(node) <= 1
  BY DEF TypeOK
<1>2. ASSUME NEW seq \in Seq(Nodes), seq # <<>>, Len(seq) <= 1
      PROVE  Len(seq) = 1 /\ seq[1] \in Nodes
  <2> HIDE DEF Nodes
  <2>1. Len(seq) = 1
    BY <1>2, EmptySeq
  <2> QED
    BY <2>1, ElementOfSeq
<1> QED
  BY <1>1, <1>2

\* What the map finds is a node of that address.
LEMMA FoundNode ==
  ASSUME TypeOK, NEW a \in Addresses, Found(a) # <<>>
  PROVE  /\ Found(a) \in {root, child} /\ Found(a)[1].key = a
<1>1. LowerBound(a) # <<>> /\ Found(a) = LowerBound(a) /\ ~Before(a, LowerBound(a)[1].key)
  BY DEF Found
<1>2. LowerBound(a) \in {root, child} /\ ~Before(LowerBound(a)[1].key, a)
  BY <1>1 DEF LowerBound, On
<1> QED
  BY <1>1, <1>2, NodeType, BeforeTotal

\* The root is found whatever hangs below it.
LEMMA RootIsFound ==
  ASSUME TypeOK, Placed, root # <<>>
  PROVE  Found(root[1].key) = root
<1> DEFINE k == root[1].key
<1>1. k \in Addresses /\ ~Before(k, k)
  BY NodeType, BeforeBoth
<1>2. CASE child # <<>> /\ side = "left"
  <2>1. Before(child[1].key, k)
    BY <1>2 DEF Placed, SideFor
  <2> QED
    BY <1>1, <1>2, <2>1 DEF Found, LowerBound, On
<1>3. CASE ~(child # <<>> /\ side = "left")
  BY <1>1, <1>3 DEF Found, LowerBound, On
<1> QED
  BY <1>2, <1>3

\* A broker that is not found but finds no place crosses the root, and is
\* that of the child.
LEMMA RefusedCrosses ==
  ASSUME TypeOK, Placed, NEW a \in Addresses, Found(a) = <<>>, ~Insertable(a)
  PROVE  /\ child # <<>> /\ child[1].key = a
         /\ Crossing(root[1].key, a) \/ Crossing(a, root[1].key)
<1>1. root # <<>> /\ Predecessor(a) # <<>> /\ ~Before(Predecessor(a)[1].key, a)
  BY DEF Insertable
<1>2. root[1].key \in Addresses /\ (child # <<>> => child[1].key \in Addresses)
  BY <1>1, NodeType
<1>3. a # root[1].key
  BY <1>1, RootIsFound
<1>4. CASE SideFor(a) = "left"
  <2>1. child # <<>> /\ side = "left" /\ Predecessor(a) = child /\ ~Before(a, child[1].key)
    BY <1>1, <1>4 DEF Predecessor, On
  <2>2. child[1].key = a
    BY <1>1, <1>2, <2>1, BeforeTotal
  <2>3. Before(a, root[1].key)
    BY <1>4 DEF SideFor
  <2>4. Before(root[1].key, a)
    BY <1>1, <2>1, <2>2 DEF Found, LowerBound, On
  <2> QED
    BY <1>2, <2>1, <2>2, <2>3, <2>4, BeforeBoth
<1>5. CASE SideFor(a) = "right"
  <2>1. ~Before(a, root[1].key)
    BY <1>5 DEF SideFor
  <2>2. Before(root[1].key, a)
    BY <1>2, <1>3, <2>1, BeforeTotal
  <2>3. Predecessor(a) = child /\ child # <<>> /\ side = "right" /\ ~Before(a, child[1].key)
    BY <1>1, <1>5, <2>2 DEF Predecessor, On
  <2>4. child[1].key = a
    BY <1>1, <1>2, <2>3, BeforeTotal
  <2>5. Found(a) = child
    BY <2>2, <2>3, <2>4, <1>1 DEF Found, LowerBound, On
  <2> QED
    BY <2>3, <2>5
<1> QED
  BY <1>4, <1>5 DEF SideFor

-----------------------------------------------------------------------------
(* The invariance.                                                         *)

LEMMA InvInit == Init => IInv
<1> SUFFICES ASSUME Init PROVE IInv
  OBVIOUS
<1>1. TypeOK
  <2>1. \A node \in {root, child} : node \in Seq([key : Addresses, client : 1 .. made]) /\ Len(node) <= 1
    <3> DEFINE Nodes == [key : Addresses, client : 1 .. made]
    <3> HIDE DEF Nodes
    <3>1. <<>> \in Seq(Nodes) /\ Len(<<>>) <= 1
      BY EmptySeq
    <3>2. root = <<>> /\ child = <<>>
      BY DEF Init
    <3>3. \A node \in {root, child} : node \in Seq(Nodes) /\ Len(node) <= 1
      BY <3>1, <3>2
    <3> QED
      BY <3>3 DEF Nodes
  <2>2. outputs \in Seq([address : Addresses, client : 1 .. made])
    BY DEF Init
  <2>3. made \in 0 .. MaxOutputs /\ client \in 0 .. made /\ connected \subseteq 1 .. made
    BY BoundAssumption DEF Init
  <2> QED
    BY <2>1, <2>2, <2>3 DEF Init, TypeOK
<1>2. Placed /\ Owned /\ Asking
  BY DEF Init, Placed, Owned, Asking
<1>3. Counted /\ Threads /\ Working /\ RefusedOnlyCrossed
  BY DEF Init, Counted, Threads, Working, RefusedOnlyCrossed
<1> QED
  BY <1>1, <1>2, <1>3 DEF IInv

\* What is said of the map stays true while neither it nor the call changes.
LEMMA MapStays ==
  ASSUME Placed, Owned, UNCHANGED <<mapVars, outputs>>
  PROVE  Placed' /\ Owned' /\ (\A a : Found(a)' = Found(a))
<1>1. root' = root /\ child' = child /\ side' = side /\ outputs' = outputs
  BY DEF mapVars
<1>2. Placed'
  BY <1>1 DEF Placed, SideFor, Before
<1>3. Owned'
  BY <1>1 DEF Owned, Has
<1>4. \A a : Found(a)' = Found(a)
  BY <1>1 DEF Found, LowerBound, On
<1> QED
  BY <1>2, <1>3, <1>4

LEMMA InstanceStep ==
  ASSUME IInv, NEW a \in Addresses, Instance(a)
  PROVE  IInv'
<1> USE DEF IInv
<1>0. /\ main = "loading" /\ Len(outputs) < MaxOutputs /\ address' = a
      /\ client' = client /\ made' = made /\ unreachable' = unreachable
      /\ root' = root /\ child' = child /\ side' = side /\ connected' = connected /\ lost' = lost
      /\ io' = io /\ isRunning' = isRunning /\ shouldStop' = shouldStop /\ stopped' = stopped
  BY DEF Instance, mapVars, threadVars
<1>1. CASE stopped
  <2>1. main' = "refused" /\ outputs' = outputs
    BY <1>1 DEF Instance
  <2>2. Placed' /\ Owned'
    BY <1>0, <2>1, MapStays DEF mapVars
  <2>3. lost
    BY <1>0, <1>1 DEF Working, Threads
  <2>4. TypeOK'
    BY <1>0, <2>1 DEF TypeOK
  <2>5. Asking' /\ Counted' /\ Threads' /\ Working' /\ RefusedOnlyCrossed'
    BY <1>0, <2>1, <2>3 DEF Asking, Counted, Threads, Working, RefusedOnlyCrossed
  <2> QED
    BY <2>2, <2>4, <2>5
<1>2. CASE ~stopped /\ Found(a) # <<>>
  <2> DEFINE o == [address |-> a, client |-> Found(a)[1].client]
  <2>1. main' = main /\ outputs' = Append(outputs, o)
    BY <1>2 DEF Instance
  <2>2. Found(a) \in {root, child} /\ Found(a)[1].key = a /\ o.client \in 1 .. made
    BY <1>2, FoundNode, NodeType
  <2>3. Has(o, root) \/ Has(o, child)
    BY <1>2, <2>2 DEF Has
  <2>4. o \in [address : Addresses, client : 1 .. made]
    BY <2>2
  <2>5. outputs \in Seq([address : Addresses, client : 1 .. made])
    BY DEF TypeOK
  <2> HIDE DEF o
  <2>6. /\ outputs' \in Seq([address : Addresses, client : 1 .. made])
        /\ Len(outputs') = Len(outputs) + 1 /\ Len(outputs) \in Nat
        /\ \A i \in DOMAIN outputs' : outputs'[i] = o \/ (i \in DOMAIN outputs /\ outputs'[i] = outputs[i])
    BY <2>1, <2>4, <2>5
  <2>7. Owned'
    BY <1>0, <2>3, <2>6 DEF Owned, Has
  <2>8. Placed'
    BY <1>0 DEF Placed, SideFor, Before
  <2>9. TypeOK'
    BY <1>0, <2>1, <2>6 DEF TypeOK
  <2>10. Asking' /\ Counted'
    BY <1>0, <2>1, <2>6 DEF Asking, Counted, TypeOK
  <2>11. Threads' /\ Working' /\ RefusedOnlyCrossed'
    BY <1>0, <2>1 DEF Threads, Working, RefusedOnlyCrossed
  <2> QED
    BY <2>7, <2>8, <2>9, <2>10, <2>11
<1>3. CASE ~stopped /\ Found(a) = <<>>
  <2>1. main' = "connecting" /\ outputs' = outputs
    BY <1>3 DEF Instance
  <2>2. Placed' /\ Owned' /\ Found(a)' = <<>>
    BY <1>0, <1>3, <2>1, MapStays DEF mapVars
  <2>3. TypeOK'
    BY <1>0, <2>1 DEF TypeOK
  <2>4. Asking'
    BY <1>0, <2>1, <2>2 DEF Asking
  <2>5. Counted' /\ Threads' /\ Working' /\ RefusedOnlyCrossed'
    BY <1>0, <2>1 DEF Counted, Threads, Working, RefusedOnlyCrossed
  <2> QED
    BY <2>2, <2>3, <2>4, <2>5
<1> QED
  BY <1>1, <1>2, <1>3

LEMMA ConnectStep ==
  ASSUME IInv, Connect
  PROVE  IInv'
<1> USE DEF IInv
<1>0. /\ main = "connecting" /\ main' = "inserting" /\ address' = address /\ client' = made + 1
      /\ made' = made + 1 /\ unreachable' = unreachable /\ outputs' = outputs
      /\ root' = root /\ child' = child /\ side' = side
      /\ connected' = connected \cup {made + 1} /\ lost' = lost
      /\ io' = io /\ isRunning' = isRunning /\ shouldStop' = shouldStop /\ stopped' = stopped
  BY DEF Connect, mapVars, threadVars
<1>1. made \in Nat /\ made <= Len(outputs) /\ Len(outputs) \in Nat /\ Len(outputs) < MaxOutputs
  BY <1>0 DEF Counted, Asking, TypeOK
<1>2. Placed' /\ Owned' /\ Found(address)' = <<>>
  BY <1>0, MapStays DEF mapVars, Asking
<1>3. 1 .. made \subseteq 1 .. made' /\ made' \in 0 .. MaxOutputs /\ made' \in 0 .. made'
  BY <1>0, <1>1, BoundAssumption
<1>4. TypeOK'
  <2>1. \A node \in {root', child'} :
          node \in Seq([key : Addresses, client : 1 .. made']) /\ Len(node) <= 1
    <3>1. [key : Addresses, client : 1 .. made] \subseteq [key : Addresses, client : 1 .. made']
      BY <1>3
    <3> QED
      BY <1>0, <3>1, SeqWider DEF TypeOK
  <2>2. outputs' \in Seq([address : Addresses, client : 1 .. made'])
    <3> DEFINE S == [address : Addresses, client : 1 .. made]
               T == [address : Addresses, client : 1 .. made']
    <3>1. S \subseteq T
      BY <1>3
    <3>2. outputs' \in Seq(S)
      BY <1>0 DEF TypeOK
    <3> HIDE DEF S, T
    <3>3. outputs' \in Seq(T)
      BY <3>1, <3>2, SeqWider
    <3> QED
      BY <3>3 DEF T
  <2>3. connected' \subseteq 1 .. made'
    BY <1>0, <1>1, <1>3 DEF TypeOK
  <2> QED
    BY <1>0, <1>3, <2>1, <2>2, <2>3 DEF TypeOK
<1>5. Asking'
  <2>1. \A node \in {root, child} : node # <<>> => node[1].client \in 1 .. made
    BY NodeType
  <2> QED
    BY <1>0, <1>1, <1>2, <2>1 DEF Asking
<1>6. Counted' /\ Threads' /\ RefusedOnlyCrossed'
  BY <1>0, <1>1 DEF Counted, Threads, RefusedOnlyCrossed
<1>7. Working'
  BY <1>0, <1>1 DEF Working
<1> QED
  BY <1>2, <1>4, <1>5, <1>6, <1>7

LEMMA InsertStep ==
  ASSUME IInv, Insert
  PROVE  IInv'
<1> USE DEF IInv
<1>0. /\ main = "inserting" /\ address' = address /\ client' = client
      /\ made' = made /\ unreachable' = unreachable /\ connected' = connected /\ lost' = lost
      /\ io' = io /\ isRunning' = isRunning /\ shouldStop' = shouldStop /\ stopped' = stopped
  BY DEF Insert, callVars, threadVars
<1>1. /\ address \in Addresses /\ Found(address) = <<>> /\ client = made
      /\ made \in Nat /\ made > 0 /\ Len(outputs) < MaxOutputs /\ made <= Len(outputs) + 1
      /\ Len(outputs) \in Nat
  BY <1>0 DEF Asking, Counted, TypeOK
<1>2. CASE ~Insertable(address)
  <2>1. main' = "refused" /\ outputs' = outputs /\ root' = root /\ child' = child /\ side' = side
    BY <1>2 DEF Insert, mapVars
  <2>2. Placed' /\ Owned'
    BY <2>1, MapStays DEF mapVars
  <2>3. RefusedOnlyCrossed'
    BY <1>0, <1>1, <1>2, <2>1, RefusedCrosses DEF RefusedOnlyCrossed, Crossing
  <2>4. TypeOK'
    BY <1>0, <2>1 DEF TypeOK
  <2>5. Asking' /\ Counted' /\ Threads' /\ Working'
    BY <1>0, <2>1 DEF Asking, Counted, Threads, Working
  <2> QED
    BY <2>2, <2>3, <2>4, <2>5
<1>3. CASE Insertable(address)
  <2> DEFINE n == [key |-> address, client |-> client]
             o == [address |-> address, client |-> client]
  <2>1. child = <<>> /\ main' = "starting" /\ outputs' = Append(outputs, o)
    BY <1>3 DEF Insert
  <2>2. /\ n \in [key : Addresses, client : 1 .. made] /\ n.key = address /\ n.client = client
        /\ o \in [address : Addresses, client : 1 .. made] /\ o.address = address /\ o.client = client
    BY <1>1
  <2>3. \/ root = <<>> /\ root' = <<n>> /\ child' = <<>> /\ side' = side
        \/ root # <<>> /\ root' = root /\ child' = <<n>> /\ side' = SideFor(address)
    BY <1>3, <2>1 DEF Insert
  <2> HIDE DEF n, o
  <2>4. outputs \in Seq([address : Addresses, client : 1 .. made])
    BY DEF TypeOK
  <2>5. /\ outputs' \in Seq([address : Addresses, client : 1 .. made])
        /\ Len(outputs') = Len(outputs) + 1
        /\ \A i \in DOMAIN outputs' : outputs'[i] = o \/ (i \in DOMAIN outputs /\ outputs'[i] = outputs[i])
    BY <2>1, <2>2, <2>4
  <2>6. <<n>> \in Seq([key : Addresses, client : 1 .. made]) /\ Len(<<n>>) = 1 /\ <<n>>[1] = n /\ <<n>> # <<>>
    BY <2>2
  <2>7. TypeOK'
    <3>1. \A node \in {root', child'} :
            node \in Seq([key : Addresses, client : 1 .. made']) /\ Len(node) <= 1
      <4> DEFINE S == Seq([key : Addresses, client : 1 .. made])
      <4>1. /\ root \in S /\ Len(root) <= 1 /\ child \in S /\ Len(child) <= 1
            /\ <<n>> \in S /\ Len(<<n>>) <= 1 /\ made' = made
        BY <1>0, <2>6 DEF TypeOK
      <4> HIDE DEF S
      <4>2. /\ root' \in S /\ Len(root') <= 1 /\ child' \in S /\ Len(child') <= 1
        BY <2>1, <2>3, <4>1
      <4> QED
        BY <4>1, <4>2 DEF S
    <3>2. side' \in {"left", "right"}
      BY <2>3 DEF TypeOK, SideFor
    <3> QED
      BY <1>0, <2>1, <2>5, <3>1, <3>2 DEF TypeOK
  <2>8. Placed'
    <3>1. CASE root = <<>>
      BY <2>1, <2>3, <2>6, <3>1 DEF Placed
    <3>2. CASE root # <<>>
      <4>1. root' = root /\ child' = <<n>> /\ side' = SideFor(address) /\ child'[1] = n
        BY <2>3, <2>6, <3>2
      <4>2. root[1].key # address /\ root[1].client # client /\ root[1].key \in Addresses
        BY <1>0, <1>1, <3>2, RootIsFound, NodeType DEF Asking
      <4>3. SideFor(address) = "right" => Before(root[1].key, address)
        BY <1>1, <4>2, BeforeTotal DEF SideFor
      <4> QED
        BY <2>2, <3>2, <4>1, <4>2, <4>3 DEF Placed, SideFor, Before
    <3> QED
      BY <3>1, <3>2
  <2>9. Owned'
    <3>1. Has(o, root') \/ Has(o, child')
      BY <2>2, <2>3, <2>6 DEF Has
    <3>2. \A i \in DOMAIN outputs : Has(outputs[i], root)
      BY <2>1 DEF Owned, Has
    <3>3. ASSUME NEW i \in DOMAIN outputs PROVE Has(outputs[i], root')
      BY <2>3, <3>2, <3>3 DEF Has
    <3> QED
      BY <2>5, <3>1, <3>3 DEF Owned, Has
  <2>10. Asking' /\ Counted'
    BY <1>0, <1>1, <2>1, <2>5 DEF Asking, Counted
  <2>11. Threads' /\ Working' /\ RefusedOnlyCrossed'
    BY <1>0, <2>1 DEF Threads, Working, RefusedOnlyCrossed
  <2> QED
    BY <2>7, <2>8, <2>9, <2>10, <2>11
<1> QED
  BY <1>2, <1>3

\* The other steps leave the map, the outputs and the call alone.
LEMMA OtherStep ==
  ASSUME IInv, UNCHANGED <<address, client, made, mapVars, outputs>>,
         \/ ConnectFails \/ StartInterface \/ Serve \/ StopAll \/ JoinIo
         \/ main # "terminated" /\ Io
         \/ main # "terminated" /\ \E c \in connected : Disconnect(c)
  PROVE  IInv'
<1> USE DEF IInv
<1>0. /\ address' = address /\ client' = client /\ made' = made /\ outputs' = outputs
      /\ root' = root /\ child' = child /\ side' = side
  BY DEF mapVars
<1>1. Placed' /\ Owned' /\ (\A a : Found(a)' = Found(a))
  BY <1>0, MapStays DEF mapVars
<1>2. /\ main' # main => main' \notin {"connecting", "inserting"}
      /\ main' \notin {"connecting", "inserting"} \/ main' = main
  BY DEF ConnectFails, StartInterface, Serve, StopAll, JoinIo, Io, EnterIo, TestStop, RunReturns, Disconnect
<1>3. Asking'
  BY <1>0, <1>1, <1>2 DEF Asking
<1>4. CASE ConnectFails
  <2>1. UNCHANGED <<connected, lost, io, isRunning, shouldStop, stopped>>
        /\ main = "connecting" /\ main' = "refused" /\ unreachable' = TRUE
    BY <1>4 DEF ConnectFails, threadVars
  <2> QED
    BY <1>0, <1>1, <1>3, <2>1 DEF TypeOK, Counted, Threads, Working, RefusedOnlyCrossed
<1>5. CASE StartInterface
  <2>1. /\ main = "starting" /\ UNCHANGED <<connected, lost, unreachable, isRunning, shouldStop, stopped>>
        /\ \/ isRunning /\ main' = "loading" /\ io' = io
           \/ ~isRunning /\ io # "none" /\ main' = "terminated" /\ io' = io
           \/ ~isRunning /\ io = "none" /\ main' = "loading" /\ io' = "starting"
    BY <1>5 DEF StartInterface, callVars
  <2>2. TypeOK' /\ Counted' /\ RefusedOnlyCrossed'
    BY <1>0, <2>1 DEF TypeOK, Counted, RefusedOnlyCrossed
  <2>3. Threads' /\ Working'
    BY <1>0, <2>1 DEF TypeOK, Counted, Threads, Working
  <2> QED
    BY <1>1, <1>3, <2>2, <2>3
<1>6. CASE Serve \/ StopAll \/ JoinIo
  <2>1. /\ UNCHANGED <<connected, lost, unreachable, io, isRunning>>
        /\ \/ main = "loading" /\ main' = "serving" /\ UNCHANGED <<shouldStop, stopped>>
           \/ main' = "joining" /\ shouldStop' = TRUE /\ stopped' = TRUE
           \/ main = "joining" /\ main' = "stopped" /\ UNCHANGED <<shouldStop, stopped>>
    BY <1>6 DEF Serve, StopAll, JoinIo, callVars, threadVars
  <2>2. TypeOK' /\ Counted' /\ RefusedOnlyCrossed'
    BY <1>0, <2>1 DEF TypeOK, Counted, RefusedOnlyCrossed
  <2>3. Threads' /\ Working'
    BY <1>0, <2>1 DEF Threads, Working
  <2> QED
    BY <1>1, <1>3, <2>2, <2>3
<1>7. CASE main # "terminated" /\ Io
  <2>1. /\ UNCHANGED <<main, connected, lost, unreachable, shouldStop>>
        /\ \/ io = "starting" /\ io' = "testing" /\ isRunning' = TRUE /\ UNCHANGED stopped
           \/ io = "testing" /\ shouldStop /\ io' = "exited" /\ isRunning' = FALSE /\ UNCHANGED stopped
           \/ io = "testing" /\ io' = "running" /\ UNCHANGED <<isRunning, stopped>>
           \/ /\ io = "running" /\ (stopped \/ connected = {})
              /\ stopped' = TRUE /\ io' = "testing" /\ UNCHANGED isRunning
    BY <1>7 DEF Io, EnterIo, TestStop, RunReturns, callVars
  <2>2. TypeOK' /\ Counted' /\ RefusedOnlyCrossed'
    <3>1. io' \in {"none", "starting", "testing", "running", "exited"}
          /\ isRunning' \in BOOLEAN /\ stopped' \in BOOLEAN
      BY <2>1 DEF TypeOK
    <3>2. TypeOK'
      BY <1>0, <2>1, <3>1 DEF TypeOK
    <3> QED
      BY <1>0, <2>1, <3>2 DEF Counted, RefusedOnlyCrossed
  <2>3. Threads'
    BY <1>7, <2>1 DEF Threads
  <2>4. Working'
    <3>1. made \in Nat /\ (made > 0 => 1 \in 1 .. made)
      BY DEF TypeOK
    <3> QED
      BY <1>0, <2>1, <3>1 DEF Working
  <2> QED
    BY <1>1, <1>3, <2>2, <2>3, <2>4
<1>8. CASE main # "terminated" /\ \E c \in connected : Disconnect(c)
  <2>1. /\ UNCHANGED <<main, unreachable, io, isRunning, shouldStop, stopped>>
        /\ connected' \subseteq connected /\ lost' = TRUE
    BY <1>8 DEF Disconnect, callVars, threadVars
  <2> QED
    BY <1>0, <1>1, <1>3, <2>1 DEF TypeOK, Counted, Threads, Working, RefusedOnlyCrossed
<1> QED
  BY <1>4, <1>5, <1>6, <1>7, <1>8

LEMMA InvStep == IInv /\ [Next]_vars => IInv'
<1> SUFFICES ASSUME IInv, [Next]_vars PROVE IInv'
  OBVIOUS
<1>1. ASSUME NEW a \in Addresses, Instance(a) PROVE IInv'
  BY <1>1, InstanceStep
<1>2. CASE Connect
  BY <1>2, ConnectStep
<1>3. CASE Insert
  BY <1>3, InsertStep
<1>4. CASE ConnectFails \/ StartInterface \/ Serve \/ StopAll \/ JoinIo
  <2>1. UNCHANGED <<address, client, made, mapVars, outputs>>
    BY <1>4 DEF ConnectFails, StartInterface, Serve, StopAll, JoinIo, callVars
  <2> QED
    BY <1>4, <2>1, OtherStep
<1>5. CASE main # "terminated" /\ (Io \/ \E c \in connected : Disconnect(c))
  <2>1. UNCHANGED <<address, client, made, mapVars, outputs>>
    BY <1>5 DEF Io, EnterIo, TestStop, RunReturns, Disconnect, callVars
  <2> QED
    BY <1>5, <2>1, OtherStep
<1>6. CASE Over \/ UNCHANGED vars
  <2>1. UNCHANGED <<main, address, client, made, unreachable, mapVars, outputs, connected, lost, io,
                    isRunning, shouldStop, stopped>> /\ UNCHANGED <<root, child, side>>
    BY <1>6 DEF Over, vars, callVars, mapVars, threadVars
  <2>2. Placed' /\ Owned' /\ (\A a : Found(a)' = Found(a))
    BY <2>1, MapStays DEF IInv
  <2> QED
    BY <2>1, <2>2 DEF IInv, TypeOK, Asking, Counted, Threads, Working, RefusedOnlyCrossed
<1> QED
  BY <1>1, <1>2, <1>3, <1>4, <1>5, <1>6 DEF Next, Main

LEMMA Invariance == Spec => []IInv
BY InvInit, InvStep, PTL DEF Spec

-----------------------------------------------------------------------------

\* The variables of the clients and their thread keep to their types
\* (mqtt::instance).
THEOREM TypeCorrect == Spec => []TypeOK
<1>1. IInv => TypeOK
  BY DEF IInv
<1> QED
  BY <1>1, Invariance, PTL

\* Outputs share a client exactly when they share a broker, although
\* mqtt_address_cmp is no order.
THEOREM ClientPerBrokerHolds == Spec => []ClientPerBroker
<1>1. IInv => ClientPerBroker
  BY DEF IInv, Placed, Owned, Has, ClientPerBroker
<1> QED
  BY <1>1, Invariance, PTL

\* While brokers answer, mqtt::instance refuses only a broker that crosses
\* another one.
THEOREM RefusedOnlyCrossedHolds == Spec => []RefusedOnlyCrossed
<1>1. IInv => RefusedOnlyCrossed
  BY DEF IInv
<1> QED
  BY <1>1, Invariance, PTL

\* The thread of start_interface is terminated before it began, or leaves when
\* stop_all_instances told it to, and in no other way.
THEOREM OneThreadHolds == Spec => []OneThread
<1>1. IInv => OneThread
  BY DEF IInv, Threads, OneThread
<1> QED
  BY <1>1, Invariance, PTL

=============================================================================
