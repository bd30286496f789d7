------------------------- MODULE BridgeManagerProofs -------------------------
(***************************************************************************)
(* Proofs about BridgeManager: types, one session per bridge name, no       *)
(* client lost from sight, and no session without its SUBSCRIBEs, for any   *)
(* set of resources, names and addresses and any number of clients.         *)
(***************************************************************************)
EXTENDS BridgeManager, TLAPS

Specs == [name : Names, addr : Addrs, deleting : BOOLEAN]
Used  == [name : Names, addr : Addrs, link : Links]

\* What the worker holds, by where it is in Upsert.
WorkInv ==
    /\ wpc # "idle" => wcfg \in Configs
    /\ wpc \in {"idle", "upsert"} => wclient = None
    /\ wpc \in {"connect", "store"} =>
          wclient \in Clients /\ Live(wclient) /\ client[wclient].name = wcfg.name

\* The map files each client under its own name.
MapInv == \A n \in Names : bridges[n] # None =>
    client[bridges[n]].link # "unused" /\ client[bridges[n]].name = n

\* A client is lost from sight only by a Connect that the shutdown interrupts.
SightInv == \A c \in Clients : Live(c) =>
    \/ wclient = c
    \/ bridges[client[c].name] = c
    \/ stopping # "no"

Safety == WorkInv /\ MapInv /\ SightInv /\ OneSessionPerName /\ NoBareSession

BridgeInv == TypeOK /\ Safety

-----------------------------------------------------------------------------
(* Facts about the operators.                                              *)

\* A client that is not unused has a name, an address and a link.
LEMMA UsedShape ==
    ASSUME client \in [Clients -> Used \cup {Unused}], NEW c \in Clients
    PROVE  /\ client[c].link # "unused" => client[c] \in Used
           /\ client[c].link = "unused" => client[c] = Unused
           /\ Live(c) => client[c] \in Used
BY DEF Used, Unused, Links, Live

\* A change of one link leaves everything else about the clients alone.
LEMMA SetLink ==
    ASSUME client \in [Clients -> Used \cup {Unused}], NEW c \in Clients,
           client[c].link # "unused", NEW l \in Links,
           client' = [client EXCEPT ![c].link = l]
    PROVE  /\ client' \in [Clients -> Used \cup {Unused}]
           /\ client'[c].link = l /\ client'[c].name = client[c].name
           /\ \A d \in Clients : d # c => client'[d] = client[d]
<1>1. client[c] \in Used
  BY UsedShape
<1>2. client'[c] = [client[c] EXCEPT !.link = l]
  OBVIOUS
<1>3. client'[c] \in Used /\ client'[c].link = l /\ client'[c].name = client[c].name
  BY <1>1, <1>2 DEF Used
<1>4. \A d \in Clients : d # c => client'[d] = client[d]
  OBVIOUS
<1> QED BY <1>3, <1>4

\* Putting a resource on the work queue keeps the queue a sequence of resources.
LEMMA AddType ==
    ASSUME NEW q \in Seq(CRs), NEW k \in CRs
    PROVE  Add(q, k) \in Seq(CRs)
BY DEF Add

\* Clients keep their names, and none starts or comes alive.
Quiet == \A c \in Clients :
    /\ client'[c].name = client[c].name
    /\ client'[c].link = "unused" <=> client[c].link = "unused"
    /\ Live(c)' => Live(c)

\* Manager.Remove takes one entry out and closes its client.
LEMMA RemoveQuiet ==
    ASSUME TypeOK, MapInv, NEW n \in Names, Remove(n)
    PROVE  /\ client' \in [Clients -> Used \cup {Unused}]
           /\ bridges' \in [Names -> Clients \cup {None}]
           /\ Quiet
           /\ \A m \in Names : bridges'[m] \in {None, bridges[m]}
           /\ \A c \in Clients : Live(c)' =>
                 /\ client'[c] = client[c]
                 /\ bridges[client[c].name] = c => bridges'[client[c].name] = c
<1>0. /\ client \in [Clients -> Used \cup {Unused}]
      /\ bridges \in [Names -> Clients \cup {None}]
  BY DEF TypeOK, Used
<1>1. CASE bridges[n] = None
  BY <1>0, <1>1 DEF Remove, Quiet, Live
<1>2. CASE bridges[n] # None
  <2> DEFINE b == bridges[n]
  <2>1. /\ b \in Clients /\ client[b].link # "unused" /\ client[b].name = n
        /\ bridges' = [bridges EXCEPT ![n] = None]
        /\ client' = [client EXCEPT ![b].link = "closed"]
    BY <1>0, <1>2 DEF Remove, Disconnect, MapInv
  <2> HIDE DEF b
  <2>2. /\ client' \in [Clients -> Used \cup {Unused}]
        /\ client'[b].link = "closed" /\ client'[b].name = client[b].name
        /\ \A d \in Clients : d # b => client'[d] = client[d]
    BY <1>0, <2>1, SetLink DEF Links
  <2>3. Quiet
    BY <2>1, <2>2 DEF Quiet, Live
  <2>4. ASSUME NEW c \in Clients, Live(c)'
        PROVE  /\ client'[c] = client[c]
               /\ bridges[client[c].name] = c => bridges'[client[c].name] = c
    <3>1. c # b /\ client'[c] = client[c]
      BY <2>2, <2>4 DEF Live
    <3>2. client[c].name \in Names
      BY <1>0, <2>4, <3>1, UsedShape DEF Used, Live
    <3> QED BY <1>0, <2>1, <3>1, <3>2 DEF b
  <2> QED BY <1>0, <2>1, <2>2, <2>3, <2>4
<1> QED BY <1>1, <1>2

\* Upsert dials with a client that was unused; the one it replaces is closed.
LEMMA UpsertNew ==
    ASSUME TypeOK, WorkInv, MapInv, Upsert, wpc' # "idle"
    PROVE  \E new \in Clients :
              /\ client[new].link = "unused"
              /\ client'[new] = NewBridgeClient(wcfg)
              /\ client' \in [Clients -> Used \cup {Unused}]
              /\ wclient' = new /\ wpc' = "connect" /\ wcfg' = wcfg
              /\ \A c \in Clients : c # new =>
                    /\ client'[c].name = client[c].name
                    /\ client'[c].link = "unused" <=> client[c].link = "unused"
                    /\ Live(c)' => /\ client'[c] = client[c]
                                   /\ bridges[wcfg.name] # c
<1>0. /\ client \in [Clients -> Used \cup {Unused}] /\ wcfg \in Configs
      /\ bridges \in [Names -> Clients \cup {None}]
  BY DEF TypeOK, Used, WorkInv, Upsert
<1> DEFINE old == bridges[wcfg.name]
<1>1. /\ old \in Clients \cup {None} /\ wcfg.name \in Names
      /\ old # None => client[old].link # "unused"
  BY <1>0 DEF MapInv, Configs
<1>2. PICK new \in Clients :
         /\ client[new] = Unused
         /\ client' = [Replaced(old) EXCEPT ![new] = NewBridgeClient(wcfg)]
         /\ wclient' = new /\ wpc' = "connect" /\ wcfg' = wcfg
  BY DEF Upsert
<1> DEFINE r == Replaced(old)
<1>3. /\ r \in [Clients -> Used \cup {Unused}]
      /\ \A c \in Clients : /\ r[c].name = client[c].name
                            /\ r[c].link = "unused" <=> client[c].link = "unused"
                            /\ c # old => r[c] = client[c]
                            /\ c = old => r[c].link = "closed"
  <2>1. CASE old = None
    BY <1>0, <2>1, NoneAssumption DEF Replaced
  <2>2. CASE old # None
    <3>1. old \in Clients /\ client[old].link # "unused" /\ client[old] \in Used
      BY <1>0, <1>1, <2>2, UsedShape
    <3>2. r = [client EXCEPT ![old].link = "closed"]
      BY <2>2 DEF Replaced
    <3> HIDE DEF r, old
    <3>3. r[old] = [client[old] EXCEPT !.link = "closed"]
      BY <1>0, <3>1, <3>2
    <3>4. r[old] \in Used /\ r[old].link = "closed" /\ r[old].name = client[old].name
      BY <3>1, <3>3 DEF Used, Links
    <3>5. \A c \in Clients : c # old => r[c] = client[c]
      BY <1>0, <3>2
    <3>6. r \in [Clients -> Used \cup {Unused}]
      BY <1>0, <3>2, <3>4, <3>5
    <3> QED BY <3>1, <3>4, <3>5, <3>6
  <2> QED BY <2>1, <2>2
<1>4. client[new].link = "unused" /\ NewBridgeClient(wcfg) \in Used
  BY <1>0, <1>2 DEF Unused, NewBridgeClient, Used, Links, Configs
<1>5. client' = [r EXCEPT ![new] = NewBridgeClient(wcfg)]
  BY <1>2
<1> HIDE DEF r, old
<1>6. /\ client'[new] = NewBridgeClient(wcfg)
      /\ client' \in [Clients -> Used \cup {Unused}]
      /\ \A c \in Clients : c # new => client'[c] = r[c]
  BY <1>3, <1>4, <1>5
<1>7. ASSUME NEW c \in Clients, c # new
      PROVE  /\ client'[c].name = client[c].name
             /\ client'[c].link = "unused" <=> client[c].link = "unused"
             /\ Live(c)' => client'[c] = client[c] /\ bridges[wcfg.name] # c
  BY <1>3, <1>6, <1>7 DEF Live, old
<1> QED BY <1>2, <1>4, <1>6, <1>7

\* StopAll closes what is in the map and empties it.
LEMMA StopAllQuiet ==
    ASSUME TypeOK, MapInv, StopAll
    PROVE  /\ client' \in [Clients -> Used \cup {Unused}]
           /\ Quiet
           /\ \A c \in Clients : client'[c].link = "up" => client'[c] = client[c]
<1>0. client \in [Clients -> Used \cup {Unused}]
  BY DEF TypeOK, Used
<1>1. ASSUME NEW c \in Clients
      PROVE  \/ client'[c] = client[c]
             \/ /\ client[c] \in Used /\ client'[c] \in Used
                /\ client'[c].name = client[c].name /\ client'[c].link = "closed"
  <2>1. CASE \E n \in Names : bridges[n] = c
    <3>1. client[c].link # "unused"
      BY <1>1, <2>1, NoneAssumption DEF MapInv
    <3>2. client[c] \in Used
      BY <1>0, <3>1, UsedShape
    <3>3. client'[c] = [client[c] EXCEPT !.link = "closed"]
      BY <2>1 DEF StopAll
    <3> QED BY <3>2, <3>3 DEF Used, Links
  <2>2. CASE ~\E n \in Names : bridges[n] = c
    BY <2>2 DEF StopAll
  <2> QED BY <2>1, <2>2
<1>2. client' \in [Clients -> Used \cup {Unused}]
  <2>1. \A c \in Clients : client'[c] \in Used \cup {Unused}
    BY <1>0, <1>1
  <2>2. client' = [c \in Clients |-> client'[c]]
    BY DEF StopAll
  <2> QED BY <2>1, <2>2
<1>3. Quiet
  BY <1>1 DEF Quiet, Live, Used, Links
<1> QED BY <1>1, <1>2, <1>3

\* A step of paho changes the link of one client that is in use.
LEMMA LinkQuiet ==
    ASSUME TypeOK, NEW c \in Clients,
           DialSucceeds(c) \/ ConnectionLost(c) \/ Reconnect(c)
    PROVE  /\ client' \in [Clients -> Used \cup {Unused}]
           /\ Quiet /\ Live(c) /\ Live(c)'
           /\ \A d \in Clients : d # c => client'[d] = client[d]
           /\ client'[c].link = "up" => "onConnect" \in callbacks'[c]
           /\ \A d \in Clients : d # c => /\ callbacks'[d] = callbacks[d]
                                          /\ session'[d] = session[d]
           /\ UNCHANGED <<clusterVars, workqueue, workVars, bridges, stopping>>
<1>0. /\ client \in [Clients -> Used \cup {Unused}]
      /\ callbacks \in [Clients -> SUBSET {"onConnect", "onConnectionLost"}]
      /\ session \in [Clients -> Sessions]
  BY DEF TypeOK, Used
<1>1. PICK from \in {"dialing", "up", "lost"}, to \in {"up", "lost"},
           cb \in {"onConnect", "onConnectionLost"} :
         Link(c, from, to, cb) /\ (to = "up" => cb = "onConnect")
  BY DEF DialSucceeds, ConnectionLost, Reconnect
<1>2. /\ client[c].link = from /\ client' = [client EXCEPT ![c].link = to]
      /\ callbacks' = [callbacks EXCEPT ![c] = @ \cup {cb}]
      /\ session' = [session EXCEPT ![c] = "bare"]
      /\ UNCHANGED <<clusterVars, workqueue, workVars, bridges, stopping>>
  BY <1>1 DEF Link
<1>3. /\ client' \in [Clients -> Used \cup {Unused}]
      /\ client'[c].link = to /\ client'[c].name = client[c].name
      /\ \A d \in Clients : d # c => client'[d] = client[d]
  BY <1>0, <1>2, SetLink DEF Links
<1>4. Quiet /\ Live(c) /\ Live(c)'
  BY <1>2, <1>3 DEF Quiet, Live
<1>5. client'[c].link = "up" => "onConnect" \in callbacks'[c]
  BY <1>0, <1>1, <1>2, <1>3
<1> QED BY <1>0, <1>2, <1>3, <1>4, <1>5

-----------------------------------------------------------------------------
(* Types.                                                                  *)

\* The process starts with no client and nothing to do.
LEMMA BridgeInit == Init => BridgeInv
<1> SUFFICES ASSUME Init PROVE BridgeInv
  OBVIOUS
<1>1. TypeOK
  BY BridgeAssumption, NoneAssumption DEF Init, TypeOK, Unused, Sessions
<1>2. \A c \in Clients : client[c].link = "unused"
  BY DEF Init, Unused
<1>3. WorkInv /\ MapInv
  BY DEF Init, WorkInv, MapInv
<1>4. SightInv /\ OneSessionPerName /\ NoBareSession
  BY <1>2 DEF SightInv, OneSessionPerName, NoBareSession, Live
<1> QED BY <1>1, <1>3, <1>4 DEF BridgeInv, Safety

\* Changes of resources and the end of the root context keep the types.
LEMMA TypeCluster ==
    TypeOK /\ (\E cr \in CRs : Apply(cr) \/ Delete(cr)) => TypeOK'
<1> SUFFICES ASSUME TypeOK, NEW cr \in CRs, Apply(cr) \/ Delete(cr) PROVE TypeOK'
  OBVIOUS
<1>1. PICK value \in Specs \cup {None} : Change(cr, value)
  <2>1. CASE Apply(cr)
    <3> PICK c \in ConfigsOf[cr] :
           Change(cr, [name |-> c.name, addr |-> c.addr, deleting |-> FALSE])
      BY <2>1 DEF Apply
    <3>1. c \in [name : Names, addr : Addrs]
      BY BridgeAssumption
    <3> QED BY <3>1 DEF Specs
  <2>2. CASE Delete(cr)
    <3>1. spec[cr] \in Specs
      BY <2>2 DEF Delete, TypeOK, Specs
    <3>2. [spec[cr] EXCEPT !.deleting = TRUE] \in Specs
      BY <3>1 DEF Specs
    <3> QED BY <2>2, <3>2 DEF Delete
  <2> QED BY <2>1, <2>2
<1>2. workqueue' \in Seq(CRs)
  BY <1>1, AddType DEF Change, TypeOK
<1>3. changes' \in 0 .. MaxChanges
  BY <1>1, BridgeAssumption DEF Change, TypeOK
<1>4. spec' \in [CRs -> Specs \cup {None}]
  BY <1>1 DEF Change, TypeOK, Specs
<1> QED BY <1>1, <1>2, <1>3, <1>4 DEF Change, TypeOK, Specs, workVars, linkVars

\* So do the steps of the reconciler's worker.
LEMMA TypeWorker == TypeOK /\ WorkInv /\ MapInv /\ WorkerStep => TypeOK'
<1> SUFFICES ASSUME TypeOK, WorkInv, MapInv, WorkerStep PROVE TypeOK'
  OBVIOUS
<1>0. /\ client \in [Clients -> Used \cup {Unused}] /\ workqueue \in Seq(CRs)
      /\ bridges \in [Names -> Clients \cup {None}]
      /\ spec \in [CRs -> Specs \cup {None}] /\ changes \in 0 .. MaxChanges
  BY DEF TypeOK, Used, Specs
<1>1. ASSUME NEW cr \in CRs, Reconcile(cr) PROVE TypeOK'
  <2>1. workqueue' \in Seq(CRs) /\ UNCHANGED <<spec, changes, token, connected, session,
                                               callbacks, stopping>>
    BY <1>0, <1>1 DEF Reconcile, clusterVars, linkVars
  <2>2. /\ client' \in [Clients -> Used \cup {Unused}]
        /\ bridges' \in [Names -> Clients \cup {None}]
    <3>1. CASE UNCHANGED <<bridges, client>>
      BY <1>0, <3>1
    <3>2. CASE spec[cr] # None /\ Remove(spec[cr].name)
      <4>1. spec[cr].name \in Names
        BY <1>0, <3>2 DEF Specs
      <4> QED BY <3>2, <4>1, RemoveQuiet
    <3> QED BY <1>1, <3>1, <3>2 DEF Reconcile
  <2>3. /\ wpc' \in {"idle", "upsert", "connect", "store"}
        /\ wcfg' \in Configs \cup {None} /\ wclient' \in Clients \cup {None}
    <3>1. CASE UNCHANGED workVars
      BY <3>1 DEF TypeOK, workVars
    <3>2. CASE /\ spec[cr] # None /\ wpc' = "upsert" /\ wclient' = wclient
               /\ wcfg' = [name |-> spec[cr].name, addr |-> spec[cr].addr]
      <4>1. spec[cr] \in Specs
        BY <1>0, <3>2
      <4> QED BY <3>2, <4>1 DEF TypeOK, Specs, Configs
    <3> QED BY <1>1, <3>1, <3>2 DEF Reconcile
  <2> QED BY <2>1, <2>2, <2>3 DEF TypeOK, Used
<1>2. ASSUME NEW cr \in CRs, ReconcileFails(cr) PROVE TypeOK'
  <2>1. workqueue' \in Seq(CRs)
    <3>1. workqueue # <<>> /\ workqueue' \in {Tail(workqueue), Append(Tail(workqueue), cr)}
      BY <1>2 DEF ReconcileFails
    <3>2. Tail(workqueue) \in Seq(CRs)
      BY <1>0, <3>1
    <3> QED BY <3>1, <3>2
  <2>2. changes' \in 0 .. MaxChanges
    BY <1>0, <1>2, BridgeAssumption DEF ReconcileFails
  <2> QED BY <1>2, <2>1, <2>2 DEF ReconcileFails, TypeOK, workVars, linkVars
<1>3. CASE Upsert
  <2>1. UNCHANGED <<clusterVars, workqueue, bridges, token, linkVars, callbacks, stopping>>
    BY <1>3 DEF Upsert
  <2>2. CASE wpc' = "idle"
    BY <1>3, <2>1, <2>2
       DEF Upsert, TypeOK, clusterVars, linkVars
  <2>3. CASE wpc' # "idle"
    <3>1. /\ client' \in [Clients -> Used \cup {Unused}]
          /\ wclient' \in Clients /\ wpc' = "connect" /\ wcfg' = wcfg
      BY <1>3, <2>3, UpsertNew
    <3> QED BY <2>1, <3>1 DEF TypeOK, Used, clusterVars, linkVars
  <2> QED BY <2>2, <2>3
<1>4. CASE ConnectReturns
  BY <1>4 DEF ConnectReturns, TypeOK, clusterVars, linkVars
<1>5. CASE Store
  <2>1. wcfg.name \in Names /\ wclient \in Clients
    BY <1>5 DEF Store, WorkInv, Configs
  <2>2. bridges' \in [Names -> Clients \cup {None}]
    BY <1>0, <1>5, <2>1 DEF Store
  <2> QED BY <1>5, <2>2 DEF Store, TypeOK, clusterVars, linkVars
<1> QED BY <1>1, <1>2, <1>3, <1>4, <1>5 DEF WorkerStep

\* So do paho's steps and the callbacks.
LEMMA TypePaho == TypeOK /\ (\E c \in Clients : PahoStep(c)) => TypeOK'
<1> SUFFICES ASSUME TypeOK, NEW c \in Clients, PahoStep(c) PROVE TypeOK'
  OBVIOUS
<1>0. /\ token \in [Clients -> BOOLEAN] /\ connected \in [Clients -> BOOLEAN]
      /\ session \in [Clients -> Sessions]
      /\ callbacks \in [Clients -> SUBSET {"onConnect", "onConnectionLost"}]
  BY DEF TypeOK
<1>1. CASE DialSucceeds(c) \/ ConnectionLost(c) \/ Reconnect(c)
  <2>1. /\ client' \in [Clients -> Used \cup {Unused}]
        /\ UNCHANGED <<clusterVars, workqueue, workVars, bridges, stopping>>
    BY <1>1, LinkQuiet
  <2>2. token' \in [Clients -> BOOLEAN]
    BY <1>0, <1>1 DEF DialSucceeds, ConnectionLost, Reconnect
  <2>3. connected' = connected /\ session' \in [Clients -> Sessions]
    BY <1>0, <1>1 DEF DialSucceeds, ConnectionLost, Reconnect, Link, Sessions
  <2>4. callbacks' \in [Clients -> SUBSET {"onConnect", "onConnectionLost"}]
    BY <1>0, <1>1 DEF DialSucceeds, ConnectionLost, Reconnect, Link
  <2> QED BY <1>0, <2>1, <2>2, <2>3, <2>4 DEF TypeOK, Used, clusterVars, workVars
<1>2. CASE (\E granted \in BOOLEAN : OnConnect(c, granted)) \/ OnConnectionLost(c)
  <2>1. UNCHANGED <<clusterVars, workqueue, workVars, bridges, client, token, stopping>>
    BY <1>2 DEF OnConnect, OnConnectionLost, RunCallback
  <2>2. callbacks' \in [Clients -> SUBSET {"onConnect", "onConnectionLost"}]
    BY <1>0, <1>2 DEF OnConnect, OnConnectionLost, RunCallback
  <2>3. connected' \in [Clients -> BOOLEAN]
    BY <1>0, <1>2 DEF OnConnect, OnConnectionLost, RunCallback
  <2>4. session' \in [Clients -> Sessions]
    BY <1>0, <1>2 DEF OnConnect, OnConnectionLost, Resubscribe, After, Sessions
  <2> QED BY <2>1, <2>2, <2>3, <2>4 DEF TypeOK, clusterVars, workVars
<1> QED BY <1>1, <1>2 DEF PahoStep

\* So every step keeps the types.
LEMMA TypeStep == TypeOK /\ WorkInv /\ MapInv /\ [Next]_vars => TypeOK'
<1> SUFFICES ASSUME TypeOK, WorkInv, MapInv, [Next]_vars PROVE TypeOK'
  OBVIOUS
<1>1. CASE CancelContext
  BY <1>1 DEF CancelContext, TypeOK, clusterVars, workVars, linkVars
<1>2. CASE StopAll
  <2>1. client' \in [Clients -> Used \cup {Unused}]
    BY <1>2, StopAllQuiet
  <2>2. bridges' \in [Names -> Clients \cup {None}]
    BY <1>2 DEF StopAll
  <2> QED BY <1>2, <2>1, <2>2 DEF StopAll, TypeOK, Used, clusterVars, workVars, linkVars
<1>3. CASE UNCHANGED vars
  BY <1>3 DEF vars, TypeOK, clusterVars, workVars, linkVars
<1> QED BY <1>1, <1>2, <1>3, TypeCluster, TypeWorker, TypePaho DEF Next

-----------------------------------------------------------------------------
(* Who is registered, and who listens.                                     *)

\* A step that leaves clients, map, links and worker alone disturbs nothing.
LEMMA SafetyFrame ==
    ASSUME TypeOK, Safety, UNCHANGED <<workVars, bridges, client, session, callbacks>>,
           stopping # "no" => stopping' # "no"
    PROVE  Safety'
BY DEF Safety, WorkInv, MapInv, SightInv, OneSessionPerName, NoBareSession, Live, workVars

\* The worker takes a resource: deletion disconnects before it forgets.
LEMMA SafetyReconcile ==
    ASSUME TypeOK, Safety, NEW cr \in CRs, Reconcile(cr)
    PROVE  Safety'
<1>0. /\ spec \in [CRs -> Specs \cup {None}] /\ wpc = "idle"
      /\ UNCHANGED <<session, callbacks, stopping>>
  BY DEF TypeOK, Specs, Reconcile, linkVars
<1>1. CASE spec[cr] = None
  BY <1>0, <1>1, SafetyFrame DEF Reconcile
<1>2. CASE spec[cr] # None /\ spec[cr].deleting
  <2>1. Remove(spec[cr].name) /\ UNCHANGED <<wpc, wcfg, wclient>> /\ spec[cr].name \in Names
    BY <1>0, <1>2 DEF Reconcile, workVars, Specs
  <2>2. /\ Quiet
        /\ \A m \in Names : bridges'[m] \in {None, bridges[m]}
        /\ \A c \in Clients : Live(c)' =>
                 /\ client'[c] = client[c]
                 /\ bridges[client[c].name] = c => bridges'[client[c].name] = c
    BY <2>1, RemoveQuiet DEF Safety
  <2>3. WorkInv'
    BY <1>0, <2>1 DEF Safety, WorkInv
  <2>4. bridges \in [Names -> Clients \cup {None}]
    BY DEF TypeOK
  <2>5. MapInv'
    BY <2>2, <2>4 DEF Safety, MapInv, Quiet
  <2>6. SightInv' /\ OneSessionPerName' /\ NoBareSession'
    BY <1>0, <2>1, <2>2
       DEF Safety, SightInv, OneSessionPerName, NoBareSession, Quiet, Live
  <2> QED BY <2>3, <2>5, <2>6 DEF Safety
<1>3. CASE spec[cr] # None /\ ~spec[cr].deleting
  <2>1. /\ UNCHANGED <<wclient, bridges, client>> /\ wpc' = "upsert"
        /\ wcfg' = [name |-> spec[cr].name, addr |-> spec[cr].addr] /\ spec[cr] \in Specs
    BY <1>0, <1>3 DEF Reconcile
  <2>2. WorkInv'
    BY <1>0, <2>1 DEF Safety, WorkInv, Specs, Configs
  <2>3. MapInv' /\ SightInv' /\ OneSessionPerName' /\ NoBareSession'
    BY <1>0, <2>1
       DEF Safety, MapInv, SightInv, OneSessionPerName, NoBareSession, Live
  <2> QED BY <2>2, <2>3 DEF Safety
<1> QED BY <1>1, <1>2, <1>3

\* Upsert disconnects the old client of a name before it makes the new one.
LEMMA SafetyUpsert ==
    ASSUME TypeOK, Safety, Upsert
    PROVE  Safety'
<1>0. /\ client \in [Clients -> Used \cup {Unused}] /\ wcfg \in Configs
      /\ bridges \in [Names -> Clients \cup {None}]
      /\ wpc = "upsert" /\ wclient = None
      /\ UNCHANGED <<bridges, session, callbacks, stopping>>
  BY DEF TypeOK, Used, Safety, WorkInv, Upsert, linkVars
<1>1. CASE wpc' = "idle"
  <2>1. UNCHANGED <<wclient, client>>
    BY <1>1 DEF Upsert
  <2>2. WorkInv' /\ MapInv' /\ SightInv' /\ OneSessionPerName' /\ NoBareSession'
    BY <1>0, <1>1, <2>1
       DEF Safety, WorkInv, MapInv, SightInv, OneSessionPerName, NoBareSession, Live
  <2> QED BY <2>2 DEF Safety
<1>2. CASE wpc' # "idle"
  <2> PICK new \in Clients :
         /\ client[new].link = "unused"
         /\ client'[new] = NewBridgeClient(wcfg)
         /\ wclient' = new /\ wpc' = "connect" /\ wcfg' = wcfg
         /\ \A c \in Clients : c # new =>
               /\ client'[c].name = client[c].name
               /\ client'[c].link = "unused" <=> client[c].link = "unused"
               /\ Live(c)' => client'[c] = client[c] /\ bridges[wcfg.name] # c
    BY <1>2, UpsertNew DEF Safety
  <2>1. /\ client'[new].name = wcfg.name /\ client'[new].link = "dialing"
        /\ wcfg.name \in Names
    BY <1>0 DEF NewBridgeClient, Configs
  <2>2. WorkInv'
    BY <1>0, <2>1 DEF Safety, WorkInv, Live
  <2>3. MapInv'
    <3> SUFFICES ASSUME NEW n \in Names, bridges[n] # None
                 PROVE  client'[bridges[n]].link # "unused" /\ client'[bridges[n]].name = n
      BY <1>0 DEF MapInv
    <3>1. /\ bridges[n] \in Clients /\ client[bridges[n]].link # "unused"
          /\ client[bridges[n]].name = n
      BY <1>0 DEF Safety, MapInv
    <3> QED BY <3>1
  <2>4. ASSUME NEW c \in Clients, c # new, Live(c)', stopping = "no"
        PROVE  Live(c) /\ bridges[client[c].name] = c /\ client[c].name # wcfg.name
    <3>1. Live(c) /\ bridges[wcfg.name] # c
      BY <2>4 DEF Live
    <3>2. bridges[client[c].name] = c
      BY <1>0, <2>4, <3>1, NoneAssumption DEF Safety, SightInv
    <3> QED BY <3>1, <3>2
  <2>5. SightInv'
    BY <1>0, <2>4 DEF SightInv, Live
  <2>6. OneSessionPerName'
    BY <1>0, <2>1, <2>4 DEF Safety, OneSessionPerName
  <2>7. NoBareSession'
    <3>1. \A c \in Clients : client'[c].link = "up" => client'[c] = client[c]
      BY <2>1 DEF Live
    <3> QED BY <1>0, <3>1 DEF Safety, NoBareSession
  <2> QED BY <2>2, <2>3, <2>5, <2>6, <2>7 DEF Safety
<1> QED BY <1>1, <1>2

\* The new client gets its session while it is the worker's alone.
LEMMA SafetyConnect ==
    ASSUME TypeOK, Safety, ConnectReturns
    PROVE  Safety'
<1>0. UNCHANGED <<bridges, client, session, callbacks, stopping>> /\ wpc = "connect"
  BY DEF ConnectReturns, linkVars
<1>1. CASE wpc' = "store" /\ UNCHANGED <<wcfg, wclient>>
  BY <1>0, <1>1 DEF Safety, WorkInv, MapInv, SightInv, OneSessionPerName,
                    NoBareSession, Live
<1>2. CASE stopping # "no" /\ wpc' = "idle" /\ wclient' = None
  BY <1>0, <1>2 DEF Safety, WorkInv, MapInv, SightInv, OneSessionPerName,
                    NoBareSession, Live
<1> QED BY <1>1, <1>2 DEF ConnectReturns

\* The new client enters the map under its own name.
LEMMA SafetyStore ==
    ASSUME TypeOK, Safety, Store
    PROVE  Safety'
<1>0. /\ bridges \in [Names -> Clients \cup {None}] /\ wcfg \in Configs
      /\ client \in [Clients -> Used \cup {Unused}]
      /\ UNCHANGED <<client, session, callbacks, stopping>> /\ wpc = "store"
      /\ bridges' = [bridges EXCEPT ![wcfg.name] = wclient]
      /\ wpc' = "idle" /\ wclient' = None
      /\ wclient \in Clients /\ Live(wclient) /\ client[wclient].name = wcfg.name
      /\ wcfg.name \in Names
  BY DEF TypeOK, Used, Store, Safety, WorkInv, linkVars, Configs
<1>1. WorkInv' /\ OneSessionPerName' /\ NoBareSession'
  BY <1>0 DEF Safety, WorkInv, OneSessionPerName, NoBareSession, Live
<1>2. MapInv'
  BY <1>0 DEF Safety, MapInv, Live
<1>3. SightInv'
  <2> SUFFICES ASSUME NEW c \in Clients, Live(c), stopping = "no"
               PROVE  bridges'[client[c].name] = c
    BY <1>0 DEF SightInv, Live
  <2>1. client[c].name \in Names
    BY <1>0, UsedShape DEF Used
  <2>2. CASE client[c].name = wcfg.name
    <3>1. c = wclient
      BY <1>0, <2>2 DEF Safety, OneSessionPerName
    <3> QED BY <1>0, <2>2, <3>1
  <2>3. CASE client[c].name # wcfg.name
    <3>1. c # wclient
      BY <1>0, <2>3
    <3>2. bridges[client[c].name] = c
      BY <1>0, <3>1 DEF Safety, SightInv
    <3> QED BY <1>0, <2>1, <2>3, <3>2
  <2> QED BY <2>2, <2>3
<1> QED BY <1>1, <1>2, <1>3 DEF Safety

\* Connections come and go only on clients that were not disconnected.
LEMMA SafetyPaho ==
    ASSUME TypeOK, Safety, NEW c \in Clients, PahoStep(c)
    PROVE  Safety'
<1>1. CASE DialSucceeds(c) \/ ConnectionLost(c) \/ Reconnect(c)
  <2>1. /\ Quiet /\ Live(c) /\ Live(c)'
        /\ \A d \in Clients : d # c => client'[d] = client[d]
        /\ client'[c].link = "up" => "onConnect" \in callbacks'[c]
        /\ \A d \in Clients : d # c => /\ callbacks'[d] = callbacks[d]
                                       /\ session'[d] = session[d]
        /\ UNCHANGED <<wpc, wcfg, wclient, bridges, stopping>>
    BY <1>1, LinkQuiet DEF workVars
  <2>2. bridges \in [Names -> Clients \cup {None}]
    BY DEF TypeOK
  <2>3. WorkInv'
    BY <2>1 DEF Safety, WorkInv, Quiet, Live
  <2>4. MapInv' /\ SightInv' /\ OneSessionPerName'
    BY <2>1, <2>2 DEF Safety, MapInv, SightInv, OneSessionPerName, Quiet
  <2>5. NoBareSession'
    BY <2>1 DEF Safety, NoBareSession
  <2> QED BY <2>3, <2>4, <2>5 DEF Safety
<1>2. CASE (\E granted \in BOOLEAN : OnConnect(c, granted)) \/ OnConnectionLost(c)
  <2>1. UNCHANGED <<wpc, wcfg, wclient, bridges, client, stopping>>
    BY <1>2 DEF OnConnect, OnConnectionLost, RunCallback, workVars
  <2>2. WorkInv' /\ MapInv' /\ SightInv' /\ OneSessionPerName'
    BY <2>1 DEF Safety, WorkInv, MapInv, SightInv, OneSessionPerName, Live
  <2>3. NoBareSession'
    <3> SUFFICES ASSUME NEW d \in Clients, client[d].link = "up",
                        "onConnect" \notin callbacks'[d]
                 PROVE  session'[d] # "bare"
      BY <2>1 DEF NoBareSession
    <3>1. /\ callbacks \in [Clients -> SUBSET {"onConnect", "onConnectionLost"}]
          /\ session \in [Clients -> Sessions]
      BY DEF TypeOK
    <3>2. CASE d = c /\ \E granted \in BOOLEAN : OnConnect(c, granted)
      <4> PICK granted \in BOOLEAN : OnConnect(c, granted)
        BY <3>2
      <4>1. session' = [session EXCEPT ![c] = After(@, granted)]
        BY <3>2 DEF OnConnect, Resubscribe
      <4> QED BY <3>1, <3>2, <4>1 DEF After
    <3>3. CASE OnConnectionLost(c) \/ d # c
      <4>1. "onConnect" \notin callbacks[d]
        BY <1>2, <3>1, <3>3 DEF OnConnect, OnConnectionLost, RunCallback
      <4>2. session[d] # "bare"
        BY <4>1 DEF Safety, NoBareSession
      <4>3. session'[d] = session[d]
        BY <1>2, <3>1, <3>3 DEF OnConnect, OnConnectionLost, Resubscribe
      <4> QED BY <4>2, <4>3
    <3> QED BY <1>2, <3>2, <3>3
  <2> QED BY <2>2, <2>3 DEF Safety
<1> QED BY <1>1, <1>2 DEF PahoStep

\* StopAll disconnects what is in the map.
LEMMA SafetyStopAll ==
    ASSUME TypeOK, Safety, StopAll
    PROVE  Safety'
<1>1. /\ wpc = "idle" /\ stopping' = "all" /\ bridges' = [n \in Names |-> None]
      /\ UNCHANGED <<wpc, wcfg, wclient, session, callbacks>>
  BY DEF StopAll, workVars, linkVars
<1>2. Quiet /\ \A c \in Clients : client'[c].link = "up" => client'[c] = client[c]
  BY StopAllQuiet DEF Safety
<1>3. WorkInv' /\ MapInv' /\ SightInv'
  BY <1>1 DEF Safety, WorkInv, MapInv, SightInv
<1>4. OneSessionPerName' /\ NoBareSession'
  BY <1>1, <1>2 DEF Safety, OneSessionPerName, NoBareSession, Quiet
<1> QED BY <1>3, <1>4 DEF Safety

\* The invariant is inductive.
LEMMA BridgeStep == BridgeInv /\ [Next]_vars => BridgeInv'
<1> SUFFICES ASSUME TypeOK, Safety, [Next]_vars PROVE BridgeInv'
  BY DEF BridgeInv
<1>1. TypeOK'
  BY TypeStep DEF Safety
<1>2. CASE (\E cr \in CRs : Apply(cr) \/ Delete(cr) \/ ReconcileFails(cr))
           \/ CancelContext \/ UNCHANGED vars
  <2>1. /\ UNCHANGED <<workVars, bridges, client, session, callbacks>>
        /\ stopping # "no" => stopping' # "no"
    BY <1>2 DEF Apply, Delete, Change, ReconcileFails, CancelContext, vars, linkVars
  <2> QED BY <1>1, <2>1, SafetyFrame DEF BridgeInv
<1>3. Safety'
  BY <1>2, SafetyReconcile, SafetyUpsert, SafetyConnect, SafetyStore,
     SafetyPaho, SafetyStopAll DEF Next, WorkerStep, BridgeInv
<1> QED BY <1>1, <1>3 DEF BridgeInv

\* It holds in every reachable state.
LEMMA BridgeInvariant == Spec => []BridgeInv
BY BridgeInit, BridgeStep, PTL DEF Spec

\* Every variable keeps its type, for any set of resources, names and addresses
\* and any number of clients.
THEOREM BridgeTypes == Spec => []TypeOK
<1>1. BridgeInv => TypeOK
  BY DEF BridgeInv, Safety
<1> QED BY <1>1, BridgeInvariant, PTL

\* Until the shutdown two clients that have, or seek, a session never carry the
\* same bridge name and so never the same MQTT client ID (Upsert disconnects the
\* old client before it dials, and the one worker finishes an Upsert before it
\* starts another).
THEOREM OneSession == Spec => []OneSessionPerName
<1>1. BridgeInv => OneSessionPerName
  BY DEF BridgeInv, Safety
<1> QED BY <1>1, BridgeInvariant, PTL

\* Until the shutdown every client that is not closed can still be disconnected:
\* it is in the map under its name, or in the hands of Upsert.
THEOREM NoClientIsLost == Spec => []NoOrphanClient
<1>1. BridgeInv => NoOrphanClient
  BY DEF BridgeInv, Safety, SightInv, NoOrphanClient
<1> QED BY <1>1, BridgeInvariant, PTL

\* However the callbacks of lost and new connections are interleaved, a session
\* without an onConnect to come has had its SUBSCRIBEs sent; whether the broker
\* granted them nobody looks.
THEOREM SessionsAreAsked == Spec => []NoBareSession
<1>1. BridgeInv => NoBareSession
  BY DEF BridgeInv, Safety
<1> QED BY <1>1, BridgeInvariant, PTL
=============================================================================
