---------------------------- MODULE BridgeManager ----------------------------
(***************************************************************************)
(* The MQTT connections: MQTTBridgeReconciler (internal/k8s), Manager and   *)
(* BridgeClient (internal/mqtt).                                            *)
(*                                                                         *)
(* One controller worker reconciles MQTTBridge resources one after the      *)
(* other.  A BridgeClient wraps a paho client, which is external: it dials  *)
(* until it succeeds (ConnectRetry), reconnects by itself after a loss, and *)
(* runs its callbacks on goroutines of their own, some time after the       *)
(* event.  Host, port, user and topics are one value here, the address.     *)
(***************************************************************************)
EXTENDS Naturals, Sequences

CONSTANTS
    CRs,         \* MQTTBridge resources
    Names,       \* values of spec.bridgeName
    Addrs,       \* connection parameters, as far as Upsert compares them
    ConfigsOf,   \* the names and parameters each resource may carry
    Reachable,   \* the addresses at which a broker answers
    MaxClients,  \* bound: paho clients created
    MaxChanges,  \* bound: changes of the resources
    MayStop,     \* whether the controller may be told to stop
    None

ASSUME BridgeAssumption ==
    /\ ConfigsOf \in [CRs -> SUBSET [name : Names, addr : Addrs]]
    /\ Reachable \subseteq Addrs
    /\ MaxClients \in Nat /\ MaxChanges \in Nat
    /\ MayStop \in BOOLEAN

Clients == 1 .. MaxClients

\* A nil *BridgeClient is none of them.
ASSUME NoneAssumption == None \notin Clients

VARIABLES
    spec,       \* the resources in the cluster
    changes,    \* how often they changed
    workqueue,  \* resources the controller has to reconcile, each once, in turn
    wpc,        \* the worker: "idle", "upsert", "connect", "store"
    wcfg,       \* the BridgeConfig it is working on
    wclient,    \* the client it has created
    bridges,    \* Manager.bridges
    client,     \* the BridgeClients: name, address, state of the paho client
    token,      \* whether the token of Connect is done
    connected,  \* bc.connected
    session,    \* the subscriptions of the session: one of Sessions
    callbacks,  \* paho callbacks that have been started and have not run
    stopping    \* "no", "ctx": context cancelled, "all": StopAll has run

clusterVars == <<spec, changes>>
workVars == <<wpc, wcfg, wclient>>
linkVars == <<connected, session>>
vars == <<clusterVars, workqueue, workVars, bridges, client, token, linkVars,
          callbacks, stopping>>

Configs == [name : Names, addr : Addrs]
Unused == [name |-> None, addr |-> None, link |-> "unused"]
Links == {"dialing", "up", "lost", "closed"}

\* What became of the SUBSCRIBEs for the topics: not sent on this session,
\* granted, or sent in vain.
Sessions == {"bare", "granted", "deaf"}

Init ==
    /\ spec = [c \in CRs |-> None]
    /\ changes = 0
    /\ workqueue = <<>>
    /\ wpc = "idle" /\ wcfg = None /\ wclient = None
    /\ bridges = [n \in Names |-> None]
    /\ client = [c \in Clients |-> Unused]
    /\ token = [c \in Clients |-> FALSE]
    /\ connected = [c \in Clients |-> FALSE]
    /\ session = [c \in Clients |-> "bare"]
    /\ callbacks = [c \in Clients |-> {}]
    /\ stopping = "no"

-----------------------------------------------------------------------------
(* The cluster: every change puts the resource on the work queue, which     *)
(* holds a key once and takes no more after the signal to stop.             *)

Add(q, k) == IF \E i \in 1 .. Len(q) : q[i] = k THEN q ELSE Append(q, k)

Change(cr, value) ==
    /\ changes < MaxChanges
    /\ changes' = changes + 1
    /\ spec' = [spec EXCEPT ![cr] = value]
    /\ workqueue' = IF stopping = "no" THEN Add(workqueue, cr) ELSE workqueue
    /\ UNCHANGED <<workVars, bridges, client, token, linkVars, callbacks, stopping>>

Apply(cr) ==
    \E c \in ConfigsOf[cr] :
        LET s == [name |-> c.name, addr |-> c.addr, deleting |-> FALSE]
        IN  spec[cr] # s /\ (spec[cr] # None => ~spec[cr].deleting) /\ Change(cr, s)

\* Deletion, with or without a finalizer holding the object back.
Delete(cr) ==
    /\ spec[cr] # None
    /\ \/ Change(cr, None)
       \/ ~spec[cr].deleting /\ Change(cr, [spec[cr] EXCEPT !.deleting = TRUE])

-----------------------------------------------------------------------------
(* MQTTBridgeReconciler.Reconcile.                                         *)

Disconnect(c) == client' = [client EXCEPT ![c].link = "closed"]

\* Mutant of Remove: the client is taken out of the map and left running.
Remove_leak(n) ==
    /\ bridges' = [bridges EXCEPT ![n] = None]
    /\ UNCHANGED client

\* Manager.Remove
Remove(n) ==
    IF bridges[n] = None THEN UNCHANGED <<bridges, client>>
    ELSE bridges' = [bridges EXCEPT ![n] = None] /\ Disconnect(bridges[n])

\* Up to the call of Upsert; a resource that is gone needs no work.  The keys that
\* are queued at the signal are still handed out, with a context that is done.
Reconcile(cr) ==
    /\ wpc = "idle" /\ stopping # "all"
    /\ workqueue # <<>> /\ Head(workqueue) = cr
    /\ workqueue' = Tail(workqueue)
    /\ \/ /\ spec[cr] = None
          /\ UNCHANGED <<workVars, bridges, client>>
       \/ /\ spec[cr] # None /\ spec[cr].deleting
          /\ Remove(spec[cr].name)
          /\ UNCHANGED workVars
       \/ /\ spec[cr] # None /\ ~spec[cr].deleting
          /\ wpc' = "upsert"
          /\ wcfg' = [name |-> spec[cr].name, addr |-> spec[cr].addr]
          /\ UNCHANGED <<wclient, bridges, client>>
    /\ UNCHANGED <<clusterVars, token, linkVars, callbacks, stopping>>

\* The resource or its credentials cannot be read: the controller tries again.
ReconcileFails(cr) ==
    /\ wpc = "idle" /\ stopping # "all" /\ spec[cr] # None
    /\ workqueue # <<>> /\ Head(workqueue) = cr
    /\ workqueue' = IF stopping = "no" THEN Append(Tail(workqueue), cr)
                    ELSE Tail(workqueue)
    /\ changes < MaxChanges /\ changes' = changes + 1
    /\ UNCHANGED <<spec, workVars, bridges, client, token, linkVars, callbacks, stopping>>

\* Mutant of Replaced: the old client stays connected.
Replaced_kept(old) == client

\* existing.Disconnect()
Replaced(old) == IF old = None THEN client
                 ELSE [client EXCEPT ![old].link = "closed"]

\* newBridgeClient, and the Connect call that starts it dialling.
NewBridgeClient(c) == [name |-> c.name, addr |-> c.addr, link |-> "dialing"]

\* Mutant of UpToDate: any client of that name will do.
UpToDate_byName(old) == old # None

\* The client there is was made for this configuration.
UpToDate(old) == old # None /\ client[old].addr = wcfg.addr

\* Manager.Upsert: nothing to do, or disconnect the old client and dial.
Upsert ==
    LET old == bridges[wcfg.name] IN
    /\ wpc = "upsert"
    /\ IF UpToDate(old)
       THEN wpc' = "idle" /\ wcfg' = None /\ UNCHANGED <<wclient, client>>
       ELSE \E new \in Clients :
               /\ client[new] = Unused
               /\ \A c \in Clients : client[c] = Unused => new <= c
               /\ client' = [Replaced(old) EXCEPT ![new] = NewBridgeClient(wcfg)]
               /\ wclient' = new
               /\ wpc' = "connect"
               /\ UNCHANGED wcfg
    /\ UNCHANGED <<clusterVars, workqueue, bridges, token, linkVars, callbacks, stopping>>

\* BridgeClient.Connect returns: the token is done, or the context ended, in
\* which case the client is forgotten (it goes on dialling).
ConnectReturns ==
    /\ wpc = "connect"
    /\ \/ token[wclient] /\ wpc' = "store" /\ UNCHANGED <<wcfg, wclient>>
       \/ stopping # "no" /\ wpc' = "idle" /\ wcfg' = None /\ wclient' = None
    /\ UNCHANGED <<clusterVars, workqueue, bridges, client, token, linkVars,
                   callbacks, stopping>>

\* The end of Upsert: register the connected client.
Store ==
    /\ wpc = "store"
    /\ bridges' = [bridges EXCEPT ![wcfg.name] = wclient]
    /\ wpc' = "idle" /\ wcfg' = None /\ wclient' = None
    /\ UNCHANGED <<clusterVars, workqueue, client, token, linkVars, callbacks, stopping>>

-----------------------------------------------------------------------------
(* The paho client, and the callbacks of BridgeClient.                     *)

\* Sessions are clean: none survives the connection it belongs to.
Link(c, from, to, callback) ==
    /\ client[c].link = from
    /\ client' = [client EXCEPT ![c].link = to]
    /\ session' = [session EXCEPT ![c] = "bare"]
    /\ callbacks' = [callbacks EXCEPT ![c] = @ \cup {callback}]
    /\ UNCHANGED <<clusterVars, workqueue, workVars, bridges, connected, stopping>>

DialSucceeds(c) ==
    /\ client[c].addr \in Reachable
    /\ Link(c, "dialing", "up", "onConnect")
    /\ token' = [token EXCEPT ![c] = TRUE]

ConnectionLost(c) ==
    /\ Link(c, "up", "lost", "onConnectionLost")
    /\ UNCHANGED token

Reconnect(c) ==
    /\ client[c].addr \in Reachable
    /\ Link(c, "lost", "up", "onConnect")
    /\ UNCHANGED token

RunCallback(c, cb, value) ==
    /\ cb \in callbacks[c]
    /\ callbacks' = [callbacks EXCEPT ![c] = @ \ {cb}]
    /\ connected' = [connected EXCEPT ![c] = value]
    /\ UNCHANGED <<clusterVars, workqueue, workVars, bridges, client, token, stopping>>

\* What the SUBSCRIBE packets of one resubscribe leave behind.  A new one that
\* fails does not undo one that was granted.
After(old, granted) == IF granted \/ old = "granted" THEN "granted" ELSE "deaf"

\* Mutant of Resubscribe: only the first session is subscribed.
Resubscribe_once(c, granted) ==
    session' = [session EXCEPT ![c] =
                  IF client[c].link = "up" /\ ~connected[c] THEN After(@, granted) ELSE @]

\* The packets go out when there is a connection at that moment, whichever
\* connection the callback was started for.  The broker may refuse them, they may
\* get lost, and a list of topics of other types sends none; the tokens that
\* would tell are ignored.
Resubscribe(c, granted) ==
    session' = [session EXCEPT ![c] =
                  IF client[c].link = "up" THEN After(@, granted) ELSE @]

OnConnect(c, granted) == RunCallback(c, "onConnect", TRUE) /\ Resubscribe(c, granted)

OnConnectionLost(c) == RunCallback(c, "onConnectionLost", FALSE) /\ UNCHANGED session

-----------------------------------------------------------------------------
(* Shutdown in main: the context ends, the manager waits until the worker   *)
(* has emptied its queue, then StopAll disconnects what is in the map.  When *)
(* that takes longer than the grace period, main exits without it.          *)

CancelContext ==
    /\ MayStop /\ stopping = "no"
    /\ stopping' = "ctx"
    /\ UNCHANGED <<clusterVars, workqueue, workVars, bridges, client, token,
                   linkVars, callbacks>>

\* Mutant of StopAll: the map is dropped instead of emptied.
StopAll_noMap ==
    /\ stopping = "ctx" /\ wpc = "idle" /\ workqueue = <<>>
    /\ stopping' = "all"
    /\ client' = [c \in Clients |->
                    IF \E n \in Names : bridges[n] = c
                    THEN [client[c] EXCEPT !.link = "closed"] ELSE client[c]]
    /\ bridges' = [n \in {} |-> None]
    /\ UNCHANGED <<clusterVars, workqueue, workVars, token, linkVars, callbacks>>

StopAll ==
    /\ stopping = "ctx" /\ wpc = "idle" /\ workqueue = <<>>
    /\ stopping' = "all"
    /\ client' = [c \in Clients |->
                    IF \E n \in Names : bridges[n] = c
                    THEN [client[c] EXCEPT !.link = "closed"] ELSE client[c]]
    /\ bridges' = [n \in Names |-> None]
    /\ UNCHANGED <<clusterVars, workqueue, workVars, token, linkVars, callbacks>>

-----------------------------------------------------------------------------
WorkerStep == \/ \E cr \in CRs : Reconcile(cr) \/ ReconcileFails(cr)
              \/ Upsert \/ ConnectReturns \/ Store

PahoStep(c) == \/ DialSucceeds(c) \/ ConnectionLost(c) \/ Reconnect(c)
               \/ \E granted \in BOOLEAN : OnConnect(c, granted)
               \/ OnConnectionLost(c)

Next == \/ \E cr \in CRs : Apply(cr) \/ Delete(cr)
        \/ WorkerStep
        \/ \E c \in Clients : PahoStep(c)
        \/ CancelContext \/ StopAll

Spec == Init /\ [][Next]_vars

\* The worker goes on while it has work, and a broker that answers lets a client
\* in that keeps dialling.
FairSpec ==
    /\ Spec
    /\ WF_vars(WorkerStep)
    /\ \A c \in Clients : WF_vars(DialSucceeds(c))

-----------------------------------------------------------------------------
(* Properties.                                                             *)

Live(c) == client[c].link \in {"dialing", "up", "lost"}

\* Every variable has its type.
TypeOK ==
    /\ spec \in [CRs -> [name : Names, addr : Addrs, deleting : BOOLEAN] \cup {None}]
    /\ changes \in 0 .. MaxChanges
    /\ workqueue \in Seq(CRs)
    /\ wpc \in {"idle", "upsert", "connect", "store"}
    /\ wcfg \in Configs \cup {None}
    /\ wclient \in Clients \cup {None}
    /\ bridges \in [Names -> Clients \cup {None}]
    /\ client \in [Clients -> [name : Names, addr : Addrs, link : Links] \cup {Unused}]
    /\ token \in [Clients -> BOOLEAN] /\ connected \in [Clients -> BOOLEAN]
    /\ session \in [Clients -> Sessions]
    /\ callbacks \in [Clients -> SUBSET {"onConnect", "onConnectionLost"}]
    /\ stopping \in {"no", "ctx", "all"}

\* Until shutdown at most one client per bridge name has, or seeks, a session.
\* They share one MQTT client ID ("valve-controller-<hostname>-<BridgeName>"), so
\* two of them would throw each other out of the broker for ever.
OneSessionPerName ==
    stopping = "no" => \A c, d \in Clients :
        Live(c) /\ Live(d) /\ client[c].name = client[d].name => c = d

\* Until shutdown no client is lost from sight: each one that is not closed is
\* registered under its own name, or is the one being connected.  Any other
\* could never be disconnected again.
NoOrphanClient ==
    stopping = "no" => \A c \in Clients :
        Live(c) => wclient = c \/ bridges[client[c].name] = c

\* However often the link was lost and in whatever order the callbacks ran, a
\* connection that has no onConnect to come has had its SUBSCRIBEs sent on this
\* very session: it hears its topics unless the broker did not grant them.  The
\* callback of one connection may run on the next, or between the two.
NoBareSession ==
    \A c \in Clients :
        client[c].link = "up" /\ "onConnect" \notin callbacks[c] => session[c] # "bare"

\* A live client for just these parameters is in the map.
Serves(s) == LET c == bridges[s.name]
             IN  c # None /\ Live(c) /\ client[c].addr = s.addr

Clash == \E a, b \in CRs : /\ a # b /\ spec[a] # None /\ spec[b] # None
                           /\ spec[a].name = spec[b].name

\* When the resources stop changing, every bridge that is still wanted ends up
\* with a client for the parameters its resource asks for, whatever changed
\* while the worker was connecting, provided no two resources ever carried the
\* same bridge name at a time (of two that do, the one reconciled last has the
\* client).
Converges == []~Clash => \A cr \in CRs :
    <>[](stopping = "no" /\ spec[cr] # None /\ ~spec[cr].deleting => Serves(spec[cr]))

\* "Clients are created/updated/removed as MQTTBridge CRs change" (Manager).
\* Created: a bridge whose broker answers gets its client, whatever the state of
\* the other brokers.
ReachableIsServed == \A cr \in CRs :
    <>[](spec[cr] # None /\ ~spec[cr].deleting /\ spec[cr].addr \in Reachable
            => Serves(spec[cr]))
=============================================================================
