--------------------------- MODULE FederationClient ---------------------------
(***************************************************************************)
(* Federation policy: libfcp-server's FederationServer publishes signed    *)
(* configuration snapshots, any carrier delivers them, and libfcp's        *)
(* FederationClient replaces its CFR-to-endpoint bindings by the newest it *)
(* is given and routes CFR messages over the peer connections in its       *)
(* directory.                                                              *)
(*                                                                         *)
(* The carrier holds every snapshot ever published and hands any of them   *)
(* to any client, in any order, any number of times.  An authority in      *)
(* ForeignAuthority does not run this library and signs any snapshot.      *)
(*                                                                         *)
(* Both objects live in memory: NewServer and NewClient may happen at any  *)
(* time, which is a restart.  The control plane chooses the epochs, and    *)
(* docs/operations.md has it persist an epoch only after distribution, so  *)
(* a server started again may be handed one that an earlier run has signed *)
(* already: nothing here assumes that it is not.                           *)
(*                                                                         *)
(* An operation that returns Err changes nothing and is a stuttering step. *)
(***************************************************************************)
EXTENDS Naturals, Sequences

CONSTANTS
    Federation,        \* FederationId values
    Authority,         \* endpoint identities that may sign snapshots
    ForeignAuthority,  \* the authorities whose software is not this library
    Cfr,               \* CFR participant identities (SigPublic)
    Endpoint,          \* complete FCP endpoint identities of members
    Server,            \* FederationServer instances, by federation and signer
    Client,            \* FederationClient instances, by pinned ClientConfiguration
    MemberList,        \* the member lists control planes and foreign authorities choose
    Link,              \* connections the applications put in their directories
    MaxMembers,        \* MAX_FEDERATION_MEMBERS
    MaxEpoch,          \* u64::MAX
    MaxRun,            \* bound: restarts of a server
    None,              \* the absent value of an Option
    Everyone           \* Recipient::Everyone

Epoch == 0..MaxEpoch
Member == [cfr : Cfr, endpoint : Endpoint]

\* What a client's application pins before the first snapshot arrives.
ClientConfiguration ==
    [federation : Federation, authority : Authority, cfr : Cfr, endpoint : Endpoint]

\* As much of a Connection as its directory and the bridge look at; while it is in
\* the directory nothing can change it.
Connections ==
    [federation : Federation, local : Endpoint, remote : Endpoint, established : BOOLEAN]

ASSUME BoundsAssumption == MaxMembers \in Nat /\ MaxEpoch \in Nat /\ MaxRun \in Nat
ASSUME ServerAssumption ==
    Server \subseteq [federation : Federation, authority : Authority \ ForeignAuthority]
ASSUME ClientAssumption == Client \subseteq ClientConfiguration
ASSUME MemberListAssumption == MemberList \subseteq Seq(Member)
ASSUME LinkAssumption == Link \subseteq {l \in Connections : l.local # l.remote}
ASSUME NoneAssumption ==
    None \notin Epoch /\ None \notin Endpoint /\ None \notin Connections
ASSUME EveryoneAssumption == Everyone \notin Cfr

VARIABLES
    run,             \* history: how often each server was started again
    configuration,   \* FederationServer.configuration
    published,       \* every snapshot a server signed: the carrier's to deliver
    accepted_epoch,  \* FederationClient.accepted_epoch
    bindings,        \* FederationClient.bindings
    connections,     \* FederationClient.connections
    routed           \* the outcome of a client's latest route_outbound that succeeded

serverVars == <<run, configuration, published>>
clientVars == <<accepted_epoch, bindings, connections, routed>>
vars == <<serverVars, clientVars>>

-----------------------------------------------------------------------------
(* Snapshots. *)

\* Every participant has one endpoint and every endpoint one participant.
OneToOne(members) ==
    \A m, n \in members : (m.cfr = n.cfr \/ m.endpoint = n.endpoint) => m = n

MemberSet == {members \in SUBSET Member : OneToOne(members)}

\* The run of the server that signed is history: it is not in the snapshot's bytes and
\* no client looks at it.
Snapshot ==
    [federation : Federation, authority : Authority, epoch : Epoch,
     members : MemberSet, run : 0..MaxRun]

ServerOf(p) == [federation |-> p.federation, authority |-> p.authority]

\* validate: bounded, no CFR identity twice, no endpoint twice.
Valid(list) ==
    /\ Len(list) <= MaxMembers
    /\ \A i, j \in DOMAIN list : i # j =>
         list[i].cfr # list[j].cfr /\ list[i].endpoint # list[j].endpoint

Members(list) == {list[i] : i \in DOMAIN list}

\* A foreign authority signs what it likes; verify still validates the members.
ForeignSnapshots ==
    [federation : Federation, authority : ForeignAuthority, epoch : Epoch,
     members : {Members(list) : list \in {l \in MemberList : Valid(l)}}, run : {0}]

-----------------------------------------------------------------------------

NoBindings == [id \in Cfr |-> None]
NoConnections == [e \in Endpoint |-> None]

Batch ==
    [epoch : Epoch \cup {None}, to : Cfr \cup {Everyone},
     sent : SUBSET [cfr : Cfr, federation : Federation, recipient : Endpoint]]

TypeOK ==
    /\ run \in [Server -> 0..MaxRun]
    /\ configuration \in [Server -> [epoch : Epoch, members : MemberSet]]
    /\ published \subseteq Snapshot
    /\ accepted_epoch \in [Client -> Epoch \cup {None}]
    /\ bindings \in [Client -> [Cfr -> Endpoint \cup {None}]]
    /\ connections \in [Client -> [Endpoint -> Connections \cup {None}]]
    /\ routed \in [Client -> Batch \cup {None}]

Init ==
    /\ run = [s \in Server |-> 0]
    /\ configuration = [s \in Server |-> [epoch |-> 0, members |-> {}]]
    /\ published = {}
    /\ accepted_epoch = [c \in Client |-> None]
    /\ bindings = [c \in Client |-> NoBindings]
    /\ connections = [c \in Client |-> NoConnections]
    /\ routed = [c \in Client |-> None]

-----------------------------------------------------------------------------
(* The server. *)

\* FederationServer::new, again after a restart: an empty snapshot of epoch zero.
NewServer(s) ==
    /\ run[s] < MaxRun
    /\ run' = [run EXCEPT ![s] = @ + 1]
    /\ configuration' = [configuration EXCEPT ![s] = [epoch |-> 0, members |-> {}]]
    /\ UNCHANGED published

\* Mutant of ReplaceMembers: the epoch in hand may be used again.
ReplaceMembers_Again(s, epoch, list) ==
    /\ epoch >= configuration[s].epoch
    /\ Valid(list)
    /\ configuration' =
         [configuration EXCEPT ![s] = [epoch |-> epoch, members |-> Members(list)]]
    /\ UNCHANGED <<run, published>>

\* Mutant of ReplaceMembers: the list is taken as it comes.
ReplaceMembers_Unchecked(s, epoch, list) ==
    /\ epoch > configuration[s].epoch
    /\ configuration' =
         [configuration EXCEPT ![s] = [epoch |-> epoch, members |-> Members(list)]]
    /\ UNCHANGED <<run, published>>

\* replace_members: newer than the epoch in memory, validated before anything is assigned.
ReplaceMembers(s, epoch, list) ==
    /\ epoch > configuration[s].epoch
    /\ Valid(list)
    /\ configuration' =
         [configuration EXCEPT ![s] = [epoch |-> epoch, members |-> Members(list)]]
    /\ UNCHANGED <<run, published>>

\* publish: sign the configuration in hand, as often as asked.
Publish(s) ==
    /\ published' = published \cup
         {[federation |-> s.federation, authority |-> s.authority,
           epoch |-> configuration[s].epoch, members |-> configuration[s].members,
           run |-> run[s]]}
    /\ UNCHANGED <<run, configuration>>

-----------------------------------------------------------------------------
(* The client's configuration. *)

\* FederationClient::new, again after a restart: nothing is remembered.
NewClient(c) ==
    /\ accepted_epoch' = [accepted_epoch EXCEPT ![c] = None]
    /\ bindings' = [bindings EXCEPT ![c] = NoBindings]
    /\ connections' = [connections EXCEPT ![c] = NoConnections]
    /\ routed' = [routed EXCEPT ![c] = None]

\* The remote bindings client c takes from a member set.
ViewOf(c, members) ==
    [id \in Cfr |->
        IF id # c.cfr /\ \E m \in members : m.cfr = id
        THEN (CHOOSE m \in members : m.cfr = id).endpoint
        ELSE None]

\* Mutant of Newer: an epoch that was accepted is accepted again, older or not.
Newer_Any(c, p) == accepted_epoch[c] # p.epoch

Newer(c, p) == accepted_epoch[c] # None => p.epoch > accepted_epoch[c]

\* Mutant of ApplyConfiguration: new bindings are added to the old ones.
ApplyConfiguration_Merge(c, p) ==
    /\ p \in published \/ p.authority \in ForeignAuthority
    /\ p.federation = c.federation
    /\ p.authority = c.authority
    /\ Newer(c, p)
    /\ [cfr |-> c.cfr, endpoint |-> c.endpoint] \in p.members
    /\ bindings' = [bindings EXCEPT ![c] =
         [id \in Cfr |-> IF ViewOf(c, p.members)[id] # None
                         THEN ViewOf(c, p.members)[id] ELSE @[id]]]
    /\ accepted_epoch' = [accepted_epoch EXCEPT ![c] = p.epoch]
    /\ UNCHANGED <<connections, routed>>

\* Mutant of ApplyConfiguration: the local member is not looked for.
ApplyConfiguration_NotMember(c, p) ==
    /\ p \in published \/ p.authority \in ForeignAuthority
    /\ p.federation = c.federation
    /\ p.authority = c.authority
    /\ Newer(c, p)
    /\ bindings' = [bindings EXCEPT ![c] = ViewOf(c, p.members)]
    /\ accepted_epoch' = [accepted_epoch EXCEPT ![c] = p.epoch]
    /\ UNCHANGED <<connections, routed>>

\* apply_configuration: verify, pinned federation and authority, newer epoch, and
\* this client listed at exactly its own endpoint; then both fields at once.  The
\* connections of members that are gone stay in the directory.
ApplyConfiguration(c, p) ==
    /\ p \in published \/ p.authority \in ForeignAuthority
    /\ p.federation = c.federation
    /\ p.authority = c.authority
    /\ Newer(c, p)
    /\ [cfr |-> c.cfr, endpoint |-> c.endpoint] \in p.members
    /\ bindings' = [bindings EXCEPT ![c] = ViewOf(c, p.members)]
    /\ accepted_epoch' = [accepted_epoch EXCEPT ![c] = p.epoch]
    /\ UNCHANGED <<connections, routed>>

-----------------------------------------------------------------------------
(* The client's directory and bridge. *)

\* insert_connection: any phase; replaces the entry of its remote endpoint.
InsertConnection(c, l) ==
    /\ l.federation = c.federation
    /\ l.local = c.endpoint
    /\ connections' = [connections EXCEPT ![c][l.remote] = l]
    /\ UNCHANGED <<accepted_epoch, bindings, routed>>

RemoveConnection(c, e) ==
    /\ connections[c][e] # None
    /\ connections' = [connections EXCEPT ![c][e] = None]
    /\ UNCHANGED <<accepted_epoch, bindings, routed>>

Recipients(c, to) ==
    IF to = Everyone THEN {id \in Cfr : bindings[c][id] # None} ELSE {to}

\* route_one: binding, connection, established, signed by the pinned local identity.
RouteOne(c, signer, id) ==
    /\ bindings[c][id] # None
    /\ connections[c][bindings[c][id]] # None
    /\ connections[c][bindings[c][id]].established
    /\ connections[c][bindings[c][id]].local = signer

\* Mutant of RouteOutbound: members without a usable connection are skipped.
RouteOutbound_Skip(c, signer, to) ==
    /\ routed' = [routed EXCEPT ![c] =
         [epoch |-> accepted_epoch[c], to |-> to,
          sent |-> {[cfr |-> id,
                     federation |-> connections[c][bindings[c][id]].federation,
                     recipient |-> connections[c][bindings[c][id]].remote] :
                    id \in {i \in Recipients(c, to) : RouteOne(c, signer, i)}}]]
    /\ UNCHANGED <<accepted_epoch, bindings, connections>>

\* route_outbound: every recipient or, on the first error, none.
RouteOutbound(c, signer, to) ==
    /\ \A id \in Recipients(c, to) : RouteOne(c, signer, id)
    /\ routed' = [routed EXCEPT ![c] =
         [epoch |-> accepted_epoch[c], to |-> to,
          sent |-> {[cfr |-> id,
                     federation |-> connections[c][bindings[c][id]].federation,
                     recipient |-> connections[c][bindings[c][id]].remote] :
                    id \in Recipients(c, to)}]]
    /\ UNCHANGED <<accepted_epoch, bindings, connections>>

-----------------------------------------------------------------------------

ServerStep(s) ==
    \/ NewServer(s)
    \/ \E epoch \in Epoch, list \in MemberList : ReplaceMembers(s, epoch, list)
    \/ Publish(s)

ClientStep(c) ==
    \/ NewClient(c)
    \/ \E p \in published \cup ForeignSnapshots : ApplyConfiguration(c, p)
    \/ \E l \in Link : InsertConnection(c, l)
    \/ \E e \in Endpoint : RemoveConnection(c, e)
    \/ \E signer \in Endpoint, to \in Cfr \cup {Everyone} : RouteOutbound(c, signer, to)

Next ==
    \/ \E s \in Server : ServerStep(s) /\ UNCHANGED clientVars
    \/ \E c \in Client : ClientStep(c) /\ UNCHANGED serverVars

Spec == Init /\ [][Next]_vars

-----------------------------------------------------------------------------
(* Properties. *)

\* Clients of an authority that runs this library.
Served(c) == c.authority \notin ForeignAuthority

\* p is a snapshot the servers published for client c's federation and authority.
PublishedFor(c, p) == p \in published /\ ServerOf(p) = ServerOf(c)

\* A client's bindings are never a mixture: they are the remote members of one
\* published snapshot, of the epoch it reports, that lists the client at its own
\* endpoint; so no binding is ever the client's own endpoint (apply_configuration).
ViewIsSnapshot ==
    \A c \in Client : Served(c) =>
        \/ accepted_epoch[c] = None /\ bindings[c] = NoBindings
        \/ \E p \in published :
             /\ PublishedFor(c, p)
             /\ p.epoch = accepted_epoch[c]
             /\ [cfr |-> c.cfr, endpoint |-> c.endpoint] \in p.members
             /\ bindings[c] = ViewOf(c, p.members)
             /\ \A id \in Cfr : bindings[c][id] # c.endpoint

\* The server was started again and signed an epoch that an earlier run had signed.
SignedAgain(s, epoch) ==
    \E p, q \in published :
        /\ ServerOf(p) = s /\ ServerOf(q) = s
        /\ p.epoch = epoch /\ q.epoch = epoch
        /\ p.run # q.run

\* Two clients that report the same epoch of one federation see the same members,
\* each other included, whatever the carrier did, unless two runs of the server signed
\* that epoch.  A restart is the only way to two views of one epoch: within a run the
\* server rules them out, across runs only the control plane can
\* (replace_members, publish and apply_configuration).
SameEpochSameView ==
    \A c, d \in Client :
        (Served(c) /\ ServerOf(c) = ServerOf(d) /\ accepted_epoch[c] # None
           /\ accepted_epoch[c] = accepted_epoch[d]
           /\ ~ SignedAgain(ServerOf(c), accepted_epoch[c])) =>
             /\ \A id \in Cfr \ {c.cfr, d.cfr} : bindings[c][id] = bindings[d][id]
             /\ c.cfr # d.cfr => bindings[c][d.cfr] = d.endpoint

\* A replayed or late snapshot never rolls a running client back: bindings and epoch
\* change together, and only forward (apply_configuration: StaleConfiguration).
MonotoneViews ==
    [][\A c \in Client :
         \/ UNCHANGED <<accepted_epoch[c], bindings[c]>>
         \/ accepted_epoch'[c] = None /\ bindings'[c] = NoBindings
         \/ /\ accepted_epoch'[c] # None
            /\ accepted_epoch[c] # None => accepted_epoch'[c] > accepted_epoch[c]]_vars

\* Whatever connections linger in the directory, a CFR message leaves only over a
\* connection of the pinned federation to the endpoint that a published snapshot of
\* the client's epoch at that time binds to the addressed participant, never to the
\* client itself (route_one after apply_configuration).
RoutedToMembers ==
    \A c \in Client : (Served(c) /\ routed[c] # None) =>
        \A m \in routed[c].sent :
            /\ m.federation = c.federation
            /\ m.recipient # c.endpoint
            /\ \E p \in published :
                 /\ PublishedFor(c, p)
                 /\ p.epoch = routed[c].epoch
                 /\ [cfr |-> m.cfr, endpoint |-> m.recipient] \in p.members

\* A broadcast that succeeds reaches every other member of the snapshot, once each
\* and at different endpoints (route_outbound, Recipient::Everyone).
BroadcastComplete ==
    \A c \in Client :
        (Served(c) /\ routed[c] # None /\ routed[c].to = Everyone
           /\ routed[c].epoch # None) =>
             \E p \in published :
               /\ PublishedFor(c, p)
               /\ p.epoch = routed[c].epoch
               /\ {[cfr |-> m.cfr, endpoint |-> m.recipient] : m \in routed[c].sent}
                    = p.members \ {[cfr |-> c.cfr, endpoint |-> c.endpoint]}
               /\ \A m, n \in routed[c].sent : m.recipient = n.recipient => m = n

-----------------------------------------------------------------------------
(* The parts of the inductive invariant of FederationClient_proofs. *)

\* No run signs before it starts or ahead of the epoch in hand, and a snapshot of the
\* run and the epoch in hand is the one in hand.
PublishedSound ==
    \A p \in published :
        /\ ServerOf(p) \in Server
        /\ p.run <= run[ServerOf(p)]
        /\ p.run = run[ServerOf(p)] =>
             /\ p.epoch <= configuration[ServerOf(p)].epoch
             /\ p.epoch = configuration[ServerOf(p)].epoch =>
                  p.members = configuration[ServerOf(p)].members

\* One run of a server signs at most one member set for each epoch.
OneSnapshotPerEpoch ==
    \A p, q \in published :
        (ServerOf(p) = ServerOf(q) /\ p.run = q.run /\ p.epoch = q.epoch) =>
            p.members = q.members

\* A directory entry is a connection of this client to the endpoint it is filed under.
DirectorySound ==
    \A c \in Client : \A e \in Endpoint : connections[c][e] # None =>
        /\ connections[c][e].federation = c.federation
        /\ connections[c][e].local = c.endpoint
        /\ connections[c][e].remote = e
=============================================================================
