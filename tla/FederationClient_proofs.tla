------------------------ MODULE FederationClient_proofs ------------------------
(***************************************************************************)
(* FederationClient: type correctness, clients' views are published        *)
(* snapshots, clients of one epoch agree, views never roll back, and       *)
(* messages leave only towards the members of the view.                    *)
(*                                                                         *)
(* The argument: the epoch in memory bounds what the running server has    *)
(* signed, so one run signs one member set per epoch (PublishedSound,      *)
(* OneSnapshotPerEpoch); a client's view is one of them (ViewIsSnapshot);  *)
(* its directory files each connection under its own remote endpoint       *)
(* (DirectorySound), so a routed message goes where the view says.         *)
(***************************************************************************)
EXTENDS FederationClient, TLAPS

-----------------------------------------------------------------------------
(* Snapshots and views. *)

\* A validated list is a one-to-one member set.
LEMMA ValidOneToOne ==
    ASSUME NEW list \in Seq(Member), Valid(list)
    PROVE  Members(list) \in MemberSet
<1>1. Members(list) \in SUBSET Member
  BY DEF Members
<1>2. OneToOne(Members(list))
  BY DEF OneToOne, Members, Valid
<1>3. QED
  BY <1>1, <1>2 DEF MemberSet

\* A foreign snapshot has the shape of any other.
LEMMA ForeignShape == ForeignSnapshots \subseteq [members : SUBSET Member, epoch : Epoch, run : {0},
                          federation : Federation, authority : ForeignAuthority]
<1>1. \A list \in MemberList : Valid(list) => Members(list) \in SUBSET Member
  BY ValidOneToOne, MemberListAssumption DEF MemberSet
<1>2. {Members(list) : list \in {l \in MemberList : Valid(l)}} \subseteq SUBSET Member
  BY <1>1
<1>3. QED
  BY <1>2 DEF ForeignSnapshots

\* What a view holds, and that it holds everything.
LEMMA ViewOfFacts ==
    ASSUME NEW c, NEW members \in SUBSET Member
    PROVE  /\ ViewOf(c, members) \in [Cfr -> Endpoint \cup {None}]
           /\ \A id \in Cfr : ViewOf(c, members)[id] # None =>
                /\ id # c.cfr
                /\ [cfr |-> id, endpoint |-> ViewOf(c, members)[id]] \in members
           /\ OneToOne(members) => \A m \in members :
                m.cfr # c.cfr => ViewOf(c, members)[m.cfr] = m.endpoint
<1> DEFINE pick(id) == CHOOSE m \in members : m.cfr = id
<1>1. \A id \in Cfr : (\E m \in members : m.cfr = id) =>
         pick(id) \in members /\ pick(id).cfr = id
  OBVIOUS
<1>2. \A m \in members : m \in Member /\ m = [cfr |-> m.cfr, endpoint |-> m.endpoint]
  BY DEF Member
<1>3. \A id \in Cfr : ViewOf(c, members)[id] =
         IF id # c.cfr /\ \E m \in members : m.cfr = id THEN pick(id).endpoint ELSE None
  BY DEF ViewOf
<1>4. DOMAIN ViewOf(c, members) = Cfr
  BY DEF ViewOf
<1> HIDE DEF pick
<1>5. \A id \in Cfr : ViewOf(c, members)[id] \in Endpoint \cup {None}
  BY <1>1, <1>2, <1>3 DEF Member
<1>6. ViewOf(c, members) \in [Cfr -> Endpoint \cup {None}]
  <2>1. ViewOf(c, members) = [id \in Cfr |-> ViewOf(c, members)[id]]
    BY DEF ViewOf
  <2>2. QED
    BY <1>5, <2>1
<1>7. ASSUME NEW id \in Cfr, ViewOf(c, members)[id] # None
      PROVE  /\ id # c.cfr
             /\ [cfr |-> id, endpoint |-> ViewOf(c, members)[id]] \in members
  <2>1. /\ id # c.cfr /\ pick(id) \in members /\ pick(id).cfr = id
        /\ ViewOf(c, members)[id] = pick(id).endpoint
    BY <1>1, <1>3, <1>7
  <2>2. QED
    BY <1>2, <2>1
<1>8. ASSUME OneToOne(members), NEW m \in members, m.cfr # c.cfr
      PROVE  ViewOf(c, members)[m.cfr] = m.endpoint
  <2>1. m.cfr \in Cfr
    BY DEF Member
  <2>2. /\ pick(m.cfr) \in members /\ pick(m.cfr).cfr = m.cfr
        /\ ViewOf(c, members)[m.cfr] = pick(m.cfr).endpoint
    BY <1>1, <1>3, <1>8, <2>1
  <2>3. pick(m.cfr) = m
    BY <1>8, <2>2 DEF OneToOne
  <2>4. QED
    BY <2>2, <2>3
<1>9. QED
  BY <1>6, <1>7, <1>8

-----------------------------------------------------------------------------
(* Type correctness. *)

LEMMA TypeInit == Init => TypeOK
<1> SUFFICES ASSUME Init PROVE TypeOK
  OBVIOUS
<1>1. {} \in MemberSet /\ 0 \in Epoch /\ 0 \in 0..MaxRun
  BY BoundsAssumption DEF MemberSet, OneToOne, Epoch
<1>2. QED
  BY <1>1 DEF Init, TypeOK, NoBindings, NoConnections

LEMMA TypeServer ==
    ASSUME TypeOK, NEW s \in Server, ServerStep(s)
    PROVE  /\ run' \in [Server -> 0..MaxRun]
           /\ configuration' \in [Server -> [epoch : Epoch, members : MemberSet]]
           /\ published' \subseteq Snapshot
<1>1. CASE NewServer(s)
  <2>1. {} \in MemberSet /\ 0 \in Epoch
    BY BoundsAssumption DEF MemberSet, OneToOne, Epoch
  <2>2. run[s] \in 0..MaxRun /\ run[s] < MaxRun
    BY <1>1 DEF NewServer, TypeOK
  <2>3. run[s] + 1 \in 0..MaxRun
    BY <2>2, BoundsAssumption
  <2>4. QED
    BY <1>1, <2>1, <2>3 DEF NewServer, TypeOK
<1>2. ASSUME NEW epoch \in Epoch, NEW list \in MemberList, ReplaceMembers(s, epoch, list)
      PROVE  /\ run' \in [Server -> 0..MaxRun]
             /\ configuration' \in [Server -> [epoch : Epoch, members : MemberSet]]
             /\ published' \subseteq Snapshot
  <2>1. Members(list) \in MemberSet
    BY <1>2, ValidOneToOne, MemberListAssumption DEF ReplaceMembers
  <2>2. QED
    BY <1>2, <2>1 DEF ReplaceMembers, TypeOK
<1>3. CASE Publish(s)
  <2>1. /\ configuration[s].epoch \in Epoch /\ configuration[s].members \in MemberSet
        /\ run[s] \in 0..MaxRun
    BY DEF TypeOK
  <2>2. s.federation \in Federation /\ s.authority \in Authority
    BY ServerAssumption
  <2>3. QED
    BY <1>3, <2>1, <2>2 DEF Publish, TypeOK, Snapshot
<1>4. QED
  BY <1>1, <1>2, <1>3 DEF ServerStep

\* A routed batch is well-typed.
LEMMA TypeRouted ==
    ASSUME TypeOK, NEW c \in Client, NEW signer, NEW to \in Cfr \cup {Everyone},
           RouteOutbound(c, signer, to)
    PROVE  routed'[c] \in Batch /\ \A d \in Client \ {c} : routed'[d] = routed[d]
<1> DEFINE conn(id) == connections[c][bindings[c][id]]
<1>1. \A id \in Recipients(c, to) : id \in Cfr /\ conn(id) \in Connections
  BY DEF RouteOutbound, RouteOne, Recipients, TypeOK
<1>2. \A id \in Recipients(c, to) :
         conn(id).federation \in Federation /\ conn(id).remote \in Endpoint
  BY <1>1 DEF Connections
<1> DEFINE S == {[cfr |-> id, federation |-> conn(id).federation,
                  recipient |-> conn(id).remote] : id \in Recipients(c, to)}
<1>3. S \subseteq [cfr : Cfr, federation : Federation, recipient : Endpoint]
  BY <1>1, <1>2
<1>4. routed' = [routed EXCEPT ![c] = [epoch |-> accepted_epoch[c], to |-> to, sent |-> S]]
  BY DEF RouteOutbound
<1> HIDE DEF S, conn
<1>5. routed'[c] = [epoch |-> accepted_epoch[c], to |-> to, sent |-> S]
  BY <1>4 DEF TypeOK
<1>6. accepted_epoch[c] \in Epoch \cup {None}
  BY DEF TypeOK
<1>7. QED
  BY <1>3, <1>4, <1>5, <1>6 DEF TypeOK, Batch

LEMMA TypeClient ==
    ASSUME TypeOK, NEW c \in Client, ClientStep(c)
    PROVE  /\ accepted_epoch' \in [Client -> Epoch \cup {None}]
           /\ bindings' \in [Client -> [Cfr -> Endpoint \cup {None}]]
           /\ connections' \in [Client -> [Endpoint -> Connections \cup {None}]]
           /\ routed' \in [Client -> Batch \cup {None}]
<1> DEFINE Goal == /\ accepted_epoch' \in [Client -> Epoch \cup {None}]
                   /\ bindings' \in [Client -> [Cfr -> Endpoint \cup {None}]]
                   /\ connections' \in [Client -> [Endpoint -> Connections \cup {None}]]
                   /\ routed' \in [Client -> Batch \cup {None}]
<1>1. CASE NewClient(c)
  <2>1. /\ NoBindings \in [Cfr -> Endpoint \cup {None}]
        /\ NoConnections \in [Endpoint -> Connections \cup {None}]
    BY DEF NoBindings, NoConnections
  <2>2. QED
    BY <1>1, <2>1 DEF NewClient, TypeOK
<1>2. ASSUME NEW p, p \in published \/ p \in ForeignSnapshots, ApplyConfiguration(c, p)
      PROVE  Goal
  <2>1. p.members \in SUBSET Member /\ p.epoch \in Epoch
    BY <1>2, ForeignShape DEF TypeOK, Snapshot, MemberSet
  <2>2. ViewOf(c, p.members) \in [Cfr -> Endpoint \cup {None}]
    BY <2>1, ViewOfFacts
  <2>3. QED
    BY <1>2, <2>1, <2>2 DEF ApplyConfiguration, TypeOK
<1>3. ASSUME NEW l \in Link, InsertConnection(c, l)
      PROVE  Goal
  <2>1. l \in Connections
    BY LinkAssumption
  <2>2. connections' \in [Client -> [Endpoint -> Connections \cup {None}]]
    BY <1>3, <2>1 DEF InsertConnection, TypeOK
  <2>3. QED
    BY <1>3, <2>2 DEF InsertConnection, TypeOK
<1>4. ASSUME NEW e \in Endpoint, RemoveConnection(c, e)
      PROVE  Goal
  BY <1>4 DEF RemoveConnection, TypeOK
<1>5. ASSUME NEW signer \in Endpoint, NEW to \in Cfr \cup {Everyone},
             RouteOutbound(c, signer, to)
      PROVE  Goal
  <2>1. routed'[c] \in Batch
    BY <1>5, TypeRouted
  <2>2. /\ \A d \in Client \ {c} : routed'[d] = routed[d]
        /\ routed' \in [Client -> {routed'[d] : d \in Client}]
    BY <1>5, TypeRouted DEF RouteOutbound, TypeOK
  <2>3. routed' \in [Client -> Batch \cup {None}]
    BY <2>1, <2>2 DEF TypeOK
  <2>4. QED
    BY <1>5, <2>3 DEF RouteOutbound, TypeOK
<1>6. QED
  BY <1>1, <1>2, <1>3, <1>4, <1>5 DEF ClientStep

LEMMA TypeNext == TypeOK /\ [Next]_vars => TypeOK'
<1> SUFFICES ASSUME TypeOK, [Next]_vars PROVE TypeOK'
  OBVIOUS
<1>1. ASSUME NEW s \in Server, ServerStep(s), UNCHANGED clientVars
      PROVE  TypeOK'
  BY <1>1, TypeServer DEF TypeOK, clientVars
<1>2. ASSUME NEW c \in Client, ClientStep(c), UNCHANGED serverVars
      PROVE  TypeOK'
  BY <1>2, TypeClient DEF TypeOK, serverVars
<1>3. CASE UNCHANGED vars
  BY <1>3 DEF vars, serverVars, clientVars, TypeOK
<1>4. QED
  BY <1>1, <1>2, <1>3 DEF Next

\* The state keeps its shape; every signed member set is one-to-one.
THEOREM TypeCorrect == Spec => []TypeOK
BY TypeInit, TypeNext, PTL DEF Spec

-----------------------------------------------------------------------------
(* One member set for each epoch of a run. *)

PublishedInv == TypeOK /\ PublishedSound /\ OneSnapshotPerEpoch

LEMMA PublishedInit == Init => PublishedInv
BY TypeInit DEF Init, PublishedInv, PublishedSound, OneSnapshotPerEpoch

\* The parts of PublishedSound that speak of one snapshot.
SnapshotSound(p) ==
    /\ ServerOf(p) \in Server
    /\ p.run <= run[ServerOf(p)]
    /\ p.run = run[ServerOf(p)] =>
         /\ p.epoch <= configuration[ServerOf(p)].epoch
         /\ p.epoch = configuration[ServerOf(p)].epoch =>
              p.members = configuration[ServerOf(p)].members

LEMMA PublishedSoundDef == PublishedSound <=> \A p \in published : SnapshotSound(p)
BY DEF PublishedSound, SnapshotSound

LEMMA PublishedServer ==
    ASSUME PublishedInv, NEW s \in Server, ServerStep(s)
    PROVE  PublishedSound' /\ OneSnapshotPerEpoch'
<1>0. /\ TypeOK /\ \A k \in Server : run[k] \in Nat /\ configuration[k].epoch \in Nat
      /\ \A p \in published : p.epoch \in Nat /\ p.run \in Nat
  BY DEF PublishedInv, TypeOK, Epoch, Snapshot
<1>0a. \A p \in published : SnapshotSound(p)
  BY PublishedSoundDef DEF PublishedInv
<1> DEFINE Sound(p) == /\ ServerOf(p) \in Server
                       /\ p.run <= run'[ServerOf(p)]
                       /\ p.run = run'[ServerOf(p)] =>
                            /\ p.epoch <= configuration'[ServerOf(p)].epoch
                            /\ p.epoch = configuration'[ServerOf(p)].epoch =>
                                 p.members = configuration'[ServerOf(p)].members
<1>1. CASE NewServer(s)
  <2>1. /\ run'[s] = run[s] + 1
        /\ \A k \in Server \ {s} : configuration'[k] = configuration[k] /\ run'[k] = run[k]
        /\ published' = published
    BY <1>0, <1>1 DEF NewServer, TypeOK
  <2>2. \A p \in published : Sound(p)
    BY <1>0, <1>0a, <2>1 DEF SnapshotSound
  <2>3. PublishedSound'
    BY <2>1, <2>2 DEF PublishedSound, ServerOf
  <2>4. OneSnapshotPerEpoch'
    BY <2>1 DEF PublishedInv, OneSnapshotPerEpoch, ServerOf
  <2>5. QED
    BY <2>3, <2>4
<1>2. ASSUME NEW epoch \in Epoch, NEW list \in MemberList, ReplaceMembers(s, epoch, list)
      PROVE  PublishedSound' /\ OneSnapshotPerEpoch'
  <2>1. /\ configuration'[s].epoch = epoch /\ run' = run
        /\ \A k \in Server \ {s} : configuration'[k] = configuration[k]
        /\ epoch > configuration[s].epoch /\ epoch \in Nat /\ published' = published
    BY <1>0, <1>2 DEF ReplaceMembers, TypeOK, Epoch
  <2>2. \A p \in published : Sound(p)
    BY <1>0, <1>0a, <2>1 DEF SnapshotSound
  <2>3. PublishedSound'
    BY <2>1, <2>2 DEF PublishedSound, ServerOf
  <2>4. OneSnapshotPerEpoch'
    BY <2>1 DEF PublishedInv, OneSnapshotPerEpoch, ServerOf
  <2>5. QED
    BY <2>3, <2>4
<1>3. CASE Publish(s)
  <2> DEFINE n == [federation |-> s.federation, authority |-> s.authority,
                   epoch |-> configuration[s].epoch, members |-> configuration[s].members,
                   run |-> run[s]]
  <2>1. /\ published' = published \cup {n}
        /\ run' = run /\ configuration' = configuration
    BY <1>3 DEF Publish
  <2>2. /\ ServerOf(n) = s /\ n.epoch = configuration[s].epoch
        /\ n.members = configuration[s].members /\ n.run = run[s]
    BY ServerAssumption DEF ServerOf
  <2> HIDE DEF n
  <2>3. Sound(n) /\ \A p \in published : Sound(p)
    BY <1>0, <1>0a, <2>1, <2>2 DEF SnapshotSound
  <2>4. PublishedSound'
    BY <2>1, <2>3 DEF PublishedSound, ServerOf
  <2>5. \A p \in published :
           (ServerOf(p) = s /\ p.run = n.run /\ p.epoch = n.epoch) => p.members = n.members
    BY <1>0a, <2>2 DEF SnapshotSound
  <2>6. OneSnapshotPerEpoch'
    BY <2>1, <2>2, <2>5 DEF PublishedInv, OneSnapshotPerEpoch
  <2>7. QED
    BY <2>4, <2>6
<1>4. QED
  BY <1>1, <1>2, <1>3 DEF ServerStep

LEMMA PublishedNext == PublishedInv /\ [Next]_vars => PublishedInv'
<1> SUFFICES ASSUME PublishedInv, [Next]_vars PROVE PublishedInv'
  OBVIOUS
<1>1. TypeOK'
  BY TypeNext DEF PublishedInv
<1>2. ASSUME NEW s \in Server, ServerStep(s)
      PROVE  PublishedInv'
  BY <1>1, <1>2, PublishedServer DEF PublishedInv
<1>3. CASE UNCHANGED serverVars
  BY <1>1, <1>3
     DEF PublishedInv, PublishedSound, OneSnapshotPerEpoch, serverVars
<1>4. QED
  BY <1>2, <1>3 DEF Next, vars

-----------------------------------------------------------------------------
(* Views. *)

\* A view of snapshot p, as ViewIsSnapshot states it.
IsViewOf(c, p, epoch, view) ==
    /\ p.epoch = epoch
    /\ [cfr |-> c.cfr, endpoint |-> c.endpoint] \in p.members
    /\ view = ViewOf(c, p.members)
    /\ \A id \in Cfr : view[id] # c.endpoint

ClientViewSound(c) ==
    \/ accepted_epoch[c] = None /\ bindings[c] = NoBindings
    \/ \E p \in published :
         PublishedFor(c, p) /\ IsViewOf(c, p, accepted_epoch[c], bindings[c])

LEMMA ViewIsSnapshotDef ==
    ViewIsSnapshot <=> \A c \in Client : Served(c) => ClientViewSound(c)
BY DEF ViewIsSnapshot, ClientViewSound, IsViewOf

ViewInv == PublishedInv /\ ViewIsSnapshot

\* A view never binds the client's own endpoint.
LEMMA ViewNotSelf ==
    ASSUME NEW c \in Client, NEW members \in MemberSet,
           [cfr |-> c.cfr, endpoint |-> c.endpoint] \in members, NEW id \in Cfr
    PROVE  ViewOf(c, members)[id] # c.endpoint
<1> DEFINE v == ViewOf(c, members)
<1>1. members \in SUBSET Member /\ OneToOne(members)
  BY DEF MemberSet
<1>2. /\ v[id] \in Endpoint \cup {None}
      /\ v[id] # None => id # c.cfr /\ [cfr |-> id, endpoint |-> v[id]] \in members
  BY <1>1, ViewOfFacts
<1>3. c.endpoint \in Endpoint
  BY ClientAssumption DEF ClientConfiguration
<1> HIDE DEF v
<1>4. CASE v[id] = None
  BY <1>3, <1>4, NoneAssumption DEF v
<1>5. CASE v[id] # None
  <2>1. [cfr |-> id, endpoint |-> v[id]] # [cfr |-> c.cfr, endpoint |-> c.endpoint]
    BY <1>2, <1>5
  <2>2. v[id] # c.endpoint
    BY <1>1, <1>2, <1>5, <2>1 DEF OneToOne
  <2>3. QED
    BY <2>2 DEF v
<1>6. QED
  BY <1>4, <1>5

LEMMA ViewInit == Init => ViewInv
<1> SUFFICES ASSUME Init PROVE ViewInv
  OBVIOUS
<1>1. \A c \in Client : ClientViewSound(c)
  BY DEF Init, ClientViewSound
<1>2. QED
  BY <1>1, PublishedInit, ViewIsSnapshotDef DEF ViewInv

LEMMA ViewNext == ViewInv /\ [Next]_vars => ViewInv'
<1> SUFFICES ASSUME ViewInv, [Next]_vars PROVE ViewInv'
  OBVIOUS
<1>1. PublishedInv' /\ TypeOK /\ TypeOK'
  BY PublishedNext DEF ViewInv, PublishedInv
<1>2. published \subseteq published'
  BY DEF Next, ServerStep, NewServer, ReplaceMembers, Publish, serverVars, vars
<1>3. \A d \in Client : Served(d) => ClientViewSound(d)
  BY ViewIsSnapshotDef DEF ViewInv
\* A client that is not touched keeps its snapshot.
<1>4. ASSUME NEW d \in Client, Served(d),
             accepted_epoch'[d] = accepted_epoch[d], bindings'[d] = bindings[d]
      PROVE  ClientViewSound(d)'
  BY <1>2, <1>3, <1>4 DEF ClientViewSound, IsViewOf, PublishedFor
<1>5. ASSUME NEW c \in Client, NewClient(c), NEW d \in Client, Served(d)
      PROVE  ClientViewSound(d)'
  <2>1. accepted_epoch'[c] = None /\ bindings'[c] = NoBindings
    BY <1>1, <1>5 DEF NewClient, TypeOK
  <2>2. d # c => accepted_epoch'[d] = accepted_epoch[d] /\ bindings'[d] = bindings[d]
    BY <1>1, <1>5 DEF NewClient, TypeOK
  <2>3. QED
    BY <1>4, <1>5, <2>1, <2>2 DEF ClientViewSound
<1>6. ASSUME NEW c \in Client, NEW p, ApplyConfiguration(c, p),
             p \in published \/ p \in ForeignSnapshots, NEW d \in Client, Served(d)
      PROVE  ClientViewSound(d)'
  <2>1. d # c => accepted_epoch'[d] = accepted_epoch[d] /\ bindings'[d] = bindings[d]
    BY <1>1, <1>6 DEF ApplyConfiguration, TypeOK
  <2>2. CASE d = c
    <3>1. p \in published /\ ServerOf(p) = ServerOf(c)
      BY <1>6, <2>2 DEF ApplyConfiguration, Served, ServerOf
    <3>2. p.members \in MemberSet
      BY <1>1, <3>1 DEF TypeOK, Snapshot
    <3>3. /\ accepted_epoch'[c] = p.epoch /\ bindings'[c] = ViewOf(c, p.members)
          /\ [cfr |-> c.cfr, endpoint |-> c.endpoint] \in p.members
      BY <1>1, <1>6 DEF ApplyConfiguration, TypeOK
    <3>4. \A id \in Cfr : bindings'[c][id] # c.endpoint
      BY <3>2, <3>3, ViewNotSelf
    <3>5. QED
      BY <1>2, <2>2, <3>1, <3>3, <3>4 DEF ClientViewSound, IsViewOf, PublishedFor
  <2>3. QED
    BY <1>4, <1>6, <2>1, <2>2
<1>7. ASSUME UNCHANGED <<accepted_epoch, bindings>>, NEW d \in Client, Served(d)
      PROVE  ClientViewSound(d)'
  BY <1>4, <1>7
<1>8. \A d \in Client : Served(d) => ClientViewSound(d)'
  BY <1>5, <1>6, <1>7 DEF Next, ClientStep, InsertConnection, RemoveConnection,
     RouteOutbound, clientVars, vars
<1>9. ViewIsSnapshot'
  BY <1>8 DEF ViewIsSnapshot, ClientViewSound, IsViewOf, Served
<1>10. QED
  BY <1>1, <1>9 DEF ViewInv

\* Every client of an authority that runs this library holds one published snapshot.
THEOREM ViewSafe == Spec => []ViewIsSnapshot
BY ViewInit, ViewNext, PTL DEF Spec, ViewInv

\* Clients of one epoch agree, each other included, unless two runs of the server signed
\* that epoch: within a run replace_members never uses an epoch twice, and no order of
\* deliveries makes two views of it (replace_members, publish, apply_configuration).
THEOREM SameEpochSafe == Spec => []SameEpochSameView
<1>1. ViewInv => SameEpochSameView
  <2> SUFFICES ASSUME ViewInv, NEW c \in Client, NEW d \in Client, Served(c),
                      ServerOf(c) = ServerOf(d), accepted_epoch[c] # None,
                      accepted_epoch[c] = accepted_epoch[d],
                      ~ SignedAgain(ServerOf(c), accepted_epoch[c])
               PROVE  /\ \A id \in Cfr \ {c.cfr, d.cfr} : bindings[c][id] = bindings[d][id]
                      /\ c.cfr # d.cfr => bindings[c][d.cfr] = d.endpoint
    BY DEF SameEpochSameView
  <2>1. Served(d)
    BY DEF Served, ServerOf
  <2>2. ClientViewSound(c) /\ ClientViewSound(d)
    BY <2>1, ViewIsSnapshotDef DEF ViewInv
  <2>3. PICK p \in published :
          PublishedFor(c, p) /\ IsViewOf(c, p, accepted_epoch[c], bindings[c])
    BY <2>2 DEF ClientViewSound
  <2>4. PICK q \in published :
          PublishedFor(d, q) /\ IsViewOf(d, q, accepted_epoch[d], bindings[d])
    BY <2>2 DEF ClientViewSound
  <2>4a. p.run = q.run
    BY <2>3, <2>4 DEF SignedAgain, PublishedFor, IsViewOf
  <2>5. p.members = q.members
    BY <2>3, <2>4, <2>4a DEF ViewInv, PublishedInv, OneSnapshotPerEpoch, PublishedFor, IsViewOf
  <2>6. p.members \in SUBSET Member /\ OneToOne(p.members)
    BY DEF ViewInv, PublishedInv, TypeOK, Snapshot, MemberSet
  <2>7. /\ bindings[c] = ViewOf(c, p.members) /\ bindings[d] = ViewOf(d, p.members)
        /\ [cfr |-> d.cfr, endpoint |-> d.endpoint] \in p.members
    BY <2>3, <2>4, <2>5 DEF IsViewOf
  <2>8. \A id \in Cfr \ {c.cfr, d.cfr} : bindings[c][id] = bindings[d][id]
    BY <2>7 DEF ViewOf
  <2>9. c.cfr # d.cfr => bindings[c][d.cfr] = d.endpoint
    BY <2>6, <2>7, ViewOfFacts
  <2>10. QED
    BY <2>8, <2>9
<1>2. QED
  BY <1>1, ViewInit, ViewNext, PTL DEF Spec

\* A running client never goes back.
THEOREM MonotoneSafe == Spec => MonotoneViews
<1> DEFINE Forward(c) ==
      \/ UNCHANGED <<accepted_epoch[c], bindings[c]>>
      \/ accepted_epoch'[c] = None /\ bindings'[c] = NoBindings
      \/ /\ accepted_epoch'[c] # None
         /\ accepted_epoch[c] # None => accepted_epoch'[c] > accepted_epoch[c]
<1>1. ASSUME TypeOK, [Next]_vars, NEW d \in Client PROVE Forward(d)
  <2>1. ASSUME NEW c \in Client, NewClient(c) PROVE Forward(d)
    BY <1>1, <2>1 DEF NewClient, TypeOK
  <2>2. ASSUME NEW c \in Client, NEW p, ApplyConfiguration(c, p),
               p \in published \/ p \in ForeignSnapshots
        PROVE  Forward(d)
    <3>1. p.epoch \in Epoch
      BY <1>1, <2>2, ForeignShape DEF TypeOK, Snapshot
    <3>2. /\ accepted_epoch'[c] = p.epoch
          /\ accepted_epoch[c] # None => p.epoch > accepted_epoch[c]
          /\ d # c => accepted_epoch'[d] = accepted_epoch[d] /\ bindings'[d] = bindings[d]
      BY <1>1, <2>2 DEF ApplyConfiguration, Newer, TypeOK
    <3>3. p.epoch # None
      BY <3>1, NoneAssumption
    <3>4. QED
      BY <3>2, <3>3
  <2>3. CASE UNCHANGED <<accepted_epoch, bindings>>
    BY <2>3
  <2>4. QED
    BY <1>1, <2>1, <2>2, <2>3 DEF Next, ClientStep, InsertConnection, RemoveConnection,
       RouteOutbound, clientVars, vars
<1>2. TypeOK /\ [Next]_vars => [\A c \in Client : Forward(c)]_vars
  BY <1>1
<1>3. Spec => [][\A c \in Client : Forward(c)]_vars
  BY <1>2, TypeInit, TypeNext, PTL DEF Spec
<1>4. QED
  BY <1>3 DEF MonotoneViews

-----------------------------------------------------------------------------
(* Routing. *)

LEMMA DirectoryInit == Init => DirectorySound
BY DEF Init, DirectorySound, NoConnections

LEMMA DirectoryNext == TypeOK /\ DirectorySound /\ [Next]_vars => DirectorySound'
<1> SUFFICES ASSUME TypeOK, DirectorySound, [Next]_vars PROVE DirectorySound'
  OBVIOUS
<1>1. ASSUME NEW c \in Client, NewClient(c) PROVE DirectorySound'
  BY <1>1 DEF NewClient, NoConnections, TypeOK, DirectorySound
<1>2. ASSUME NEW c \in Client, NEW l \in Link, InsertConnection(c, l) PROVE DirectorySound'
  <2>1. l.remote \in Endpoint
    BY LinkAssumption DEF Connections
  <2>2. /\ connections'[c][l.remote] = l
        /\ \A e \in Endpoint \ {l.remote} : connections'[c][e] = connections[c][e]
        /\ \A d \in Client \ {c} : connections'[d] = connections[d]
        /\ l.federation = c.federation /\ l.local = c.endpoint
    BY <1>2, <2>1 DEF InsertConnection, TypeOK
  <2>3. QED
    BY <2>2 DEF DirectorySound
<1>3. ASSUME NEW c \in Client, NEW e \in Endpoint, RemoveConnection(c, e)
      PROVE  DirectorySound'
  <2>1. /\ connections'[c][e] = None
        /\ \A f \in Endpoint \ {e} : connections'[c][f] = connections[c][f]
        /\ \A d \in Client \ {c} : connections'[d] = connections[d]
    BY <1>3 DEF RemoveConnection, TypeOK
  <2>2. QED
    BY <2>1 DEF DirectorySound
<1>4. CASE UNCHANGED connections
  BY <1>4 DEF DirectorySound
<1>5. QED
  BY <1>1, <1>2, <1>3, <1>4 DEF Next, ClientStep, ApplyConfiguration, RouteOutbound,
     clientVars, vars

\* What a batch owes to the snapshot it was routed under.
BatchSound(c, b, snapshots) ==
    /\ b.epoch = None => b.sent = {}
    /\ b.epoch # None =>
         \E p \in snapshots :
           /\ ServerOf(p) = ServerOf(c)
           /\ p.epoch = b.epoch
           /\ p.members \in MemberSet
           /\ [cfr |-> c.cfr, endpoint |-> c.endpoint] \in p.members
           /\ \A m \in b.sent :
                /\ m \in [cfr : Cfr, federation : Federation, recipient : Endpoint]
                /\ m.federation = c.federation
                /\ m.cfr # c.cfr
                /\ [cfr |-> m.cfr, endpoint |-> m.recipient] \in p.members
           /\ b.to = Everyone => \A n \in p.members : n.cfr # c.cfr =>
                [cfr |-> n.cfr, federation |-> c.federation, recipient |-> n.endpoint]
                  \in b.sent

RoutedSound == \A c \in Client : Served(c) /\ routed[c] # None => BatchSound(c, routed[c], published)

RouteInv == ViewInv /\ DirectorySound /\ RoutedSound

LEMMA RouteInit == Init => RouteInv
BY ViewInit, DirectoryInit DEF Init, RouteInv, RoutedSound

\* A successful route_outbound yields a sound batch.
LEMMA RouteBatch ==
    ASSUME ViewInv, DirectorySound, NEW c \in Client, Served(c), NEW signer,
           NEW to \in Cfr \cup {Everyone}, RouteOutbound(c, signer, to)
    PROVE  BatchSound(c, routed'[c], published)
<1> DEFINE view == bindings[c]
           S == {[cfr |-> id, federation |-> connections[c][view[id]].federation,
                  recipient |-> connections[c][view[id]].remote] :
                 id \in Recipients(c, to)}
           b == routed'[c]
<1>0. TypeOK /\ ClientViewSound(c)
  BY ViewIsSnapshotDef DEF ViewInv, PublishedInv
<1>1. b.epoch = accepted_epoch[c] /\ b.to = to /\ b.sent = S
  BY <1>0 DEF RouteOutbound, TypeOK
<1>2. \A id \in Recipients(c, to) : id \in Cfr /\ view[id] # None /\ view[id] \in Endpoint
  BY <1>0 DEF RouteOutbound, RouteOne, Recipients, TypeOK
<1>3. \A id \in Recipients(c, to) : connections[c][view[id]] # None
  BY DEF RouteOutbound, RouteOne
<1>4. \A id \in Recipients(c, to) :
         /\ connections[c][view[id]].federation = c.federation
         /\ connections[c][view[id]].remote = view[id]
  BY <1>2, <1>3 DEF DirectorySound
<1>5. S = {[cfr |-> id, federation |-> c.federation, recipient |-> view[id]] :
           id \in Recipients(c, to)}
  BY <1>4
<1>6. c.federation \in Federation
  BY ClientAssumption DEF ClientConfiguration
<1>7. \A m \in S : /\ m \in [cfr : Cfr, federation : Federation, recipient : Endpoint]
                   /\ m.federation = c.federation
                   /\ m.cfr \in Cfr /\ view[m.cfr] # None /\ m.recipient = view[m.cfr]
  BY <1>2, <1>5, <1>6
<1> HIDE DEF S, b
<1>8. CASE accepted_epoch[c] = None
  <2>1. view = NoBindings
    <3>1. \A p \in published : p.epoch # None
      BY <1>0, NoneAssumption DEF TypeOK, Snapshot
    <3>2. QED
      BY <1>0, <1>8, <3>1 DEF ClientViewSound, IsViewOf
  <2>2. S = {}
    BY <1>7, <2>1 DEF NoBindings
  <2>3. QED
    BY <1>1, <1>8, <2>2 DEF BatchSound, b
<1>9. CASE accepted_epoch[c] # None
  <2>1. PICK p \in published :
          PublishedFor(c, p) /\ IsViewOf(c, p, accepted_epoch[c], view)
    BY <1>0, <1>9 DEF ClientViewSound
  <2>2. /\ p.members \in MemberSet /\ p.members \in SUBSET Member /\ OneToOne(p.members)
        /\ view = ViewOf(c, p.members) /\ p.epoch = accepted_epoch[c]
        /\ [cfr |-> c.cfr, endpoint |-> c.endpoint] \in p.members
    BY <1>0, <2>1 DEF TypeOK, Snapshot, MemberSet, IsViewOf
  <2>3. /\ \A id \in Cfr : view[id] # None =>
             id # c.cfr /\ [cfr |-> id, endpoint |-> view[id]] \in p.members
        /\ \A m \in p.members : m.cfr # c.cfr => view[m.cfr] = m.endpoint
    BY <2>2, ViewOfFacts
  <2>4. \A m \in S : m.cfr # c.cfr /\ [cfr |-> m.cfr, endpoint |-> m.recipient] \in p.members
    BY <1>7, <2>3
  <2>5. ASSUME to = Everyone, NEW n \in p.members, n.cfr # c.cfr
        PROVE  [cfr |-> n.cfr, federation |-> c.federation, recipient |-> n.endpoint] \in S
    <3>1. n.cfr \in Cfr /\ n.endpoint \in Endpoint
      BY <2>2 DEF Member
    <3>2. view[n.cfr] = n.endpoint /\ n.endpoint # None
      BY <2>3, <2>5, <3>1, NoneAssumption
    <3>3. n.cfr \in Recipients(c, to)
      BY <2>5, <3>1, <3>2 DEF Recipients
    <3>4. QED
      BY <1>5, <3>2, <3>3
  <2>6. BatchSound(c, b, published)
    BY <1>1, <1>7, <1>9, <2>1, <2>2, <2>4, <2>5 DEF BatchSound, PublishedFor
  <2>7. QED
    BY <2>6 DEF b
<1>10. QED
  BY <1>8, <1>9

LEMMA RouteNext == RouteInv /\ [Next]_vars => RouteInv'
<1> SUFFICES ASSUME RouteInv, [Next]_vars PROVE RouteInv'
  OBVIOUS
<1>1. ViewInv /\ ViewInv' /\ DirectorySound /\ DirectorySound' /\ TypeOK
  BY ViewNext, DirectoryNext DEF RouteInv, ViewInv, PublishedInv
<1>2. published \subseteq published'
  BY DEF Next, ServerStep, NewServer, ReplaceMembers, Publish, serverVars, vars
\* A batch stays sound while the carrier only gains snapshots.
<1>3. ASSUME NEW d \in Client, NEW b, BatchSound(d, b, published)
      PROVE  BatchSound(d, b, published')
  BY <1>2, <1>3 DEF BatchSound
<1>4. ASSUME NEW d \in Client, Served(d), routed'[d] = routed[d], routed'[d] # None
      PROVE  BatchSound(d, routed'[d], published')
  BY <1>3, <1>4 DEF RouteInv, RoutedSound
<1>5. ASSUME NEW c \in Client, NewClient(c), NEW d \in Client, Served(d), routed'[d] # None
      PROVE  BatchSound(d, routed'[d], published')
  BY <1>1, <1>4, <1>5 DEF NewClient, TypeOK
<1>6. ASSUME NEW c \in Client, NEW signer \in Endpoint, NEW to \in Cfr \cup {Everyone},
             RouteOutbound(c, signer, to), NEW d \in Client, Served(d), routed'[d] # None
      PROVE  BatchSound(d, routed'[d], published')
  <2>1. CASE d = c
    <3>1. BatchSound(c, routed'[c], published)
      BY <1>1, <1>6, <2>1, RouteBatch
    <3>2. QED
      BY <1>3, <2>1, <3>1
  <2>2. CASE d # c
    BY <1>1, <1>4, <1>6, <2>2, TypeRouted
  <2>3. QED
    BY <2>1, <2>2
<1>7. ASSUME UNCHANGED routed, NEW d \in Client, Served(d), routed'[d] # None
      PROVE  BatchSound(d, routed'[d], published')
  BY <1>4, <1>7
<1>8. RoutedSound'
  <2> SUFFICES ASSUME NEW d \in Client, Served(d), routed'[d] # None
               PROVE  BatchSound(d, routed'[d], published')
    BY DEF RoutedSound, Served
  <2>1. QED
    BY <1>5, <1>6, <1>7 DEF Next, ClientStep, ApplyConfiguration, InsertConnection,
       RemoveConnection, clientVars, vars
<1>9. QED
  BY <1>1, <1>8 DEF RouteInv

\* Messages leave only towards members of the view they were routed under.
THEOREM RoutedSafe == Spec => []RoutedToMembers
<1>1. RouteInv => RoutedToMembers
  <2> SUFFICES ASSUME RouteInv, NEW c \in Client, Served(c), routed[c] # None,
                      NEW m \in routed[c].sent
               PROVE  /\ m.federation = c.federation
                      /\ m.recipient # c.endpoint
                      /\ \E p \in published :
                           /\ PublishedFor(c, p)
                           /\ p.epoch = routed[c].epoch
                           /\ [cfr |-> m.cfr, endpoint |-> m.recipient] \in p.members
    BY DEF RoutedToMembers
  <2>1. BatchSound(c, routed[c], published)
    BY DEF RouteInv, RoutedSound
  <2>2. PICK p \in published :
          /\ ServerOf(p) = ServerOf(c)
          /\ p.epoch = routed[c].epoch
          /\ p.members \in MemberSet
          /\ [cfr |-> c.cfr, endpoint |-> c.endpoint] \in p.members
          /\ m.federation = c.federation
          /\ m.cfr # c.cfr
          /\ [cfr |-> m.cfr, endpoint |-> m.recipient] \in p.members
    BY <2>1 DEF BatchSound
  <2>3. OneToOne(p.members)
    BY <2>2 DEF MemberSet
  <2>4. [cfr |-> m.cfr, endpoint |-> m.recipient] # [cfr |-> c.cfr, endpoint |-> c.endpoint]
    BY <2>2
  <2>5. m.recipient # c.endpoint
    BY <2>2, <2>3, <2>4 DEF OneToOne
  <2>6. QED
    BY <2>2, <2>5 DEF PublishedFor
<1>2. QED
  BY <1>1, RouteInit, RouteNext, PTL DEF Spec

\* A broadcast that succeeds reaches every other member once.
THEOREM BroadcastSafe == Spec => []BroadcastComplete
<1>1. RouteInv => BroadcastComplete
  <2> SUFFICES ASSUME RouteInv, NEW c \in Client, Served(c), routed[c] # None,
                      routed[c].to = Everyone, routed[c].epoch # None
               PROVE  \E p \in published :
                        /\ PublishedFor(c, p)
                        /\ p.epoch = routed[c].epoch
                        /\ {[cfr |-> m.cfr, endpoint |-> m.recipient] : m \in routed[c].sent}
                             = p.members \ {[cfr |-> c.cfr, endpoint |-> c.endpoint]}
                        /\ \A m, n \in routed[c].sent : m.recipient = n.recipient => m = n
    BY DEF BroadcastComplete
  <2> DEFINE S == routed[c].sent
  <2>1. BatchSound(c, routed[c], published)
    BY DEF RouteInv, RoutedSound
  <2>2. PICK p \in published :
          /\ ServerOf(p) = ServerOf(c)
          /\ p.epoch = routed[c].epoch
          /\ p.members \in MemberSet
          /\ [cfr |-> c.cfr, endpoint |-> c.endpoint] \in p.members
          /\ \A m \in S :
               /\ m \in [cfr : Cfr, federation : Federation, recipient : Endpoint]
               /\ m.federation = c.federation
               /\ m.cfr # c.cfr
               /\ [cfr |-> m.cfr, endpoint |-> m.recipient] \in p.members
          /\ \A n \in p.members : n.cfr # c.cfr =>
               [cfr |-> n.cfr, federation |-> c.federation, recipient |-> n.endpoint] \in S
    BY <2>1 DEF BatchSound
  <2>3. OneToOne(p.members) /\ p.members \subseteq Member
    BY <2>2 DEF MemberSet
  <2> HIDE DEF S
  <2>4. \A m, n \in S : m.recipient = n.recipient => m = n
    <3> SUFFICES ASSUME NEW m \in S, NEW n \in S, m.recipient = n.recipient
                 PROVE  m = n
      OBVIOUS
    <3>1. [cfr |-> m.cfr, endpoint |-> m.recipient]
            = [cfr |-> n.cfr, endpoint |-> n.recipient]
      BY <2>2, <2>3 DEF OneToOne
    <3>2. m.cfr = n.cfr /\ m.federation = n.federation
      BY <2>2, <3>1
    <3>3. m.cfr = n.cfr /\ m.federation = n.federation /\ m.recipient = n.recipient
      BY <3>2
    <3>4. /\ m = [cfr |-> m.cfr, federation |-> m.federation, recipient |-> m.recipient]
          /\ n = [cfr |-> n.cfr, federation |-> n.federation, recipient |-> n.recipient]
      BY <2>2
    <3>5. QED
      BY <3>3, <3>4
  <2>5. \A n \in p.members \ {[cfr |-> c.cfr, endpoint |-> c.endpoint]} :
           n.cfr # c.cfr /\ n = [cfr |-> n.cfr, endpoint |-> n.endpoint]
    <3> SUFFICES ASSUME NEW n \in p.members, n # [cfr |-> c.cfr, endpoint |-> c.endpoint]
                 PROVE  n.cfr # c.cfr /\ n = [cfr |-> n.cfr, endpoint |-> n.endpoint]
      OBVIOUS
    <3>1. n = [cfr |-> n.cfr, endpoint |-> n.endpoint]
      BY <2>3 DEF Member
    <3>2. n.cfr # c.cfr
      BY <2>2, <2>3 DEF OneToOne
    <3>3. QED
      BY <3>1, <3>2
  <2>6. {[cfr |-> m.cfr, endpoint |-> m.recipient] : m \in S}
          = p.members \ {[cfr |-> c.cfr, endpoint |-> c.endpoint]}
    <3>1. \A m \in S : [cfr |-> m.cfr, endpoint |-> m.recipient]
                         \in p.members \ {[cfr |-> c.cfr, endpoint |-> c.endpoint]}
      BY <2>2
    <3>2. ASSUME NEW n \in p.members \ {[cfr |-> c.cfr, endpoint |-> c.endpoint]}
          PROVE  \E m \in S : n = [cfr |-> m.cfr, endpoint |-> m.recipient]
      <4> DEFINE m == [cfr |-> n.cfr, federation |-> c.federation, recipient |-> n.endpoint]
      <4>1. m \in S
        BY <2>2, <2>5
      <4>2. n = [cfr |-> m.cfr, endpoint |-> m.recipient]
        BY <2>5
      <4>3. QED
        BY <4>1, <4>2
    <3>3. QED
      BY <3>1, <3>2
  <2>7. QED
    BY <2>2, <2>4, <2>6 DEF PublishedFor, S
<1>2. QED
  BY <1>1, RouteInit, RouteNext, PTL DEF Spec
=============================================================================
