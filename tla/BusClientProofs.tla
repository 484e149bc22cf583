--------------------------- MODULE BusClientProofs --------------------------
(***************************************************************************)
(* The client's view of its connection and of its subscriptions is right,  *)
(* for any topics and filters and any number of connections, runs and      *)
(* calls.                                                                  *)
(***************************************************************************)
EXTENDS BusClient, FiniteSetTheorems, SequenceTheorems, TLAPS

AllFilters == Filters \cup {SelfState}

Concerns(p, f) == p.type # "publish" /\ f \in p.filters

(* A broker that has the subscriptions B and reads the packets q is then   *)
(* subscribed to filter f exactly when f is in F: the last packet about f  *)
(* decides.                                                                *)
Leads(q, B, F, f) ==
  /\ (\A k \in 1..Len(q) : ~Concerns(q[k], f)) => (f \in B <=> f \in F)
  /\ \A k \in 1..Len(q) :
       Concerns(q[k], f) /\ (\A j \in 1..Len(q) : j > k => ~Concerns(q[j], f))
         => (q[k].type = "subscribe" <=> f \in F)

OnlyPublishes(q) == \A k \in 1..Len(q) : q[k].type = "publish"

(* A connect function about to set the client online has a connection: its *)
(* promise was resolved since the last event.                              *)
Linked ==
  /\ online => connected
  /\ \A h \in Handlers : handler[h] = "online" => connected
  /\ proc = "down" => ~connected

(* Before it is online a client has sent nothing but publishes; once it is *)
(* online, what it sent leads the broker to its subscription set.          *)
Sent ==
  /\ OnlyPublishes(queue)
  /\ connected /\ ~online => brokerSubs = {} /\ OnlyPublishes(up)
  /\ online => \A f \in AllFilters : Leads(up, brokerSubs, subscriptions, f)

Flags ==
  /\ connected \in BOOLEAN /\ online \in BOOLEAN /\ session \in BOOLEAN /\ clean \in BOOLEAN
  /\ late \in BOOLEAN

Typed ==
  /\ proc \in {"up", "ending", "down"} /\ run \in 1..MaxRuns
  /\ subscriptions \subseteq AllFilters /\ brokerSubs \subseteq AllFilters
  /\ handler \in [Handlers -> Points] /\ ending \in Points
  /\ app \subseteq Topics /\ retained \in [Owned -> 0..MaxRuns]
  /\ queue \in Seq(Packets) /\ up \in Seq(Packets) /\ down \in Seq(Answers)

SubscriptionInv == Flags /\ Typed /\ Linked /\ Sent

LEMMA AppendLeads ==
  ASSUME NEW q \in Seq(Packets), NEW p \in Packets, NEW B, NEW E, NEW F, NEW f
  PROVE  /\ Append(q, p) \in Seq(Packets)
         /\ ~Concerns(p, f) /\ Leads(q, B, E, f) /\ (f \in E <=> f \in F)
              => Leads(Append(q, p), B, F, f)
         /\ Concerns(p, f) /\ (p.type = "subscribe" <=> f \in F) => Leads(Append(q, p), B, F, f)
         /\ OnlyPublishes(q) /\ p.type = "publish" => OnlyPublishes(Append(q, p))
<1>0. /\ Append(q, p) \in Seq(Packets) /\ Len(Append(q, p)) = Len(q) + 1 /\ Len(q) \in Nat
      /\ \A k \in 1..Len(q) : Append(q, p)[k] = q[k]
      /\ Append(q, p)[Len(q) + 1] = p
  BY AppendProperties, LenProperties
<1> DEFINE a == Append(q, p)
<1> HIDE DEF a
<1>1. /\ a \in Seq(Packets) /\ Len(a) = Len(q) + 1 /\ Len(q) \in Nat
      /\ \A k \in 1..Len(q) : a[k] = q[k]
      /\ a[Len(q) + 1] = p
  BY <1>0 DEF a
<1>2. \A k \in 1..Len(a) : \/ k \in 1..Len(q) /\ a[k] = q[k]
                           \/ k = Len(q) + 1 /\ a[k] = p
  BY <1>1
<1>3. ASSUME ~Concerns(p, f), Leads(q, B, E, f), f \in E <=> f \in F PROVE Leads(a, B, F, f)
  <2>1. ASSUME \A k \in 1..Len(a) : ~Concerns(a[k], f) PROVE f \in B <=> f \in F
    BY <1>1, <1>3, <2>1 DEF Leads
  <2>2. ASSUME NEW k \in 1..Len(a), Concerns(a[k], f),
               \A j \in 1..Len(a) : j > k => ~Concerns(a[j], f)
        PROVE  a[k].type = "subscribe" <=> f \in F
    <3>1. k \in 1..Len(q) /\ a[k] = q[k]
      BY <1>2, <1>3, <2>2
    <3>2. \A j \in 1..Len(q) : j > k => ~Concerns(q[j], f)
      BY <1>1, <2>2
    <3> QED BY <1>3, <2>2, <3>1, <3>2 DEF Leads
  <2> QED BY <2>1, <2>2 DEF Leads
<1>4. ASSUME Concerns(p, f), p.type = "subscribe" <=> f \in F PROVE Leads(a, B, F, f)
  <2>1. Len(a) \in 1..Len(a) /\ Concerns(a[Len(a)], f) /\ a[Len(a)] = p
    BY <1>1, <1>4
  <2>2. ASSUME NEW k \in 1..Len(a), \A j \in 1..Len(a) : j > k => ~Concerns(a[j], f)
        PROVE  k = Len(a)
    BY <1>1, <2>1, <2>2
  <2> QED BY <1>4, <2>1, <2>2 DEF Leads
<1>5. OnlyPublishes(q) /\ p.type = "publish" => OnlyPublishes(a)
  BY <1>2 DEF OnlyPublishes
<1> QED BY <1>1, <1>3, <1>4, <1>5 DEF a

LEMMA TailLeads ==
  ASSUME NEW q \in Seq(Packets), q # <<>>, NEW B, NEW C, NEW F, NEW f, Leads(q, B, F, f),
         f \in C <=> IF Concerns(Head(q), f) THEN Head(q).type = "subscribe" ELSE f \in B
  PROVE  Leads(Tail(q), C, F, f)
<1> DEFINE t == Tail(q)
<1>1. /\ Len(q) \in Nat \ {0} /\ Len(t) = Len(q) - 1 /\ Head(q) = q[1]
      /\ \A k \in 1..Len(t) : t[k] = q[k + 1]
  BY EmptySeq, LenProperties, HeadTailProperties
<1> HIDE DEF t
<1>2. \A k \in 2..Len(q) : k - 1 \in 1..Len(t) /\ t[k - 1] = q[k]
  BY <1>1
<1>3. ASSUME \A k \in 1..Len(t) : ~Concerns(t[k], f) PROVE f \in C <=> f \in F
  <2>1. \A k \in 2..Len(q) : ~Concerns(q[k], f)
    BY <1>2, <1>3
  <2>2. CASE Concerns(q[1], f)
    <3>1. \A j \in 1..Len(q) : j > 1 => ~Concerns(q[j], f)
      BY <1>1, <2>1
    <3> QED BY <1>1, <2>2, <3>1 DEF Leads
  <2>3. CASE ~Concerns(q[1], f)
    <3>1. \A j \in 1..Len(q) : ~Concerns(q[j], f)
      BY <1>1, <2>1, <2>3
    <3> QED BY <1>1, <2>3, <3>1 DEF Leads
  <2> QED BY <2>2, <2>3
<1>4. ASSUME NEW k \in 1..Len(t), Concerns(t[k], f),
             \A j \in 1..Len(t) : j > k => ~Concerns(t[j], f)
      PROVE  t[k].type = "subscribe" <=> f \in F
  <2>1. k + 1 \in 1..Len(q) /\ t[k] = q[k + 1]
    BY <1>1
  <2>2. ASSUME NEW j \in 1..Len(q), j > k + 1 PROVE ~Concerns(q[j], f)
    <3>1. j \in 2..Len(q) /\ j - 1 > k
      BY <1>1, <2>2
    <3> QED BY <1>2, <1>4, <3>1
  <2> QED BY <1>4, <2>1, <2>2 DEF Leads
<1> QED BY <1>3, <1>4 DEF Leads, t

(* Publishes change nothing to what a queue leads to.                      *)
LEMMA ConcatLeads ==
  ASSUME NEW q \in Seq(Packets), NEW s \in Seq(Packets), OnlyPublishes(s)
  PROVE  /\ q \o s \in Seq(Packets)
         /\ OnlyPublishes(q) => OnlyPublishes(q \o s)
<1>1. /\ q \o s \in Seq(Packets) /\ Len(q) \in Nat /\ Len(s) \in Nat
      /\ Len(q \o s) = Len(q) + Len(s)
      /\ \A i \in 1..(Len(q) + Len(s)) : (q \o s)[i] = IF i <= Len(q) THEN q[i] ELSE s[i - Len(q)]
  BY ConcatProperties, LenProperties
<1>2. ASSUME OnlyPublishes(q), NEW k \in 1..Len(q \o s) PROVE (q \o s)[k].type = "publish"
  <2>1. CASE k <= Len(q)
    BY <1>1, <1>2, <2>1 DEF OnlyPublishes
  <2>2. CASE k > Len(q)
    <3>1. k - Len(q) \in 1..Len(s) /\ (q \o s)[k] = s[k - Len(q)]
      BY <1>1, <2>2
    <3> QED BY <3>1 DEF OnlyPublishes
  <2> QED BY <1>1, <2>1, <2>2
<1> QED BY <1>1, <1>2 DEF OnlyPublishes

LEMMA EmptyLeads ==
  ASSUME NEW q, OnlyPublishes(q), NEW F, NEW f, f \notin F
  PROVE  Leads(q, {}, F, f)
BY DEF Leads, OnlyPublishes, Concerns

(* SetToSeq gives a sequence of the elements of a finite set.              *)
LEMMA SetToSeqType ==
  ASSUME NEW S, IsFiniteSet(S)
  PROVE  SetToSeq(S) \in Seq(S)
<1>1. Cardinality(S) \in Nat /\ ExistsBijection(1..Cardinality(S), S)
  BY FS_CardinalityType
<1>2. \E g \in [1..Cardinality(S) -> S] : IsInjective(g)
  BY <1>1 DEF ExistsBijection, Bijection, Injection
<1>3. SetToSeq(S) \in [1..Cardinality(S) -> S]
  BY <1>2 DEF SetToSeq
<1> QED BY <1>1, <1>3, SeqDef

LEMMA PacketTypes ==
  /\ \A t \in Owned, v \in 0..MaxRuns : PubPacket(t, v) \in Packets /\ PubPacket(t, v).type = "publish"
  /\ \A F \in SUBSET AllFilters, w \in 0..Nobody :
       /\ SubPacket(F, w) \in Packets /\ UnsubPacket(F, w) \in Packets
       /\ \A f : Concerns(SubPacket(F, w), f) <=> f \in F
       /\ \A f : Concerns(UnsubPacket(F, w), f) <=> f \in F
       /\ SubPacket(F, w).type = "subscribe" /\ UnsubPacket(F, w).type = "unsubscribe"
BY DEF PubPacket, SubPacket, UnsubPacket, Packets, Concerns, AllFilters

LEMMA Owners == Handlers \subseteq 0..Nobody /\ Terminate \in 0..Nobody /\ Nobody \in 0..Nobody
<1>1. MaxConnects \in Nat
  BY BusAssumption
<1> QED BY <1>1 DEF Handlers, Terminate, Nobody

LEMMA InitSubscribed == Init => SubscriptionInv
<1> SUFFICES ASSUME Init PROVE SubscriptionInv
  OBVIOUS
<1>0. Flags
  BY DEF Init, Flags
<1>1. Typed
  <2>1. <<>> \in Seq(Packets) /\ <<>> \in Seq(Answers) /\ 1 \in 1..MaxRuns /\ 0 \in 0..MaxRuns
    BY BusAssumption, EmptySeq
  <2> QED BY <2>1 DEF Init, Typed, Points, Runnable
<1>2. Linked
  BY DEF Init, Linked
<1>3. Sent
  BY EmptySeq DEF Init, Sent, OnlyPublishes
<1> QED BY <1>0, <1>1, <1>2, <1>3 DEF SubscriptionInv

(* A packet about one filter is sent with the change of the set.           *)
LEMMA SubscriptionSent ==
  ASSUME Typed, Sent, NEW g \in AllFilters, NEW w \in 0..Nobody, UNCHANGED brokerSubs,
         \/ /\ subscriptions' = subscriptions \cup {g}
            /\ up' = IF online THEN Append(up, SubPacket({g}, w)) ELSE up
         \/ /\ subscriptions' = subscriptions \ {g}
            /\ up' = IF online THEN Append(up, UnsubPacket({g}, w)) ELSE up
  PROVE  /\ up' \in Seq(Packets) /\ subscriptions' \subseteq AllFilters
         /\ online => \A f \in AllFilters : Leads(up', brokerSubs', subscriptions', f)
         /\ ~online => up' = up
<1>0. up \in Seq(Packets) /\ subscriptions \subseteq AllFilters
  BY DEF Typed
<1>1. subscriptions' \subseteq AllFilters /\ (~online => up' = up)
  BY <1>0
<1>2. CASE ~online
  BY <1>0, <1>1, <1>2
<1>3. ASSUME online, NEW p \in Packets, \A f : Concerns(p, f) <=> f = g, up' = Append(up, p),
             p.type = "subscribe" <=> g \in subscriptions',
             \A f : f # g => (f \in subscriptions' <=> f \in subscriptions)
      PROVE  /\ up' \in Seq(Packets)
             /\ \A f \in AllFilters : Leads(up', brokerSubs', subscriptions', f)
  <2>1. ASSUME NEW f \in AllFilters PROVE Leads(up', brokerSubs', subscriptions', f)
    <3>1. Leads(up, brokerSubs, subscriptions, f)
      BY <1>3 DEF Sent
    <3>2. CASE f = g
      BY <1>0, <1>3, <3>2, AppendLeads
    <3>3. CASE f # g
      BY <1>0, <1>3, <3>1, <3>3, AppendLeads
    <3> QED BY <3>2, <3>3
  <2>2. up' \in Seq(Packets)
    BY <1>0, <1>3, AppendLeads
  <2> QED BY <2>1, <2>2
<1>4. CASE online /\ subscriptions' = subscriptions \cup {g} /\ up' = Append(up, SubPacket({g}, w))
  <2>1. /\ SubPacket({g}, w) \in Packets /\ SubPacket({g}, w).type = "subscribe"
        /\ \A f : Concerns(SubPacket({g}, w), f) <=> f = g
    <3>1. {g} \in SUBSET AllFilters
      OBVIOUS
    <3> QED BY <3>1, PacketTypes
  <2> QED BY <1>1, <1>3, <1>4, <2>1
<1>5. CASE online /\ subscriptions' = subscriptions \ {g} /\ up' = Append(up, UnsubPacket({g}, w))
  <2>1. /\ UnsubPacket({g}, w) \in Packets /\ UnsubPacket({g}, w).type = "unsubscribe"
        /\ \A f : Concerns(UnsubPacket({g}, w), f) <=> f = g
    <3>1. {g} \in SUBSET AllFilters
      OBVIOUS
    <3> QED BY <3>1, PacketTypes
  <2> QED BY <1>1, <1>3, <1>5, <2>1
<1> QED BY <1>2, <1>4, <1>5

(* A publish is sent, or held.                                             *)
LEMMA PublishSent ==
  ASSUME Typed, Sent, NEW p \in Packets, p.type = "publish"
  PROVE  /\ Append(up, p) \in Seq(Packets) /\ Append(queue, p) \in Seq(Packets)
         /\ OnlyPublishes(Append(queue, p))
         /\ OnlyPublishes(up) => OnlyPublishes(Append(up, p))
         /\ online => \A f \in AllFilters : Leads(Append(up, p), brokerSubs, subscriptions, f)
<1>0. up \in Seq(Packets) /\ queue \in Seq(Packets) /\ \A f : ~Concerns(p, f)
  BY DEF Typed, Concerns
<1>1. ASSUME online, NEW f \in AllFilters
      PROVE  Leads(Append(up, p), brokerSubs, subscriptions, f)
  BY <1>0, <1>1, AppendLeads DEF Sent
<1>2. /\ Append(up, p) \in Seq(Packets) /\ Append(queue, p) \in Seq(Packets)
      /\ OnlyPublishes(Append(queue, p)) /\ (OnlyPublishes(up) => OnlyPublishes(Append(up, p)))
  BY <1>0, AppendLeads DEF Sent
<1> QED BY <1>1, <1>2

(* What is left of the channels when the connection is lost.               *)
LEMMA ChannelsLost ==
  ASSUME Typed, LoseChannels
  PROVE  up' \in Seq(Packets) /\ down' \in Seq(Answers)
<1>1. PICK k \in 0..Len(up) : up' = SubSeq(up, 1, k)
  BY DEF LoseChannels
<1>2. up \in Seq(Packets) /\ Len(up) \in Nat /\ \A i \in 1..Len(up) : up[i] \in Packets
  BY LenProperties, ElementOfSeq DEF Typed
<1>3. \A i \in 1..k : up[i] \in Packets
  BY <1>2
<1>4. up' \in Seq(Packets)
  BY <1>1, <1>2, <1>3, SubSeqProperties
<1> QED BY <1>4, EmptySeq DEF LoseChannels

(* A step that sends a publish, or nothing, and leaves the connection.     *)
LEMMA PublishHolds ==
  ASSUME SubscriptionInv, NEW p \in Packets, p.type = "publish",
         \/ up' = Append(up, p) /\ UNCHANGED queue
         \/ queue' = Append(queue, p) /\ UNCHANGED up
         \/ UNCHANGED <<up, queue>>,
         UNCHANGED <<connected, online, subscriptions, brokerSubs>>
  PROVE  up' \in Seq(Packets) /\ queue' \in Seq(Packets) /\ Sent'
<1>0. Typed /\ Sent
  BY DEF SubscriptionInv
<1>1. /\ Append(up, p) \in Seq(Packets) /\ Append(queue, p) \in Seq(Packets)
      /\ OnlyPublishes(Append(queue, p))
      /\ OnlyPublishes(up) => OnlyPublishes(Append(up, p))
      /\ online => \A f \in AllFilters : Leads(Append(up, p), brokerSubs, subscriptions, f)
  BY <1>0, PublishSent
<1>2. CASE up' = Append(up, p) /\ UNCHANGED queue
  BY <1>0, <1>1, <1>2 DEF Typed, Sent
<1>3. CASE queue' = Append(queue, p) /\ UNCHANGED up
  BY <1>0, <1>1, <1>3 DEF Typed, Sent
<1>4. CASE UNCHANGED <<up, queue>>
  BY <1>0, <1>4 DEF Typed, Sent
<1> QED BY <1>2, <1>3, <1>4

(* A step that ends the connection.                                        *)
LEMMA GoneHolds ==
  ASSUME SubscriptionInv, Idle, LoseChannels, connected' = FALSE, online' = FALSE,
         clean' \in BOOLEAN, late' \in BOOLEAN, UNCHANGED session,
         proc' \in {"up", "ending", "down"}, ending' \in Points,
         handler' \in [Handlers -> Points],
         \A h \in Handlers : handler'[h] = "online" => handler[h] = "online",
         UNCHANGED <<run, subscriptions, queue, app, brokerSubs, retained>>
  PROVE  SubscriptionInv'
<1>0. Flags /\ Typed /\ Linked /\ Sent
  BY DEF SubscriptionInv
<1>1. Flags'
  BY <1>0 DEF Flags
<1>2. up' \in Seq(Packets) /\ down' \in Seq(Answers)
  BY <1>0, ChannelsLost
<1>3. Typed'
  BY <1>0, <1>2 DEF Typed
<1>4. Linked'
  BY DEF Linked, Idle, Runnable
<1>5. Sent'
  BY <1>0 DEF Sent
<1> QED BY <1>1, <1>3, <1>4, <1>5 DEF SubscriptionInv

LEMMA StopHolds ==
  ASSUME SubscriptionInv, Idle, Stop, clean' \in BOOLEAN, ending' \in Points
  PROVE  SubscriptionInv'
<1>1. /\ LoseChannels /\ connected' = FALSE /\ online' = FALSE /\ proc' = "down"
      /\ UNCHANGED <<run, subscriptions, handler, queue, app, brokerSubs, retained, late, session>>
  BY DEF Stop, brokerVars
<1>2. late' \in BOOLEAN /\ handler' \in [Handlers -> Points]
  BY <1>1 DEF SubscriptionInv, Flags, Typed
<1> QED BY <1>1, <1>2, GoneHolds

LEMMA ConnectHolds == ASSUME SubscriptionInv, Connect PROVE SubscriptionInv'
<1>0. Flags /\ Typed /\ Linked /\ Sent
  BY DEF SubscriptionInv
<1> DEFINE p == clearRetain(Presence)
<1>1. /\ connected' = TRUE /\ session' = TRUE /\ proc # "down" /\ ~connected
      /\ up' = Append(queue, p) /\ down' = <<>> /\ queue' = <<>> /\ brokerSubs' = {}
      /\ UNCHANGED <<proc, run, online, subscriptions, ending, app, clean, late>>
  BY DEF Connect
<1>2. /\ retained' \in [Owned -> 0..MaxRuns] /\ p \in Packets /\ p.type = "publish"
  <2>1. Presence \in Owned /\ 0 \in 0..MaxRuns
    BY BusAssumption DEF Owned
  <2>2. p \in Packets /\ p.type = "publish"
    BY <2>1, PacketTypes DEF clearRetain
  <2> QED BY <1>0, <2>1, <2>2 DEF Connect, Typed, LastWill
<1>3. handler' \in [Handlers -> Points]
  BY <1>0 DEF Connect, Typed, Points, Runnable
<1>4. up' \in Seq(Packets) /\ OnlyPublishes(up')
  BY <1>0, <1>1, <1>2, AppendLeads DEF Typed, Sent
<1>5. <<>> \in Seq(Packets) /\ <<>> \in Seq(Answers) /\ OnlyPublishes(<<>>)
  BY EmptySeq DEF OnlyPublishes
<1>6. Flags'
  BY <1>0, <1>1 DEF Flags
<1>7. Typed'
  BY <1>0, <1>1, <1>2, <1>3, <1>4, <1>5 DEF Typed
<1>8. Linked'
  BY <1>1 DEF Linked
<1>9. Sent'
  BY <1>0, <1>1, <1>4, <1>5 DEF Sent, Linked
<1> QED BY <1>6, <1>7, <1>8, <1>9 DEF SubscriptionInv

LEMMA CloseHolds == ASSUME SubscriptionInv, Close PROVE SubscriptionInv'
<1>0. Flags /\ Typed
  BY DEF SubscriptionInv
<1>1. /\ Idle /\ LoseChannels /\ connected' = FALSE /\ online' = FALSE /\ clean' = FALSE
      /\ handler' = [h \in Handlers |-> Rejected(handler[h])]
      /\ UNCHANGED <<run, subscriptions, ending, queue, app, brokerSubs, retained, session>>
  BY DEF Close, brokerVars
<1>2. late' \in BOOLEAN /\ clean' \in BOOLEAN
  BY <1>0 DEF Close, Flags
<1>3. proc' \in {"up", "ending", "down"} /\ ending' \in Points
  BY <1>0, <1>1 DEF Close, Typed
<1>4. \A h \in Handlers : /\ handler'[h] = Rejected(handler[h]) /\ handler[h] \in Points
                          /\ Rejected(handler[h]) \in Points
                          /\ Rejected(handler[h]) = "online" => handler[h] = "online"
  BY <1>0, <1>1 DEF Typed, Rejected, Points, Runnable
<1>5. handler' \in [Handlers -> Points]
  BY <1>1, <1>4
<1> QED BY <1>1, <1>2, <1>3, <1>4, <1>5, GoneHolds

LEMMA CrashHolds == ASSUME SubscriptionInv, Crash PROVE SubscriptionInv'
<1>1. clean' \in BOOLEAN /\ ending' \in Points
  BY DEF Crash, SubscriptionInv, Typed
<1> QED BY <1>1, StopHolds DEF Crash

LEMMA StartHolds == ASSUME SubscriptionInv, Start PROVE SubscriptionInv'
<1>0. Flags /\ Typed /\ Linked /\ Sent
  BY DEF SubscriptionInv
<1>1. /\ proc = "down" /\ proc' = "up" /\ subscriptions' = {} /\ app' = {} /\ queue' = <<>>
      /\ clean' = FALSE /\ late' = FALSE /\ run < MaxRuns /\ run' = run + 1
      /\ handler' = [h \in Handlers |-> "none"] /\ ending' = "none"
      /\ UNCHANGED <<connected, online, up, down, session, brokerSubs, retained>>
  BY DEF Start, brokerVars
<1>2. <<>> \in Seq(Packets) /\ OnlyPublishes(<<>>)
  BY EmptySeq DEF OnlyPublishes
<1>3. Flags'
  BY <1>0, <1>1 DEF Flags
<1>4. run' \in 1..MaxRuns
  BY <1>0, <1>1, BusAssumption DEF Typed
<1>5. Typed'
  BY <1>0, <1>1, <1>2, <1>4 DEF Typed, Points, Runnable
<1>6. Linked'
  BY <1>0, <1>1 DEF Linked
<1>7. Sent'
  BY <1>0, <1>1, <1>2 DEF Sent, Linked
<1> QED BY <1>3, <1>5, <1>6, <1>7 DEF SubscriptionInv

-----------------------------------------------------------------------------
(* The connect function and terminate.                                     *)

LEMMA ClearResidentHolds ==
  ASSUME SubscriptionInv, NEW h \in Handlers, clearResidentState(h)
  PROVE  SubscriptionInv'
<1>0. Flags /\ Typed /\ Linked /\ Sent
  BY DEF SubscriptionInv
<1>1. /\ subscriptions' = subscriptions \cup {SelfState}
      /\ up' = IF online THEN Append(up, SubPacket({SelfState}, h)) ELSE up
      /\ handler' = [handler EXCEPT ![h] = IF online THEN "suback" ELSE "sleep"]
      /\ UNCHANGED <<proc, run, connected, online, ending, queue, app, clean, late, down,
                     session, brokerSubs, retained>>
  BY DEF clearResidentState, subscribeSelf, brokerVars
<1>2. /\ up' \in Seq(Packets) /\ subscriptions' \subseteq AllFilters
      /\ online => \A f \in AllFilters : Leads(up', brokerSubs', subscriptions', f)
      /\ ~online => up' = up
  <2>1. SelfState \in AllFilters /\ h \in 0..Nobody
    BY Owners DEF AllFilters
  <2> QED BY <1>0, <1>1, <2>1, SubscriptionSent
<1>3. /\ handler' \in [Handlers -> Points]
      /\ \A g \in Handlers : handler'[g] = "online" => handler[g] = "online"
  BY <1>0, <1>1 DEF Typed, Points, Runnable
<1>4. Flags'
  BY <1>0, <1>1 DEF Flags
<1>5. Typed'
  BY <1>0, <1>1, <1>2, <1>3 DEF Typed
<1>6. Linked'
  BY <1>0, <1>1, <1>3 DEF Linked
<1>7. Sent'
  BY <1>0, <1>1, <1>2 DEF Sent
<1> QED BY <1>4, <1>5, <1>6, <1>7 DEF SubscriptionInv

LEMMA SleepOverHolds ==
  ASSUME SubscriptionInv, NEW h \in Handlers, SleepOver(h)
  PROVE  SubscriptionInv'
<1>0. Flags /\ Typed /\ Linked /\ Sent
  BY DEF SubscriptionInv
<1>1. /\ subscriptions' = subscriptions \ {SelfState}
      /\ up' = IF online THEN Append(up, UnsubPacket({SelfState}, h)) ELSE up
      /\ handler' = [handler EXCEPT ![h] = IF online THEN "unsuback" ELSE "publish"]
      /\ UNCHANGED <<proc, run, connected, online, ending, queue, app, late, down,
                     session, brokerSubs, retained>>
  BY DEF SleepOver, unsubscribeSelf, brokerVars
<1>2. /\ up' \in Seq(Packets) /\ subscriptions' \subseteq AllFilters
      /\ online => \A f \in AllFilters : Leads(up', brokerSubs', subscriptions', f)
      /\ ~online => up' = up
  <2>1. SelfState \in AllFilters /\ h \in 0..Nobody
    BY Owners DEF AllFilters
  <2> QED BY <1>0, <1>1, <2>1, SubscriptionSent
<1>3. /\ handler' \in [Handlers -> Points]
      /\ \A g \in Handlers : handler'[g] = "online" => handler[g] = "online"
  BY <1>0, <1>1 DEF Typed, Points, Runnable
<1>4. Flags'
  BY <1>0, <1>1 DEF SleepOver, Flags
<1>5. Typed'
  BY <1>0, <1>1, <1>2, <1>3 DEF Typed
<1>6. Linked'
  BY <1>0, <1>1, <1>3 DEF Linked
<1>7. Sent'
  BY <1>0, <1>1, <1>2 DEF Sent
<1> QED BY <1>4, <1>5, <1>6, <1>7 DEF SubscriptionInv

LEMMA PublishOnlineHolds ==
  ASSUME SubscriptionInv, NEW h \in Handlers, publishOnline(h)
  PROVE  SubscriptionInv'
<1>0. Flags /\ Typed /\ Linked
  BY DEF SubscriptionInv
<1> DEFINE p == PubPacket(Presence, run)
<1>1. /\ \/ /\ connected /\ up' = Append(up, p) /\ UNCHANGED queue
            /\ handler' = [handler EXCEPT ![h] = "online"]
         \/ /\ queue' = Append(queue, p) /\ UNCHANGED up
            /\ handler' = [handler EXCEPT ![h] = "queued"]
      /\ UNCHANGED <<proc, run, connected, online, subscriptions, ending, app, clean, late, down,
                     session, brokerSubs, retained>>
  BY DEF publishOnline, brokerVars
<1>2. p \in Packets /\ p.type = "publish"
  <2>1. Presence \in Owned /\ run \in 0..MaxRuns
    BY <1>0, BusAssumption DEF Owned, Typed
  <2> QED BY <2>1, PacketTypes
<1> HIDE DEF p
<1>3. up' \in Seq(Packets) /\ queue' \in Seq(Packets) /\ Sent'
  BY <1>1, <1>2, PublishHolds
<1>4. /\ handler' \in [Handlers -> Points]
      /\ \A g \in Handlers : handler'[g] = "online" => handler[g] = "online" \/ connected
  BY <1>0, <1>1 DEF Typed, Points, Runnable
<1>5. Flags'
  BY <1>0, <1>1 DEF Flags
<1>6. Typed'
  BY <1>0, <1>1, <1>3, <1>4 DEF Typed
<1>7. Linked'
  BY <1>0, <1>1, <1>4 DEF Linked
<1> QED BY <1>3, <1>5, <1>6, <1>7 DEF SubscriptionInv

(* What the listeners of onlineChange publish.                             *)
LEMMA PublishAllType ==
  ASSUME Typed
  PROVE  PublishAll \in Seq(Packets) /\ OnlyPublishes(PublishAll)
<1> DEFINE S == {PubPacket(t, run) : t \in app}
           m == [t \in app |-> PubPacket(t, run)]
<1>1. IsFiniteSet(app)
  BY BusAssumption, FS_Subset DEF Typed
<1>2. m \in Surjection(app, S)
  BY DEF Surjection
<1>3. IsFiniteSet(S)
  BY <1>1, <1>2, FS_Surjection
<1>4. \A p \in S : p \in Packets /\ p.type = "publish"
  <2>1. ASSUME NEW t \in app PROVE t \in Owned /\ run \in 0..MaxRuns
    BY BusAssumption DEF Typed, Owned
  <2> QED BY <2>1, PacketTypes
<1>5. PublishAll \in Seq(S)
  BY <1>3, SetToSeqType DEF PublishAll
<1> HIDE DEF S
<1>6. \A k \in 1..Len(PublishAll) : PublishAll[k] \in S
  BY <1>5, ElementOfSeq
<1>7. PublishAll \in Seq(Packets)
  BY <1>4, <1>5, SeqMonotonic
<1> QED BY <1>4, <1>6, <1>7 DEF OnlyPublishes

LEMMA OnlineChangeHolds ==
  ASSUME SubscriptionInv, NEW h \in Handlers, onlineChange(h)
  PROVE  SubscriptionInv'
<1>0. Flags /\ Typed /\ Linked /\ Sent
  BY DEF SubscriptionInv
<1> DEFINE base == up \o (IF online THEN <<>> ELSE PublishAll)
           p == SubPacket(subscriptions, h)
<1>1. /\ handler[h] = "online" /\ online' = TRUE /\ connected
      /\ handler' = [handler EXCEPT ![h] = "none"]
      /\ up' = base \o SubscribeAll(h)
      /\ UNCHANGED <<proc, run, connected, subscriptions, ending, queue, app, clean, late, down,
                     session, brokerSubs, retained>>
  BY <1>0 DEF onlineChange, brokerVars, Linked
<1>2. /\ base \in Seq(Packets)
      /\ online => base = up
      /\ ~online => OnlyPublishes(base)
  <2>1. CASE online
    <3>1. up \o <<>> = up /\ up \in Seq(Packets)
      BY <1>0, ConcatEmptySeq DEF Typed
    <3> QED BY <2>1, <3>1
  <2>2. CASE ~online
    <3>1. up \in Seq(Packets) /\ OnlyPublishes(up)
      BY <1>0, <1>1, <2>2 DEF Typed, Sent
    <3>2. up \o PublishAll \in Seq(Packets) /\ OnlyPublishes(up \o PublishAll)
      BY <1>0, <3>1, PublishAllType, ConcatLeads
    <3> QED BY <2>2, <3>2
  <2> QED BY <2>1, <2>2
<1> HIDE DEF base
<1>3. \A f \in AllFilters : f \notin subscriptions => Leads(base, brokerSubs, subscriptions, f)
  <2>1. CASE online
    BY <1>0, <1>2, <2>1 DEF Sent
  <2>2. CASE ~online
    <3>1. brokerSubs = {} /\ OnlyPublishes(base)
      BY <1>0, <1>1, <1>2, <2>2 DEF Sent
    <3> QED BY <3>1, EmptyLeads
  <2> QED BY <2>1, <2>2
<1>4. /\ up' \in Seq(Packets)
      /\ \A f \in AllFilters : Leads(up', brokerSubs, subscriptions, f)
  <2>1. CASE subscriptions = {}
    <3>1. up' = base
      BY <1>1, <1>2, <2>1, ConcatEmptySeq DEF SubscribeAll
    <3> QED BY <1>2, <1>3, <2>1, <3>1
  <2>2. CASE subscriptions # {}
    <3>1. /\ p \in Packets /\ p.type = "subscribe"
          /\ \A f : Concerns(p, f) <=> f \in subscriptions
      <4>1. subscriptions \in SUBSET AllFilters /\ h \in 0..Nobody
        BY <1>0, Owners DEF Typed
      <4> QED BY <4>1, PacketTypes
    <3>2. up' = Append(base, p)
      BY <1>1, <1>2, <2>2, <3>1, AppendIsConcat DEF SubscribeAll
    <3> HIDE DEF p
    <3>3. up' \in Seq(Packets)
      BY <1>2, <3>1, <3>2, AppendLeads
    <3>4. ASSUME NEW f \in AllFilters PROVE Leads(up', brokerSubs, subscriptions, f)
      <4>1. CASE f \in subscriptions
        BY <1>2, <3>1, <3>2, <4>1, AppendLeads
      <4>2. CASE f \notin subscriptions
        BY <1>2, <1>3, <3>1, <3>2, <4>2, AppendLeads
      <4> QED BY <4>1, <4>2
    <3> QED BY <3>3, <3>4
  <2> QED BY <2>1, <2>2
<1>5. /\ handler' \in [Handlers -> Points]
      /\ \A g \in Handlers : handler'[g] = "online" => handler[g] = "online"
  BY <1>0, <1>1 DEF Typed, Points, Runnable
<1>6. Flags'
  BY <1>0, <1>1 DEF Flags
<1>7. Typed'
  BY <1>0, <1>1, <1>4, <1>5 DEF Typed
<1>8. Linked'
  BY <1>0, <1>1, <1>5 DEF Linked
<1>9. Sent'
  BY <1>0, <1>1, <1>4 DEF Sent
<1> QED BY <1>6, <1>7, <1>8, <1>9 DEF SubscriptionInv

LEMMA TerminateHolds == ASSUME SubscriptionInv, terminate PROVE SubscriptionInv'
<1>0. Flags /\ Typed /\ Linked /\ Sent
  BY DEF SubscriptionInv
<1>1. CASE ~connected
  <2>1. Idle /\ Stop /\ clean' \in BOOLEAN /\ ending' \in Points
    BY <1>0, <1>1 DEF terminate, Typed
  <2> QED BY <2>1, StopHolds
<1>2. CASE connected
  <2> DEFINE c == clearRetain(Presence)
             first == Append(up, c)
             s == SubPacket({SelfState}, Terminate)
  <2>1. /\ proc' = "ending" /\ clean' = online /\ ending' = IF online THEN "suback" ELSE "sleep"
        /\ subscriptions' = subscriptions \cup {SelfState}
        /\ up' = first \o (IF online THEN <<s>> ELSE <<>>)
        /\ UNCHANGED <<run, connected, online, handler, queue, app, late, down, session,
                       brokerSubs, retained>>
    BY <1>2 DEF terminate, Stop, brokerVars
  <2>2. c \in Packets /\ c.type = "publish"
    <3>1. Presence \in Owned /\ 0 \in 0..MaxRuns
      BY BusAssumption DEF Owned
    <3> QED BY <3>1, PacketTypes DEF clearRetain
  <2>3. /\ s \in Packets /\ s.type = "subscribe" /\ \A f : Concerns(s, f) <=> f = SelfState
    <3>1. {SelfState} \in SUBSET AllFilters /\ Terminate \in 0..Nobody
      BY Owners DEF AllFilters
    <3> QED BY <3>1, PacketTypes
  <2>4. /\ first \in Seq(Packets) /\ (OnlyPublishes(up) => OnlyPublishes(first))
        /\ online => \A f \in AllFilters : Leads(first, brokerSubs, subscriptions, f)
    BY <1>0, <2>2, PublishSent
  <2> HIDE DEF c, first, s
  <2>5. /\ up' \in Seq(Packets) /\ (~online => up' = first)
        /\ online => \A f \in AllFilters : Leads(up', brokerSubs, subscriptions', f)
    <3>1. CASE ~online
      BY <2>1, <2>4, <3>1, ConcatEmptySeq
    <3>2. CASE online
      <4>1. up' = Append(first, s)
        BY <2>1, <2>3, <2>4, <3>2, AppendIsConcat
      <4>2. ASSUME NEW f \in AllFilters PROVE Leads(up', brokerSubs, subscriptions', f)
        <5>1. CASE f = SelfState
          BY <2>1, <2>3, <2>4, <4>1, <5>1, AppendLeads
        <5>2. CASE f # SelfState
          BY <2>1, <2>3, <2>4, <3>2, <4>1, <5>2, AppendLeads
        <5> QED BY <5>1, <5>2
      <4>3. up' \in Seq(Packets)
        BY <2>3, <2>4, <4>1, AppendLeads
      <4> QED BY <3>2, <4>2, <4>3
    <3> QED BY <3>1, <3>2
  <2>6. Flags'
    BY <1>0, <2>1 DEF Flags
  <2>7. Typed'
    BY <1>0, <2>1, <2>5 DEF Typed, Points, Runnable, AllFilters
  <2>8. Linked'
    BY <1>0, <2>1 DEF Linked
  <2>9. Sent'
    BY <1>0, <2>1, <2>4, <2>5 DEF Sent
  <2> QED BY <2>6, <2>7, <2>8, <2>9 DEF SubscriptionInv
<1> QED BY <1>1, <1>2

LEMMA TerminateSleepHolds == ASSUME SubscriptionInv, terminateSleepOver PROVE SubscriptionInv'
<1>0. Flags /\ Typed /\ Linked /\ Sent
  BY DEF SubscriptionInv
<1>1. clean' \in BOOLEAN
  BY <1>0 DEF terminateSleepOver, Flags
<1>2. CASE ~online
  <2>1. Idle /\ Stop /\ ending' \in Points
    BY <1>2 DEF terminateSleepOver, Points
  <2> QED BY <1>1, <2>1, StopHolds
<1>3. CASE online
  <2>1. /\ subscriptions' = subscriptions \ {SelfState}
        /\ up' = IF online THEN Append(up, UnsubPacket({SelfState}, Terminate)) ELSE up
        /\ ending' = "unsuback"
        /\ UNCHANGED <<proc, run, connected, online, handler, queue, app, late, down, session,
                       brokerSubs, retained>>
    BY <1>3 DEF terminateSleepOver, unsubscribeSelf, brokerVars
  <2>2. /\ up' \in Seq(Packets) /\ subscriptions' \subseteq AllFilters
        /\ \A f \in AllFilters : Leads(up', brokerSubs', subscriptions', f)
    <3>1. SelfState \in AllFilters /\ Terminate \in 0..Nobody
      BY Owners DEF AllFilters
    <3> QED BY <1>0, <1>3, <2>1, <3>1, SubscriptionSent
  <2>3. Flags'
    BY <1>0, <1>1, <2>1 DEF Flags
  <2>4. Typed'
    BY <1>0, <2>1, <2>2 DEF Typed, Points
  <2>5. Linked'
    BY <1>0, <2>1 DEF Linked
  <2>6. Sent'
    BY <1>0, <1>3, <2>1, <2>2 DEF Sent
  <2> QED BY <2>3, <2>4, <2>5, <2>6 DEF SubscriptionInv
<1> QED BY <1>2, <1>3

-----------------------------------------------------------------------------
(* Packets of the broker, and the broker.                                  *)

LEMMA ReceiveHolds == ASSUME SubscriptionInv, Receive PROVE SubscriptionInv'
<1>0. Flags /\ Typed /\ Linked /\ Sent
  BY DEF SubscriptionInv
<1>1. Idle /\ connected /\ down # <<>> /\ (Acknowledged \/ clearTopic)
  BY DEF Receive
<1>2. Answer \in Answers /\ Tail(down) \in Seq(Answers)
  BY <1>0, <1>1, HeadTailProperties DEF Typed, Answer
<1>3. CASE clearTopic
  <2> DEFINE p == clearRetain(Answer.topic)
  <2>1. /\ down' = Tail(down) /\ (up' = Append(up, p) \/ UNCHANGED up)
        /\ UNCHANGED <<proc, run, connected, online, subscriptions, handler, ending, queue, app,
                       clean, late, session, brokerSubs, retained>>
    BY <1>3 DEF clearTopic, brokerVars
  <2>2. p \in Packets /\ p.type = "publish"
    <3>1. Answer.topic \in Owned /\ 0 \in 0..MaxRuns
      BY <1>2, <1>3, BusAssumption DEF clearTopic, Answers
    <3> QED BY <3>1, PacketTypes DEF clearRetain
  <2> HIDE DEF p
  <2>3. up' \in Seq(Packets) /\ queue' \in Seq(Packets) /\ Sent'
    BY <2>1, <2>2, PublishHolds
  <2>4. Flags'
    BY <1>0, <2>1 DEF Flags
  <2>5. Typed'
    BY <1>0, <1>2, <2>1, <2>3 DEF Typed
  <2>6. Linked'
    BY <1>0, <2>1 DEF Linked
  <2> QED BY <2>3, <2>4, <2>5, <2>6 DEF SubscriptionInv
<1>4. CASE /\ \/ /\ handler' = [handler EXCEPT ![Answer.owner] = Advance(@, Answer.type)]
                 /\ Answer.owner \in Handlers /\ UNCHANGED ending
              \/ ending' = "sleep" /\ UNCHANGED handler
           /\ down' = Tail(down)
           /\ UNCHANGED <<proc, run, connected, online, subscriptions, queue, app, clean, late, up,
                          session, brokerSubs, retained>>
  <2>1. /\ handler' \in [Handlers -> Points] /\ ending' \in Points
        /\ \A h \in Handlers : handler'[h] = "online" => handler[h] = "online"
    BY <1>0, <1>4 DEF Typed, Points, Runnable, Advance
  <2>2. Flags'
    BY <1>0, <1>4 DEF Flags
  <2>3. Typed'
    BY <1>0, <1>2, <1>4, <2>1 DEF Typed
  <2>4. Linked'
    BY <1>0, <1>4, <2>1 DEF Linked
  <2>5. Sent'
    BY <1>0, <1>4 DEF Sent
  <2> QED BY <2>2, <2>3, <2>4, <2>5 DEF SubscriptionInv
<1>5. CASE ending' = "none" /\ Stop /\ UNCHANGED clean
  <2>1. clean' \in BOOLEAN /\ ending' \in Points
    BY <1>0, <1>5 DEF Flags, Points
  <2> QED BY <1>1, <1>5, <2>1, StopHolds
<1> QED BY <1>1, <1>3, <1>4, <1>5 DEF Acknowledged, brokerVars

(* The retained messages a subscription to the own state brings.           *)
LEMMA ResidentType == ASSUME Typed PROVE Resident \in Seq(Answers)
<1> DEFINE Message(t) == [type |-> "message", topic |-> t, value |-> retained[t]]
           D == {u \in Owned : retained[u] # 0}
           S == {Message(t) : t \in D}
           m == [t \in D |-> Message(t)]
<1>1. IsFiniteSet(D)
  <2>1. IsFiniteSet(Owned)
    BY BusAssumption, FS_AddElement DEF Owned
  <2> QED BY <2>1, FS_Subset
<1>2. m \in Surjection(D, S)
  BY DEF Surjection
<1>3. IsFiniteSet(S)
  BY <1>1, <1>2, FS_Surjection
<1>4. S \subseteq Answers
  <2>1. ASSUME NEW t \in D PROVE t \in Owned /\ retained[t] \in 1..MaxRuns
    BY BusAssumption DEF Typed
  <2> QED BY <2>1 DEF Answers
<1>5. Resident \in Seq(S)
  BY <1>3, SetToSeqType DEF Resident
<1> QED BY <1>4, <1>5, SeqMonotonic

LEMMA BrokerReceiveHolds == ASSUME SubscriptionInv, BrokerReceive PROVE SubscriptionInv'
<1>0. Flags /\ Typed /\ Linked /\ Sent
  BY DEF SubscriptionInv
<1> DEFINE p == Head(up)
<1>1. /\ up # <<>> /\ up' = Tail(up)
      /\ UNCHANGED <<proc, run, app, clean, late, connected, online, subscriptions, handler, ending,
                     queue, session>>
  BY DEF BrokerReceive, clientVars
<1>2. /\ p \in Packets /\ up' \in Seq(Packets) /\ Len(up) \in Nat \ {0} /\ p = up[1]
      /\ Len(up') = Len(up) - 1 /\ \A k \in 1..Len(up') : up'[k] = up[k + 1]
  BY <1>0, <1>1, EmptySeq, LenProperties, HeadTailProperties DEF Typed
<1>3. \/ /\ p.type = "publish" /\ retained' = [retained EXCEPT ![p.topic] = p.value]
         /\ UNCHANGED <<down, brokerSubs>>
      \/ /\ p.type = "subscribe" /\ brokerSubs' = brokerSubs \cup p.filters
         /\ down' = IF connected
                    THEN down \o (Ack("suback", p.owner)
                                  \o (IF SelfState \in p.filters THEN Resident ELSE <<>>))
                    ELSE down
         /\ UNCHANGED retained
      \/ /\ p.type = "unsubscribe" /\ brokerSubs' = brokerSubs \ p.filters
         /\ down' = IF connected THEN down \o Ack("unsuback", p.owner) ELSE down
         /\ UNCHANGED retained
  BY DEF BrokerReceive
<1>4. /\ p.type \in {"publish", "subscribe", "unsubscribe"}
      /\ p.type = "publish" => p.topic \in Owned /\ p.value \in 0..MaxRuns
      /\ p.type # "publish" => p.filters \subseteq AllFilters /\ p.owner \in 0..Nobody
  BY <1>2 DEF Packets, AllFilters
<1> HIDE DEF p
<1>5. retained' \in [Owned -> 0..MaxRuns] /\ brokerSubs' \subseteq AllFilters
  <2>0. retained \in [Owned -> 0..MaxRuns] /\ brokerSubs \subseteq AllFilters
    BY <1>0 DEF Typed
  <2>1. CASE p.type = "publish"
    BY <1>3, <1>4, <2>0, <2>1
  <2>2. CASE p.type # "publish"
    BY <1>3, <1>4, <2>0, <2>2
  <2> QED BY <2>1, <2>2
<1>6. down' \in Seq(Answers)
  <2>0. down \in Seq(Answers)
    BY <1>0 DEF Typed
  <2>1. CASE p.type = "publish"
    BY <1>3, <2>0, <2>1
  <2>2. ASSUME NEW kind \in {"suback", "unsuback"}, p.type # "publish"
        PROVE  Ack(kind, p.owner) \in Seq(Answers)
    <3>1. [type |-> kind, owner |-> p.owner] \in Answers
      BY <1>4, <2>2 DEF Answers
    <3> QED BY <3>1, EmptySeq DEF Ack
  <2>3. (IF SelfState \in p.filters THEN Resident ELSE <<>>) \in Seq(Answers)
    BY <1>0, ResidentType, EmptySeq
  <2>4. CASE p.type = "subscribe"
    <3>1. Ack("suback", p.owner) \in Seq(Answers)
      BY <2>2, <2>4
    <3>2. Ack("suback", p.owner) \o (IF SelfState \in p.filters THEN Resident ELSE <<>>) \in Seq(Answers)
      BY <2>3, <3>1, ConcatProperties
    <3>3. down \o (Ack("suback", p.owner)
                   \o (IF SelfState \in p.filters THEN Resident ELSE <<>>)) \in Seq(Answers)
      BY <2>0, <3>2, ConcatProperties
    <3> QED BY <1>3, <2>0, <2>4, <3>3
  <2>5. CASE p.type = "unsubscribe"
    <3>1. Ack("unsuback", p.owner) \in Seq(Answers)
      BY <2>2, <2>5
    <3>2. down \o Ack("unsuback", p.owner) \in Seq(Answers)
      BY <2>0, <3>1, ConcatProperties
    <3> QED BY <1>3, <2>0, <2>5, <3>2
  <2> QED BY <1>4, <2>1, <2>4, <2>5
<1>7. Flags'
  BY <1>0, <1>1 DEF Flags
<1>8. Typed'
  BY <1>0, <1>1, <1>2, <1>5, <1>6 DEF Typed
<1>9. Linked'
  BY <1>0, <1>1 DEF Linked
<1>10. Sent'
  <2>1. OnlyPublishes(queue)'
    BY <1>0, <1>1 DEF Sent
  <2>2. ASSUME connected, ~online PROVE brokerSubs' = {} /\ OnlyPublishes(up')
    <3>1. brokerSubs = {} /\ OnlyPublishes(up)
      BY <1>0, <2>2 DEF Sent
    <3>2. p.type = "publish"
      BY <1>2, <3>1 DEF OnlyPublishes
    <3>3. \A k \in 1..Len(up') : k + 1 \in 1..Len(up)
      BY <1>2
    <3> QED BY <1>2, <1>3, <3>1, <3>2, <3>3 DEF OnlyPublishes
  <2>3. ASSUME online, NEW f \in AllFilters PROVE Leads(up', brokerSubs', subscriptions, f)
    <3>1. Leads(up, brokerSubs, subscriptions, f) /\ up \in Seq(Packets)
      BY <1>0, <2>3 DEF Sent, Typed
    <3>2. f \in brokerSubs' <=> IF Concerns(p, f) THEN p.type = "subscribe" ELSE f \in brokerSubs
      BY <1>3, <1>4 DEF Concerns
    <3> QED BY <1>1, <3>1, <3>2, TailLeads DEF p
  <2> QED BY <1>1, <2>1, <2>2, <2>3 DEF Sent
<1> QED BY <1>7, <1>8, <1>9, <1>10 DEF SubscriptionInv

LEMMA BrokerNoticeHolds == ASSUME SubscriptionInv, BrokerNotice PROVE SubscriptionInv'
<1>0. Flags /\ Typed /\ Linked /\ Sent
  BY DEF SubscriptionInv
<1>1. /\ ~connected /\ session' = FALSE /\ brokerSubs' = {} /\ up' = <<>>
      /\ retained' = LastWill(retained)
      /\ UNCHANGED <<proc, run, app, clean, late, down, connected, online, subscriptions, handler,
                     ending, queue>>
  BY DEF BrokerNotice, clientVars
<1>2. <<>> \in Seq(Packets) /\ retained' \in [Owned -> 0..MaxRuns]
  BY <1>0, <1>1, BusAssumption, EmptySeq DEF Typed, LastWill, Owned
<1>3. Flags'
  BY <1>0, <1>1 DEF Flags
<1>4. Typed'
  BY <1>0, <1>1, <1>2 DEF Typed
<1>5. Linked'
  BY <1>0, <1>1 DEF Linked
<1>6. Sent'
  BY <1>0, <1>1 DEF Sent, Linked
<1> QED BY <1>3, <1>4, <1>5, <1>6 DEF SubscriptionInv

-----------------------------------------------------------------------------
(* The calls of the rest of the program.                                   *)

LEMMA SubscribeHolds ==
  ASSUME SubscriptionInv, NEW f \in Filters, subscribe(f) \/ unsubscribe(f)
  PROVE  SubscriptionInv'
<1>0. Flags /\ Typed /\ Linked /\ Sent
  BY DEF SubscriptionInv
<1>1. /\ \/ /\ subscriptions' = subscriptions \cup {f}
            /\ up' = IF online THEN Append(up, SubPacket({f}, Nobody)) ELSE up
         \/ /\ subscriptions' = subscriptions \ {f}
            /\ up' = IF online THEN Append(up, UnsubPacket({f}, Nobody)) ELSE up
      /\ UNCHANGED <<proc, run, connected, online, handler, ending, clean, late, down, app, queue,
                     session, brokerSubs, retained>>
  BY DEF subscribe, unsubscribe, Call, brokerVars
<1>2. /\ up' \in Seq(Packets) /\ subscriptions' \subseteq AllFilters
      /\ online => \A g \in AllFilters : Leads(up', brokerSubs', subscriptions', g)
      /\ ~online => up' = up
  <2>1. f \in AllFilters /\ Nobody \in 0..Nobody
    BY Owners DEF AllFilters
  <2> QED BY <1>0, <1>1, <2>1, SubscriptionSent
<1>3. Flags'
  BY <1>0, <1>1 DEF Flags
<1>4. Typed'
  BY <1>0, <1>1, <1>2 DEF Typed
<1>5. Linked'
  BY <1>0, <1>1 DEF Linked
<1>6. Sent'
  BY <1>0, <1>1, <1>2 DEF Sent
<1> QED BY <1>3, <1>4, <1>5, <1>6 DEF SubscriptionInv

LEMMA AnnounceHolds ==
  ASSUME SubscriptionInv, NEW t \in Topics, Announce(t) \/ Retract(t)
  PROVE  SubscriptionInv'
<1>0. Flags /\ Typed /\ Linked /\ Sent
  BY DEF SubscriptionInv
<1>1. PICK v \in 0..MaxRuns :
        /\ \/ up' = Append(up, PubPacket(t, v)) /\ UNCHANGED queue
           \/ queue' = Append(queue, PubPacket(t, v)) /\ UNCHANGED up
           \/ UNCHANGED <<up, queue>>
        /\ app' \subseteq Topics
        /\ UNCHANGED <<proc, run, connected, online, handler, ending, clean, late, down,
                       subscriptions, session, brokerSubs, retained>>
  <2>1. run \in 0..MaxRuns /\ 0 \in 0..MaxRuns /\ app \subseteq Topics
    BY <1>0, BusAssumption DEF Typed
  <2>2. CASE Announce(t)
    BY <2>1, <2>2 DEF Announce, Call, brokerVars
  <2>3. CASE Retract(t)
    BY <2>1, <2>3 DEF Retract, Call, brokerVars, clearRetain
  <2> QED BY <2>2, <2>3
<1>2. PubPacket(t, v) \in Packets /\ PubPacket(t, v).type = "publish"
  BY PacketTypes DEF Owned
<1>3. up' \in Seq(Packets) /\ queue' \in Seq(Packets) /\ Sent'
  BY <1>1, <1>2, PublishHolds
<1>4. Flags'
  BY <1>0, <1>1 DEF Flags
<1>5. Typed'
  BY <1>0, <1>1, <1>3 DEF Typed
<1>6. Linked'
  BY <1>0, <1>1 DEF Linked
<1> QED BY <1>3, <1>4, <1>5, <1>6 DEF SubscriptionInv

-----------------------------------------------------------------------------
LEMMA SubscriptionStep == SubscriptionInv /\ [Next]_vars => SubscriptionInv'
<1> SUFFICES ASSUME SubscriptionInv, [Next]_vars PROVE SubscriptionInv'
  OBVIOUS
<1>1. CASE Connect \/ Close \/ Crash \/ terminate \/ terminateSleepOver \/ Start
  BY <1>1, ConnectHolds, CloseHolds, CrashHolds, TerminateHolds, TerminateSleepHolds, StartHolds
<1>2. CASE Receive \/ BrokerReceive \/ BrokerNotice
  BY <1>2, ReceiveHolds, BrokerReceiveHolds, BrokerNoticeHolds
<1>3. ASSUME NEW h \in Handlers, HandlerStep(h) \/ SleepOver(h) PROVE SubscriptionInv'
  BY <1>3, ClearResidentHolds, PublishOnlineHolds, OnlineChangeHolds, SleepOverHolds DEF HandlerStep
<1>4. ASSUME NEW f \in Filters, subscribe(f) \/ unsubscribe(f) PROVE SubscriptionInv'
  BY <1>4, SubscribeHolds
<1>5. ASSUME NEW t \in Topics, Announce(t) \/ Retract(t) PROVE SubscriptionInv'
  BY <1>5, AnnounceHolds
<1>6. CASE UNCHANGED vars
  <2>1. UNCHANGED <<proc, run, app, clean, late, up, down, connected, online, subscriptions, handler,
                    ending, queue, session, brokerSubs, retained>>
    BY <1>6 DEF vars, clientVars, brokerVars
  <2> QED BY <2>1 DEF SubscriptionInv, Flags, Typed, Linked, Sent
<1> QED BY <1>1, <1>2, <1>3, <1>4, <1>5, <1>6 DEF Next

LEMMA SubscriptionImplies == SubscriptionInv => SubscriptionsSound
<1> SUFFICES ASSUME SubscriptionInv PROVE SubscriptionsSound
  OBVIOUS
<1>0. Flags /\ Typed /\ Linked /\ Sent
  BY DEF SubscriptionInv
<1>1. TypeOK
  BY <1>0 DEF Flags, Typed, TypeOK, AllFilters
<1>2. OnlineMeansConnected
  BY <1>0 DEF Linked, OnlineMeansConnected
<1>3. SubscriptionsEffective
  <2>1. ASSUME online, up = <<>> PROVE brokerSubs = subscriptions
    <3>1. ASSUME NEW f \in AllFilters PROVE f \in brokerSubs <=> f \in subscriptions
      <4>1. Leads(<<>>, brokerSubs, subscriptions, f)
        BY <1>0, <2>1 DEF Sent
      <4>2. Len(<<>>) = 0
        BY EmptySeq
      <4> QED BY <4>1, <4>2 DEF Leads
    <3> QED BY <1>0, <3>1 DEF Typed
  <2> QED BY <2>1 DEF SubscriptionsEffective
<1> QED BY <1>1, <1>2, <1>3 DEF SubscriptionsSound

(* However calls of subscribe and unsubscribe, connections, connect        *)
(* functions that outlive their connection, terminate and crashes          *)
(* interleave, a client never believes itself online without a connection  *)
(* and, once the broker has read what it sent, is subscribed at the broker *)
(* to exactly its subscription set (client.ts): for any filters and        *)
(* topics, and any number of connections, runs and calls.                  *)
THEOREM SubscriptionsHold == Spec => []SubscriptionsSound
BY InitSubscribed, SubscriptionStep, SubscriptionImplies, PTL DEF Spec
=============================================================================
