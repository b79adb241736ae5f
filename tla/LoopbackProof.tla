---------------------------- MODULE LoopbackProof ----------------------------
(***************************************************************************)
(* Proofs about the loopback driver, for any number of pings under way.    *)
(***************************************************************************)
EXTENDS Loopback, SequenceTheorems, TLAPS

(* Every packet that comes in on a device d comes from the remote host of  *)
(* d's network and is meant for the local one.                             *)
Crossing(n, kind, d) ==
  [dev |-> d, mac |-> Mac(d),
   ip |-> [id |-> n, kind |-> kind, saddr |-> Remote(d), daddr |-> Local(d)]]

Frames ==
  {Crossing(n, kind, d) : n \in Pings, kind \in {"request", "reply"},
                          d \in Devices}

(* A request comes in on the other device than the one it was sent on, and *)
(* its answer on that one; only the packets of a ping under way are there, *)
(* one for each.                                                           *)
FramesCross ==
  /\ \A k \in 1 .. Len(backlog) :
       \E n \in Pings :
         /\ ping[n] = "sent"
         /\ \/ backlog[k] = Crossing(n, "request", dest(answer[n][1]))
            \/ backlog[k] = Crossing(n, "reply", answer[n][1])
  /\ \A j, k \in 1 .. Len(backlog) :
       backlog[j].ip.id = backlog[k].ip.id => j = k

PingTypeOK ==
  /\ ping \in [Pings -> {"idle", "sent", "lost", "answered"}]
  /\ DOMAIN answer = Pings
  /\ \A n \in Pings : ping[n] # "idle" =>
       answer[n] \in Devices \X (Addresses \cup {Nothing})

(* The inductive invariant behind the properties of Loopback.              *)
LoopInv ==
  /\ up \subseteq registered /\ registered \subseteq Devices
  /\ ~ loaded => registered = {}
  /\ backlog \in Seq(Frames)
  /\ PingTypeOK
  /\ PingedAddressAnswers
  /\ FramesCross

-----------------------------------------------------------------------------
(* The copy that os_start_xmit makes of a packet, with toggled addresses.  *)
Copied(packet) ==
  [packet EXCEPT !.saddr = Toggled(@), !.daddr = Toggled(@)]

Packets == [id : Pings, kind : {"request", "reply"},
            saddr : Addresses, daddr : Addresses]

(* The copy of a packet differs from it in the two addresses only.         *)
LEMMA CopyOfPacket ==
  ASSUME NEW n \in Pings, NEW kind \in {"request", "reply"},
         NEW p \in Addresses, NEW q \in Addresses
  PROVE  Copied([id |-> n, kind |-> kind, saddr |-> p, daddr |-> q])
           = [id |-> n, kind |-> kind,
              saddr |-> Toggled(p), daddr |-> Toggled(q)]
<1> DEFINE packet == [id |-> n, kind |-> kind, saddr |-> p, daddr |-> q]
           copy == [packet EXCEPT !.saddr = Toggled(@), !.daddr = Toggled(@)]
           wanted == [id |-> n, kind |-> kind,
                      saddr |-> Toggled(p), daddr |-> Toggled(q)]
<1>1. Toggled(p) \in Addresses /\ Toggled(q) \in Addresses
  BY DEF Toggled, Addresses
<1>2. /\ copy \in Packets
      /\ copy.id = n /\ copy.kind = kind
      /\ copy.saddr = Toggled(p) /\ copy.daddr = Toggled(q)
  BY <1>1 DEF Packets
<1>3. /\ wanted \in Packets
      /\ wanted.id = n /\ wanted.kind = kind
      /\ wanted.saddr = Toggled(p) /\ wanted.daddr = Toggled(q)
  BY <1>1 DEF Packets
<1>4. \A x, y \in Packets :
        x.id = y.id /\ x.kind = y.kind /\ x.saddr = y.saddr /\ x.daddr = y.daddr
          => x = y
  BY DEF Packets
<1> HIDE DEF copy, wanted
<1>5. copy = wanted
  BY <1>2, <1>3, <1>4
<1> QED
  BY <1>5 DEF copy, wanted, Copied

(* The two devices: each is the other's other one, and the network of a    *)
(* device leads to it.                                                     *)
LEMMA TwoDevices ==
  ASSUME NEW d \in Devices
  PROVE  /\ dest(d) \in Devices
         /\ dest(dest(d)) = d
         /\ Route(Remote(d)) = d
         /\ Remote(d) \in Addresses /\ Local(d) \in Addresses
<1>1. dest(d) \in Devices /\ dest(dest(d)) = d
  BY DEF Devices, dest
<1>2. Remote(d) \in Addresses /\ Local(d) \in Addresses /\ Remote(d).net = Net(d)
  BY DEF Devices, Remote, Local, Addresses, Net
<1>3. \A e \in Devices : Net(e) = Net(d) <=> e = d
  BY DEF Devices, Net
<1>4. Route(Remote(d)) = d
  BY <1>2, <1>3 DEF Route
<1> QED
  BY <1>1, <1>2, <1>4

(* Removing the oldest packet.                                             *)
LEMMA TailOfBacklog ==
  ASSUME NEW S, NEW s \in Seq(S), s # <<>>
  PROVE  /\ Head(s) \in S /\ Head(s) = s[1] /\ 1 \in 1 .. Len(s)
         /\ Tail(s) \in Seq(S)
         /\ Len(Tail(s)) = Len(s) - 1 /\ Len(Tail(s)) \in Nat
         /\ \A k \in 1 .. Len(Tail(s)) :
              k + 1 \in 1 .. Len(s) /\ k + 1 # 1 /\ Tail(s)[k] = s[k + 1]
<1>1. Len(s) \in Nat /\ Len(s) # 0
  BY LenProperties, EmptySeq
<1> QED
  BY <1>1, HeadTailProperties

(* What is sent from the local to the remote host of d's network comes in  *)
(* on the other device from the remote to the local host of its network.   *)
LEMMA OneCrossing ==
  ASSUME NEW d \in Devices, NEW n \in Pings, NEW kind \in {"request", "reply"}
  PROVE  [dev |-> dest(d), mac |-> h_dest(d),
          ip |-> Copied([id |-> n, kind |-> kind,
                         saddr |-> Local(d), daddr |-> Remote(d)])]
           = Crossing(n, kind, dest(d))
<1>1. /\ Toggled(Local(d)) = Remote(dest(d))
      /\ Toggled(Remote(d)) = Local(dest(d))
      /\ h_dest(d) = Mac(dest(d))
  BY DEF Devices, Toggled, Local, Remote, dest, Net, Mac, h_dest
<1>2. Local(d) \in Addresses /\ Remote(d) \in Addresses
  BY TwoDevices
<1>3. Copied([id |-> n, kind |-> kind,
              saddr |-> Local(d), daddr |-> Remote(d)])
        = [id |-> n, kind |-> kind,
           saddr |-> Remote(dest(d)), daddr |-> Local(dest(d))]
  BY <1>1, <1>2, CopyOfPacket
<1> QED
  BY <1>1, <1>3 DEF Crossing

-----------------------------------------------------------------------------
(* The packet a host on d's network sends to the remote host of it.        *)
Packet(n, kind, d) ==
  [id |-> n, kind |-> kind, saddr |-> Local(d), daddr |-> Remote(d)]

(* A packet is sent on d from the local to the remote host of d's network, *)
(* and rest is the backlog without what it answers: it joins the backlog,  *)
(* or the ping is lost.                                                    *)
LEMMA XmitEffect ==
  ASSUME NEW d \in Devices, NEW n \in Pings, NEW kind \in {"request", "reply"},
         NEW rest,
         os_start_xmit(d, Packet(n, kind, d), rest)
  PROVE  \/ /\ backlog' = Append(rest, Crossing(n, kind, dest(d)))
            /\ ping' = [ping EXCEPT ![n] = "sent"]
         \/ /\ backlog' = rest
            /\ ping' = [ping EXCEPT ![n] = "lost"]
<1> DEFINE packet == Packet(n, kind, d)
<1>1. packet.id = n
  BY DEF Packet
<1>2. [dev |-> dest(d), mac |-> h_dest(d), ip |-> Copied(packet)]
        = Crossing(n, kind, dest(d))
  BY OneCrossing DEF Packet
<1>3. os_start_xmit(d, packet, rest)
  OBVIOUS
<1> HIDE DEF packet
<1> QED
  BY <1>1, <1>2, <1>3 DEF os_start_xmit, Copied

(* What a packet of the backlog says.                                      *)
LEMMA CrossingFields ==
  ASSUME NEW n, NEW kind, NEW d
  PROVE  /\ Crossing(n, kind, d).dev = d
         /\ Crossing(n, kind, d).mac = Mac(d)
         /\ Crossing(n, kind, d).ip.id = n
         /\ Crossing(n, kind, d).ip.kind = kind
         /\ Crossing(n, kind, d).ip.saddr = Remote(d)
         /\ Crossing(n, kind, d).ip.daddr = Local(d)
BY DEF Crossing

(* f is a packet of ping n, on its way out or back.                        *)
PacketOf(f, n) ==
  \/ f = Crossing(n, "request", dest(answer[n][1]))
  \/ f = Crossing(n, "reply", answer[n][1])

(* rest is a backlog of pings other than n.                                *)
Others(rest, n) ==
  /\ rest \in Seq(Frames)
  /\ \A k \in 1 .. Len(rest) :
       \E m \in Pings \ {n} : ping[m] = "sent" /\ PacketOf(rest[k], m)
  /\ \A j, k \in 1 .. Len(rest) : rest[j].ip.id = rest[k].ip.id => j = k

(* A packet names its ping.                                                *)
LEMMA PacketId ==
  ASSUME NEW f, NEW n, PacketOf(f, n)
  PROVE  f.ip.id = n
BY CrossingFields DEF PacketOf

(* A ping that is not under way has no packet in the backlog.              *)
LEMMA NotUnderWay ==
  ASSUME LoopInv, NEW n \in Pings, ping[n] # "sent"
  PROVE  Others(backlog, n)
BY DEF LoopInv, FramesCross, Others, PacketOf

(* The packet taken from the backlog is the only one of its ping.          *)
LEMMA TakenOff ==
  ASSUME LoopInv, backlog # <<>>
  PROVE  LET n == Head(backlog).ip.id
         IN  /\ n \in Pings
             /\ ping[n] = "sent"
             /\ PacketOf(Head(backlog), n)
             /\ Others(Tail(backlog), n)
             /\ Len(Tail(backlog)) = Len(backlog) - 1
             /\ Len(Tail(backlog)) \in Nat
<1> DEFINE f == Head(backlog)
           rest == Tail(backlog)
<1>1. backlog \in Seq(Frames)
  BY DEF LoopInv
<1>2. /\ f = backlog[1] /\ 1 \in 1 .. Len(backlog)
      /\ rest \in Seq(Frames)
      /\ Len(rest) = Len(backlog) - 1 /\ Len(rest) \in Nat
      /\ \A k \in 1 .. Len(rest) :
           k + 1 \in 1 .. Len(backlog) /\ k + 1 # 1 /\ rest[k] = backlog[k + 1]
  BY <1>1, TailOfBacklog
<1>3. \A k \in 1 .. Len(backlog) :
        \E n \in Pings : ping[n] = "sent" /\ PacketOf(backlog[k], n)
  BY DEF LoopInv, FramesCross, PacketOf
<1>4. PICK n \in Pings : ping[n] = "sent" /\ PacketOf(f, n)
  BY <1>2, <1>3
<1>5. f.ip.id = n
  BY <1>4, PacketId
<1>6. \A j, k \in 1 .. Len(backlog) :
        backlog[j].ip.id = backlog[k].ip.id => j = k
  BY DEF LoopInv, FramesCross
<1>7. Others(rest, n)
  <2>1. ASSUME NEW k \in 1 .. Len(rest)
        PROVE  \E m \in Pings \ {n} : ping[m] = "sent" /\ PacketOf(rest[k], m)
    <3>1. PICK m \in Pings : ping[m] = "sent" /\ PacketOf(rest[k], m)
      BY <1>2, <1>3
    <3>2. rest[k].ip.id = m
      BY <3>1, PacketId
    <3>3. m # n
      BY <1>2, <1>5, <1>6, <3>2
    <3> QED
      BY <3>1, <3>3
  <2>2. ASSUME NEW j \in 1 .. Len(rest), NEW k \in 1 .. Len(rest),
               rest[j].ip.id = rest[k].ip.id
        PROVE  j = k
    <3>1. j + 1 = k + 1
      BY <1>2, <1>6, <2>2
    <3> QED
      BY <1>2, <3>1
  <2> QED
    BY <1>2, <2>1, <2>2 DEF Others
<1> QED
  BY <1>2, <1>4, <1>5, <1>7

(* A ping has ended, its packet gone: the others are as they were.         *)
LEMMA CrossWithout ==
  ASSUME LoopInv, NEW n \in Pings, NEW rest, Others(rest, n), backlog' = rest,
         \A m \in Pings \ {n} : ping'[m] = ping[m] /\ answer'[m] = answer[m]
  PROVE  backlog' \in Seq(Frames) /\ FramesCross'
BY DEF Others, PacketOf, FramesCross

(* A ping has got a packet, the only one of it.                            *)
LEMMA CrossWith ==
  ASSUME LoopInv, NEW n \in Pings, NEW rest, NEW f \in Frames,
         Others(rest, n), backlog' = Append(rest, f),
         ping'[n] = "sent", PacketOf(f, n)',
         \A m \in Pings \ {n} : ping'[m] = ping[m] /\ answer'[m] = answer[m]
  PROVE  backlog' \in Seq(Frames) /\ FramesCross'
<1>1. rest \in Seq(Frames) /\ Len(rest) \in Nat
  BY LenProperties DEF Others
<1>2. /\ backlog' \in Seq(Frames)
      /\ Len(backlog') = Len(rest) + 1
      /\ \A k \in 1 .. Len(rest) : backlog'[k] = rest[k]
      /\ backlog'[Len(rest) + 1] = f
  BY <1>1, AppendProperties
<1>3. \A k \in 1 .. Len(rest) :
        \E m \in Pings \ {n} : ping'[m] = "sent" /\ PacketOf(rest[k], m)'
                               /\ rest[k].ip.id = m
  <2> SUFFICES ASSUME NEW k \in 1 .. Len(rest)
               PROVE  \E m \in Pings \ {n} : /\ ping'[m] = "sent"
                                            /\ PacketOf(rest[k], m)'
                                            /\ rest[k].ip.id = m
    OBVIOUS
  <2>1. PICK m \in Pings \ {n} : ping[m] = "sent" /\ PacketOf(rest[k], m)
    BY DEF Others
  <2>2. rest[k].ip.id = m
    BY <2>1, PacketId
  <2>3. PacketOf(rest[k], m)'
    BY <2>1 DEF PacketOf
  <2> QED
    BY <2>1, <2>2, <2>3
<1>4. f.ip.id = n
  BY CrossingFields DEF PacketOf
<1>5. \A k \in 1 .. Len(backlog') : k \in 1 .. Len(rest) \/ k = Len(rest) + 1
  BY <1>1, <1>2
<1>6. ASSUME NEW k \in 1 .. Len(backlog')
      PROVE  \E m \in Pings : ping'[m] = "sent" /\ PacketOf(backlog[k], m)'
  <2>1. CASE k \in 1 .. Len(rest)
    BY <1>2, <1>3, <2>1 DEF PacketOf
  <2>2. CASE k = Len(rest) + 1
    BY <1>2, <2>2 DEF PacketOf
  <2> QED
    BY <1>5, <2>1, <2>2
<1>7. ASSUME NEW j \in 1 .. Len(backlog'), NEW k \in 1 .. Len(backlog'),
             backlog'[j].ip.id = backlog'[k].ip.id
      PROVE  j = k
  <2>1. \A i \in 1 .. Len(rest) : backlog'[i].ip.id # n
    BY <1>2, <1>3
  <2>2. backlog'[Len(rest) + 1].ip.id = n
    BY <1>2, <1>4
  <2>3. \A i, l \in 1 .. Len(rest) : backlog'[i].ip.id = backlog'[l].ip.id => i = l
    BY <1>2 DEF Others
  <2> QED
    BY <1>5, <1>7, <2>1, <2>2, <2>3
<1> QED
  BY <1>2, <1>6, <1>7 DEF FramesCross, PacketOf

-----------------------------------------------------------------------------
(* The state of ping n and its answer once a packet of it has been handled. *)
LEMMA PingStep ==
  ASSUME LoopInv, NEW n \in Pings,
         NEW how \in {"sent", "lost", "answered"},
         ping' = [ping EXCEPT ![n] = how],
         DOMAIN answer' = Pings,
         \A m \in Pings \ {n} : answer'[m] = answer[m],
         answer'[n] \in Devices \X (Addresses \cup {Nothing}),
         how = "answered" => answer'[n][2] = Remote(answer'[n][1]),
         backlog' \in Seq(Frames), FramesCross',
         UNCHANGED modVars
  PROVE  LoopInv'
<1>1. PingTypeOK'
  BY DEF LoopInv, PingTypeOK
<1>2. PingedAddressAnswers'
  BY DEF LoopInv, PingTypeOK, PingedAddressAnswers
<1> QED
  BY <1>1, <1>2 DEF LoopInv, modVars

(* A packet of n is sent on d and the ping's answer is answer'.            *)
LEMMA XmitStep ==
  ASSUME LoopInv, NEW n \in Pings, NEW d \in Devices,
         NEW kind \in {"request", "reply"},
         NEW rest, Others(rest, n),
         os_start_xmit(d, Packet(n, kind, d), rest),
         DOMAIN answer' = Pings,
         \A m \in Pings \ {n} : answer'[m] = answer[m],
         answer'[n] \in Devices \X (Addresses \cup {Nothing}),
         PacketOf(Crossing(n, kind, dest(d)), n)',
         UNCHANGED modVars
  PROVE  LoopInv'
<1>1. /\ rest \in Seq(Frames) /\ Len(rest) \in Nat
      /\ ping \in [Pings -> {"idle", "sent", "lost", "answered"}]
  BY LenProperties DEF Others, LoopInv, PingTypeOK
<1>2. Crossing(n, kind, dest(d)) \in Frames
  BY TwoDevices DEF Frames
<1>3. CASE /\ backlog' = Append(rest, Crossing(n, kind, dest(d)))
           /\ ping' = [ping EXCEPT ![n] = "sent"]
  <2>1. ping'[n] = "sent" /\ \A m \in Pings \ {n} : ping'[m] = ping[m]
    BY <1>1, <1>3
  <2>2. backlog' \in Seq(Frames) /\ FramesCross'
    BY <1>2, <1>3, <2>1, CrossWith
  <2> QED
    BY <1>3, <2>2, PingStep
<1>4. CASE /\ backlog' = rest
           /\ ping' = [ping EXCEPT ![n] = "lost"]
  <2>1. \A m \in Pings \ {n} : ping'[m] = ping[m]
    BY <1>1, <1>4
  <2>2. backlog' \in Seq(Frames) /\ FramesCross'
    BY <1>4, <2>1, CrossWithout
  <2> QED
    BY <1>4, <2>2, PingStep
<1> QED
  BY <1>3, <1>4, XmitEffect

(* The stack sends a ping.                                                 *)
LEMMA SendPingInv ==
  ASSUME LoopInv, NEW n \in Pings, NEW d \in Devices, SendPing(n, d)
  PROVE  LoopInv'
<1>1. Others(backlog, n)
  BY NotUnderWay DEF SendPing
<1>3. /\ DOMAIN answer' = Pings
      /\ answer'[n] = <<d, Nothing>>
      /\ \A m \in Pings \ {n} : answer'[m] = answer[m]
  BY DEF SendPing, LoopInv, PingTypeOK
<1>4. PacketOf(Crossing(n, "request", dest(d)), n)'
  BY <1>3 DEF PacketOf
<1>5. os_start_xmit(d, Packet(n, "request", d), backlog)
      /\ UNCHANGED modVars
  BY DEF SendPing, Packet
<1>6. answer'[n] \in Devices \X (Addresses \cup {Nothing})
  BY <1>3
<1> QED
  BY <1>1, <1>3, <1>4, <1>5, <1>6, XmitStep

(* The stack takes a packet from the backlog.  That it is addressed to the *)
(* device it came in on is what the case of the ignored packet contradicts. *)
LEMMA ReceiveInv ==
  ASSUME LoopInv, Receive
  PROVE  LoopInv'
<1>0. backlog # <<>> /\ UNCHANGED modVars
  BY DEF Receive
<1> DEFINE f == Head(backlog)
           rest == Tail(backlog)
<1>1. PICK n \in Pings :
        /\ n = f.ip.id
        /\ ping[n] = "sent"
        /\ PacketOf(f, n)
        /\ Others(rest, n)
        /\ Len(rest) = Len(backlog) - 1
        /\ Len(rest) \in Nat
  BY <1>0, TakenOff
<1>2. /\ answer[n] \in Devices \X (Addresses \cup {Nothing})
      /\ DOMAIN answer = Pings
      /\ ping \in [Pings -> {"idle", "sent", "lost", "answered"}]
  BY <1>1 DEF LoopInv, PingTypeOK
<1>3. PICK d \in Devices, kind \in {"request", "reply"} :
        /\ f = Crossing(n, kind, d)
        /\ d = IF kind = "request" THEN dest(answer[n][1]) ELSE answer[n][1]
  BY <1>1, <1>2, TwoDevices DEF PacketOf
<1>4. /\ f.dev = d /\ f.mac = Mac(d) /\ f.ip.kind = kind
      /\ f.ip.saddr = Remote(d) /\ f.ip.daddr = Local(d)
  BY <1>3, CrossingFields
<1>5. Addressed(f)
  BY <1>4 DEF Addressed
<1>6. ASSUME NEW how \in {"lost", "answered"}, Ended(n, how),
             DOMAIN answer' = Pings,
             \A m \in Pings \ {n} : answer'[m] = answer[m],
             answer'[n] \in Devices \X (Addresses \cup {Nothing}),
             how = "answered" => answer'[n][2] = Remote(answer'[n][1])
      PROVE  LoopInv'
  <2>1. /\ backlog' = rest
        /\ ping' = [ping EXCEPT ![n] = how]
    BY <1>6 DEF Ended
  <2>2. \A m \in Pings \ {n} : ping'[m] = ping[m]
    BY <1>2, <2>1
  <2>3. backlog' \in Seq(Frames) /\ FramesCross'
    BY <1>1, <1>6, <2>1, <2>2, CrossWithout
  <2> QED
    BY <1>0, <1>6, <2>1, <2>3, PingStep
<1>7. CASE Ended(n, "lost") /\ UNCHANGED answer
  BY <1>2, <1>6, <1>7
<1>8. CASE /\ kind = "request"
           /\ os_start_xmit(d, Packet(n, "reply", d), rest)
           /\ UNCHANGED answer
  <2>1. dest(d) = answer[n][1]
    BY <1>2, <1>3, <1>8, TwoDevices
  <2>2. PacketOf(Crossing(n, "reply", dest(d)), n)'
    BY <1>8, <2>1 DEF PacketOf
  <2> QED
    BY <1>0, <1>1, <1>2, <1>8, <2>2, XmitStep
<1>9. CASE /\ kind = "reply"
           /\ Ended(n, "answered")
           /\ answer' = [answer EXCEPT ![n][2] = Remote(d)]
  <2>1. d = answer[n][1]
    BY <1>3, <1>9
  <2>2. answer'[n] = <<d, Remote(d)>>
    BY <1>2, <1>9, <2>1
  <2>3. Remote(d) \in Addresses
    BY TwoDevices
  <2> QED
    BY <1>2, <1>6, <1>9, <2>2, <2>3
<1>10. Route(f.ip.saddr) = d
  BY <1>4, TwoDevices
<1> QED
  BY <1>1, <1>4, <1>5, <1>7, <1>8, <1>9, <1>10 DEF Receive, Packet

-----------------------------------------------------------------------------
(* Nothing is loaded and nothing under way.                                *)
LEMMA LoopInit == Init => LoopInv
<1> SUFFICES ASSUME Init PROVE LoopInv
  OBVIOUS
<1>1. backlog = <<>> /\ backlog \in Seq(Frames) /\ Len(backlog) = 0
  BY DEF Init
<1>2. FramesCross
  BY <1>1 DEF FramesCross
<1>3. PingTypeOK /\ PingedAddressAnswers
  BY DEF Init, PingTypeOK, PingedAddressAnswers
<1> QED
  BY <1>1, <1>2, <1>3 DEF Init, LoopInv

(* Loading, unloading, opening and stopping touch no packet.               *)
LEMMA LoopStep == LoopInv /\ [Next]_vars => LoopInv'
<1> SUFFICES ASSUME LoopInv, [Next]_vars PROVE LoopInv'
  OBVIOUS
<1>1. CASE /\ UNCHANGED <<backlog, ping, answer>>
           /\ up' \subseteq registered' /\ registered' \subseteq Devices
           /\ ~ loaded' => registered' = {}
  BY <1>1 DEF LoopInv, PingTypeOK, PingedAddressAnswers, FramesCross
<1>2. CASE UNCHANGED vars
  BY <1>1, <1>2 DEF LoopInv, vars, modVars
<1>3. CASE init_mod
  BY <1>1, <1>3 DEF init_mod, LoopInv, modVars, Devices
<1>4. CASE exit_mod
  BY <1>1, <1>4 DEF exit_mod
<1>5. ASSUME NEW d \in Devices, os_open(d) \/ os_stop(d) PROVE LoopInv'
  BY <1>1, <1>5 DEF os_open, os_stop, LoopInv
<1>6. ASSUME NEW d \in Devices, NEW n \in Pings, SendPing(n, d) PROVE LoopInv'
  BY <1>6, SendPingInv
<1>7. CASE Receive
  BY <1>7, ReceiveInv
<1> QED
  BY <1>2, <1>3, <1>4, <1>5, <1>6, <1>7 DEF Next

(* The inductive invariant is an invariant.                                *)
THEOREM LoopInvariant == Spec => []LoopInv
BY LoopInit, LoopStep, PTL DEF Spec

(* The devices and packets have their types.                               *)
THEOREM TypeCorrect == Spec => []TypeOK
<1>1. ASSUME LoopInv PROVE TypeOK
  <2>1. \A k \in 1 .. Len(backlog) : backlog[k] \in Frames
    BY <1>1 DEF LoopInv
  <2>2. \A f \in Frames : /\ f.dev \in Devices
                          /\ f.ip.saddr \in Addresses
                          /\ f.ip.daddr \in Addresses
    BY CrossingFields, TwoDevices DEF Frames
  <2> QED
    BY <1>1, <2>1, <2>2 DEF LoopInv, TypeOK
<1> QED
  BY <1>1, LoopInvariant, PTL

(* The driver never delivers a packet the other side has to ignore, and    *)
(* the answer to a ping comes from the address that was pinged.            *)
THEOREM AnswersCorrect == Spec => []PingedAddressAnswers
<1>1. LoopInv => PingedAddressAnswers
  BY DEF LoopInv
<1> QED
  BY <1>1, LoopInvariant, PTL
=============================================================================
