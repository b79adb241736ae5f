------------------------------ MODULE Loopback ------------------------------
(***************************************************************************)
(* The network driver of hw4_loopback: two devices, os0 and os1; what is   *)
(* sent on one is received on the other, with the network part of both     *)
(* addresses toggled, so that each side believes it talks to a remote      *)
(* host.                                                                   *)
(*                                                                         *)
(* The network stack is external: it sends pings, hands packets to         *)
(* os_start_xmit, keeps what netif_rx was given in a backlog, accepts what *)
(* is addressed to the device it came in on, and answers requests.         *)
(***************************************************************************)
EXTENDS Integers, Sequences, FiniteSets

CONSTANT Pings  \* pings that may be on their way at the same time

Devices == {"os0", "os1"}

(* The addresses of bringup.sh and /etc/hosts: the third octet and the     *)
(* host.                                                                   *)
Net(d) == IF d = "os0" THEN 0 ELSE 1
Local(d) == [net |-> Net(d), host |-> IF d = "os0" THEN 1 ELSE 2]
Remote(d) == [net |-> Net(d), host |-> IF d = "os0" THEN 2 ELSE 1]
Addresses == [net : {0, 1}, host : {1, 2}]
Route(addr) == CHOOSE d \in Devices : Net(d) = addr.net

VARIABLES
  loaded,      \* is the module loaded?
  registered,  \* the devices register_netdev has accepted
  up,          \* the devices whose queue is started
  backlog,     \* the packets given to netif_rx
  ping,        \* ping[n]: how ping n stands
  answer       \* answer[n]: <<device it was sent on, sender of the answer>>

modVars == <<loaded, registered, up>>
vars == <<modVars, backlog, ping, answer>>

Nothing == <<>>

Init ==
  /\ loaded = FALSE
  /\ registered = {}
  /\ up = {}
  /\ backlog = <<>>
  /\ ping = [n \in Pings |-> "idle"]
  /\ answer = [n \in Pings |-> Nothing]

-----------------------------------------------------------------------------
(* init_mod: without memory for the two devices loading fails.  When os0   *)
(* cannot be registered os1 is not tried, and either way the module stays. *)
init_mod ==
  /\ ~ loaded
  /\ \/ UNCHANGED modVars
     \/ /\ loaded' = TRUE
        /\ registered' \in {{}, {"os0"}, Devices}
        /\ UNCHANGED up
  /\ UNCHANGED <<backlog, ping, answer>>

(* exit_mod: unregistering a device closes it; packets that came in on it  *)
(* are not delivered any more.                                             *)
exit_mod ==
  /\ loaded
  /\ loaded' = FALSE
  /\ registered' = {}
  /\ up' = {}
  /\ UNCHANGED <<backlog, ping, answer>>

os_open(d) ==
  /\ d \in registered \ up
  /\ up' = up \cup {d}
  /\ UNCHANGED <<loaded, registered, backlog, ping, answer>>

os_stop(d) ==
  /\ d \in up
  /\ up' = up \ {d}
  /\ UNCHANGED <<loaded, registered, backlog, ping, answer>>

-----------------------------------------------------------------------------
(* "setup mac and broadcast addresses": all but the last octet are equal.  *)
Mac(d) == IF d = "os0" THEN 5 ELSE 6

(* os_create_header: "set the destination address to the other mac address"*)
(* Mutant: the address stays that of the sender.                           *)
h_dest_Own(d) == Mac(d)
h_dest(d) == IF Mac(d) = 5 THEN 6 ELSE 5

(* "toggle the third octet to switch the network"                          *)
(* Mutant: it is incremented.                                              *)
Toggled_Incremented(addr) == [addr EXCEPT !.net = @ + 1]
Toggled(addr) == [addr EXCEPT !.net = 1 - @]

(* "destination is the other device"                                       *)
dest(d) == IF d = "os0" THEN "os1" ELSE "os0"

(* os_create_header and os_start_xmit for one packet of the stack: a copy  *)
(* with toggled addresses goes to the other device; without memory for the *)
(* copy the packet is dropped.  (Its sk_buff is freed in the first case    *)
(* and never in the second: the memory is not part of this model.)  rest   *)
(* is the backlog before the call.                                         *)
os_start_xmit(d, packet, rest) ==
  LET id == packet.id
      copy == [packet EXCEPT !.saddr = Toggled(@), !.daddr = Toggled(@)]
      frame == [dev |-> dest(d), mac |-> h_dest(d), ip |-> copy]
  IN  \/ /\ backlog' = Append(rest, frame)
         /\ ping' = [ping EXCEPT ![id] = "sent"]
      \/ /\ backlog' = rest
         /\ ping' = [ping EXCEPT ![id] = "lost"]

-----------------------------------------------------------------------------
(* The stack sends a ping to the remote host of d's network.               *)
SendPing(n, d) ==
  /\ ping[n] \in {"idle", "lost", "answered"}
  /\ d \in up
  /\ answer' = [answer EXCEPT ![n] = <<d, Nothing>>]
  /\ os_start_xmit(d, [id |-> n, kind |-> "request",
                       saddr |-> Local(d), daddr |-> Remote(d)],
                   backlog)
  /\ UNCHANGED modVars

(* The stack takes a packet from the backlog: it ignores one that is not   *)
(* addressed to its device, answers a request, and takes an answer.        *)
Addressed(f) == f.mac = Mac(f.dev) /\ f.ip.daddr = Local(f.dev)

Ended(n, how) ==
  /\ backlog' = Tail(backlog)
  /\ ping' = [ping EXCEPT ![n] = how]

Receive ==
  LET f == Head(backlog)
      n == f.ip.id
      back == Route(f.ip.saddr)
  IN  /\ backlog # <<>>
      /\ \/ /\ f.dev \notin up
            /\ Ended(n, "lost")
            /\ UNCHANGED answer
         \/ /\ f.dev \in up
            /\ ~ Addressed(f)
            /\ Ended(n, "ignored")
            /\ UNCHANGED answer
         \/ /\ f.dev \in up
            /\ Addressed(f)
            /\ f.ip.kind = "request"
            /\ IF back \in up
               THEN os_start_xmit(back, [id |-> n, kind |-> "reply",
                                         saddr |-> f.ip.daddr,
                                         daddr |-> f.ip.saddr],
                                  Tail(backlog))
               ELSE Ended(n, "lost")
            /\ UNCHANGED answer
         \/ /\ f.dev \in up
            /\ Addressed(f)
            /\ f.ip.kind = "reply"
            /\ Ended(n, "answered")
            /\ answer' = [answer EXCEPT ![n][2] = f.ip.saddr]
      /\ UNCHANGED modVars

Next ==
  \/ init_mod
  \/ exit_mod
  \/ \E d \in Devices :
       \/ os_open(d)
       \/ os_stop(d)
       \/ \E n \in Pings : SendPing(n, d)
  \/ Receive

Spec == Init /\ [][Next]_vars

-----------------------------------------------------------------------------
TypeOK ==
  /\ up \subseteq registered /\ registered \subseteq Devices
  /\ \A k \in 1 .. Len(backlog) :
       /\ backlog[k].dev \in Devices
       /\ backlog[k].ip.saddr \in Addresses
       /\ backlog[k].ip.daddr \in Addresses

(* The driver never delivers a packet the other side has to ignore: after  *)
(* one crossing, and after two, the frame is addressed to the device and   *)
(* the packet to the host it comes in on; and the answer to a ping comes   *)
(* from the very address that was pinged, which no host has (README:       *)
(* "This creates the illusion that `local0` is talking to `remote0` when   *)
(* in reality it is talking to `local1`").                                 *)
PingedAddressAnswers ==
  \A n \in Pings :
    /\ ping[n] # "ignored"
    /\ ping[n] = "answered" => answer[n][2] = Remote(answer[n][1])
=============================================================================
