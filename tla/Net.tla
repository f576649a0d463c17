-------------------------------- MODULE Net --------------------------------
(***************************************************************************)
(* The IPv4 stack of net/net.c: one ARP entry, a DHCP client that runs     *)
(* once, and ping.  Nothing here is driven by interrupts: whoever calls    *)
(* net_ping or net_status_run spins in a wait loop that drains the card    *)
(* (net_poll) and looks at the flags the handlers set.  A handler may call *)
(* ip_send, whose arp_resolve polls again, so wait loops nest: nest is the *)
(* C stack of the arp_resolve calls that are running, innermost last.      *)
(*                                                                         *)
(* A host stands for its IP address and for its MAC; a leased address is   *)
(* named by the server that leases it.  The wire may delay, repeat or lose *)
(* any frame: an answer to anything ever sent may arrive at any time, any  *)
(* number of times, or never.                                              *)
(***************************************************************************)
EXTENDS Naturals, SequencesExt

CONSTANTS Hosts,        \* addresses on the local network
          Gateway,      \* the router, one of Hosts
          Remote,       \* addresses behind the router
          Servers,      \* DHCP servers
          Bare,         \* those whose replies leave out option 54, their address
          Callers,      \* hosts and remote addresses that send unasked
          None,         \* the address 0
          Static,       \* 10.0.2.15, the fallback address
          RxSize,       \* bound: frames waiting in the card
          MaxArrivals,  \* bound: frames that arrive in a behaviour
          MaxCalls      \* bound: calls of net_ping and net_status_run

ASSUME NetAssumption ==
    /\ Gateway \in Hosts /\ Callers \subseteq Hosts \cup Remote /\ Bare \subseteq Servers
    /\ RxSize \in Nat \ {0} /\ MaxArrivals \in Nat /\ MaxCalls \in Nat
    /\ None \notin Hosts \cup Remote \cup Servers \cup {Static}
    /\ Hosts \cap Remote = {} /\ Static \notin Servers

VARIABLES
    addr,     \* ip_addr; configured is addr # None
    arp,      \* arp_ip, arp_mac, arp_ok
    dhcp,     \* dhcp_got, dhcp_yiaddr, dhcp_server
    ping,     \* ping_got, ping_want_seq (ping_seq is one more)
    job,      \* the top-level call: where it waits, and for which address
    nest,     \* the arp_resolve calls that are running, outermost first
    polling,  \* the innermost wait loop is inside net_poll
    inbox,    \* frames the card holds
    sent,     \* every frame sent so far
    arrivals, \* frames that arrived so far
    calls,    \* calls so far
    result,   \* what the last net_ping returned, with what it pinged
    heard     \* history: the sequence numbers whose reply was taken in

netVars == <<addr, arp, dhcp, ping, job, nest, polling, inbox, sent, arrivals,
             calls, result, heard>>
stack == <<job, nest, polling>>
world == <<arrivals, calls, heard>>

IPs == Hosts \cup Remote
NextHop(ip) == IF ip \in Hosts THEN ip ELSE Gateway

Frames == [t: {"arp_req", "arp_rep"}, from: Hosts]
     \cup [t: {"echo"}, from: IPs]
     \cup [t: {"echo_rep"}, seq: 1..MaxCalls]
     \cup [t: {"offer", "ack", "nak"}, srv: Servers]
     \cup [t: {"runt"}]

Sent == [t: {"who"}, ip: Hosts]
   \cup [t: {"is"}, to: Hosts]
   \cup [t: {"discover"}]
   \cup [t: {"request"}, ip: Servers, srv: Servers \cup {None}]
   \cup [t: {"ping"}, dst: IPs, mac: Hosts, seq: 1..MaxCalls]
   \cup [t: {"pong"}, dst: IPs, mac: Hosts]

\* A datagram ip_send holds while it resolves; NoOut: net_ping's own resolve.
NoOut == [t |-> "none"]
Outs == {NoOut} \cup [t: {"pong"}, dst: IPs]

NetTypeOK ==
    /\ addr \in Servers \cup {None, Static}
    /\ arp \in [ok: BOOLEAN, ip: Hosts \cup {None}, mac: Hosts \cup {None}]
    /\ dhcp \in [got: BOOLEAN, yi: Servers \cup {None}, srv: Servers \cup {None}]
    /\ ping \in [got: BOOLEAN, want: 0..MaxCalls]
    /\ job \in [at: {"idle", "disc1", "disc2", "req", "ping_arp", "ping_wait"},
                dst: IPs \cup {None}]
    /\ nest \in Seq([ip: Hosts, out: Outs]) /\ Len(nest) =< MaxArrivals + 1
    /\ polling \in BOOLEAN
    /\ inbox \in Seq(Frames) /\ Len(inbox) =< RxSize
    /\ sent \subseteq Sent
    /\ arrivals \in 0..MaxArrivals
    /\ calls \in 0..MaxCalls
    /\ result \in [ok: BOOLEAN, dst: IPs \cup {None}, seq: 0..MaxCalls]
    /\ heard \subseteq 1..MaxCalls

Idle == [at |-> "idle", dst |-> None]

NetInit ==
    /\ addr = None
    /\ arp = [ok |-> FALSE, ip |-> None, mac |-> None]
    /\ dhcp = [got |-> FALSE, yi |-> None, srv |-> None]
    /\ ping = [got |-> FALSE, want |-> 0]
    /\ job = Idle /\ nest = <<>> /\ polling = FALSE
    /\ inbox = <<>> /\ sent = {}
    /\ arrivals = 0 /\ calls = 0
    /\ result = [ok |-> FALSE, dst |-> None, seq |-> 0] /\ heard = {}

-----------------------------------------------------------------------------
(* What leaves: arp_send, dhcp_build, and the datagrams of ip_send          *)

Who(ip) == [t |-> "who", ip |-> ip]
Is(host) == [t |-> "is", to |-> host]
Ask == [t |-> "discover"]
Request(ip, srv) == [t |-> "request", ip |-> ip, srv |-> srv]
Echo(dst, mac, seq) == [t |-> "ping", dst |-> dst, mac |-> mac, seq |-> seq]
Pong(dst, mac) == [t |-> "pong", dst |-> dst, mac |-> mac]

-----------------------------------------------------------------------------
(* arp_resolve and net_ping                                                *)

Cached(hop) == arp.ok /\ arp.ip = hop

Resolve_KeepEntry(hop, out) ==    \* mutant: arp_ok not cleared
    /\ arp' = [arp EXCEPT !.ip = hop]
    /\ nest' = Append(nest, [ip |-> hop, out |-> out])
    /\ polling' = FALSE

\* arp_resolve misses: the entry is given up for the address now wanted, and
\* the wait loop starts.
Resolve(hop, out) ==
    /\ arp' = [arp EXCEPT !.ok = FALSE, !.ip = hop]
    /\ nest' = Append(nest, [ip |-> hop, out |-> out])
    /\ polling' = FALSE

\* The echo request leaves, the wait for its reply begins.  The arp_resolve
\* inside ip_send finds the entry net_ping has just resolved.
PingOut(dst, mac) ==
    LET seq == ping.want + 1 IN
    /\ ping' = [got |-> FALSE, want |-> seq]
    /\ sent' = sent \cup {Echo(dst, mac, seq)}
    /\ job' = [at |-> "ping_wait", dst |-> dst]
    /\ polling' = FALSE

PingFails == /\ result' = [ok |-> FALSE, dst |-> job.dst, seq |-> ping.want]
             /\ job' = Idle

\* net_ping once the interface is up; net_status_run asks for nothing more.
PingTo(dst) ==
    \/ /\ dst = None
       /\ job' = Idle /\ polling' = FALSE
       /\ UNCHANGED <<arp, ping, nest, sent>>
    \/ /\ dst # None /\ Cached(NextHop(dst))
       /\ PingOut(dst, arp.mac)
       /\ UNCHANGED <<arp, nest>>
    \/ /\ dst # None /\ ~Cached(NextHop(dst))
       /\ Resolve(NextHop(dst), NoOut)
       /\ job' = [at |-> "ping_arp", dst |-> dst]
       /\ UNCHANGED <<ping, sent>>

-----------------------------------------------------------------------------
(* dhcp_go                                                                 *)

Discover(stage, dst) ==
    /\ sent' = sent \cup {Ask}
    /\ job' = [at |-> stage, dst |-> dst]
    /\ polling' = FALSE

\* net_ping and net_status_run begin with net_ensure_up, which runs the DHCP
\* client when no address is set.
Call(dst) ==
    /\ job = Idle /\ calls < MaxCalls
    /\ calls' = calls + 1
    /\ IF addr # None
       THEN PingTo(dst) /\ UNCHANGED dhcp
       ELSE /\ dhcp' = [got |-> FALSE, yi |-> None, srv |-> None]
            /\ Discover("disc1", dst)
            /\ UNCHANGED <<arp, ping, nest>>
    /\ UNCHANGED <<addr, inbox, arrivals, result, heard>>

InDhcp == nest = <<>> /\ job.at \in {"disc1", "disc2", "req"} /\ ~polling
Answered == dhcp.got /\ dhcp.yi # None

\* dhcp_wait is satisfied: ask for the lease, or take it.
DhcpAnswer ==
    /\ InDhcp /\ Answered
    /\ IF job.at = "req"
       THEN /\ addr' = dhcp.yi
            /\ PingTo(job.dst)
            /\ UNCHANGED dhcp
       ELSE /\ sent' = sent \cup {Request(dhcp.yi, dhcp.srv)}
            /\ dhcp' = [dhcp EXCEPT !.got = FALSE]
            /\ job' = [job EXCEPT !.at = "req"]
            /\ UNCHANGED <<addr, arp, ping, nest, polling>>
    /\ UNCHANGED <<inbox, world, result>>

DhcpTimeout_Again ==              \* mutant: DISCOVER repeated without end
    /\ InDhcp /\ ~Answered
    /\ IF job.at # "req"
       THEN /\ Discover("disc2", job.dst)
            /\ dhcp' = [dhcp EXCEPT !.got = FALSE]
            /\ UNCHANGED <<addr, arp, ping, nest>>
       ELSE /\ addr' = Static
            /\ PingTo(job.dst)
            /\ UNCHANGED dhcp
    /\ UNCHANGED <<inbox, world, result>>

\* dhcp_wait gives up: one more DISCOVER, then the fixed address.
DhcpTimeout ==
    /\ InDhcp /\ ~Answered
    /\ IF job.at = "disc1"
       THEN /\ Discover("disc2", job.dst)
            /\ dhcp' = [dhcp EXCEPT !.got = FALSE]
            /\ UNCHANGED <<addr, arp, ping, nest>>
       ELSE /\ addr' = Static
            /\ PingTo(job.dst)
            /\ UNCHANGED dhcp
    /\ UNCHANGED <<inbox, world, result>>

-----------------------------------------------------------------------------
(* The wait loops                                                          *)

Top == nest[Len(nest)]
Spinning == job # Idle /\ ~polling

\* A turn of a loop whose condition does not hold yet: net_poll, after an ARP
\* request when arp_resolve finds its 300 ms are over.
Turn ==
    /\ Spinning /\ polling' = TRUE
    /\ \/ nest = <<>> /\ ~(InDhcp /\ Answered) /\ ~ping.got /\ UNCHANGED sent
       \/ /\ nest # <<>> /\ ~Cached(Top.ip)
          /\ \/ sent' = sent \cup {Who(Top.ip)}
             \/ UNCHANGED sent
    /\ UNCHANGED <<addr, arp, dhcp, ping, job, nest, inbox, world, result>>

\* The innermost arp_resolve sees its answer and returns to net_ping, or to
\* an ip_send called from a handler: that datagram leaves, and the net_poll
\* that called the handler goes on.
Resolved ==
    /\ Spinning /\ nest # <<>> /\ Cached(Top.ip)
    /\ nest' = Front(nest)
    /\ IF Top.out = NoOut
       THEN PingOut(job.dst, arp.mac)
       ELSE /\ sent' = sent \cup {Pong(Top.out.dst, arp.mac)}
            /\ polling' = TRUE
            /\ UNCHANGED <<ping, job>>
    /\ UNCHANGED <<addr, arp, dhcp, inbox, world, result>>

\* 400 ms went by: net_ping fails, or the datagram is dropped.
ResolveTimeout ==
    /\ Spinning /\ nest # <<>> /\ ~Cached(Top.ip)
    /\ nest' = Front(nest)
    /\ IF Top.out = NoOut
       THEN PingFails /\ UNCHANGED polling
       ELSE polling' = TRUE /\ UNCHANGED <<job, result>>
    /\ UNCHANGED <<addr, arp, dhcp, ping, inbox, sent, world>>

PingReply ==
    /\ Spinning /\ nest = <<>> /\ job.at = "ping_wait" /\ ping.got
    /\ result' = [ok |-> TRUE, dst |-> job.dst, seq |-> ping.want]
    /\ job' = Idle
    /\ UNCHANGED <<addr, arp, dhcp, ping, nest, polling, inbox, sent, world>>

PingTimeout ==
    /\ Spinning /\ nest = <<>> /\ job.at = "ping_wait" /\ ~ping.got
    /\ PingFails
    /\ UNCHANGED <<addr, arp, dhcp, ping, nest, polling, inbox, sent, world>>

-----------------------------------------------------------------------------
(* net_poll and the handlers                                               *)

ArpIn(f) ==
    \/ /\ f.t = "arp_req" /\ addr # None
       /\ sent' = sent \cup {Is(f.from)}
       /\ UNCHANGED arp
    \/ /\ f.t = "arp_req" /\ addr = None
       /\ UNCHANGED <<arp, sent>>
    \/ /\ f.t = "arp_rep"
       /\ arp' = [ok |-> TRUE, ip |-> f.from, mac |-> f.from]
       /\ UNCHANGED sent

\* An echo request is answered through ip_send, at once when the next hop is
\* the cached one.
EchoIn(f) ==
    LET hop == NextHop(f.from) IN
    /\ f.t = "echo"
    /\ \/ /\ addr = None
          /\ UNCHANGED <<arp, nest, polling, sent>>
       \/ /\ addr # None /\ Cached(hop)
          /\ sent' = sent \cup {Pong(f.from, arp.mac)}
          /\ UNCHANGED <<arp, nest, polling>>
       \/ /\ addr # None /\ ~Cached(hop)
          /\ Resolve(hop, [t |-> "pong", dst |-> f.from])
          /\ UNCHANGED sent

EchoReplyIn_Any(f) ==             \* mutant: sequence number not compared
    /\ f.t = "echo_rep"
    /\ ping' = [ping EXCEPT !.got = TRUE]
    /\ heard' = heard \cup {f.seq}

EchoReplyIn(f) ==
    /\ f.t = "echo_rep"
    /\ ping' = [ping EXCEPT !.got = @ \/ f.seq = ping.want]
    /\ heard' = heard \cup {f.seq}

DhcpOptions_First(f, d) ==        \* mutant: option 54 taken like siaddr
    [d EXCEPT !.got = @ \/ f.t # "nak",
              !.srv = IF f.srv \in Bare \/ @ # None THEN @ ELSE f.srv]

\* The options of a reply: its kind, and the server it comes from.
DhcpOptions(f, d) ==
    [d EXCEPT !.got = @ \/ f.t # "nak",
              !.srv = IF f.srv \in Bare THEN @ ELSE f.srv]

\* The address is taken from any reply, a refusal carries none; the server from
\* siaddr, which may be empty, as long as none is known.
DhcpIn(f) ==
    /\ f.t \in {"offer", "ack", "nak"}
    /\ \E siaddr \in {None, f.srv} :
          dhcp' = DhcpOptions(f, [dhcp EXCEPT
                      !.yi = IF f.t = "nak" THEN None ELSE f.srv,
                      !.srv = IF @ = None THEN siaddr ELSE @])

Poll ==
    /\ polling /\ inbox # <<>>
    /\ inbox' = Tail(inbox)
    /\ LET f == Head(inbox) IN
       \/ ArpIn(f) /\ UNCHANGED <<dhcp, ping, nest, polling, heard>>
       \/ EchoIn(f) /\ UNCHANGED <<dhcp, ping, heard>>
       \/ EchoReplyIn(f) /\ UNCHANGED <<arp, dhcp, nest, polling, sent>>
       \/ DhcpIn(f) /\ UNCHANGED <<arp, ping, nest, polling, sent, heard>>
       \/ /\ f.t = "runt" /\ polling' = FALSE
          /\ UNCHANGED <<arp, dhcp, ping, nest, sent, heard>>
    /\ UNCHANGED <<addr, job, arrivals, calls, result>>

PollDone ==
    /\ polling /\ inbox = <<>>
    /\ polling' = FALSE
    /\ UNCHANGED <<addr, arp, dhcp, ping, job, nest, inbox, sent, world, result>>

-----------------------------------------------------------------------------
(* The wire and the other machines (external)                              *)

Delivered(m) == m.mac = NextHop(m.dst)

\* Who answers a request: the server it names, else the one that leases the
\* address.
Asked(m) == IF m.srv = None THEN m.ip ELSE m.srv

Answers ==
    { [t |-> "arp_rep", from |-> m.ip] : m \in {x \in sent : x.t = "who"} }
    \cup { [t |-> "echo_rep", seq |-> m.seq] :
                m \in {x \in sent : x.t = "ping" /\ Delivered(x)} }
    \cup { [t |-> "offer", srv |-> s] :
                s \in {x \in Servers : Ask \in sent} }
    \cup { [t |-> k, srv |-> Asked(m)] :
                k \in {"ack", "nak"}, m \in {x \in sent : x.t = "request"} }

Unasked == [t: {"arp_req"}, from: Callers \cap Hosts]
           \cup [t: {"echo"}, from: Callers] \cup [t: {"runt"}]

Arrive ==
    /\ arrivals < MaxArrivals /\ Len(inbox) < RxSize
    /\ \E f \in Answers \cup Unasked : inbox' = Append(inbox, f)
    /\ arrivals' = arrivals + 1
    /\ UNCHANGED <<addr, arp, dhcp, ping, stack, sent, calls, result,
                   heard>>

-----------------------------------------------------------------------------
TimeOut == DhcpTimeout \/ ResolveTimeout \/ PingTimeout
Progress == Turn \/ Poll \/ PollDone \/ Resolved \/ PingReply \/ DhcpAnswer

NetNext == \/ \E dst \in IPs \cup {None} : Call(dst)
           \/ Progress \/ TimeOut \/ Arrive

\* The caller keeps running, and the clock it compares with keeps counting:
\* a loop that is asked over and over whether its time is up sees it is.
NetSpec == NetInit /\ [][NetNext]_netVars /\ WF_netVars(Progress) /\ SF_netVars(TimeOut)

-----------------------------------------------------------------------------
(* Properties                                                              *)

\* However wait loops nest and share the one ARP entry, every datagram leaves
\* for the MAC of the host it must go to next (arp_resolve, ip_send).
DatagramsReachNextHop ==
    \A m \in sent : m.t \in {"ping", "pong"} => m.mac = NextHop(m.dst)

\* A ping that is reported answered was answered: the reply to that request
\* came in, not the late reply to an earlier one (net_ping, icmp_in).
AnsweredIsHeard == result.ok => result.seq \in heard

\* DHCP asks for an address from the server that offered it, whatever replies
\* came late, repeated, refused or out of order, if that server names itself
\* (dhcp_go, udp_in).  The address of one that does not may be asked for from
\* another, whose name came earlier.  That the server agreed is not said: any
\* OFFER or ACK ends the last wait (net.c:563), a late OFFER too.
RequestNamesItsOffer ==
    \A m \in sent : m.t = "request" => m.ip = m.srv \/ m.ip \in Bare

\* Every call comes back, whatever is lost and however loops nest.
CallsEnd == (job # Idle) ~> (job = Idle)

\* Loops that nest keep within the pool of frames they hold, and their
\* datagrams go to the right machine (arp_resolve, ip_send).
ReachesNextHop == NetTypeOK /\ DatagramsReachNextHop

\* What comes in is taken for what it is: the reply to this ping, the offer of
\* the server that is then asked (icmp_in, udp_in).
RepliesMatch == AnsweredIsHeard /\ RequestNamesItsOffer
=============================================================================
