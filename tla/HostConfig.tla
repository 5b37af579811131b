----------------------------- MODULE HostConfig ------------------------------
(***************************************************************************)
(* The decisions the Python supervisor takes before it touches the host:   *)
(* which command lines tools/tcpcc_cli.py accepts, and which hosts         *)
(* collect_preflight of tools/tcpcc_host.py lets it start on.  All of it   *)
(* is pure, so it is stated as operators; HostedRuntime applies them.      *)
(*                                                                         *)
(* An address is a record of its IP version (0 for text that is no         *)
(* literal address), its kind and an identity.  An option is the class of  *)
(* values its validator tells apart.                                       *)
(***************************************************************************)
EXTENDS Integers

CONSTANTS
  None,                   \* Python's None
  SESSION_LIMIT           \* BRIDGE_SESSION_LIMIT

Addr(v, kind, id) == [v |-> v, kind |-> kind, id |-> id]

Addresses ==
  {Addr(v, "unicast", i) : v \in {4, 6}, i \in {1, 2, 3}}
    \cup {Addr(v, k, 0) : v \in {4, 6}, k \in {"unspecified", "multicast"}}
    \cup {Addr(4, "broadcast", 0), Addr(0, "text", 0)}

Ports == {0, 1, 65535, 65536}

\* DEFAULT_TUN_HOST_ADDRESS, DEFAULT_TUN_GUEST_ADDRESS and their IPv6 forms.
DefaultHost(v) == Addr(v, "unicast", 1)
DefaultGuest(v) == Addr(v, "unicast", 2)

\* The command lines considered: every combination of addresses under the
\* default options, and options at and just past the limits of each.
DefaultNet(v) ==
  [listen |-> Addr(v, "unicast", 3), port |-> 1, host |-> None, guest |-> None]

NetChoices ==
  [listen : Addresses, port : Ports, host : Addresses \cup {None},
   guest : Addresses \cup {None}]

DefaultOpt ==
  [firewall |-> "nft-lib", variant |-> "iptables", kernel |-> "et_exec",
   backend |-> "loopback", memory |-> 128, cc |-> "name", tunName |-> None,
   backlog |-> 128, max |-> 0, grace |-> 5]

\* validate_kernel_image: what it tells apart, in the order of its tests, and
\* what it takes, an x86-64 ET_EXEC image without an interpreter.
KernelDefects ==
  {"missing", "irregular", "unexecutable", "truncated", "not_elf", "not_64_lsb",
   "not_et_exec", "no_entry", "bad_table", "truncated_table", "interpreter"}

\* Options at and past each limit.
OptChoices ==
  {[DefaultOpt EXCEPT !.firewall = f, !.variant = t] :
     f \in {"nft-lib", "nft-exec", "iptables"},
     t \in {"iptables", "iptables-nft"}}
    \cup {[DefaultOpt EXCEPT !.kernel = k, !.cc = c] :
             k \in KernelDefects \cup {"et_exec"},
             c \in {"name", "malformed"}}
    \cup {[DefaultOpt EXCEPT !.backend = b, !.tunName = t] :
             b \in {"loopback", "other"}, t \in {None, "name", "malformed"}}
    \cup {[DefaultOpt EXCEPT !.memory = m, !.backlog = b] :
             m \in {127, 128}, b \in {0, 1, 4096, 4097}}
    \cup {[DefaultOpt EXCEPT !.max = m, !.grace = g] :
             m \in {-1, 0, 1, SESSION_LIMIT, SESSION_LIMIT + 1},
             g \in {-1, 0, 5, 300, 301}}

-----------------------------------------------------------------------------
(* The command line *)

\* The test Endpoint.parse and _ip_argument share.
UsableLiteral(a) == a.v # 0 /\ a.kind = "unicast"

\* Endpoint.parse of --listen; the bracket syntax gives the version.
ParseEndpoint(a, port) == UsableLiteral(a) /\ port \in 1..65535

\* _ip_argument of --tun-host-address and --tun-guest-address.
ParseTunAddress(a) == a = None \/ UsableLiteral(a)

\* ServiceConfig.__post_init__ fills an omitted address by the family of the
\* listener.
ResolvedHost(net) ==
  IF net.host = None THEN DefaultHost(net.listen.v) ELSE net.host
ResolvedGuest(net) ==
  IF net.guest = None THEN DefaultGuest(net.listen.v) ELSE net.guest

\* validate_kernel_image.
ValidateKernelImage(kernel) == kernel \notin KernelDefects

\* config_from_namespace.
NamespaceAccepts(net, opt) ==
  /\ opt.firewall = "iptables" \/ opt.variant = "iptables"
  /\ ~(net.host # None /\ net.host = net.guest)
  /\ ValidateKernelImage(opt.kernel)

\* The rest of ServiceConfig.__post_init__.
ServiceConfigAccepts(net, opt) ==
  LET h == ResolvedHost(net)
      g == ResolvedGuest(net) IN
  /\ opt.backend = "loopback"
  /\ h.v = net.listen.v /\ g.v = net.listen.v
  /\ h # g
  /\ {h.kind, g.kind} \cap {"unspecified", "multicast"} = {}
  /\ opt.memory >= 128
  /\ opt.cc = "name"
  /\ opt.backlog \in 1..4096
  /\ opt.max \in 0..SESSION_LIMIT
  /\ opt.grace \in 0..300

\* TunConfig: the addresses once more, and the name.  The MTU is the default.
TunConfigAccepts(h, g, name) ==
  /\ h.v = g.v
  /\ {h.kind, g.kind} \cap {"unspecified", "multicast"} = {}
  /\ h # g
  /\ name \in {None, "name"}

\* NftDnatConfig: the listener is steered to a target of its family that is
\* not the listener itself; both ports are the listener's.
NftDnatConfigAccepts(listen, port, target) ==
  /\ {listen.kind, target.kind} \cap {"unspecified", "multicast"} = {}
  /\ port \in 1..65535
  /\ listen.v = target.v
  /\ listen # target

\* host_network_config and HostNetworkConfig, whose DNAT target is the guest.
HostNetworkConfigAccepts(net, opt) ==
  /\ opt.cc = "name"
  /\ TunConfigAccepts(ResolvedHost(net), ResolvedGuest(net), opt.tunName)
  /\ NftDnatConfigAccepts(net.listen, net.port, ResolvedGuest(net))

\* argparse, config_from_namespace and the head of run_service, in their order.
Accepts(net, opt) ==
  /\ ParseEndpoint(net.listen, net.port)
  /\ ParseTunAddress(net.host)
  /\ ParseTunAddress(net.guest)
  /\ NamespaceAccepts(net, opt)
  /\ ServiceConfigAccepts(net, opt)
  /\ HostNetworkConfigAccepts(net, opt)

\* encode_l3_config and encode_ip_endpoint, run after the host has changed: the
\* guest address and port they accept.
Encodable(net) ==
  LET g == ResolvedGuest(net) IN
  /\ g.v \in {4, 6}
  /\ g.kind \notin {"unspecified", "multicast"}
  /\ net.port \in 1..65535

\* The reference: what a command line has to satisfy for the ingress path to
\* make sense, whatever the order of the checks.
Sensible(net, opt) ==
  LET h == ResolvedHost(net)
      g == ResolvedGuest(net) IN
  /\ \A a \in {net.listen, h, g} : a.v = net.listen.v /\ a.kind = "unicast"
  /\ net.listen.v \in {4, 6}
  /\ g \notin {h, net.listen}
  /\ net.port \in 1..65535
  /\ opt.firewall # "iptables" => opt.variant = "iptables"
  /\ opt.kernel = "et_exec" /\ opt.backend = "loopback" /\ opt.cc = "name"
  /\ opt.tunName # "malformed"
  /\ opt.memory >= 128 /\ opt.backlog \in 1..4096
  /\ opt.max \in 0..SESSION_LIMIT /\ opt.grace \in 0..300

-----------------------------------------------------------------------------
(* The host *)

\* iptables_paths: the three commands of a variant, ip6tables under IPv6.
IptablesPaths(variant, v) ==
  {<<variant, v, c>> : c \in {"", "-restore", "-save"}}

\* Prerequisites that are no iptables command, in the same shape.
Plain(S) == {<<c, 0, "">> : c \in S}

Prerequisites ==
  Plain({"cap.net_admin", "device.tun", "ip", "nft", "libnftables",
         "forward4", "forward6", "rp_filter.all", "rp_filter.default"})
    \cup UNION {IptablesPaths(t, v) : t \in {"iptables", "iptables-nft"},
                                      v \in {4, 6}}

\* collect_preflight: the commands or the library a backend needs.
FirewallChecks(opt, v) ==
  CASE opt.firewall = "nft-exec" -> Plain({"nft"})
    [] opt.firewall = "nft-lib"  -> Plain({"libnftables"})
    [] opt.firewall = "iptables" -> IptablesPaths(opt.variant, v)

\* Slip: the IPv4 commands are looked up for an IPv6 listener too.
RequiredChecksV4(opt, v) ==
  Plain({"cap.net_admin", "device.tun", "ip"}) \cup FirewallChecks(opt, 4)
    \cup Plain({IF v = 4 THEN "forward4" ELSE "forward6"})

RequiredChecks(opt, v) ==
  Plain({"cap.net_admin", "device.tun", "ip"}) \cup FirewallChecks(opt, v)
    \cup Plain({IF v = 4 THEN "forward4" ELSE "forward6"})

AdvisoryChecks(v) ==
  IF v = 4 THEN Plain({"rp_filter.all", "rp_filter.default"}) ELSE {}

\* _check: the status of one check on a host where `have' is in order.  A
\* value that cannot be read or parsed counts as not in order.
CheckStatus(check, severity, have) ==
  IF check \in have THEN "pass"
  ELSE IF severity = "advisory" THEN "warn" ELSE "fail"

\* PreflightReport.ok.
PreflightOk(opt, v, have) ==
  {CheckStatus(c, "required", have) : c \in RequiredChecks(opt, v)}
    \cup {CheckStatus(c, "advisory", have) : c \in AdvisoryChecks(v)}
    \subseteq {"pass", "warn"}

\* The reference: what the commands of the lease and the steered traffic then
\* really use.  The iptables scan saves, the install restores.
Uses(opt, v) ==
  Plain({"cap.net_admin", "device.tun", "ip",
         IF v = 6 THEN "forward6" ELSE "forward4"})
    \cup (IF opt.firewall = "iptables"
            THEN {<<opt.variant, v, "">>, <<opt.variant, v, "-restore">>,
                  <<opt.variant, v, "-save">>}
            ELSE Plain({IF opt.firewall = "nft-lib" THEN "libnftables"
                                                    ELSE "nft"}))
==============================================================================
