---------------------------- MODULE MCRuleText ----------------------------
(* Texts and frames for the runs of RuleText: every protocol with every    *)
(* two other fields                                                        *)
EXTENDS RuleText

Plain(proto) ==
  [action |-> "accept", proto |-> proto, src |-> Absent, dst |-> Absent, sport |-> Absent,
   dport |-> Absent, flags |-> Absent, icmp |-> Absent, cir |-> Absent]

At(ip, prefix) == [ip |-> ip, prefix |-> prefix]
Range(lo, hi) == [number |-> FALSE, lo |-> lo, hi |-> hi]
Port(n) == [number |-> TRUE, lo |-> n, hi |-> n]

Values ==
  [action |-> {"drop", "rate_limit", "deny"},
   src |-> {At({0}, Absent), At({1, 2}, 1), At({0, 2}, 2), At({0}, 0), At({}, 4), At(Bad, Absent)},
   dst |-> {At({1, 2}, 2), At({}, Absent)},
   sport |-> {Range(1, 2), Range(2, 4)},
   dport |-> {Range(2, 2), Range(1, 3), Range(0, 4), Range(Absent, 2), Port(2)},
   flags |-> {{"SYN"}, {"SYN", "ACK"}, {"SYN", "???"}},
   icmp |-> {0, 1},
   cir |-> {0, 8}]

Fields == DOMAIN Values

MCTexts ==
  UNION {{[Plain(p) EXCEPT ![f] = x, ![g] = y] : x \in Values[f], y \in Values[g]} :
           p \in {Absent, "any", "tcp", "udp", "icmp", "gre"}, f, g \in Fields}

FrameOf(ipv4, src, dst, proto, sport, dport, flags, icmp) ==
  [ipv4 |-> ipv4, src |-> src, dst |-> dst, proto |-> proto, sport |-> sport,
   dport |-> dport, flags |-> flags, icmp |-> icmp]

Srcs == {{}, {0}, {2}, {0, 2}, {1, 2}}
Dsts == {{}, {1, 2}}

MCFrames ==
  {FrameOf(FALSE, {}, {}, "none", 0, 0, {}, 0)}
  \cup {FrameOf(TRUE, s, d, "tcp", 1, p, fl, 0) : s \in Srcs, d \in Dsts, p \in 0 .. 3, fl \in {{}, {"SYN"}, {"SYN", "ACK"}}}
  \cup {FrameOf(TRUE, s, d, "udp", q, p, {}, 0) : s \in Srcs, d \in Dsts, p \in 0 .. 3, q \in {2, 3}}
  \cup {FrameOf(TRUE, s, d, "icmp", 0, 0, {}, t) : s \in Srcs, d \in Dsts, t \in 0 .. 1}
  \cup {FrameOf(TRUE, s, d, "esp", 0, 0, {}, 0) : s \in Srcs, d \in Dsts}
=============================================================================
