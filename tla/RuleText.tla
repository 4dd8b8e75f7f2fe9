----------------------------- MODULE RuleText -----------------------------
(***************************************************************************)
(* What a rule that an operator writes means.  Its text is read by         *)
(* parse_rule of src/config.c (a rule of the file) or by json_to_fw_rule   *)
(* of src/mgmt.c (a rule of fw_ctl); a frame is read by classify_pkt of    *)
(* src/pipeline.c; and rule_match of src/rule_engine.c compares the two    *)
(* field by field, in place of the rte_acl rule of fw_rule_to_acl.         *)
(*                                                                         *)
(* RuleEngine takes the set of packets a rule matches as given; here it is *)
(* worked out.  The widths are parameters: Bits for addresses, PortMod for *)
(* 2^16, ByteMod for 2^8.  An address or a mask is the set of the bits     *)
(* that are 1 in it, bit 0 the least, and TCP flags are a set of names: &  *)
(* is an intersection, ~ a complement, << a translation.  A text is a      *)
(* record of the JSON fields that decide something; icmp_code is read and  *)
(* compared like icmp_type.                                                *)
(***************************************************************************)
EXTENDS Integers

CONSTANTS
  Texts,       \* rules an operator writes
  Frames,      \* frames that arrive
  Absent,      \* a field the text does not have
  Bad,         \* an address inet_pton refuses
  Refused,     \* the parser returns -1
  NoFrame,
  Bits, PortMod, ByteMod

VARIABLES
  text,
  parser,      \* who reads it
  rule,        \* struct fw_rule, or Refused
  frame,
  meta,        \* struct pkt_meta
  pc

vars == <<text, parser, rule, frame, meta, pc>>

Protos == {"tcp", "udp", "icmp"}
AnyProto == "0"
TcpFlags == {"FIN", "SYN", "RST", "PSH", "ACK", "URG"}
AnyIcmp == ByteMod - 1

Positions == 0 .. Bits - 1
Words == SUBSET Positions
Ports == 0 .. PortMod - 1

(* What the fields of a text hold: atoi and jansson give an int where a    *)
(* number is written.  A rate below zero is not modelled.                  *)
Maybe(S) == {Absent} \cup S
CidrText == [ip : {Bad} \cup Words, prefix : Maybe(Int)]
PortText == [number : BOOLEAN, lo : Maybe(Int), hi : Int]
Text ==
  [action : STRING, proto : Maybe(STRING), src : Maybe(CidrText), dst : Maybe(CidrText),
   sport : Maybe(PortText), dport : Maybe(PortText), flags : Maybe(SUBSET STRING),
   icmp : Maybe(Int), cir : Maybe(Nat)]

Frame ==
  [ipv4 : BOOLEAN, src : Words, dst : Words, proto : STRING, sport : Ports, dport : Ports,
   flags : SUBSET STRING, icmp : 0 .. ByteMod - 1]

(* struct fw_rule *)
Actions == {"accept", "drop", "rate_limit"}
Cidrs == [ip : Words, mask : Words]
PortRanges == [lo : Ports, hi : Ports]
Rule ==
  [action : Actions, proto : Protos \cup {AnyProto}, src : Cidrs, dst : Cidrs,
   sport : PortRanges, dport : PortRanges, flags : SUBSET TcpFlags,
   icmp : 0 .. ByteMod - 1, cir : Nat]

(* The names for what is no value are no values *)
ASSUME RuleTextAssumption ==
  /\ Bits \in Nat \ {0} /\ PortMod \in Nat \ {0} /\ ByteMod \in Nat \ {0}
  /\ Texts \subseteq Text /\ Frames \subseteq Frame
  /\ \A w \in Words : w # Bad
  /\ Absent \notin CidrText /\ Absent \notin PortText /\ Absent \notin Int
  /\ Refused \notin Rule /\ Refused \notin Cidrs /\ Refused \notin PortRanges /\ Refused \notin Int
  /\ Refused \notin Actions \cup Protos \cup {AnyProto}
  /\ \A f \in SUBSET TcpFlags : f # Refused

-----------------------------------------------------------------------------
(* The parsers                                                             *)

Prefixes == 0 .. Bits

(* (1u << n) - 1 *)
LowBits(n) == 0 .. n - 1

(* ~((1u << (32 - prefix)) - 1) in config.c *)
ConfigMask == [prefix \in Prefixes |-> IF prefix = 0 THEN {} ELSE Positions \ LowBits(Bits - prefix)]

MgmtMaskLow == [prefix \in Prefixes |-> LowBits(prefix)]

(* ~0u << (32 - prefix) in mgmt.c *)
MgmtMask ==
  [prefix \in Prefixes |->
     IF prefix = 0 THEN {} ELSE {b + Bits - prefix : b \in Positions} \cap Positions]

(* parse_cidr and parse_cidr_str: an address without a prefix is a host *)
Cidr(s, mask) ==
  IF s = Absent THEN [ip |-> {}, mask |-> {}]
  ELSE LET prefix == IF s.prefix = Absent THEN Bits ELSE s.prefix
       IN IF s.ip = Bad \/ prefix \notin Prefixes THEN Refused
          ELSE [ip |-> s.ip, mask |-> mask[prefix]]

AnyPort == [lo |-> 0, hi |-> PortMod - 1]

Unwrapped(n) == n
Uint16(n) == n % PortMod

Range16(lo, hi) ==
  IF Uint16(lo) > Uint16(hi) THEN Refused ELSE [lo |-> Uint16(lo), hi |-> Uint16(hi)]

(* A port that is a JSON number is not read.  parse_port_range of config.c *)
(* takes what is missing before a dash for 0, that of mgmt.c refuses it.   *)
ConfigPorts(p) ==
  IF p = Absent \/ p.number THEN AnyPort
  ELSE Range16(IF p.lo = Absent THEN 0 ELSE p.lo, p.hi)
MgmtPorts(p) ==
  IF p = Absent \/ p.number THEN AnyPort
  ELSE IF p.lo = Absent THEN Refused ELSE Range16(p.lo, p.hi)

(* An unknown protocol is any protocol in a file, and refused from fw_ctl *)
ConfigProto(p) == IF p \in Protos THEN p ELSE AnyProto
MgmtProto(p) ==
  IF p \in Protos THEN p ELSE IF p \in {Absent, "any"} THEN AnyProto ELSE Refused

ConfigFlags(f) == IF f = Absent THEN {} ELSE IF f \subseteq TcpFlags THEN f ELSE Refused
ConfigIcmp(n) == IF n = Absent THEN AnyIcmp ELSE n % ByteMod

Action(a) == IF a \in Actions THEN a ELSE Refused

(* cir_kbps in bytes per second *)
Cir(n) == IF n = Absent THEN 0 ELSE (n * 1000) \div 8

(* A rule one of whose fields is refused is refused, and so is a RATE_LIMIT *)
(* rule without a rate                                                     *)
RuleFrom(r) ==
  IF \/ \E f \in DOMAIN r : r[f] = Refused
     \/ (r.action = "rate_limit" /\ r.cir = 0)
  THEN Refused ELSE r

(* parse_rule *)
ConfigRule(t) ==
  RuleFrom([action |-> Action(t.action), proto |-> ConfigProto(t.proto),
            src |-> Cidr(t.src, ConfigMask), dst |-> Cidr(t.dst, ConfigMask),
            sport |-> ConfigPorts(t.sport), dport |-> ConfigPorts(t.dport),
            flags |-> ConfigFlags(t.flags), icmp |-> ConfigIcmp(t.icmp), cir |-> Cir(t.cir)])

(* json_to_fw_rule: tcp_flags and icmp_type are not read *)
MgmtRule(t) ==
  RuleFrom([action |-> Action(t.action), proto |-> MgmtProto(t.proto),
            src |-> Cidr(t.src, MgmtMask), dst |-> Cidr(t.dst, MgmtMask),
            sport |-> MgmtPorts(t.sport), dport |-> MgmtPorts(t.dport),
            flags |-> {}, icmp |-> AnyIcmp, cir |-> Cir(t.cir)])

-----------------------------------------------------------------------------
(* classify_pkt: what the header of the protocol does not have stays zero *)
Classified(f) ==
  LET ports == f.proto \in {"tcp", "udp"}
  IN [src |-> f.src, dst |-> f.dst, proto |-> f.proto,
      sport |-> IF ports THEN f.sport ELSE 0, dport |-> IF ports THEN f.dport ELSE 0,
      flags |-> IF f.proto = "tcp" THEN f.flags ELSE {},
      icmp |-> IF f.proto = "icmp" THEN f.icmp ELSE 0]

(* The conditions of the scan in rule_match *)
InCidr(ip, cidr) == cidr.mask # {} => ip \cap cidr.mask = cidr.ip \cap cidr.mask

InPortsBelow(port, ports) == ports.lo <= port /\ port < ports.hi
InPorts(port, ports) == ports.lo <= port /\ port <= ports.hi

Matches(r, m) ==
  /\ InCidr(m.src, r.src) /\ InCidr(m.dst, r.dst)
  /\ r.proto \in {AnyProto, m.proto}
  /\ r.flags \subseteq m.flags
  /\ InPorts(m.sport, r.sport) /\ InPorts(m.dport, r.dport)
  /\ r.icmp \in {AnyIcmp, m.icmp}

(* __builtin_ctz *)
TrailingZeros(mask) == CHOOSE z \in mask : \A b \in mask : z <= b

PrefixFromZeros(mask) == IF mask = {} THEN 0 ELSE TrailingZeros(mask)
MaskToPrefix(mask) == IF mask = {} THEN 0 ELSE Bits - TrailingZeros(mask)

(* fw_rule_to_acl: the fields of an rte_acl rule.  The flags and the ICMP  *)
(* type have none.                                                         *)
FwRuleToAcl(r) ==
  [src |-> [value |-> r.src.ip, prefix |-> MaskToPrefix(r.src.mask)],
   dst |-> [value |-> r.dst.ip, prefix |-> MaskToPrefix(r.dst.mask)],
   sport |-> r.sport, dport |-> r.dport,
   proto |-> IF r.proto = AnyProto THEN {} ELSE {r.proto}]

(* What rte_acl compares: MASK the leading bits, RANGE both ends, BITMASK  *)
(* nothing where the mask is 0                                             *)
LeadingBits(ip, prefix) == {b \in ip : b >= Bits - prefix}
AclMatches(acl, m) ==
  /\ LeadingBits(m.src, acl.src.prefix) = LeadingBits(acl.src.value, acl.src.prefix)
  /\ LeadingBits(m.dst, acl.dst.prefix) = LeadingBits(acl.dst.value, acl.dst.prefix)
  /\ acl.sport.lo <= m.sport /\ m.sport <= acl.sport.hi
  /\ acl.dport.lo <= m.dport /\ m.dport <= acl.dport.hi
  /\ acl.proto = {} \/ m.proto \in acl.proto

(* What rule_to_json and the table of fw_ctl show of a rule, as the text    *)
(* one would enter again ("any" is an option not given).  The table has no  *)
(* column for source ports, flags, ICMP and rates.                          *)
FmtCidr(cidr) == [ip |-> cidr.ip, prefix |-> MaskToPrefix(cidr.mask)]

PortsAsText(ports) == [number |-> FALSE, lo |-> ports.lo, hi |-> ports.hi]
FmtPortByMax(ports) == IF ports.hi = AnyPort.hi THEN Absent ELSE PortsAsText(ports)
FmtPort(ports) == IF ports = AnyPort THEN Absent ELSE PortsAsText(ports)

ProtoName(proto) == IF proto = AnyProto THEN "any" ELSE proto

Listed(r) ==
  [action |-> r.action, proto |-> ProtoName(r.proto), src |-> FmtCidr(r.src), dst |-> FmtCidr(r.dst),
   sport |-> Absent, dport |-> FmtPort(r.dport), flags |-> Absent, icmp |-> Absent, cir |-> Absent]

-----------------------------------------------------------------------------
Init ==
  /\ text \in Texts
  /\ parser \in {"config", "mgmt"}
  /\ rule = Refused
  /\ frame = NoFrame
  /\ meta = NoFrame
  /\ pc = "text"

Parse ==
  /\ pc = "text"
  /\ rule' = IF parser = "config" THEN ConfigRule(text) ELSE MgmtRule(text)
  /\ pc' = IF rule' = Refused THEN "refused" ELSE "rule"
  /\ UNCHANGED <<text, parser, frame, meta>>

(* A frame that is not IPv4 is forwarded without a look at the rules *)
Bridge ==
  /\ pc = "rule"
  /\ \E f \in Frames : ~f.ipv4 /\ frame' = f
  /\ pc' = "bridged"
  /\ UNCHANGED <<text, parser, rule, meta>>

Classify ==
  /\ pc = "rule"
  /\ \E f \in Frames : f.ipv4 /\ frame' = f /\ meta' = Classified(f)
  /\ pc' = IF Matches(rule, meta') THEN "match" ELSE "mismatch"
  /\ UNCHANGED <<text, parser, rule>>

Next == Parse \/ Bridge \/ Classify

Spec == Init /\ [][Next]_vars

-----------------------------------------------------------------------------
(* A rule that was accepted has ports of 16 bits and masks of leading ones *)
TypeOK ==
  rule # Refused =>
    /\ \A ports \in {rule.sport, rule.dport} : 0 <= ports.lo /\ ports.lo <= ports.hi /\ ports.hi < PortMod
    /\ \A cidr \in {rule.src, rule.dst} : \E p \in 0 .. Bits : cidr.mask = Bits - p .. Bits - 1
    /\ rule.action = "rate_limit" => rule.cir > 0

WellWrittenCidr(s) ==
  s = Absent \/ (s.ip # Bad /\ (s.prefix = Absent \/ s.prefix \in 0 .. Bits))

WellWrittenPorts(p, t) ==
  \/ p = Absent
  \/ /\ ~p.number /\ p.lo # Absent
     /\ 0 <= p.lo /\ p.lo <= p.hi /\ p.hi < PortMod
     /\ t.proto \in {"tcp", "udp"}

(* A rule as the README and the usage of fw_ctl want it: ports as text and *)
(* of a protocol that has ports, flags of TCP, a type of ICMP              *)
WellWritten(t) ==
  /\ t.action \in {"accept", "drop"} \/ (t.action = "rate_limit" /\ t.cir # Absent /\ t.cir > 0)
  /\ t.proto \in Protos \cup {Absent, "any"}
  /\ WellWrittenCidr(t.src) /\ WellWrittenCidr(t.dst)
  /\ WellWrittenPorts(t.sport, t) /\ WellWrittenPorts(t.dport, t)
  /\ t.flags = Absent \/ (t.flags \subseteq TcpFlags /\ t.proto = "tcp")
  /\ t.icmp = Absent \/ (t.icmp \in 0 .. ByteMod - 1 /\ t.proto = "icmp")

(* ... and without the fields fw_ctl has no option for *)
ForFwCtl(t) == t.flags = Absent /\ t.icmp = Absent

Readable == WellWritten(text) /\ (parser = "mgmt" => ForFwCtl(text))

(* What it says of a frame, one field after the other *)
SaysCidr(s, ip) ==
  s # Absent =>
    LET prefix == IF s.prefix = Absent THEN Bits ELSE s.prefix
    IN LeadingBits(ip, prefix) = LeadingBits(s.ip, prefix)

Says(t, f) ==
  /\ t.proto \in Protos => f.proto = t.proto
  /\ SaysCidr(t.src, f.src) /\ SaysCidr(t.dst, f.dst)
  /\ t.sport # Absent => f.sport \in t.sport.lo .. t.sport.hi
  /\ t.dport # Absent => f.dport \in t.dport.lo .. t.dport.hi
  /\ t.flags # Absent => t.flags \subseteq f.flags
  /\ t.icmp \notin {Absent, AnyIcmp} => f.icmp = t.icmp

(* A rule that is written well is accepted and matches exactly the frames  *)
(* it speaks of, through the parser, the classifier and the comparison,    *)
(* with their masks, byte orders and defaults                              *)
MatchAsWritten ==
  Readable =>
    /\ pc # "refused"
    /\ pc = "match" => Says(text, frame)
    /\ pc = "mismatch" => ~Says(text, frame)

(* The two parsers, written twice, make the same rule of a text that is    *)
(* written well and has no field that only the file may have               *)
ParsersAgree == WellWritten(text) /\ ForFwCtl(text) => ConfigRule(text) = MgmtRule(text)

(* The scan decides as the rte_acl rule would ("the semantics are those of *)
(* rte_acl", rule_match), for rules that rte_acl can express               *)
ScanIsAcl ==
  pc \in {"match", "mismatch"} /\ rule.flags = {} /\ rule.icmp = AnyIcmp =>
    (pc = "match" <=> AclMatches(FwRuleToAcl(rule), meta))

(* A rule that the list shows whole, entered again as it shows it, is the  *)
(* same rule                                                               *)
ListedIsTheRule ==
  rule # Refused /\ rule.sport = AnyPort /\ rule.flags = {} /\ rule.icmp = AnyIcmp /\ rule.cir = 0 =>
    MgmtRule(Listed(rule)) = rule
=============================================================================
