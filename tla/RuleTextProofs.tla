-------------------------- MODULE RuleTextProofs --------------------------
(***************************************************************************)
(* What is proved of RuleText: what a parser accepts is well formed, the   *)
(* two parsers agree, and a rule matches the frames its text speaks of,    *)
(* for every width of addresses, ports and bytes.                          *)
(***************************************************************************)
EXTENDS RuleText, TLAPS

-----------------------------------------------------------------------------
(* Masks *)

(* The mask of a prefix: as many leading ones *)
Leading(p) == Bits - p .. Bits - 1

LEMMA ConfigMaskIs ==
  ASSUME NEW p \in Prefixes
  PROVE  ConfigMask[p] = Leading(p)
<1>1. Positions \ LowBits(Bits - p) = Bits - p .. Bits - 1
  BY RuleTextAssumption DEF Positions, LowBits, Prefixes
<1>2. p = 0 => Leading(p) = {}
  BY RuleTextAssumption DEF Leading
<1>. QED BY <1>1, <1>2 DEF ConfigMask, Leading

LEMMA MgmtMaskIs ==
  ASSUME NEW p \in Prefixes
  PROVE  MgmtMask[p] = Leading(p)
<1>1. {b + Bits - p : b \in Positions} \cap Positions = Bits - p .. Bits - 1
  <2>1. ASSUME NEW n \in Bits - p .. Bits - 1
        PROVE  n \in {b + Bits - p : b \in Positions}
    <3>1. n - (Bits - p) \in Positions /\ n = (n - (Bits - p)) + Bits - p
      BY RuleTextAssumption DEF Positions, Prefixes
    <3>. QED BY <3>1
  <2>2. \A b \in Positions : b + Bits - p \in Positions => b + Bits - p \in Bits - p .. Bits - 1
    BY RuleTextAssumption DEF Positions, Prefixes
  <2>3. Bits - p .. Bits - 1 \subseteq Positions
    BY RuleTextAssumption DEF Positions, Prefixes
  <2>. QED BY <2>1, <2>2, <2>3
<1>2. p = 0 => Leading(p) = {}
  BY RuleTextAssumption DEF Leading
<1>. QED BY <1>1, <1>2 DEF MgmtMask, Leading

LEMMA LeadingIsAWord ==
  ASSUME NEW p \in Prefixes
  PROVE  Leading(p) \in Words
BY RuleTextAssumption DEF Leading, Prefixes, Words, Positions

(* ctz of a mask of p leading ones is 32 - p *)
LEMMA PrefixOfMask ==
  ASSUME NEW p \in Prefixes
  PROVE  MaskToPrefix(Leading(p)) = p
<1>1. CASE p = 0
  <2>1. Leading(p) = {} BY <1>1, RuleTextAssumption DEF Leading
  <2>. QED BY <1>1, <2>1 DEF MaskToPrefix
<1>2. CASE p # 0
  <2>1. Bits - p \in Leading(p) /\ \A b \in Leading(p) : b \in Int /\ Bits - p <= b
    BY <1>2, RuleTextAssumption DEF Leading, Prefixes
  <2>2. TrailingZeros(Leading(p)) \in Leading(p) /\ \A b \in Leading(p) : TrailingZeros(Leading(p)) <= b
    BY <2>1 DEF TrailingZeros
  <2>3. TrailingZeros(Leading(p)) = Bits - p
    BY <2>1, <2>2, RuleTextAssumption DEF Prefixes
  <2>4. Leading(p) # {} BY <2>1
  <2>. QED BY <2>3, <2>4, RuleTextAssumption DEF MaskToPrefix, Prefixes
<1>. QED BY <1>1, <1>2

(* The comparison of the scan under a mask is the one of rte_acl *)
LEMMA MaskComparesPrefix ==
  ASSUME NEW p \in Prefixes, NEW a \in Words, NEW b \in Words
  PROVE  InCidr(a, [ip |-> b, mask |-> Leading(p)]) <=> LeadingBits(a, p) = LeadingBits(b, p)
<1>1. ASSUME NEW w \in Words PROVE w \cap Leading(p) = LeadingBits(w, p)
  <2>1. \A n \in w : n \in Leading(p) <=> n >= Bits - p
    BY RuleTextAssumption DEF Leading, Words, Positions, Prefixes
  <2>. QED BY <2>1 DEF LeadingBits
<1>. QED BY <1>1 DEF InCidr

-----------------------------------------------------------------------------
(* What the parsers of the fields answer *)

(* A CIDR that has a prefix *)
Masked(cidr) == cidr \in Cidrs /\ \E p \in Prefixes : cidr.mask = Leading(p)

LEMMA CidrTyped ==
  ASSUME NEW s \in Maybe(CidrText)
  PROVE  /\ Cidr(s, ConfigMask) = Cidr(s, MgmtMask)
         /\ Cidr(s, ConfigMask) = Refused \/ Masked(Cidr(s, ConfigMask))
<1>1. CASE s = Absent
  <2>1. Cidr(s, ConfigMask) = [ip |-> {}, mask |-> {}] /\ Cidr(s, MgmtMask) = [ip |-> {}, mask |-> {}]
    BY <1>1 DEF Cidr
  <2>2. 0 \in Prefixes /\ Leading(0) = {} /\ {} \in Words
    BY RuleTextAssumption DEF Prefixes, Leading, Words
  <2>. QED BY <2>1, <2>2 DEF Masked, Cidrs
<1>2. CASE s # Absent
  <2>. DEFINE q == IF s.prefix = Absent THEN Bits ELSE s.prefix
  <2>1. s \in CidrText BY <1>2 DEF Maybe
  <2>2. CASE s.ip = Bad \/ q \notin Prefixes
    BY <1>2, <2>2 DEF Cidr
  <2>3. CASE s.ip # Bad /\ q \in Prefixes
    <3>1. Cidr(s, ConfigMask) = [ip |-> s.ip, mask |-> Leading(q)] /\ Cidr(s, MgmtMask) = [ip |-> s.ip, mask |-> Leading(q)]
      BY <1>2, <2>3, ConfigMaskIs, MgmtMaskIs DEF Cidr
    <3>2. s.ip \in Words BY <2>1, <2>3 DEF CidrText
    <3>. QED BY <2>3, <3>1, <3>2, LeadingIsAWord DEF Masked, Cidrs
  <2>. QED BY <2>2, <2>3
<1>. QED BY <1>1, <1>2

LEMMA Uint16Is ==
  ASSUME NEW n \in Int
  PROVE  /\ Uint16(n) \in Ports
         /\ n \in Ports => Uint16(n) = n
BY RuleTextAssumption DEF Uint16, Ports

Ordered(ports) == ports \in PortRanges /\ ports.lo <= ports.hi

LEMMA PortsTyped ==
  ASSUME NEW p \in Maybe(PortText)
  PROVE  /\ ConfigPorts(p) = Refused \/ Ordered(ConfigPorts(p))
         /\ MgmtPorts(p) = Refused \/ Ordered(MgmtPorts(p))
<1>1. Ordered(AnyPort)
  BY RuleTextAssumption DEF AnyPort, Ordered, PortRanges, Ports
<1>2. ASSUME NEW lo \in Int, NEW hi \in Int
      PROVE  Range16(lo, hi) = Refused \/ Ordered(Range16(lo, hi))
  <2>1. Uint16(lo) \in Ports /\ Uint16(hi) \in Ports BY Uint16Is
  <2>. QED BY <2>1, RuleTextAssumption DEF Range16, Ordered, PortRanges, Ports
<1>3. CASE p = Absent BY <1>1, <1>3 DEF ConfigPorts, MgmtPorts
<1>4. CASE p # Absent
  <2>1. p \in PortText BY <1>4 DEF Maybe
  <2>2. p.hi \in Int /\ (p.lo # Absent => p.lo \in Int) BY <2>1 DEF PortText, Maybe
  <2>. QED BY <1>1, <1>2, <1>4, <2>2 DEF ConfigPorts, MgmtPorts
<1>. QED BY <1>3, <1>4

LEMMA ProtoTyped ==
  ASSUME NEW p \in Maybe(STRING)
  PROVE  /\ ConfigProto(p) \in Protos \cup {AnyProto}
         /\ MgmtProto(p) \in Protos \cup {AnyProto, Refused}
         /\ p \in Protos \cup {Absent, "any"} => ConfigProto(p) = MgmtProto(p)
BY RuleTextAssumption DEF ConfigProto, MgmtProto, Protos, AnyProto

LEMMA FlagsAndIcmpTyped ==
  ASSUME NEW f \in Maybe(SUBSET STRING), NEW n \in Maybe(Int)
  PROVE  /\ ConfigFlags(f) = Refused \/ ConfigFlags(f) \in SUBSET TcpFlags
         /\ ConfigIcmp(n) \in 0 .. ByteMod - 1
         /\ n \in 0 .. ByteMod - 1 /\ n # Absent => ConfigIcmp(n) = n
BY RuleTextAssumption DEF ConfigFlags, ConfigIcmp, AnyIcmp, Maybe

LEMMA CirTyped ==
  ASSUME NEW n \in Maybe(Nat)
  PROVE  /\ Cir(n) \in Nat
         /\ n # Absent /\ n > 0 => Cir(n) > 0
BY RuleTextAssumption DEF Cir, Maybe

-----------------------------------------------------------------------------
(* The rules they make                                                     *)

(* A rule as the parsers leave it *)
GoodRule(r) ==
  /\ r \in Rule
  /\ Masked(r.src) /\ Masked(r.dst)
  /\ Ordered(r.sport) /\ Ordered(r.dport)
  /\ r.action = "rate_limit" => r.cir > 0

(* The record of what the parsers of the fields answer *)
Drafts ==
  [action : Actions \cup {Refused}, proto : Protos \cup {AnyProto, Refused},
   src : {Refused} \cup {c \in Cidrs : Masked(c)}, dst : {Refused} \cup {c \in Cidrs : Masked(c)},
   sport : {Refused} \cup {p \in PortRanges : Ordered(p)},
   dport : {Refused} \cup {p \in PortRanges : Ordered(p)},
   flags : {Refused} \cup SUBSET TcpFlags, icmp : 0 .. ByteMod - 1, cir : Nat]

LEMMA NoValues ==
  /\ Refused \notin Actions /\ Refused \notin Protos \cup {AnyProto} /\ Refused \notin SUBSET TcpFlags
  /\ Refused \notin Cidrs /\ Refused \notin PortRanges
<1>1. Refused \notin Actions /\ Refused \notin Protos \cup {AnyProto}
  BY RuleTextAssumption
<1>2. \A f \in SUBSET TcpFlags : f # Refused
  BY RuleTextAssumption
<1>3. Refused \notin Cidrs /\ Refused \notin PortRanges
  BY RuleTextAssumption
<1>. QED BY <1>1, <1>2, <1>3

(* A rule is refused for a refused field or for a missing rate, and is     *)
(* else the record of its fields                                           *)
Whole(r) ==
  /\ Refused \notin {r.action, r.proto, r.src, r.dst, r.sport, r.dport, r.flags}
  /\ ~(r.action = "rate_limit" /\ r.cir = 0)

LEMMA RuleFromIs ==
  ASSUME NEW r \in Drafts
  PROVE  /\ Whole(r) => RuleFrom(r) = r /\ r # Refused /\ GoodRule(r)
         /\ ~Whole(r) => RuleFrom(r) = Refused
<1>1. DOMAIN r = {"action", "proto", "src", "dst", "sport", "dport", "flags", "icmp", "cir"}
  BY DEF Drafts
<1>2. r.icmp # Refused /\ r.cir # Refused
  BY RuleTextAssumption DEF Drafts
<1>3. (\E g \in DOMAIN r : r[g] = Refused) <=>
      Refused \in {r.action, r.proto, r.src, r.dst, r.sport, r.dport, r.flags}
  BY <1>1, <1>2
<1>4. Whole(r) => RuleFrom(r) = r
  BY <1>3 DEF RuleFrom, Whole
<1>5. ~Whole(r) => RuleFrom(r) = Refused
  BY <1>3 DEF RuleFrom, Whole
<1>6. ASSUME Whole(r) PROVE GoodRule(r) /\ r # Refused
  <2>1. r \in Rule BY <1>6 DEF Whole, Drafts, Rule
  <2>2. /\ Masked(r.src) /\ Masked(r.dst) /\ Ordered(r.sport) /\ Ordered(r.dport)
        /\ r.action = "rate_limit" => r.cir > 0
    BY <1>6 DEF Whole, Drafts
  <2>. QED BY <2>1, <2>2, RuleTextAssumption DEF GoodRule
<1>. QED BY <1>4, <1>5, <1>6

LEMMA TextParts ==
  ASSUME NEW t \in Text
  PROVE  /\ Action(t.action) \in Actions \cup {Refused}
         /\ t.proto \in Maybe(STRING)
         /\ t.src \in Maybe(CidrText) /\ t.dst \in Maybe(CidrText)
         /\ t.sport \in Maybe(PortText) /\ t.dport \in Maybe(PortText)
         /\ t.flags \in Maybe(SUBSET STRING) /\ t.icmp \in Maybe(Int) /\ t.cir \in Maybe(Nat)
BY DEF Text, Action

ConfigDraft(t) ==
  [action |-> Action(t.action), proto |-> ConfigProto(t.proto),
   src |-> Cidr(t.src, ConfigMask), dst |-> Cidr(t.dst, ConfigMask),
   sport |-> ConfigPorts(t.sport), dport |-> ConfigPorts(t.dport),
   flags |-> ConfigFlags(t.flags), icmp |-> ConfigIcmp(t.icmp), cir |-> Cir(t.cir)]

MgmtDraft(t) ==
  [action |-> Action(t.action), proto |-> MgmtProto(t.proto),
   src |-> Cidr(t.src, MgmtMask), dst |-> Cidr(t.dst, MgmtMask),
   sport |-> MgmtPorts(t.sport), dport |-> MgmtPorts(t.dport),
   flags |-> {}, icmp |-> AnyIcmp, cir |-> Cir(t.cir)]

LEMMA DraftsTyped ==
  ASSUME NEW t \in Text
  PROVE  ConfigDraft(t) \in Drafts /\ MgmtDraft(t) \in Drafts
<1>1. AnyIcmp \in 0 .. ByteMod - 1 BY RuleTextAssumption DEF AnyIcmp
<1>2. ASSUME NEW s \in {t.src, t.dst}
      PROVE  /\ Cidr(s, ConfigMask) \in {Refused} \cup {c \in Cidrs : Masked(c)}
             /\ Cidr(s, MgmtMask) \in {Refused} \cup {c \in Cidrs : Masked(c)}
  BY TextParts, CidrTyped DEF Masked
<1>3. ASSUME NEW p \in {t.sport, t.dport}
      PROVE  /\ ConfigPorts(p) \in {Refused} \cup {q \in PortRanges : Ordered(q)}
             /\ MgmtPorts(p) \in {Refused} \cup {q \in PortRanges : Ordered(q)}
  BY TextParts, PortsTyped DEF Ordered
<1>4. /\ ConfigProto(t.proto) \in Protos \cup {AnyProto, Refused}
      /\ MgmtProto(t.proto) \in Protos \cup {AnyProto, Refused}
  BY TextParts, ProtoTyped
<1>5. /\ ConfigFlags(t.flags) \in {Refused} \cup SUBSET TcpFlags
      /\ ConfigIcmp(t.icmp) \in 0 .. ByteMod - 1 /\ Cir(t.cir) \in Nat
  BY TextParts, FlagsAndIcmpTyped, CirTyped
<1>6. Action(t.action) \in Actions \cup {Refused} BY TextParts
<1>7. ConfigDraft(t) \in Drafts
  BY <1>2, <1>3, <1>4, <1>5, <1>6 DEF ConfigDraft, Drafts
<1>8. MgmtDraft(t) \in Drafts
  BY <1>1, <1>2, <1>3, <1>4, <1>5, <1>6 DEF MgmtDraft, Drafts
<1>. QED BY <1>7, <1>8

LEMMA RulesAreDrafts ==
  ASSUME NEW t
  PROVE  ConfigRule(t) = RuleFrom(ConfigDraft(t)) /\ MgmtRule(t) = RuleFrom(MgmtDraft(t))
BY DEF ConfigRule, MgmtRule, ConfigDraft, MgmtDraft

(* Whatever the text, what a parser accepts is well formed *)
LEMMA RulesAreGood ==
  ASSUME NEW t \in Text
  PROVE  /\ ConfigRule(t) = Refused \/ GoodRule(ConfigRule(t))
         /\ MgmtRule(t) = Refused \/ GoodRule(MgmtRule(t))
BY DraftsTyped, RulesAreDrafts, RuleFromIs

-----------------------------------------------------------------------------
(* What a rule that is written well means                                  *)

LEMMA WellWrittenCidrIs ==
  ASSUME NEW s \in Maybe(CidrText), WellWrittenCidr(s)
  PROVE  /\ Cidr(s, ConfigMask) # Refused
         /\ \A ip \in Words : InCidr(ip, Cidr(s, ConfigMask)) <=> SaysCidr(s, ip)
<1>1. CASE s = Absent
  <2>1. Cidr(s, ConfigMask) = [ip |-> {}, mask |-> {}] BY <1>1 DEF Cidr
  <2>2. {} \in Words BY DEF Words
  <2>. QED BY <1>1, <2>1, <2>2, RuleTextAssumption DEF InCidr, SaysCidr, Cidrs
<1>2. CASE s # Absent
  <2>. DEFINE q == IF s.prefix = Absent THEN Bits ELSE s.prefix
  <2>1. s \in CidrText /\ s.ip \in Words BY <1>2 DEF Maybe, WellWrittenCidr, CidrText
  <2>2. q \in Prefixes BY <1>2, RuleTextAssumption DEF WellWrittenCidr, Prefixes
  <2>3. Cidr(s, ConfigMask) = [ip |-> s.ip, mask |-> Leading(q)]
    BY <1>2, <2>2, ConfigMaskIs DEF Cidr, WellWrittenCidr
  <2>4. Cidr(s, ConfigMask) # Refused
    BY <2>1, <2>2, <2>3, LeadingIsAWord, RuleTextAssumption DEF Cidrs
  <2>5. \A ip : SaysCidr(s, ip) <=> LeadingBits(ip, q) = LeadingBits(s.ip, q)
    BY <1>2 DEF SaysCidr
  <2>. QED BY <2>1, <2>2, <2>3, <2>4, <2>5, MaskComparesPrefix
<1>. QED BY <1>1, <1>2

LEMMA WellWrittenPortsAre ==
  ASSUME NEW t, NEW p \in Maybe(PortText), WellWrittenPorts(p, t)
  PROVE  /\ ConfigPorts(p) = MgmtPorts(p) /\ ConfigPorts(p) # Refused
         /\ p # Absent => t.proto \in {"tcp", "udp"}
         /\ \A n \in Ports : InPorts(n, ConfigPorts(p)) <=> (p # Absent => n \in p.lo .. p.hi)
<1>1. CASE p = Absent
  <2>1. ConfigPorts(p) = AnyPort /\ MgmtPorts(p) = AnyPort BY <1>1 DEF ConfigPorts, MgmtPorts
  <2>2. AnyPort \in PortRanges BY RuleTextAssumption DEF AnyPort, PortRanges, Ports
  <2>3. \A n \in Ports : InPorts(n, AnyPort) BY RuleTextAssumption DEF AnyPort, InPorts, Ports
  <2>. QED BY <1>1, <2>1, <2>2, <2>3, RuleTextAssumption
<1>2. CASE p # Absent
  <2>1. /\ p.lo \in Int /\ p.hi \in Int /\ p.lo # Absent /\ ~p.number
        /\ p.lo \in Ports /\ p.hi \in Ports /\ p.lo <= p.hi /\ t.proto \in {"tcp", "udp"}
    BY <1>2, RuleTextAssumption DEF WellWrittenPorts, Maybe, PortText, Ports
  <2>2. Range16(p.lo, p.hi) = [lo |-> p.lo, hi |-> p.hi]
    BY <2>1, Uint16Is DEF Range16, Ports
  <2>3. /\ ConfigPorts(p) = [lo |-> p.lo, hi |-> p.hi] /\ MgmtPorts(p) = [lo |-> p.lo, hi |-> p.hi]
    BY <1>2, <2>1, <2>2 DEF ConfigPorts, MgmtPorts
  <2>4. [lo |-> p.lo, hi |-> p.hi] # Refused BY <2>1, RuleTextAssumption DEF PortRanges
  <2>5. \A n \in Ports : InPorts(n, [lo |-> p.lo, hi |-> p.hi]) <=> n \in p.lo .. p.hi
    BY <2>1 DEF InPorts, Ports
  <2>. QED BY <1>2, <2>1, <2>3, <2>4, <2>5
<1>. QED BY <1>1, <1>2

(* A rule that is written well is not refused by the file's parser, and    *)
(* that of the server makes the same rule of it when it has no flags and   *)
(* no ICMP type                                                            *)
LEMMA WellWrittenIsAccepted ==
  ASSUME NEW t \in Text, WellWritten(t)
  PROVE  /\ ConfigRule(t) = ConfigDraft(t) /\ ConfigRule(t) # Refused
         /\ ConfigProto(t.proto) = IF t.proto \in Protos THEN t.proto ELSE AnyProto
         /\ ConfigFlags(t.flags) = IF t.flags = Absent THEN {} ELSE t.flags
         /\ ConfigIcmp(t.icmp) = IF t.icmp = Absent THEN AnyIcmp ELSE t.icmp
<1>1. Action(t.action) = t.action /\ t.action \in Actions
  BY DEF WellWritten, Action, Actions
<1>2. t.action = "rate_limit" => Cir(t.cir) > 0
  BY TextParts, CirTyped DEF WellWritten
<1>3. Cidr(t.src, ConfigMask) # Refused /\ Cidr(t.dst, ConfigMask) # Refused
  BY TextParts, WellWrittenCidrIs DEF WellWritten
<1>4. ConfigPorts(t.sport) # Refused /\ ConfigPorts(t.dport) # Refused
  BY TextParts, WellWrittenPortsAre DEF WellWritten
<1>5. ConfigProto(t.proto) = IF t.proto \in Protos THEN t.proto ELSE AnyProto
  BY DEF ConfigProto
<1>6. /\ ConfigFlags(t.flags) = IF t.flags = Absent THEN {} ELSE t.flags
      /\ ConfigFlags(t.flags) \in SUBSET TcpFlags
  BY DEF WellWritten, ConfigFlags
<1>7. ConfigIcmp(t.icmp) = IF t.icmp = Absent THEN AnyIcmp ELSE t.icmp
  BY TextParts, FlagsAndIcmpTyped DEF WellWritten, ConfigIcmp
<1>8. Refused \notin Actions /\ Refused \notin Protos \cup {AnyProto} /\ Refused \notin SUBSET TcpFlags
  BY NoValues
<1>9. Whole(ConfigDraft(t))
  BY <1>1, <1>2, <1>3, <1>4, <1>5, <1>6, <1>8, TextParts, CirTyped DEF Whole, ConfigDraft
<1>10. ConfigRule(t) = ConfigDraft(t) /\ ConfigRule(t) # Refused
  BY <1>9, DraftsTyped, RulesAreDrafts, RuleFromIs
<1>. QED BY <1>5, <1>6, <1>7, <1>10

LEMMA SameRule ==
  ASSUME NEW t \in Text, WellWritten(t), ForFwCtl(t)
  PROVE  ConfigRule(t) = MgmtRule(t)
<1>1. ConfigProto(t.proto) = MgmtProto(t.proto)
  BY TextParts, ProtoTyped DEF WellWritten
<1>2. Cidr(t.src, ConfigMask) = Cidr(t.src, MgmtMask) /\ Cidr(t.dst, ConfigMask) = Cidr(t.dst, MgmtMask)
  BY TextParts, CidrTyped
<1>3. ConfigPorts(t.sport) = MgmtPorts(t.sport) /\ ConfigPorts(t.dport) = MgmtPorts(t.dport)
  BY TextParts, WellWrittenPortsAre DEF WellWritten
<1>4. ConfigFlags(t.flags) = {} /\ ConfigIcmp(t.icmp) = AnyIcmp
  BY DEF ForFwCtl, ConfigFlags, ConfigIcmp
<1>5. ConfigDraft(t) = MgmtDraft(t)
  BY <1>1, <1>2, <1>3, <1>4 DEF ConfigDraft, MgmtDraft
<1>. QED BY <1>5, RulesAreDrafts

LEMMA FrameParts ==
  ASSUME NEW f \in Frame
  PROVE  /\ f.src \in Words /\ f.dst \in Words /\ f.proto \in STRING
         /\ f.sport \in Ports /\ f.dport \in Ports /\ f.icmp \in 0 .. ByteMod - 1
BY DEF Frame

(* ... and the rule it makes matches the frames the text speaks of *)
LEMMA MatchesWhatItSays ==
  ASSUME NEW t \in Text, WellWritten(t), NEW f \in Frame
  PROVE  Matches(ConfigRule(t), Classified(f)) <=> Says(t, f)
<1>. DEFINE r == ConfigRule(t)
            m == Classified(f)
            ported == f.proto \in {"tcp", "udp"}
<1>1. /\ r.src = Cidr(t.src, ConfigMask) /\ r.dst = Cidr(t.dst, ConfigMask)
      /\ r.sport = ConfigPorts(t.sport) /\ r.dport = ConfigPorts(t.dport)
      /\ r.proto = IF t.proto \in Protos THEN t.proto ELSE AnyProto
      /\ r.flags = IF t.flags = Absent THEN {} ELSE t.flags
      /\ r.icmp = IF t.icmp = Absent THEN AnyIcmp ELSE t.icmp
  BY WellWrittenIsAccepted DEF ConfigDraft
<1>2. /\ m.src = f.src /\ m.dst = f.dst /\ m.proto = f.proto
      /\ m.sport = (IF ported THEN f.sport ELSE 0) /\ m.dport = (IF ported THEN f.dport ELSE 0)
      /\ m.flags = (IF f.proto = "tcp" THEN f.flags ELSE {})
      /\ m.icmp = (IF f.proto = "icmp" THEN f.icmp ELSE 0)
  BY DEF Classified
<1>. HIDE DEF r, m
<1>3. /\ InCidr(m.src, r.src) <=> SaysCidr(t.src, f.src)
      /\ InCidr(m.dst, r.dst) <=> SaysCidr(t.dst, f.dst)
  BY <1>1, <1>2, TextParts, FrameParts, WellWrittenCidrIs DEF WellWritten
<1>4. r.proto \in {AnyProto, m.proto} <=> (t.proto \in Protos => f.proto = t.proto)
  BY <1>1, <1>2 DEF AnyProto, Protos
<1>5. m.sport \in Ports /\ m.dport \in Ports
  BY <1>2, FrameParts, RuleTextAssumption DEF Ports
<1>6. ASSUME t.proto \in Protos => f.proto = t.proto
      PROVE  /\ InPorts(m.sport, r.sport) <=> (t.sport # Absent => f.sport \in t.sport.lo .. t.sport.hi)
             /\ InPorts(m.dport, r.dport) <=> (t.dport # Absent => f.dport \in t.dport.lo .. t.dport.hi)
  <2>1. /\ InPorts(m.sport, r.sport) <=> (t.sport # Absent => m.sport \in t.sport.lo .. t.sport.hi)
        /\ InPorts(m.dport, r.dport) <=> (t.dport # Absent => m.dport \in t.dport.lo .. t.dport.hi)
    BY <1>1, <1>5, TextParts, WellWrittenPortsAre DEF WellWritten
  <2>2. t.sport # Absent \/ t.dport # Absent => ported
    BY <1>6, TextParts, WellWrittenPortsAre DEF WellWritten, Protos
  <2>. QED BY <1>2, <2>1, <2>2
<1>7. ASSUME t.proto \in Protos => f.proto = t.proto
      PROVE  /\ r.flags \subseteq m.flags <=> (t.flags # Absent => t.flags \subseteq f.flags)
             /\ r.icmp \in {AnyIcmp, m.icmp} <=> (t.icmp \notin {Absent, AnyIcmp} => f.icmp = t.icmp)
  <2>1. t.flags # Absent => f.proto = "tcp" BY <1>7 DEF WellWritten, Protos
  <2>2. t.icmp # Absent => f.proto = "icmp" BY <1>7 DEF WellWritten, Protos
  <2>3. r.flags \subseteq m.flags <=> (t.flags # Absent => t.flags \subseteq f.flags)
    BY <1>1, <1>2, <2>1
  <2>4. r.icmp \in {AnyIcmp, m.icmp} <=> (t.icmp \notin {Absent, AnyIcmp} => f.icmp = t.icmp)
    BY <1>1, <1>2, <2>2
  <2>. QED BY <2>3, <2>4
<1>8. Matches(r, m) <=>
        /\ t.proto \in Protos => f.proto = t.proto
        /\ SaysCidr(t.src, f.src) /\ SaysCidr(t.dst, f.dst)
        /\ t.sport # Absent => f.sport \in t.sport.lo .. t.sport.hi
        /\ t.dport # Absent => f.dport \in t.dport.lo .. t.dport.hi
        /\ t.flags # Absent => t.flags \subseteq f.flags
        /\ t.icmp \notin {Absent, AnyIcmp} => f.icmp = t.icmp
  BY <1>3, <1>4, <1>6, <1>7 DEF Matches
<1>. QED BY <1>8 DEF r, m, Says

-----------------------------------------------------------------------------
(* The scan and rte_acl                                                    *)

LEMMA CidrComparesPrefix ==
  ASSUME NEW cidr, Masked(cidr), NEW ip \in Words
  PROVE  LET p == MaskToPrefix(cidr.mask)
         IN InCidr(ip, cidr) <=> LeadingBits(ip, p) = LeadingBits(cidr.ip, p)
<1>1. PICK p \in Prefixes : cidr.mask = Leading(p) BY DEF Masked
<1>2. cidr = [ip |-> cidr.ip, mask |-> Leading(p)] /\ cidr.ip \in Words
  BY <1>1 DEF Masked, Cidrs
<1>3. MaskToPrefix(cidr.mask) = p BY <1>1, PrefixOfMask
<1>. QED BY <1>2, <1>3, MaskComparesPrefix

LEMMA ScanComparesAsAcl ==
  ASSUME NEW r, GoodRule(r), r.flags = {}, r.icmp = AnyIcmp, NEW f \in Frame
  PROVE  Matches(r, Classified(f)) <=> AclMatches(FwRuleToAcl(r), Classified(f))
<1>. DEFINE m == Classified(f)
            acl == FwRuleToAcl(r)
<1>1. m.src \in Words /\ m.dst \in Words
  BY FrameParts DEF Classified
<1>2. /\ acl.src.prefix = MaskToPrefix(r.src.mask) /\ acl.src.value = r.src.ip
      /\ acl.dst.prefix = MaskToPrefix(r.dst.mask) /\ acl.dst.value = r.dst.ip
      /\ acl.sport = r.sport /\ acl.dport = r.dport
      /\ acl.proto = IF r.proto = AnyProto THEN {} ELSE {r.proto}
  BY DEF FwRuleToAcl
<1>. HIDE DEF m, acl
<1>3. /\ InCidr(m.src, r.src) <=> LeadingBits(m.src, acl.src.prefix) = LeadingBits(acl.src.value, acl.src.prefix)
      /\ InCidr(m.dst, r.dst) <=> LeadingBits(m.dst, acl.dst.prefix) = LeadingBits(acl.dst.value, acl.dst.prefix)
  BY <1>1, <1>2, CidrComparesPrefix DEF GoodRule
<1>4. r.proto \in {AnyProto, m.proto} <=> acl.proto = {} \/ m.proto \in acl.proto
  BY <1>2
<1>5. r.flags \subseteq m.flags /\ r.icmp \in {AnyIcmp, m.icmp}
  OBVIOUS
<1>6. Matches(r, m) <=> AclMatches(acl, m)
  BY <1>2, <1>3, <1>4, <1>5 DEF Matches, AclMatches, InPorts
<1>. QED BY <1>6 DEF m, acl

-----------------------------------------------------------------------------
(* The list                                                                *)

(* The CIDR of a list, read again, is the CIDR of the rule *)
LEMMA CidrReadAgain ==
  ASSUME NEW cidr, Masked(cidr)
  PROVE  Cidr(FmtCidr(cidr), MgmtMask) = cidr
<1>1. PICK p \in Prefixes : cidr.mask = Leading(p) BY DEF Masked
<1>2. cidr = [ip |-> cidr.ip, mask |-> Leading(p)] /\ cidr.ip \in Words
  BY <1>1 DEF Masked, Cidrs
<1>3. FmtCidr(cidr) = [ip |-> cidr.ip, prefix |-> p]
  BY <1>1, PrefixOfMask DEF FmtCidr
<1>4. [ip |-> cidr.ip, prefix |-> p] # Absent /\ p # Absent /\ cidr.ip # Bad
  BY <1>2, RuleTextAssumption DEF CidrText, Maybe, Prefixes
<1>. QED BY <1>2, <1>3, <1>4, MgmtMaskIs DEF Cidr

LEMMA PortsReadAgain ==
  ASSUME NEW ports, Ordered(ports)
  PROVE  MgmtPorts(FmtPort(ports)) = ports
<1>1. CASE ports = AnyPort BY <1>1 DEF FmtPort, MgmtPorts
<1>2. CASE ports # AnyPort
  <2>1. ports = [lo |-> ports.lo, hi |-> ports.hi] /\ ports.lo \in Ports /\ ports.hi \in Ports /\ ports.lo <= ports.hi
    BY DEF Ordered, PortRanges
  <2>2. Range16(ports.lo, ports.hi) = ports
    BY <2>1, Uint16Is DEF Range16, Ports
  <2>3. FmtPort(ports) = [number |-> FALSE, lo |-> ports.lo, hi |-> ports.hi]
    BY <1>2 DEF FmtPort, PortsAsText
  <2>4. [number |-> FALSE, lo |-> ports.lo, hi |-> ports.hi] # Absent /\ ports.lo # Absent
    <3>1. ports.lo \in Int /\ ports.hi \in Int BY <2>1 DEF Ports
    <3>2. [number |-> FALSE, lo |-> ports.lo, hi |-> ports.hi] \in PortText
      BY <3>1 DEF PortText, Maybe
    <3>. QED BY <3>1, <3>2, RuleTextAssumption
  <2>. QED BY <2>2, <2>3, <2>4 DEF MgmtPorts
<1>. QED BY <1>1, <1>2

LEMMA RuleReadAgain ==
  ASSUME NEW r, GoodRule(r), r.sport = AnyPort, r.flags = {}, r.icmp = AnyIcmp, r.cir = 0
  PROVE  MgmtRule(Listed(r)) = r
<1>. DEFINE t == Listed(r)
<1>1. /\ t.action = r.action /\ t.proto = ProtoName(r.proto)
      /\ t.src = FmtCidr(r.src) /\ t.dst = FmtCidr(r.dst)
      /\ t.sport = Absent /\ t.dport = FmtPort(r.dport) /\ t.cir = Absent
  BY DEF Listed
<1>. HIDE DEF t
<1>2. r \in Rule BY DEF GoodRule
<1>3. Action(t.action) = r.action BY <1>1, <1>2 DEF Rule, Action
<1>4. MgmtProto(t.proto) = r.proto
  BY <1>1, <1>2 DEF Rule, ProtoName, MgmtProto, Protos, AnyProto
<1>5. Cidr(t.src, MgmtMask) = r.src /\ Cidr(t.dst, MgmtMask) = r.dst
  BY <1>1, CidrReadAgain DEF GoodRule
<1>6. MgmtPorts(t.sport) = r.sport /\ MgmtPorts(t.dport) = r.dport
  BY <1>1, PortsReadAgain DEF GoodRule, MgmtPorts
<1>7. Cir(t.cir) = r.cir BY <1>1 DEF Cir
<1>8. MgmtDraft(t) = r
  BY <1>2, <1>3, <1>4, <1>5, <1>6, <1>7 DEF MgmtDraft, Rule
<1>9. Whole(r) /\ r \in Drafts
  <2>1. r \in Drafts BY <1>2 DEF GoodRule, Drafts, Rule, Masked, Ordered
  <2>2. ~(r.action = "rate_limit" /\ r.cir = 0) BY DEF GoodRule
  <2>3. Refused \notin {r.action, r.proto, r.src, r.dst, r.sport, r.dport, r.flags}
    BY <1>2, NoValues DEF Rule
  <2>. QED BY <2>1, <2>2, <2>3 DEF Whole
<1>. QED BY <1>8, <1>9, RulesAreDrafts, RuleFromIs DEF t

-----------------------------------------------------------------------------
(* The specification                                                       *)

Parsed == IF parser = "config" THEN ConfigRule(text) ELSE MgmtRule(text)

(* What has been read, and when *)
ReadingInv ==
  /\ text \in Texts /\ parser \in {"config", "mgmt"}
  /\ pc \in {"text", "refused", "rule", "bridged", "match", "mismatch"}
  /\ rule = IF pc = "text" THEN Refused ELSE Parsed
  /\ pc # "text" => (pc = "refused" <=> rule = Refused)
  /\ pc \in {"match", "mismatch"} =>
       frame \in Frames /\ meta = Classified(frame) /\ (pc = "match" <=> Matches(rule, meta))

(* The rule is what the parser made of the text, and the answer about a    *)
(* frame is that of rule_match on what classify_pkt found                  *)
THEOREM ReadingInvariant == Spec => []ReadingInv
<1>1. Init => ReadingInv BY DEF Init, ReadingInv
<1>2. ASSUME ReadingInv, [Next]_vars PROVE ReadingInv'
  <2>1. CASE Parse
    BY <1>2, <2>1 DEF ReadingInv, Parse, Parsed
  <2>2. CASE Bridge
    BY <1>2, <2>2 DEF ReadingInv, Bridge, Parsed
  <2>3. CASE Classify
    <3>1. PICK f \in Frames : frame' = f /\ meta' = Classified(f) BY <2>3 DEF Classify
    <3>2. /\ pc = "rule" /\ rule' = rule /\ text' = text /\ parser' = parser /\ Parsed' = Parsed
          /\ pc' = IF Matches(rule, meta') THEN "match" ELSE "mismatch"
      BY <2>3 DEF Classify, Parsed
    <3>3. pc' \in {"match", "mismatch"} /\ (pc' = "match" <=> Matches(rule', meta')) BY <3>2
    <3>. QED BY <1>2, <3>1, <3>2, <3>3 DEF ReadingInv
  <2>4. CASE UNCHANGED vars BY <1>2, <2>4 DEF ReadingInv, vars, Parsed
  <2>. QED BY <1>2, <2>1, <2>2, <2>3, <2>4 DEF Next
<1>. QED BY <1>1, <1>2, PTL DEF Spec

LEMMA ReadRuleIsGood ==
  ASSUME ReadingInv
  PROVE  text \in Text /\ (rule # Refused => GoodRule(rule))
BY RulesAreGood, RuleTextAssumption DEF ReadingInv, Parsed

(* What parse_rule or json_to_fw_rule accepts has ports in order and of 16 *)
(* bits, masks of leading ones, and a rate if it limits one                *)
THEOREM RulesTyped == Spec => []TypeOK
<1>1. ASSUME ReadingInv PROVE TypeOK
  <2>. SUFFICES ASSUME rule # Refused
                PROVE /\ \A ports \in {rule.sport, rule.dport} :
                           0 <= ports.lo /\ ports.lo <= ports.hi /\ ports.hi < PortMod
                      /\ \A cidr \in {rule.src, rule.dst} :
                           \E p \in 0 .. Bits : cidr.mask = Bits - p .. Bits - 1
                      /\ rule.action = "rate_limit" => rule.cir > 0
    BY DEF TypeOK
  <2>1. GoodRule(rule) BY <1>1, ReadRuleIsGood
  <2>2. ASSUME NEW ports \in {rule.sport, rule.dport}
        PROVE  0 <= ports.lo /\ ports.lo <= ports.hi /\ ports.hi < PortMod
    BY <2>1, RuleTextAssumption DEF GoodRule, Ordered, PortRanges, Ports
  <2>3. ASSUME NEW cidr \in {rule.src, rule.dst}
        PROVE  \E p \in 0 .. Bits : cidr.mask = Bits - p .. Bits - 1
    BY <2>1 DEF GoodRule, Masked, Leading, Prefixes
  <2>. QED BY <2>1, <2>2, <2>3 DEF GoodRule
<1>. QED BY <1>1, ReadingInvariant, PTL

(* parse_rule and json_to_fw_rule make the same rule of a text written     *)
(* well that has only the fields fw_ctl has                                *)
THEOREM ParsersAgreeAlways == Spec => []ParsersAgree
<1>1. ASSUME ReadingInv PROVE ParsersAgree
  BY <1>1, ReadRuleIsGood, SameRule DEF ParsersAgree
<1>. QED BY <1>1, ReadingInvariant, PTL

(* A rule that is written well is accepted, and rule_match answers of a    *)
(* frame what the text says of it                                          *)
THEOREM MatchesAsWritten == Spec => []MatchAsWritten
<1>1. ASSUME ReadingInv PROVE MatchAsWritten
  <2>. SUFFICES ASSUME Readable
                PROVE /\ pc # "refused"
                      /\ pc = "match" => Says(text, frame)
                      /\ pc = "mismatch" => ~Says(text, frame)
    BY DEF MatchAsWritten
  <2>1. text \in Text /\ WellWritten(text) BY <1>1, ReadRuleIsGood DEF Readable
  <2>2. Parsed = ConfigRule(text)
    BY <1>1, <2>1, SameRule DEF Parsed, Readable, ReadingInv
  <2>3. pc # "refused"
    BY <1>1, <2>1, <2>2, WellWrittenIsAccepted DEF ReadingInv
  <2>4. ASSUME pc \in {"match", "mismatch"}
        PROVE  Matches(rule, meta) <=> Says(text, frame)
    <3>1. rule = ConfigRule(text) /\ frame \in Frame /\ meta = Classified(frame)
      BY <1>1, <2>2, <2>4, RuleTextAssumption DEF ReadingInv
    <3>. QED BY <2>1, <3>1, MatchesWhatItSays
  <2>. QED BY <1>1, <2>3, <2>4 DEF ReadingInv
<1>. QED BY <1>1, ReadingInvariant, PTL

(* The scan of rule_match decides as the rte_acl rule of fw_rule_to_acl    *)
(* would, for a rule without flags and ICMP type                           *)
THEOREM ScansAsAcl == Spec => []ScanIsAcl
<1>1. ASSUME ReadingInv PROVE ScanIsAcl
  <2>. SUFFICES ASSUME pc \in {"match", "mismatch"}, rule.flags = {}, rule.icmp = AnyIcmp
                PROVE  pc = "match" <=> AclMatches(FwRuleToAcl(rule), meta)
    BY DEF ScanIsAcl
  <2>1. /\ GoodRule(rule) /\ frame \in Frame /\ meta = Classified(frame)
        /\ pc = "match" <=> Matches(rule, meta)
    BY <1>1, ReadRuleIsGood, RuleTextAssumption DEF ReadingInv
  <2>. QED BY <2>1, ScanComparesAsAcl
<1>. QED BY <1>1, ReadingInvariant, PTL

(* A rule that rule_list shows whole is the same rule when entered again   *)
(* as it is shown                                                          *)
THEOREM ListsTheRule == Spec => []ListedIsTheRule
<1>1. ASSUME ReadingInv PROVE ListedIsTheRule
  BY <1>1, ReadRuleIsGood, RuleReadAgain DEF ListedIsTheRule
<1>. QED BY <1>1, ReadingInvariant, PTL
=============================================================================
