--------------------------- MODULE MCControlPlane ---------------------------
EXTENDS ControlPlane, TLC

Fw(cmd, args, size) == [cmd |-> cmd, args |-> args, size |-> size, kind |-> "fw_ctl"]

CONSTANTS c1, c2

MCClients == {c1, c2}

(* One command that matters and fits; on the other connection a program    *)
(* that does not read, a long list, or a call that lacks an option         *)
MCCalls ==
  (c1 :> {Fw("config_reload", "none", "fits")})
  @@ (c2 :> {Fw("rule_list", "none", "too_long"), Fw("rule_add", "missing", "fits"),
             [cmd |-> "blacklist_list", args |-> "none", size |-> "long", kind |-> "raw"]})

(* fw_ctl exits with 0 when its command succeeded *)
DoneExitsZero ==
  \A c \in Clients :
    IsFwCtl(c) /\ Gone(c) /\ result[c] = "ok" /\ call[c].size = "fits" => client[c] = "exit0"
=============================================================================
