---------------------------- MODULE MCXrayConfig ----------------------------
(***************************************************************************)
(* XrayConfig on every document of up to three outbounds over two tags of  *)
(* its own, and on every two routing rules.                                *)
(***************************************************************************)
EXTENDS XrayConfig

CONSTANTS A, B

MCTag == {"proxy", "direct", "block", "dns-out", A, B}

SomeOutbound ==
    {o \in [tag : {None, A, B, "proxy", "direct"},
            dialer : {None, A, "proxy", "direct"}, legacy : {None, B},
            utility : BOOLEAN] : o.utility => o.dialer = None}
SomeRule == [formed : BOOLEAN, enabled : BOOLEAN, to : {"proxy", "block", A},
             hits : {{}, {"region"}, {"quic"}}, shape : {"plain", "odd", "bad"}]
UpTo(S, n) == UNION {[1 .. k -> S] : k \in 0 .. n}

MCInputs ==
    [doc : UpTo(SomeOutbound, 3), rules : {<<>>}, preset : {"global"},
     geo : {"v2fly"}]
    \cup [doc : {<<>>}, rules : UpTo(SomeRule, 2), preset : {"global", "ru"},
          geo : {"loyalsoldier", "v2fly"}]
=============================================================================
