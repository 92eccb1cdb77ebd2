----------------------------- MODULE MCHttpJoin -----------------------------
(* Constants of HttpJoin that a configuration file cannot express. *)
EXTENDS HttpJoin

(* The largest id, a UUID, a UUID of decimal digits, no id. *)
MCLocalIds ==
    {P2P(U64_MAX), Realms(<<Digit(10), Digit(1), Digit(2)>>),
     Realms(<<Digit(9), Digit(9), Digit(9)>>), Unset}

Description(f) ==
    <<<<"v">>, <<"fingerprint", f>>, <<"m">>, <<"candidate", "c1", "relay">>,
      <<"candidate", "c2", "host">>, <<"end-of-candidates">>, <<"sctp-port">>,
      <<"max-message-size", 65536>>>>

MCClientSdp == Description("client")
MCHostSdp == Description("host")
MCOtherSdp == Description("other")

MCClientKey == [owner |-> "client", curve |-> "P-256"]
MCHostKey == [owner |-> "host", curve |-> "P-384"]
MCOtherKey == [owner |-> "other", curve |-> "P-521"]
=============================================================================
