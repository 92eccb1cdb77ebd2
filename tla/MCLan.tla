------------------------------- MODULE MCLan -------------------------------
(* Constants of Lan that a configuration file cannot express. *)
EXTENDS Lan

(* The second description does not fit into one message. *)
MCDescriptions ==
    LET head == <<<<"v">>, <<"fingerprint", "f1">>, <<"m">>>>
        tail == <<<<"candidate", "c1", "relay">>, <<"candidate", "c2", "host">>,
                  <<"end-of-candidates">>, <<"sctp-port">>>>
    IN  {head \o tail, head \o <<<<"fingerprint", "f2">>>> \o tail}

MCAdvertisement == <<Word("motd"), Blank, Word("players")>>

(* One token; an id beyond u64; an error code that is no integer. *)
MCBadTexts ==
    {<<Word("CONNECTREQUEST")>>,
     <<Word("CANDIDATEADD"), Blank>> \o Decimal[U64_MAX + 1] \o <<Blank, Word("x")>>,
     <<Word("CONNECTERROR"), Blank, Digit(7), Blank, Digit(1), Minus>>}
=============================================================================
