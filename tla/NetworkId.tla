----------------------------- MODULE NetworkId -----------------------------
(***************************************************************************)
(* NetworkID (network_id.py) and the decimal text of ids.  A text is a     *)
(* sequence of units, each a tuple that starts with its kind: a hex digit, *)
(* a hyphen, and whatever else the modules that extend this one add.       *)
(***************************************************************************)
EXTENDS Integers, SequencesExt

CONSTANTS U64_MAX,      \* the largest id
          UuidLen       \* hex digits of a UUID

ASSUME NetworkIdAssumption == U64_MAX \in Nat /\ UuidLen \in Nat \ {0}

Digit(d) == <<"digit", d>>
Hyphen == <<"hyphen">>

(* str(n) *)
Decimal[n \in Nat] ==
    IF n < 10 THEN <<Digit(n)>> ELSE Append(Decimal[n \div 10], Digit(n % 10))

IsDecimal(text) ==
    text # <<>> /\ \A i \in DOMAIN text : text[i][1] = "digit" /\ text[i][2] < 10

(* int(text) *)
IntOf(text) ==
    LET value[i \in 0 .. Len(text)] == IF i = 0 THEN 0 ELSE 10 * value[i - 1] + text[i][2]
    IN  value[Len(text)]

(* _parse_u64: at most one value, none when the text is rejected. *)
ParseU64(text) == IF IsDecimal(text) /\ IntOf(text) <= U64_MAX THEN {IntOf(text)} ELSE {}

(* uuid.UUID(text): hyphens do not count.  A value is its hex digits. *)
ParseUuid(text) ==
    LET hex == FlattenSeq([i \in DOMAIN text |-> IF text[i] = Hyphen THEN <<>> ELSE <<text[i]>>])
    IN  IF Len(hex) = UuidLen /\ \A i \in DOMAIN hex : hex[i][1] = "digit"
        THEN {hex} ELSE {}

P2P(n) == <<"P2P", n>>
Realms(hex) == <<"REALMS", hex>>
Unset == <<"UNSET">>

(* The values a NetworkID can have. *)
NetworkIds ==
    {Unset} \cup {P2P(n) : n \in 0 .. U64_MAX}
            \cup {Realms(hex) : hex \in [1 .. UuidLen -> {Digit(d) : d \in 0 .. 15}]}

(* NetworkID.parse *)
ParseId(text) ==
    CASE ParseU64(text) # {} -> P2P(CHOOSE n \in ParseU64(text) : TRUE)
      [] ParseU64(text) = {} /\ ParseUuid(text) # {} ->
            Realms(CHOOSE u \in ParseUuid(text) : TRUE)
      [] OTHER -> Unset

(* NetworkID.__str__; that of a UUID has hyphens in it. *)
IdText(id) ==
    CASE id[1] = "P2P" -> Decimal[id[2]]
      [] id[1] = "REALMS" -> InsertAt(id[2], UuidLen, Hyphen)
      [] id[1] = "UNSET" -> <<>>
=============================================================================
