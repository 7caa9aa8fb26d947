------------------------------- MODULE MCWire -------------------------------
(* Messages of every type, with words whose bytes all differ.               *)
EXTENDS Wire, FiniteSets

Word   == {0, 9, 17, 18, 26, 31}      \* 0x84060201
Other  == {3, 8, 10, 20, 25}          \* 0x02100508
Third  == {7, 11, 16, 22, 30}
Long   == Word \union {b + 32 : b \in Third}

Message(type, body) ==
    [type |-> type, flags |-> {1, 6}, agent_id |-> Other, header_id |-> Third,
     timestamp |-> Long, body |-> body]

MCMessages ==
    {Message("HELLO", [agent_id |-> Word, version |-> Other]),
     Message("HEARTBEAT", [empty |-> TRUE]),
     Message("STATE", [mode |-> Other, load |-> Word, temp |-> Third, last_rc |-> Bits(32)]),
     Message("CMD_SET_MODE", [mode |-> Third]),
     Message("ACK", [cmd_id |-> Word]),
     Message("NACK", [cmd_id |-> Other, reason |-> <<>>]),
     Message("NACK", [cmd_id |-> Other, reason |-> <<{0, 6}, {1, 5, 6}>>])}

\* Every change of one or two bits of a byte, a whole byte, some across two bytes, and one
\* of four that turns the length of a short payload into one near 2^32.
MCDamages ==
    {<<d>> : d \in {e \in SUBSET Bits(8) : Cardinality(e) \in {1, 2, 8}}}
        \union {<<{0}, {7}>>, <<Bits(8), Bits(8)>>, <<{2, 3}, {0, 5}>>,
                 <<Bits(8), Bits(8), Bits(8), 4..7>>}

=============================================================================
