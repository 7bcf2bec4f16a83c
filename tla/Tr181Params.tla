---------------------------- MODULE Tr181Params ----------------------------
(***************************************************************************)
(* How the GET handlers of eponMgr_tr181.c find the value of a parameter:  *)
(* a chain of tests "does the name contain this text", the first that      *)
(* succeeds names the field.  A name or a text is the sequence of its      *)
(* words, so that containing a text is containing its words next to each   *)
(* other.  The path in front of the last component is left out: none of    *)
(* the texts occurs in it.                                                 *)
(***************************************************************************)
EXTENDS Integers, Sequences, FiniteSetsExt

Handler == {"base", "optical", "stats", "transceiver", "epon",
            "manufacturer", "olt", "poller"}

Direction == {"Sent", "Received"}
Cast == {"Broadcast", "Multicast", "Unicast"}

\* The names g_tr181_params registers for a handler, without the tables' rows.
Name(handler) ==
    CASE handler = "base" ->
             {<<".", w>> : w \in {"Enable", "Status", "Alias", "Name", "LastChange",
                                  "LowerLayers", "Upstream", "MaxBitRate"}}
      [] handler = "optical" ->
             {<<".", w>> : w \in {"OpticalSignalLevel", "TransmitOpticalLevel",
                                  "SFPReferenceList"}}
      [] handler = "stats" ->
             {<<".", "Reset">>}
             \cup {<<".", w, d>> : w \in {"Bytes", "Packets", "Errors"}, d \in Direction}
             \cup {<<".", "Discard", "Packets", d>> : d \in Direction}
             \cup {<<".", "X_RDK_", c, "Packets", d>> : c \in Cast, d \in Direction}
             \cup {<<".", "X_RDK_", w>> : w \in {"FECCorrected", "FECUncorrectable",
                                                 "BER", "RangingResyncs", "MACResets"}}
      [] handler = "transceiver" ->
             {<<".", w>> : w \in {"Temperature", "SupplyVoltage", "BiasCurrent"}}
             \cup {<<".", s, w>> : s \in {"Lower", "Upper"},
                                   w \in {"OpticalThreshold", "TransmitPowerThreshold"}}
      [] handler = "epon" ->
             {<<".", w>> : w \in {"OperationalMode", "EncryptionMode", "ONUStatus",
                                  "DPoESupported", "MaxLLIDSupported"}}
      [] handler = "manufacturer" ->
             {<<".", w>> : w \in {"Manufacturer", "ModelNumber", "HardwareVersion",
                                  "SoftwareVersion", "SerialNumber", "VendorOUI"}}
      [] handler = "olt" ->
             {<<".", w>> : w \in {"MACAddress", "VendorOUI", "VendorSpecificInfo"}}
      [] handler = "poller" ->
             {<<".", w>> : w \in {"Enable", "PollingInterval"}}

Dotted(words) == [i \in DOMAIN words |-> <<".", words[i]>>]
Bare(words) == [i \in DOMAIN words |-> <<words[i]>>]

\* The texts each handler tests for, in its order.
CountersTestedLoosely ==    \* variant with a fault: a text that is too short
    <<<<"Bytes", "Sent">>, <<"Bytes", "Received">>, <<"Sent">>, <<"Received">>>>

CountersTested ==
    <<<<"Bytes", "Sent">>, <<"Bytes", "Received">>, <<"Packets", "Sent">>,
      <<"Packets", "Received">>, <<"Errors", "Sent">>, <<"Errors", "Received">>,
      <<"Discard", "Packets", "Sent">>, <<"Discard", "Packets", "Received">>>>

CastsTested ==
    <<<<"X_RDK_", "Broadcast", "Packets", "Sent">>,
      <<"X_RDK_", "Broadcast", "Packets", "Received">>,
      <<"X_RDK_", "Multicast", "Packets", "Sent">>,
      <<"X_RDK_", "Multicast", "Packets", "Received">>,
      <<"X_RDK_", "Unicast", "Packets", "Sent">>,
      <<"X_RDK_", "Unicast", "Packets", "Received">>>>

BaseTested == Dotted(<<"Enable", "Status", "Alias", "Name", "LastChange",
                       "LowerLayers", "Upstream", "MaxBitRate">>)

OpticalTested == Bare(<<"OpticalSignalLevel", "TransmitOpticalLevel", "SFPReferenceList">>)

StatsTested ==
    Dotted(<<"Reset">>) \o CountersTested
    \o Bare(<<"FECCorrected", "FECUncorrectable">>) \o CastsTested
    \o Bare(<<"BER", "RangingResyncs", "MACResets">>)

TransceiverTested ==
    Bare(<<"Temperature", "SupplyVoltage", "BiasCurrent">>)
    \o <<<<"Lower", "OpticalThreshold">>, <<"Upper", "OpticalThreshold">>,
         <<"Lower", "TransmitPowerThreshold">>, <<"Upper", "TransmitPowerThreshold">>>>

EponTested == Bare(<<"OperationalMode", "EncryptionMode", "ONUStatus",
                     "DPoESupported", "MaxLLIDSupported">>)

ManufacturerTested ==
    Dotted(<<"Manufacturer">>)
    \o Bare(<<"ModelNumber", "HardwareVersion", "SoftwareVersion",
              "SerialNumber", "VendorOUI">>)

OltTested == Bare(<<"MACAddress", "VendorOUI", "VendorSpecificInfo">>)

PollerTested == Dotted(<<"Enable", "PollingInterval">>)

Tested(handler) ==
    CASE handler = "base"         -> BaseTested
      [] handler = "optical"      -> OpticalTested
      [] handler = "stats"        -> StatsTested
      [] handler = "transceiver"  -> TransceiverTested
      [] handler = "epon"         -> EponTested
      [] handler = "manufacturer" -> ManufacturerTested
      [] handler = "olt"          -> OltTested
      [] handler = "poller"       -> PollerTested

\* strstr.
Contains(name, text) ==
    \E i \in 0 .. Len(name) - Len(text) : SubSeq(name, i + 1, i + Len(text)) = text

\* The words that tell one field from another.
FieldOf(text) == SelectSeq(text, LAMBDA w : w \notin {".", "X_RDK_"})
NoField == <<>>

\* The field a GET of the name is answered with.  Where the chain has no last
\* else, a name no test recognises would be answered with success and no value.
FieldRead(handler, name) ==
    LET hits == {i \in DOMAIN Tested(handler) : Contains(name, Tested(handler)[i])}
    IN  IF hits = {} THEN NoField ELSE FieldOf(Tested(handler)[Min(hits)])
=============================================================================
