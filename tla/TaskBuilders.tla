----------------------------- MODULE TaskBuilders -----------------------------
(* What the task builders of v3/runner/tasks.py differ in, one row per builder.     *)
EXTENDS Sequences

(* The builders.  A scan has strategies, a kind, the hours an order is held, the     *)
(* mirrored strategies and the shadow of a strategy.  A settlement has strategies   *)
(* in their order, says whether one that fails stops the rest, and whether the       *)
(* live trades are synchronised after it.                                           *)
PipelineScan(id, hold, mirrored) ==
  [kind |-> "pipeline", ids |-> {id}, hold |-> hold, live |-> IF mirrored THEN {id} ELSE {}, shadow |-> <<>>]
Settles(ids, stops, sync) == [ids |-> ids, stops |-> stops, sync |-> sync]

V3Scan == PipelineScan("hotlist_momentum_v3", 24, TRUE)
V3Settle == Settles(<<"hotlist_momentum_v3">>, TRUE, FALSE)
V3Tasks == [scans |-> {V3Scan}, settle |-> V3Settle, sync |-> TRUE]

V66Scan == PipelineScan("hotlist_v66", 24, TRUE)
V66Settle == Settles(<<"hotlist_v66">>, TRUE, FALSE)
V66Tasks == [scans |-> {V66Scan}, settle |-> V66Settle, sync |-> TRUE]

V662Scan == PipelineScan("hotlist_v662", 24, FALSE)
V662Settle == Settles(<<"hotlist_v662">>, TRUE, FALSE)
V662Tasks == [scans |-> {V662Scan}, settle |-> V662Settle, sync |-> FALSE]

V663Scan == PipelineScan("hotlist_v663", 24, TRUE)
V663Settle == Settles(<<"hotlist_v663">>, TRUE, FALSE)
V663Tasks == [scans |-> {V663Scan}, settle |-> V663Settle, sync |-> TRUE]

V664Scan == PipelineScan("hotlist_v664", 24, FALSE)
V664Settle == Settles(<<"hotlist_v664">>, TRUE, FALSE)
V664Tasks == [scans |-> {V664Scan}, settle |-> V664Settle, sync |-> FALSE]

ReversalScan == PipelineScan("hotlist_reversal", 4, FALSE)
ReversalSettle == Settles(<<"hotlist_reversal">>, TRUE, FALSE)
ReversalTasks == [scans |-> {ReversalScan}, settle |-> ReversalSettle, sync |-> FALSE]

WaveLongScan == PipelineScan("wave_long", 48, TRUE)
WaveLongSettle == Settles(<<"wave_long">>, TRUE, TRUE)
WaveLongTasks == [scans |-> {WaveLongScan}, settle |-> WaveLongSettle, sync |-> FALSE]

WaveShortScan == PipelineScan("wave_short", 48, FALSE)
WaveShortSettle == Settles(<<"wave_short">>, TRUE, FALSE)
WaveShortTasks == [scans |-> {WaveShortScan}, settle |-> WaveShortSettle, sync |-> FALSE]

RsdLongScan == PipelineScan("rsd_long", 48, FALSE)
RsdShortScan == PipelineScan("rsd_short", 48, FALSE)
RsdSettle == Settles(<<"rsd_long", "rsd_short">>, TRUE, FALSE)
RsdTasks == [scans |-> {RsdLongScan, RsdShortScan}, settle |-> RsdSettle, sync |-> FALSE]

ClassicIds == <<"classic_c1", "classic_c2", "classic_c3", "classic_c4_top", "classic_c4_bot">>
ElementsOf(s) == {s[i] : i \in DOMAIN s}
ClassicScan == [kind |-> "classic", ids |-> ElementsOf(ClassicIds), hold |-> 48, live |-> ElementsOf(ClassicIds), shadow |-> <<>>]
ClassicSettle == Settles(ClassicIds, FALSE, TRUE)
ClassicTasks == [scans |-> {ClassicScan}, settle |-> ClassicSettle, sync |-> FALSE]

KIds == <<"classic_k1", "classic_k2", "classic_k3", "classic_k4", "classic_k3v2", "classic_k4v2">>
ShadowIds == <<"classic_k1_shadow_v2", "classic_k2_shadow_v2">>
ShadowOf == [id \in {"classic_k1", "classic_k2"} |-> IF id = "classic_k1" THEN "classic_k1_shadow_v2" ELSE "classic_k2_shadow_v2"]
KScan == [kind |-> "classic", ids |-> ElementsOf(KIds), hold |-> 48, live |-> {}, shadow |-> ShadowOf]
KSettle == Settles(KIds \o ShadowIds, FALSE, FALSE)
KTasks == [scans |-> {KScan}, settle |-> KSettle, sync |-> FALSE]

Sma120Scan == [kind |-> "sma120", ids |-> {"xau_sma120"}, hold |-> 24, live |-> {}, shadow |-> <<>>]
Sma120Settle == Settles(<<"xau_sma120">>, TRUE, FALSE)
Sma120Tasks == [scans |-> {Sma120Scan}, settle |-> Sma120Settle, sync |-> FALSE]
=============================================================================
