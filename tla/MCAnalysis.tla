----------------------------- MODULE MCAnalysis -----------------------------
EXTENDS Analysis

Noon == <<2026, 6, 19, 12, 0, 0>>

Of(ts, spd, text) ==
    [tooLong |-> FALSE, blank |-> FALSE, ctrl |-> FALSE, ts |-> ts, spd |-> spd, text |-> text]

Header == <<"[", "ts", "]", "[", "int", "]", "[", "int", "]", "[", "int", "]", "BYDA">>
Says(module, message) == Of(Noon, 0, Header \o <<module, ": ">> \o message)
At(ts) == Of(ts, 0, Header \o <<"DetectionTaskRunner", ": ", "jobID", "[", "int", "]">>)
Field(name, value) == <<name, "[", value, "]">>
Beam(hour, spd) ==
    Of(<<2026, 6, 19, hour, 0, 0>>, spd,
       Header \o <<BeamSteer, ": ">> \o Field("unitAddr", "int") \o <<",">> \o Field("spd", "real"))

\* Month ends, new year and leap days, the edges of the window included.
Calendar ==
    {{At(<<2000, 2, 27, 0, 0, 0>>), At(<<2000, 2, 29, 0, 0, 0>>), At(<<2000, 2, 29, 0, 0, 1>>),
      At(<<2000, 3, 1, 23, 59, 59>>), At(<<2000, 3, 2, 0, 0, 0>>)},
     {At(<<2100, 2, 27, 12, 0, 0>>), At(<<2100, 2, 29, 0, 0, 0>>), At(<<2100, 3, 1, 12, 0, 0>>),
      At(<<2100, 3, 1, 12, 0, 1>>), At(<<2100, 3, 2, 12, 0, 0>>)},
     {At(<<2023, 12, 30, 23, 0, 0>>), At(<<2023, 12, 31, 0, 30, 0>>), At(<<2024, 1, 1, 23, 0, 0>>),
      At(<<2024, 1, 1, 24, 0, 0>>), At(<<2024, 1, 2, 0, 30, 1>>)},
     {At(<<2026, 9, 30, 1, 0, 0>>), At(<<2026, 9, 31, 0, 0, 0>>), At(<<2026, 10, 1, 1, 0, 0>>),
      At(<<2026, 10, 2, 1, 0, 0>>), At(<<2026, 10, 2, 1, 0, 1>>)}}

\* Speeds inside, outside and absent, in more hours than there are entries.
Speeds ==
    {Beam(10, 2), Beam(10, 1), Beam(11, kSpdMax), Beam(12, -1), Beam(13, kSpdMax - 1),
     Of(Noon, 0, Header \o <<BeamSteer, ": ", "idle">>), At(Noon)}

Unknown ==
    {Says("Alpha", <<>>), Says("Beta", <<>>), Says("Gamma", <<>>), Says("LongOne", <<>>),
     Says("LongTwo", <<>>)}

\* What each stage refuses, among lines it does not.
Flags ==
    {At(Noon), [At(Noon) EXCEPT !.tooLong = TRUE, !.ctrl = TRUE], [At(Noon) EXCEPT !.blank = TRUE],
     [At(Noon) EXCEPT !.ctrl = TRUE], Of(Noon, 0, Tail(Header) \o <<"Alpha", ": ">>)}
Frames ==
    {At(Noon), Of(Noon, 0, <<"[", "[">> \o Tail(Header) \o <<"Alpha", ": ">>),
     Of(Noon, 0, Header \o <<"Alpha", ":">>), Of(Noon, 0, Header \o <<": ">>),
     Of(Noon, 0, [Header EXCEPT ![5] = "big"] \o <<"Alpha", ": ">>)}
Brackets ==
    {Says("AntennaProfileSpec", <<"element", "[", "int", "]", "[", "int", "->", "int", "]">>),
     Says("AntennaProfileSpec", <<"sectorID", "[">>),
     Says("AntennaProfileSpec", <<"sectorID", "[", "]">>),
     Says("Alpha", <<"]">>),
     Says("AntennaProfileSpec", <<"x", "sectorID", "[", "word", "]">>)}
Fields ==
    {Says("RadarTrackNodeState", Field("nodeUID", "int") \o <<" ", "lockState", "[", "int", "->", "int", "]">>),
     Says("RadarTrackNodeState", Field("lockState", "int")),
     Says("SectorSchedulerRTS", Field("jobID", "int") \o <<" ">> \o Field("gatedFlag", "big")),
     Says(BeamSteer, Field("spd", "inf")),
     Says(BeamSteer, Field("spd", "big") \o <<" ">> \o Field("advDelta", "int")),
     Says(BeamSteer, Field("spd", "real") \o <<" ">> \o Field("advDelta", "word"))}

MCPools == Calendar \cup {Speeds, Unknown, Flags, Frames, Brackets, Fields}

MCUnknownNames == <<"(cut)", "Alpha", "Beta", "Gamma">>
=============================================================================
