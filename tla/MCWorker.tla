------------------------------ MODULE MCWorker ------------------------------
(* What may happen around the worker, one script for each kind of trouble. *)
EXTENDS Worker

Script(ops, troubles) ==
    [ops |-> ops, finals |-> 0, frames |-> 0, works |-> 0, faults |-> troubles]
Lifecycle ==
    LET any == {"open", "finish", "drain", "abort"} IN
    Script(<<any, any, any, any>>, {"core"})
Openings ==
    LET any == {"open", "abort", "status"} IN
    Script(<<any, any, any>>, {"refusal", "opening", "eof", "deadline"})
Speakers ==
    [Script(<<{"open"}, {"finish"}, {"drain"}>>, {}) EXCEPT !.finals = 3]
Playback ==
    LET any == {"stop", "report"} IN
    [Script(<<{"open"}, {"synthesize"}, any, any \cup {"abort"}>>, {"speech"}) EXCEPT !.frames = 2]
Farewell ==
    [Script(<<{"open"}, {"synthesize"}, {"finish"}, {"drain"}, {"report"}>>, {"write"})
        EXCEPT !.frames = 1]
Drains ==
    [Script(<<{"open"}, {"finish"}, {"drain"}>>, {}) EXCEPT !.works = 2]
Stopped ==
    [Script(<<{"open"}, {"synthesize"}, {"finish"}, {"drain"}, {"stop"}>>, {"end"})
        EXCEPT !.frames = 1]
Captures ==
    [Script(<<{"capture"}, {"finish", "manage"}, {"drain"}>>,
            {"end", "bad", "broken", "transport", "audio_eof", "deadline"}) EXCEPT !.works = 1]
QuietCaptures ==
    [Script(<<{"capture"}, {"finish", "abort"}, {"drain"}>>, {"end"}) EXCEPT !.works = 1]
Managing ==
    LET any == {"open", "manage", "record", "abort"} IN
    [Script(<<any, any, any>>, {"server"}) EXCEPT !.works = 1]
AllScripts ==
    {Lifecycle, Openings, Speakers, Playback, Farewell, Drains, Stopped, Captures,
     QuietCaptures, Managing}
PlaybackOnly == {Playback}
=============================================================================
