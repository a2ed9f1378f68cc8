------------------------------- MODULE MCApp -------------------------------
(***************************************************************************)
(* Instances of App for TLC: the parameters, and for each run the commands *)
(* that are typed.                                                         *)
(***************************************************************************)
EXTENDS AppProperties

MCDefaults == [gnss |-> 20, imu |-> 10, led |-> TRUE, toff |-> 2]

\* An inactive period that the configuration mode would refuse.
ShortInactive == [MCDefaults EXCEPT !.toff = 1]

OtherConfigs   == {ShortInactive}

Cmd(c)     == [cmd |-> c, val |-> 0]
Line(c, v) == [cmd |-> c, val |-> v]

\* One inactive tick is enough to shut down.
Hasty == [MCDefaults EXCEPT !.toff = 1]
NoConfigs == {}

\* A period the timer interrupt cannot divide by.
ShortPeriods == {[Hasty EXCEPT !.gnss = 5]}

LoggingTokens == {Cmd("gclr"), Cmd("ilive"), Cmd("shutdown")}
ModeTokens    == {Cmd("config"), Cmd("exit"), Cmd("glive")}
ConfigTokens  == {Cmd("config"), Line("INTG", 0), Line("TOFF", 2), Cmd("exit")}
ExitTokens    == {Cmd("config"), Cmd("exit")}
PeriodTokens  == {Cmd("config"), Line("INTG", 5), Cmd("exit")}
MixedTokens   == {Cmd("config"), Cmd("exit"), Cmd("ilog")}
LiveOnly      == {Cmd("glive")}
LogOnly       == {Cmd("ilog")}
ConfigOnly    == {Cmd("config")}
NoTokens      == {}
DisplayTokens == {Cmd("ilog"), Cmd("iclr")}
=============================================================================
