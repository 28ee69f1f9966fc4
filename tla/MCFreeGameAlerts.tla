-------------------------- MODULE MCFreeGameAlerts --------------------------
(* Small instances of FreeGameAlerts: two guilds; the first has a short    *)
(* and a long digest to be sent and, in some runs, a second channel.       *)
EXTENDS FreeGameAlerts

CONSTANTS ch1, ch1b, ch2, short, long, setup, setup2

MCGuild == {1, 2}
JustOne == {1}
OnlyShort == {short}
TwoOfOne == {ch1, ch1b}
OnlyLong == {long}
OneEach == {ch1, ch2}
MCOwner == [c \in Channel |-> IF c = ch2 THEN 2 ELSE 1]
BothDigests == {short, long}
MCMessages == [d \in Digest |-> IF d = long THEN 2 ELSE 1]
=============================================================================
