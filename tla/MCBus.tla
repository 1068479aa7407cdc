------------------------------- MODULE MCBus -------------------------------
EXTENDS Bus

CONSTANTS r1, r2

MCRobots == {r1, r2}
MCSubscribers == <<r1, r2>>

=============================================================================
