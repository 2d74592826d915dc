-------------------------- MODULE MCDeadlockMonitor --------------------------
EXTENDS DeadlockMonitor

CONSTANTS a1, a2, b1, b2

TwoPairs == {<<a1, a2>>, <<b1, b2>>}
=============================================================================
