---------------------------- MODULE MCEventLoop ----------------------------
\* EventLoop for TLC.
EXTENDS EventLoop

\* An ES module with one delay and uncaughtException listeners; a CommonJS
\* program with two delays whose timers may be later.
MCPrograms ==
    {[delays |-> {1}, esm |-> TRUE, listens |-> TRUE, calls |-> 3, late |-> 1],
     [delays |-> {1, 2}, esm |-> FALSE, listens |-> FALSE, calls |-> 3, late |-> 2]}
=============================================================================
