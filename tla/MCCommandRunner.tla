-------------------------- MODULE MCCommandRunner ---------------------------
\* CommandRunner with reads of two bytes, two of them per stream and turn, a
\* pipe that holds more than one turn takes of it with an interruption, and a
\* command that may write one byte more than the limit.
EXTENDS CommandRunner
=============================================================================
