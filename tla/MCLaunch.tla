------------------------------ MODULE MCLaunch ------------------------------
\* Launch with up to three inherited descriptors anywhere among 3 .. 12, and
\* limits below, at and above what the supervisor needs.
EXTENDS Launch

MCLimits == {3, 6, 9, 10, 12, 13, 20}
=============================================================================
