----------------------------- MODULE MCInstaller -----------------------------
\* The installer for TLC: nothing in it needs a bound.
EXTENDS Installer
=============================================================================
