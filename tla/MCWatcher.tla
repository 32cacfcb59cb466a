----------------------------- MODULE MCWatcher -----------------------------
\* Watcher for TLC: the constants are numbers, given in the cfg files.
EXTENDS Watcher
=============================================================================
