----------------------------- MODULE MCCollector -----------------------------
\* Runs of the script, by the timer and by hand, over two listeners.
EXTENDS Collector
=============================================================================
