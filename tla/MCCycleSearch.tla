----------------------------- MODULE MCCycleSearch -----------------------------
\* An instance of CycleSearch: every graph of four nodes.
EXTENDS CycleSearch
===============================================================================
