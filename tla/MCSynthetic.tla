------------------------------ MODULE MCSynthetic ------------------------------
EXTENDS Synthetic

\* A band narrower than the depth of the steady flow of the code.
MCNarrow ==
  {[profile |-> "Steady", events |-> 9, mid |-> 100, band |-> 2, max_qty |-> 1]}
===============================================================================
