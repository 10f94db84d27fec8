------------------------------- MODULE MCKeyPool -------------------------------
EXTENDS KeyPool

\* two users of keys, such as the miner and a payment
Users == {"miner", "payer"}
===============================================================================
