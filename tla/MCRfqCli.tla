------------------------------ MODULE MCRfqCli ------------------------------
(* Small instances of RfqCli: one quote per replay domain.                  *)
EXTENDS RfqCli, TLC

MCSeedOf == [x \in Deals \X Expiries \X Domains |-> 1]

==============================================================================
