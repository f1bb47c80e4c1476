------------------------------ MODULE MCPortal -------------------------------
(* Constants of the page's runs: two accounts in one wallet.                *)
EXTENDS InvestorPage

CONSTANTS alice, bob

MCAccounts == {alice, bob}
=============================================================================
